----------------------------- MODULE StaticVector -----------------------------
(***************************************************************************)
(* static_vector<T, N> of include/static_types.h: a size and an array of N *)
(* slots.  A vector is modelled by the sequence of its live slots, so slot *)
(* k of the code is element k + 1 here.                                    *)
(***************************************************************************)
EXTENDS Integers, Sequences

(* push(e): refused, with the vector unchanged, once all N slots are live. *)
Push(v, e, N) == IF Len(v) = N THEN v ELSE Append(v, e)

(***************************************************************************)
(* `T &d = v[i]; ... d = *v.pop()`: the reference d was bound while slot i *)
(* was live, so the last slot moves into it and the order of the others    *)
(* stays.                                                                  *)
(***************************************************************************)
SwapRemove(v, i) ==
  [j \in 1 .. Len(v) - 1 |-> IF j = i THEN v[Len(v)] ELSE v[j]]

(***************************************************************************)
(* The slot operator[] selects in a vector of size n: an index that is not *)
(* live selects slot 0, the first one.                                     *)
(***************************************************************************)
SlotOf(n, i) == IF i \in 1 .. n THEN i ELSE 1

(***************************************************************************)
(* `v[i] = *v.pop()`: C++17 evaluates the right operand first, so          *)
(* operator[] already sees the shorter vector.  For the last index it      *)
(* selects slot 0.                                                         *)
(***************************************************************************)
AssignPopped(v, i) == SwapRemove(v, SlotOf(Len(v) - 1, i))
===============================================================================
