--------------------------- MODULE LogStorage_proofs ---------------------------
(* Theorems about LogStorage: the ring keeps its indices and a walk ends,    *)
(* for any number of tasks, any ring and however their steps interleave; and *)
(* an undisturbed walk prints the last messages.                             *)
EXTENDS LogStorage, SequenceTheorems, TLAPS

(* How far the walk still has to go. *)
Ahead(i, j) == IF i <= j THEN j - i ELSE j - i + N

WalkOf(r) ==
  /\ r.at = "end" => r.first
  /\ r.first /\ r.at \in {"end", "visit"} => r.seen = <<>>
  /\ r.at = "visit" /\ ~r.first => Len(r.seen) + Ahead(r.cur, r.stop) <= N
  /\ Len(r.seen) <= N

Inv == TypeOK /\ WalkOf(reader)

-------------------------------------------------------------------------------
LEMMA NextIndex ==
  ASSUME NEW i \in Index
  PROVE  next(i) \in Index /\ next(i) = IF i = N - 1 THEN 0 ELSE i + 1
<1>1. N \in Nat \ {0}
  BY SizesAssumption
<1>2. CASE i = N - 1
  BY <1>1, <1>2 DEF next, Index
<1>3. CASE i # N - 1
  BY <1>1, <1>3 DEF next, Index
<1> QED BY <1>2, <1>3

(* One step brings the walk one nearer, or from its end once round. *)
LEMMA StepAhead ==
  ASSUME NEW i \in Index, NEW j \in Index
  PROVE  /\ i # j => Ahead(next(i), j) = Ahead(i, j) - 1
         /\ Ahead(next(i), j) <= N - 1
         /\ Ahead(next(i), j) \in Nat /\ Ahead(i, j) \in Nat
<1>1. N \in Nat \ {0}
  BY SizesAssumption
<1> QED BY <1>1, NextIndex DEF Ahead, Index

LEMMA InitInv == Init => Inv
<1> SUFFICES ASSUME Init PROVE Inv
  OBVIOUS
<1>1. N \in Nat \ {0} /\ 0 \in Severities /\ MaxPushes \in Nat
  BY SizesAssumption
<1>2. <<>> \in Seq(Entry) /\ <<>> \in Seq(Severities) /\ Len(<<>>) = 0
  BY EmptySeq
<1>3. [severity |-> 0, message |-> 0] \in Entry /\ 0 \in Index
  BY <1>1 DEF Entry, Index
<1>4. TypeOK
  <2>1. storage \in [Index -> Entry]
    BY <1>3 DEF Init
  <2>2. task \in [Tasks -> Pushing]
    BY <1>1, <1>3 DEF Init, NoPush, Pushing
  <2>3. reader \in [at : {"end", "visit", "done"}, cur : Index, stop : Index,
                   first : BOOLEAN, seen : Seq(Entry)]
    BY <1>2, <1>3 DEF Init
  <2>4. said \in Seq(Severities) /\ Len(said) <= MaxPushes
    BY <1>1, <1>2 DEF Init
  <2> QED BY <1>1, <1>3, <2>1, <2>2, <2>3, <2>4 DEF Init, TypeOK
<1>5. WalkOf(reader)
  BY <1>1, <1>2 DEF Init, WalkOf
<1> QED BY <1>4, <1>5 DEF Inv

-------------------------------------------------------------------------------
(* The steps of a push leave the walk alone. *)

LEMMA PushInv ==
  ASSUME Inv, NEW t \in Tasks, NEW severity \in Severities, Push(t, severity)
  PROVE  Inv'
<1>1. MaxPushes \in Nat /\ 0 \in Index /\ Len(said) \in Nat
  BY SizesAssumption DEF Inv, TypeOK, Index
<1>2. Len(said) + 1 \in 0 .. MaxPushes
  BY <1>1 DEF Push
<1>3. /\ said' \in Seq(Severities) /\ Len(said') = Len(said) + 1
  BY AppendProperties DEF Push, Inv, TypeOK
<1> DEFINE begun == [at |-> "test", slot |-> cur_write, start |-> 0,
                     severity |-> severity, message |-> Len(said) + 1]
<1>4. task' \in [Tasks -> Pushing]
  <2>1. task' = [task EXCEPT ![t] = begun]
    BY DEF Push
  <2>2. begun \in Pushing
    BY <1>1, <1>2 DEF Pushing, Inv, TypeOK
  <2>3. task \in [Tasks -> Pushing]
    BY DEF Inv, TypeOK
  <2> QED BY <2>1, <2>2, <2>3
<1>5. TypeOK'
  <2>1. alone' \in BOOLEAN /\ quiet' \in BOOLEAN
    BY DEF Push
  <2>2. /\ storage' \in [Index -> Entry] /\ full' \in BOOLEAN
        /\ cur_start' \in Index /\ cur_write' \in Index /\ cur_severity' \in Severities
    BY DEF Push, Inv, TypeOK, ring
  <2>3. reader' = reader
    BY DEF Push
  <2>4. said' \in Seq(Severities) /\ Len(said') <= MaxPushes
    BY <1>1, <1>2, <1>3
  <2> QED BY <1>4, <2>1, <2>2, <2>3, <2>4 DEF Inv, TypeOK
<1>6. WalkOf(reader)'
  BY DEF Push, Inv, WalkOf, Ahead
<1> QED BY <1>5, <1>6 DEF Inv

LEMMA TestInv == ASSUME Inv, NEW t \in Tasks, Test(t) PROVE Inv'
<1>1. PICK w \in {task[t].slot, cur_write} :
        task' = [task EXCEPT ![t] =
          [@ EXCEPT !.start = cur_start,
                    !.at = IF cur_start = w /\ full THEN "start" ELSE "write"]]
  BY DEF Test
<1> DEFINE there == IF cur_start = w /\ full THEN "start" ELSE "write"
<1>2. task' \in [Tasks -> Pushing]
  <2>1. task' = [task EXCEPT ![t] = [task[t] EXCEPT !.start = cur_start, !.at = there]]
    BY <1>1
  <2>2. task \in [Tasks -> Pushing] /\ task[t] \in Pushing /\ cur_start \in Index
    BY DEF Inv, TypeOK
  <2>3. there \in {"start", "write"}
    OBVIOUS
  <2>4. [task[t] EXCEPT !.start = cur_start, !.at = there] \in Pushing
    <3> HIDE DEF there
    <3> QED BY <2>2, <2>3 DEF Pushing
  <2> QED BY <2>1, <2>2, <2>4
<1> QED BY <1>2 DEF Test, Inv, TypeOK, WalkOf, ring

LEMMA StoreStartInv == ASSUME Inv, NEW t \in Tasks, StoreStart(t) PROVE Inv'
<1>1. task[t].start \in Index
  BY DEF Inv, TypeOK, Pushing
<1>2. cur_start' \in Index
  BY <1>1, NextIndex DEF StoreStart
<1>3. task' \in [Tasks -> Pushing]
  <2>1. task' = [task EXCEPT ![t] = [task[t] EXCEPT !.start = cur_start', !.at = "write"]]
    BY DEF StoreStart
  <2>2. [task[t] EXCEPT !.start = cur_start', !.at = "write"] \in Pushing
    BY <1>2 DEF Inv, TypeOK, Pushing
  <2> QED BY <2>1, <2>2 DEF Inv, TypeOK
<1> QED BY <1>2, <1>3 DEF StoreStart, Inv, TypeOK, WalkOf

LEMMA StoreWriteInv == ASSUME Inv, NEW t \in Tasks, StoreWrite(t) PROVE Inv'
<1>1. PICK w \in {task[t].slot, cur_write} : cur_write' = next(w)
  BY DEF StoreWrite
<1>2. w \in Index
  BY DEF Inv, TypeOK, Pushing
<1>3. cur_write' \in Index
  BY <1>1, <1>2, NextIndex
<1>4. task' \in [Tasks -> Pushing]
  BY DEF StoreWrite, Goto, Pushing, Inv, TypeOK
<1> QED BY <1>3, <1>4 DEF StoreWrite, Inv, TypeOK, WalkOf

LEMMA StoreFullInv == ASSUME Inv, NEW t \in Tasks, StoreFull(t) PROVE Inv'
<1>1. full' \in BOOLEAN
  BY DEF StoreFull
<1>2. 0 \in Index
  BY SizesAssumption DEF Index
<1>3. task' \in [Tasks -> Pushing]
  <2>1. task' = [task EXCEPT ![t] = [task[t] EXCEPT !.start = 0, !.at = "severity"]]
    BY DEF StoreFull
  <2>2. [task[t] EXCEPT !.start = 0, !.at = "severity"] \in Pushing
    BY <1>2 DEF Inv, TypeOK, Pushing
  <2> QED BY <2>1, <2>2 DEF Inv, TypeOK
<1> QED BY <1>1, <1>3 DEF StoreFull, Inv, TypeOK, WalkOf

LEMMA SetSeverityInv == ASSUME Inv, NEW t \in Tasks, SetSeverity(t) PROVE Inv'
<1>1. task[t].slot \in Index /\ task[t].severity \in Severities
  BY DEF Inv, TypeOK, Pushing
<1>2. storage' \in [Index -> Entry]
  BY <1>1 DEF SetSeverity, Inv, TypeOK, Entry
<1>3. task' \in [Tasks -> Pushing]
  BY DEF SetSeverity, Goto, Pushing, Inv, TypeOK
<1> QED BY <1>2, <1>3 DEF SetSeverity, Inv, TypeOK, WalkOf

LEMMA SetMessageInv == ASSUME Inv, NEW t \in Tasks, SetMessage(t) PROVE Inv'
<1>1. task[t].slot \in Index /\ task[t].message \in 0 .. MaxPushes
  BY DEF Inv, TypeOK, Pushing
<1>2. storage' \in [Index -> Entry]
  BY <1>1 DEF SetMessage, Inv, TypeOK, Entry
<1>3. 0 \in Index /\ 0 \in Severities /\ 0 \in 0 .. MaxPushes
  BY SizesAssumption DEF Index
<1>4. task' \in [Tasks -> Pushing]
  BY <1>3 DEF SetMessage, NoPush, Pushing, Inv, TypeOK
<1> QED BY <1>2, <1>4 DEF SetMessage, Inv, TypeOK, WalkOf

LEMMA SetLevelInv == ASSUME Inv, SetLevel PROVE Inv'
BY DEF SetLevel, Inv, TypeOK, WalkOf, ring

-------------------------------------------------------------------------------
(* The steps of the walk. *)

LEMMA BeginInv == ASSUME Inv, Begin PROVE Inv'
<1>1. <<>> \in Seq(Entry) /\ Len(<<>>) = 0
  BY EmptySeq
<1>2. 0 \in Index /\ N \in Nat
  BY SizesAssumption DEF Index
<1>3. reader' = [at |-> "end", cur |-> cur_start, stop |-> 0, first |-> TRUE, seen |-> <<>>]
  BY DEF Begin
<1>4. TypeOK'
  BY <1>1, <1>2, <1>3 DEF Begin, Inv, TypeOK, ring
<1>5. WalkOf(reader')
  BY <1>1, <1>2, <1>3 DEF WalkOf
<1> QED BY <1>4, <1>5 DEF Inv, WalkOf, Ahead

LEMMA EndInv == ASSUME Inv, End PROVE Inv'
<1>1. reader' = [reader EXCEPT !.stop = cur_write, !.at = "visit"]
  BY DEF End
<1>2. TypeOK'
  BY <1>1 DEF End, Inv, TypeOK, ring
<1>3. /\ reader'.first = reader.first /\ reader'.seen = reader.seen
      /\ reader'.at = "visit" /\ reader.first
  BY <1>1 DEF End, Inv, TypeOK, WalkOf
<1>4. WalkOf(reader')
  BY <1>3 DEF End, Inv, WalkOf
<1> QED BY <1>2, <1>4 DEF Inv, WalkOf, Ahead

LEMMA VisitInv == ASSUME Inv, Visit PROVE Inv'
<1> DEFINE e == storage[reader.cur]
<1>1. /\ reader.cur \in Index /\ reader.stop \in Index /\ reader.first \in BOOLEAN
      /\ reader.seen \in Seq(Entry) /\ e \in Entry /\ Len(reader.seen) \in Nat
      /\ N \in Nat \ {0}
  BY SizesAssumption DEF Inv, TypeOK
<1>2. reader' = [reader EXCEPT !.seen = Append(reader.seen, e),
                               !.cur = next(reader.cur), !.first = FALSE]
  BY DEF Visit
<1>3. /\ Append(reader.seen, e) \in Seq(Entry)
      /\ Len(Append(reader.seen, e)) = Len(reader.seen) + 1
  BY <1>1, AppendProperties
<1>4. next(reader.cur) \in Index
  BY <1>1, NextIndex
<1>5. TypeOK'
  BY <1>1, <1>2, <1>3, <1>4 DEF Visit, Inv, TypeOK, ring
<1>6. /\ reader'.at = "visit" /\ reader'.first = FALSE
      /\ reader'.cur = next(reader.cur) /\ reader'.stop = reader.stop
      /\ Len(reader'.seen) = Len(reader.seen) + 1
  BY <1>2, <1>3 DEF Visit, Inv, TypeOK
<1>7. Len(reader.seen) + 1 + Ahead(next(reader.cur), reader.stop) <= N
  <2>1. CASE reader.first
    <3>1. Len(reader.seen) = 0
      BY <2>1, EmptySeq DEF Visit, Inv, WalkOf
    <3> QED BY <1>1, <3>1, StepAhead
  <2>2. CASE ~reader.first
    <3>1. reader.cur # reader.stop
      BY <2>2 DEF Visit, AtEnd
    <3>2. Len(reader.seen) + Ahead(reader.cur, reader.stop) <= N
      BY <2>2 DEF Visit, Inv, WalkOf
    <3>3. /\ Ahead(next(reader.cur), reader.stop) = Ahead(reader.cur, reader.stop) - 1
          /\ Ahead(reader.cur, reader.stop) \in Nat
      BY <1>1, <3>1, StepAhead
    <3> QED BY <1>1, <3>2, <3>3
  <2> QED BY <1>1, <2>1, <2>2
<1>8. Ahead(next(reader.cur), reader.stop) \in Nat
  BY <1>1, StepAhead
<1>9. WalkOf(reader')
  BY <1>1, <1>6, <1>7, <1>8 DEF WalkOf
<1> QED BY <1>5, <1>9 DEF Inv, WalkOf, Ahead

LEMMA FinishInv == ASSUME Inv, Finish PROVE Inv'
<1>1. reader' = [reader EXCEPT !.at = "done", !.cur = 0, !.stop = 0, !.first = TRUE]
  BY DEF Finish
<1>2. 0 \in Index
  BY SizesAssumption DEF Index
<1>3. TypeOK'
  BY <1>1, <1>2 DEF Finish, Inv, TypeOK, ring
<1>4. reader'.at = "done" /\ reader'.seen = reader.seen
  BY <1>1 DEF Inv, TypeOK
<1>5. WalkOf(reader')
  BY <1>4 DEF Inv, WalkOf
<1> QED BY <1>3, <1>5 DEF Inv, WalkOf, Ahead

-------------------------------------------------------------------------------
THEOREM LogInvariant == Spec => []Inv
<1>1. ASSUME Inv, Next PROVE Inv'
  <2>1. CASE \E t \in Tasks :
       \/ \E severity \in Severities : Push(t, severity)
       \/ Test(t) \/ StoreStart(t) \/ StoreWrite(t) \/ StoreFull(t)
       \/ SetSeverity(t) \/ SetMessage(t)
    BY <1>1, <2>1, PushInv, TestInv, StoreStartInv, StoreWriteInv, StoreFullInv,
       SetSeverityInv, SetMessageInv
  <2>2. CASE SetLevel
    BY <1>1, <2>2, SetLevelInv
  <2>3. CASE Begin \/ End \/ Visit \/ Finish
    BY <1>1, <2>3, BeginInv, EndInv, VisitInv, FinishInv
  <2> QED BY <1>1, <2>1, <2>2, <2>3 DEF Next
<1>2. ASSUME Inv, UNCHANGED vars PROVE Inv'
  BY <1>2 DEF Inv, TypeOK, WalkOf, vars, ring
<1> QED BY InitInv, <1>1, <1>2, PTL DEF Spec

(* All indices stay in the ring, whatever pushes overlap.                    *)
THEOREM LogTypeCorrect == Spec => []TypeOK
<1>1. Inv => TypeOK
  BY DEF Inv
<1> QED BY <1>1, LogInvariant, PTL

(* A walk ends, and prints no more entries than there are.                   *)
THEOREM WalkAlwaysEnds == Spec => []WalkEnds
<1>1. Inv => WalkEnds
  BY DEF Inv, WalkOf, WalkEnds
<1> QED BY <1>1, LogInvariant, PTL

-------------------------------------------------------------------------------
(* What a walk prints.  While pushes come one after the other, the ring is a *)
(* queue of the last messages that begins at cur_start.                      *)

Off(s, k) == IF s + k < N THEN s + k ELSE s + k - N
Count(m) == IF m < N THEN m ELSE N
Message(i) == [severity |-> said[i], message |-> i]

(* The c messages after the oldth. *)
Kept(old, c) == \A k \in 1 .. c : storage[Off(cur_start, k - 1)] = Message(old + k)

(* The ring after m messages. *)
Whole(m) ==
  /\ full <=> m >= N
  /\ cur_write = Off(cur_start, Count(m))
  /\ Kept(m - Count(m), Count(m))

(* The ring when there is room for message m and the entry is not yet there. *)
Pending(m, slot) ==
  /\ slot = Off(cur_start, Count(m) - 1)
  /\ Kept(m - Count(m), Count(m) - 1)

Stage(t) ==
  LET r == task[t]
      m == Len(said)
  IN  /\ m > 0 /\ r.message = m /\ r.severity = said[m]
      /\ r.at \in {"test", "start"} => Whole(m - 1) /\ r.slot = cur_write
      /\ r.at = "start" => full /\ r.start = cur_start
      /\ r.at \in {"write", "full", "severity", "message"} => Pending(m, r.slot)
      /\ r.at = "write" => cur_write = r.slot
      /\ r.at \in {"write", "full"} => r.start = cur_start
      /\ r.at \in {"full", "severity", "message"} => cur_write = next(r.slot)
      /\ r.at \in {"severity", "message"} => (full <=> cur_start = cur_write)
      /\ r.at = "message" => storage[r.slot].severity = said[m]

Calm == \A t \in Tasks : At(t, "idle")

RingInv ==
  alone => /\ Calm => Whole(Len(said))
           /\ \A t \in Tasks : ~At(t, "idle") =>
                Stage(t) /\ \A u \in Tasks \ {t} : At(u, "idle")

SeenSoFar ==
  /\ Len(reader.seen) <= Count(Len(said))
  /\ \A k \in 1 .. Len(reader.seen) :
       reader.seen[k] = Message(Len(said) - Count(Len(said)) + k)

WalkInv ==
  alone /\ quiet =>
    /\ SeenSoFar \/ reader.at = "end"
    /\ reader.at = "end" => reader.cur = cur_start /\ reader.first /\ reader.seen = <<>>
    /\ reader.at = "visit" =>
         /\ reader.stop = cur_write
         /\ reader.cur = Off(cur_start, Len(reader.seen))
         /\ reader.first <=> Len(reader.seen) = 0
    /\ reader.at = "done" => Len(reader.seen) = Count(Len(said))

LInv == Inv /\ RingInv /\ (quiet => Calm) /\ WalkInv

LEMMA CalmIsNobody == Calm <=> Busy = {}
BY DEF Calm, Busy, At

LEMMA OffFacts ==
  ASSUME NEW s \in Index
  PROVE  /\ Off(s, 0) = s /\ Off(s, N) = s
         /\ \A k \in 0 .. N : Off(s, k) \in Index /\ (Off(s, k) = s => k \in {0, N})
         /\ \A k \in 0 .. N - 1 : next(Off(s, k)) = Off(s, k + 1)
         /\ \A k \in 0 .. N - 1 : Off(next(s), k) = Off(s, k + 1)
         /\ \A j, k \in 0 .. N - 1 : Off(s, j) = Off(s, k) => j = k
<1>1. N \in Nat \ {0} /\ s \in 0 .. N - 1
  BY SizesAssumption DEF Index
<1>2. \A k \in 0 .. N : Off(s, k) \in Index /\ (Off(s, k) = s => k \in {0, N})
  BY <1>1 DEF Off, Index
<1>3. \A k \in 0 .. N - 1 : next(Off(s, k)) = Off(s, k + 1)
  <2> SUFFICES ASSUME NEW k \in 0 .. N - 1 PROVE next(Off(s, k)) = Off(s, k + 1)
    OBVIOUS
  <2>1. next(Off(s, k)) = IF Off(s, k) = N - 1 THEN 0 ELSE Off(s, k) + 1
    <3>1. Off(s, k) \in Index
      BY <1>1, <1>2
    <3> QED BY <3>1, NextIndex
  <2> QED BY <1>1, <2>1 DEF Off
<1>4. \A k \in 0 .. N - 1 : Off(next(s), k) = Off(s, k + 1)
  BY <1>1, NextIndex DEF Off
<1>5. \A j, k \in 0 .. N - 1 : Off(s, j) = Off(s, k) => j = k
  BY <1>1 DEF Off
<1> QED BY <1>1, <1>2, <1>3, <1>4, <1>5 DEF Off

LEMMA CountFacts ==
  ASSUME NEW m \in Nat
  PROVE  /\ Count(m) \in 0 .. N /\ Count(m) <= m /\ N \in Nat \ {0}
         /\ m > 0 => Count(m) > 0
         /\ m < N => Count(m) = m
         /\ m >= N => Count(m) = N
BY SizesAssumption DEF Count

-------------------------------------------------------------------------------
(* A push that is alone. *)

LEMMA PushRing ==
  ASSUME LInv, NEW t \in Tasks, NEW severity \in Severities, Push(t, severity)
  PROVE  RingInv' /\ (quiet => Calm)' /\ WalkInv'
<1>1. /\ UNCHANGED ring /\ quiet' = FALSE /\ alone' = (alone /\ Busy = {})
      /\ said' = Append(said, severity)
      /\ task' = [task EXCEPT ![t] =
           [at |-> "test", slot |-> cur_write, start |-> 0,
            severity |-> severity, message |-> Len(said) + 1]]
  BY DEF Push
<1>2. /\ said \in Seq(Severities) /\ Len(said) \in Nat /\ task \in [Tasks -> Pushing]
  BY DEF LInv, Inv, TypeOK
<1>3. /\ Len(said') = Len(said) + 1 /\ said'[Len(said) + 1] = severity
      /\ \A i \in 1 .. Len(said) : said'[i] = said[i]
  BY <1>1, <1>2
<1>4. ASSUME alone' PROVE RingInv'
  <2>1. Calm /\ Whole(Len(said))
    BY <1>1, <1>4, CalmIsNobody DEF LInv, RingInv
  <2>3. \A u \in Tasks \ {t} : At(u, "idle")'
    BY <1>1, <1>2, <2>1 DEF Calm, At
  <2>4. task'[t] = [at |-> "test", slot |-> cur_write, start |-> 0,
                    severity |-> severity, message |-> Len(said) + 1]
    BY <1>1, <1>2
  <2>5. PICK m : m = Len(said)
    OBVIOUS
  <2>6. Whole(m)'
    <3>1. Count(m) \in 0 .. N /\ Count(m) <= m /\ N \in Nat
      BY <1>2, <2>5, CountFacts
    <3>2. ASSUME NEW k \in 1 .. Count(m)
          PROVE  storage'[Off(cur_start', k - 1)] = Message(m - Count(m) + k)'
      <4>1. storage[Off(cur_start, k - 1)] = Message(m - Count(m) + k)
        BY <2>1, <2>5 DEF Whole, Kept
      <4>2. m - Count(m) + k \in 1 .. Len(said)
        BY <1>2, <2>5, <3>1
      <4> QED BY <1>1, <1>3, <4>1, <4>2 DEF Message, ring
    <3> QED BY <1>1, <2>1, <2>5, <3>2 DEF Whole, Kept, ring, Count
  <2>7. Stage(t)'
    BY <1>1, <1>2, <1>3, <2>4, <2>5, <2>6 DEF Stage, ring
  <2>8. ~Calm' /\ \A u \in Tasks : ~At(u, "idle")' => u = t
    BY <2>3, <2>4 DEF Calm, At
  <2> QED BY <2>3, <2>7, <2>8 DEF RingInv
<1> QED BY <1>1, <1>4 DEF RingInv, WalkInv

(* What a step of a push in progress has to show. *)
LEMMA StepRing ==
  ASSUME LInv, NEW t \in Tasks, ~At(t, "idle"),
         UNCHANGED <<said, alone, quiet>>,
         \A u \in Tasks \ {t} : task'[u] = task[u],
         alone => \/ ~At(t, "idle")' /\ Stage(t)'
                  \/ At(t, "idle")' /\ Whole(Len(said))'
  PROVE  RingInv' /\ (quiet => Calm)' /\ WalkInv'
<1>1. ~quiet
  BY DEF LInv, Calm
<1>2. RingInv'
  <2> SUFFICES ASSUME alone PROVE /\ Calm' => Whole(Len(said))'
                                  /\ \A v \in Tasks : ~At(v, "idle")' =>
                                       Stage(v)' /\ \A u \in Tasks \ {v} : At(u, "idle")'
    BY DEF RingInv
  <2>1. \A u \in Tasks \ {t} : At(u, "idle")'
    BY DEF LInv, RingInv, At
  <2> QED BY <2>1 DEF Calm
<1> QED BY <1>1, <1>2 DEF WalkInv

LEMMA TestRing ==
  ASSUME LInv, NEW t \in Tasks, Test(t) PROVE RingInv' /\ (quiet => Calm)' /\ WalkInv'
<1>1. PICK w \in {task[t].slot, cur_write} :
        task' = [task EXCEPT ![t] =
          [@ EXCEPT !.start = cur_start,
                    !.at = IF cur_start = w /\ full THEN "start" ELSE "write"]]
  BY DEF Test
<1>2. UNCHANGED <<storage, cur_start, cur_write, full, said, alone, quiet>> /\ task[t].at = "test"
  BY DEF Test, ring, At
<1>3. task \in [Tasks -> Pushing] /\ task[t] \in Pushing /\ cur_start \in Index /\ Len(said) \in Nat
  BY DEF LInv, Inv, TypeOK
<1>4. /\ task'[t].start = cur_start /\ task'[t].slot = task[t].slot
      /\ task'[t].severity = task[t].severity /\ task'[t].message = task[t].message
      /\ task'[t].at = IF cur_start = w /\ full THEN "start" ELSE "write"
  BY <1>1, <1>3 DEF Pushing
<1>5. \A u \in Tasks \ {t} : task'[u] = task[u]
  BY <1>1, <1>3
<1>6. ASSUME alone PROVE Stage(t)'
  <2> DEFINE m == Len(said)
  <2>1. /\ m > 0 /\ task[t].message = m /\ task[t].severity = said[m]
        /\ Whole(m - 1) /\ task[t].slot = cur_write
    BY <1>2, <1>6 DEF LInv, RingInv, Stage, At
  <2>2. w = cur_write
    BY <2>1
  <2>3. CASE full
    <3>1. cur_start = cur_write
      BY <1>3, <2>1, <2>3, CountFacts, OffFacts DEF Whole
    <3>2. task'[t].at = "start"
      BY <1>4, <2>2, <2>3, <3>1
    <3>3. Whole(m - 1)'
      BY <1>2, <2>1 DEF Whole, Kept, Message
    <3> QED BY <1>2, <1>4, <2>1, <2>3, <3>2, <3>3 DEF Stage
  <2>4. CASE ~full
    <3>1. task'[t].at = "write"
      BY <1>4, <2>4
    <3>2. /\ m - 1 < N /\ Count(m - 1) = m - 1 /\ Count(m) = m /\ N \in Nat \ {0}
      BY <1>3, <2>1, <2>4, SizesAssumption DEF Whole, Count
    <3>3. Pending(m, cur_write)
      BY <1>3, <2>1, <3>2 DEF Whole, Pending, Kept
    <3>4. Pending(m, task[t].slot)'
      <4>1. task'[t].slot = cur_write
        BY <1>4, <2>1
      <4> QED BY <1>2, <3>3, <4>1 DEF Pending, Kept, Message
    <3> QED BY <1>2, <1>4, <2>1, <3>1, <3>4 DEF Stage
  <2> QED BY <2>3, <2>4
<1>7. ~At(t, "idle") /\ ~At(t, "idle")'
  BY <1>2, <1>4 DEF At
<1> QED BY <1>2, <1>5, <1>6, <1>7, StepRing

LEMMA StoreStartRing ==
  ASSUME LInv, NEW t \in Tasks, StoreStart(t) PROVE RingInv' /\ (quiet => Calm)' /\ WalkInv'
<1>1. /\ UNCHANGED <<storage, cur_write, full, said, alone, quiet>> /\ task[t].at = "start"
      /\ cur_start' = next(task[t].start)
  BY DEF StoreStart, At
<1>2. task \in [Tasks -> Pushing] /\ task[t] \in Pushing /\ cur_start \in Index /\ Len(said) \in Nat
  BY DEF LInv, Inv, TypeOK
<1>3. /\ task'[t].start = cur_start' /\ task'[t].slot = task[t].slot
      /\ task'[t].severity = task[t].severity /\ task'[t].message = task[t].message
      /\ task'[t].at = "write"
  BY <1>2 DEF StoreStart, Pushing
<1>4. \A u \in Tasks \ {t} : task'[u] = task[u]
  BY <1>2 DEF StoreStart
<1>5. ASSUME alone PROVE Stage(t)'
  <2> DEFINE m == Len(said)
  <2>1. /\ m > 0 /\ task[t].message = m /\ task[t].severity = said[m]
        /\ Whole(m - 1) /\ task[t].slot = cur_write /\ full /\ task[t].start = cur_start
    BY <1>1, <1>5 DEF LInv, RingInv, Stage, At
  <2>2. /\ m - 1 >= N /\ Count(m - 1) = N /\ Count(m) = N /\ N \in Nat \ {0}
    BY <1>2, <2>1, SizesAssumption DEF Whole, Count
  <2>3. cur_write = cur_start /\ cur_start' = next(cur_start)
    BY <1>1, <1>2, <2>1, <2>2, OffFacts DEF Whole
  <2>4. task'[t].slot = Off(cur_start', Count(m) - 1)
    <3>1. Off(next(cur_start), N - 1) = Off(cur_start, N)
      BY <1>2, <2>2, OffFacts
    <3> QED BY <1>2, <1>3, <2>1, <2>2, <2>3, <3>1, OffFacts
  <2>5. ASSUME NEW k \in 1 .. N - 1
        PROVE  storage'[Off(cur_start', k - 1)] = Message(m - N + k)'
    <3>1. storage[Off(cur_start, k)] = Message(m - 1 - N + (k + 1))
      <4>1. k + 1 \in 1 .. N /\ (k + 1) - 1 = k
        BY <2>2
      <4> QED BY <2>1, <2>2, <4>1 DEF Whole, Kept
    <3>2. Off(cur_start', k - 1) = Off(cur_start, k)
      BY <1>2, <2>2, <2>3, OffFacts
    <3>3. m - 1 - N + (k + 1) = m - N + k
      BY <1>2, <2>2
    <3> QED BY <1>1, <3>1, <3>2, <3>3 DEF Message
  <2>6. Pending(m, task[t].slot)'
    BY <1>1, <2>2, <2>4, <2>5 DEF Pending, Kept, Count
  <2> QED BY <1>1, <1>3, <2>1, <2>6 DEF Stage
<1>6. ~At(t, "idle") /\ ~At(t, "idle")'
  BY <1>1, <1>3 DEF At
<1> QED BY <1>1, <1>4, <1>5, <1>6, StepRing

LEMMA StoreWriteRing ==
  ASSUME LInv, NEW t \in Tasks, StoreWrite(t) PROVE RingInv' /\ (quiet => Calm)' /\ WalkInv'
<1>1. /\ UNCHANGED <<storage, cur_start, full, said, alone, quiet>> /\ task[t].at = "write"
      /\ task' = [task EXCEPT ![t].at = "full"]
  BY DEF StoreWrite, At, Goto
<1>2. PICK w \in {task[t].slot, cur_write} : cur_write' = next(w)
  BY DEF StoreWrite
<1>3. task \in [Tasks -> Pushing] /\ task[t] \in Pushing
  BY DEF LInv, Inv, TypeOK
<1>4. task'[t] = [task[t] EXCEPT !.at = "full"] /\ \A u \in Tasks \ {t} : task'[u] = task[u]
  BY <1>1, <1>3
<1>5. /\ task'[t].start = task[t].start /\ task'[t].slot = task[t].slot
      /\ task'[t].severity = task[t].severity /\ task'[t].message = task[t].message
      /\ task'[t].at = "full"
  BY <1>3, <1>4 DEF Pushing
<1>6. ASSUME alone PROVE Stage(t)'
  <2> DEFINE m == Len(said)
  <2>1. /\ m > 0 /\ task[t].message = m /\ task[t].severity = said[m]
        /\ Pending(m, task[t].slot) /\ cur_write = task[t].slot /\ task[t].start = cur_start
    BY <1>1, <1>6 DEF LInv, RingInv, Stage, At
  <2>2. cur_write' = next(task[t].slot)
    BY <1>2, <2>1
  <2>3. Pending(m, task[t].slot)'
    BY <1>1, <1>5, <2>1 DEF Pending, Kept, Message
  <2> QED BY <1>1, <1>5, <2>1, <2>2, <2>3 DEF Stage
<1>7. ~At(t, "idle") /\ ~At(t, "idle")'
  BY <1>1, <1>5 DEF At
<1> QED BY <1>1, <1>4, <1>6, <1>7, StepRing

LEMMA StoreFullRing ==
  ASSUME LInv, NEW t \in Tasks, StoreFull(t) PROVE RingInv' /\ (quiet => Calm)' /\ WalkInv'
<1>1. /\ UNCHANGED <<storage, cur_start, cur_write, said, alone, quiet>> /\ task[t].at = "full"
      /\ task' = [task EXCEPT ![t] = [task[t] EXCEPT !.start = 0, !.at = "severity"]]
  BY DEF StoreFull, At
<1>2. PICK s \in {task[t].start, cur_start}, w \in {next(task[t].slot), cur_write} :
        full' = (s = w)
  BY DEF StoreFull
<1>3. task \in [Tasks -> Pushing] /\ task[t] \in Pushing
  BY DEF LInv, Inv, TypeOK
<1>4. /\ task'[t] = [task[t] EXCEPT !.start = 0, !.at = "severity"]
      /\ \A u \in Tasks \ {t} : task'[u] = task[u]
  BY <1>1, <1>3
<1>5. /\ task'[t].slot = task[t].slot /\ task'[t].at = "severity"
      /\ task'[t].severity = task[t].severity /\ task'[t].message = task[t].message
  BY <1>3, <1>4 DEF Pushing
<1>6. ASSUME alone PROVE Stage(t)'
  <2> DEFINE m == Len(said)
  <2>1. /\ m > 0 /\ task[t].message = m /\ task[t].severity = said[m]
        /\ Pending(m, task[t].slot) /\ cur_write = next(task[t].slot) /\ task[t].start = cur_start
    BY <1>1, <1>6 DEF LInv, RingInv, Stage, At
  <2>2. full' = (cur_start = cur_write)
    BY <1>2, <2>1
  <2>3. Pending(m, task[t].slot)'
    BY <1>1, <1>5, <2>1 DEF Pending, Kept, Message
  <2> QED BY <1>1, <1>5, <2>1, <2>2, <2>3 DEF Stage
<1>7. ~At(t, "idle") /\ ~At(t, "idle")'
  BY <1>1, <1>5 DEF At
<1> QED BY <1>1, <1>4, <1>6, <1>7, StepRing

(* The slot of the push is none of those that are kept. *)
LEMMA SlotIsFree ==
  ASSUME LInv, NEW m \in Nat \ {0}, NEW slot, Pending(m, slot)
  PROVE  \A k \in 1 .. Count(m) - 1 : Off(cur_start, k - 1) # slot
<1>1. cur_start \in Index
  BY DEF LInv, Inv, TypeOK
<1>2. Count(m) \in 1 .. N /\ N \in Nat \ {0}
  BY CountFacts
<1>3. \A k \in 1 .. Count(m) - 1 :
        k - 1 \in 0 .. N - 1 /\ Count(m) - 1 \in 0 .. N - 1 /\ k - 1 # Count(m) - 1
  BY <1>2
<1> QED BY <1>1, <1>3, OffFacts DEF Pending

LEMMA SetSeverityRing ==
  ASSUME LInv, NEW t \in Tasks, SetSeverity(t) PROVE RingInv' /\ (quiet => Calm)' /\ WalkInv'
<1>1. /\ UNCHANGED <<cur_start, cur_write, full, said, alone, quiet>> /\ task[t].at = "severity"
      /\ task' = [task EXCEPT ![t].at = "message"]
      /\ storage' = [storage EXCEPT ![task[t].slot].severity = task[t].severity]
  BY DEF SetSeverity, At, Goto
<1>2. /\ task \in [Tasks -> Pushing] /\ task[t] \in Pushing /\ storage \in [Index -> Entry]
      /\ Len(said) \in Nat
  BY DEF LInv, Inv, TypeOK
<1>3. task'[t] = [task[t] EXCEPT !.at = "message"] /\ \A u \in Tasks \ {t} : task'[u] = task[u]
  BY <1>1, <1>2
<1>4. /\ task'[t].slot = task[t].slot /\ task'[t].at = "message"
      /\ task'[t].severity = task[t].severity /\ task'[t].message = task[t].message
  BY <1>2, <1>3 DEF Pushing
<1>5. task[t].slot \in Index
  BY <1>2 DEF Pushing
<1>6. /\ storage'[task[t].slot].severity = task[t].severity
      /\ \A i \in Index : i # task[t].slot => storage'[i] = storage[i]
  BY <1>1, <1>2, <1>5 DEF Entry
<1>7. ASSUME alone PROVE Stage(t)'
  <2> DEFINE m == Len(said)
  <2>1. /\ m > 0 /\ task[t].message = m /\ task[t].severity = said[m]
        /\ Pending(m, task[t].slot) /\ cur_write = next(task[t].slot)
        /\ full <=> cur_start = cur_write
    BY <1>1, <1>7 DEF LInv, RingInv, Stage, At
  <2>2. ASSUME NEW k \in 1 .. Count(m) - 1
        PROVE  storage'[Off(cur_start, k - 1)] = storage[Off(cur_start, k - 1)]
    <3>1. Off(cur_start, k - 1) # task[t].slot
      BY <1>2, <2>1, SlotIsFree
    <3>2. Off(cur_start, k - 1) \in Index
      <4>1. k - 1 \in 0 .. N /\ cur_start \in Index
        BY <1>2, CountFacts DEF LInv, Inv, TypeOK
      <4> QED BY <4>1, OffFacts
    <3> QED BY <1>6, <3>1, <3>2
  <2>3. Pending(m, task[t].slot)'
    BY <1>1, <1>4, <2>1, <2>2 DEF Pending, Kept, Message
  <2> QED BY <1>1, <1>4, <1>6, <2>1, <2>3 DEF Stage
<1>8. ~At(t, "idle") /\ ~At(t, "idle")'
  BY <1>1, <1>4 DEF At
<1> QED BY <1>1, <1>3, <1>7, <1>8, StepRing

LEMMA SetMessageRing ==
  ASSUME LInv, NEW t \in Tasks, SetMessage(t) PROVE RingInv' /\ (quiet => Calm)' /\ WalkInv'
<1>1. /\ UNCHANGED <<cur_start, cur_write, full, said, alone, quiet>> /\ task[t].at = "message"
      /\ task' = [task EXCEPT ![t] = NoPush]
      /\ storage' = [storage EXCEPT ![task[t].slot].message = task[t].message]
  BY DEF SetMessage, At
<1>2. /\ task \in [Tasks -> Pushing] /\ task[t] \in Pushing /\ storage \in [Index -> Entry]
      /\ Len(said) \in Nat /\ cur_start \in Index /\ full \in BOOLEAN
  BY DEF LInv, Inv, TypeOK
<1>3. /\ task'[t] = NoPush /\ NoPush.at = "idle"
      /\ \A u \in Tasks \ {t} : task'[u] = task[u]
  BY <1>1, <1>2 DEF NoPush
<1>5. task[t].slot \in Index
  BY <1>2 DEF Pushing
<1>6. /\ storage'[task[t].slot] = [severity |-> storage[task[t].slot].severity,
                                   message |-> task[t].message]
      /\ \A i \in Index : i # task[t].slot => storage'[i] = storage[i]
  BY <1>1, <1>2, <1>5 DEF Entry
<1>7. ASSUME alone PROVE Whole(Len(said))'
  <2> DEFINE m == Len(said)
             c == Count(m)
  <2>1. /\ m > 0 /\ task[t].message = m
        /\ Pending(m, task[t].slot) /\ cur_write = next(task[t].slot)
        /\ full <=> cur_start = cur_write
        /\ storage[task[t].slot].severity = said[m]
    BY <1>1, <1>7 DEF LInv, RingInv, Stage, At
  <2>2. c \in 1 .. N /\ c <= m /\ N \in Nat \ {0} /\ (c = N <=> m >= N)
    BY <1>2, <2>1, SizesAssumption DEF Count
  <2>3. cur_write = Off(cur_start, c)
    <3>1. c - 1 \in 0 .. N - 1 /\ (c - 1) + 1 = c
      BY <2>2
    <3> QED BY <1>2, <2>1, <3>1, OffFacts DEF Pending
  <2>4. full <=> m >= N
    BY <1>2, <2>1, <2>2, <2>3, OffFacts
  <2>5. ASSUME NEW k \in 1 .. c
        PROVE  storage'[Off(cur_start, k - 1)] = Message(m - c + k)
    <3>1. CASE k = c
      <4>1. Off(cur_start, k - 1) = task[t].slot /\ m - c + k = m
        BY <1>2, <2>1, <2>2, <3>1 DEF Pending
      <4> QED BY <1>6, <2>1, <4>1 DEF Message
    <3>2. CASE k # c
      <4>1. k \in 1 .. c - 1
        BY <2>2, <3>2
      <4>2. Off(cur_start, k - 1) # task[t].slot
        BY <1>2, <2>1, <4>1, SlotIsFree
      <4>3. Off(cur_start, k - 1) \in Index
        <5>1. k - 1 \in 0 .. N
          BY <2>2
        <5> QED BY <1>2, <5>1, OffFacts
      <4> QED BY <1>6, <2>1, <4>1, <4>2, <4>3 DEF Pending, Kept
    <3> QED BY <3>1, <3>2
  <2> QED BY <1>1, <2>3, <2>4, <2>5 DEF Whole, Kept, Message, Count
<1>8. ~At(t, "idle") /\ At(t, "idle")'
  BY <1>1, <1>3 DEF At
<1> QED BY <1>1, <1>3, <1>7, <1>8, StepRing

-------------------------------------------------------------------------------
(* A walk while nobody logs. *)

LEMMA Undisturbed ==
  ASSUME LInv, UNCHANGED <<ring, task, said, alone>> PROVE RingInv' /\ Calm' = Calm
<1>1. Calm' = Calm /\ \A u \in Tasks : At(u, "idle")' = At(u, "idle")
  BY DEF Calm, At
<1>2. Whole(Len(said))' <=> Whole(Len(said))
  BY DEF ring, Whole, Kept, Message, Count
<1>3. \A t \in Tasks : Stage(t)' <=> Stage(t)
  BY DEF ring, Stage, Pending, Whole, Kept, Message, Count
<1> QED BY <1>1, <1>2, <1>3 DEF LInv, RingInv

LEMMA SetLevelRing == ASSUME LInv, SetLevel PROVE RingInv' /\ (quiet => Calm)' /\ WalkInv'
<1>1. UNCHANGED <<ring, task, reader, said, alone, quiet>>
  BY DEF SetLevel
<1>2. WalkInv'
  BY <1>1 DEF LInv, WalkInv, SeenSoFar, Message, ring
<1> QED BY <1>1, <1>2, Undisturbed DEF LInv

LEMMA BeginRing == ASSUME LInv, Begin PROVE RingInv' /\ (quiet => Calm)' /\ WalkInv'
<1>1. /\ UNCHANGED <<ring, task, said, alone>> /\ quiet' = (Busy = {})
      /\ reader' = [at |-> "end", cur |-> cur_start, stop |-> 0, first |-> TRUE, seen |-> <<>>]
  BY DEF Begin
<1>2. WalkInv'
  BY <1>1 DEF WalkInv, ring
<1> QED BY <1>1, <1>2, Undisturbed, CalmIsNobody

LEMMA EndRing == ASSUME LInv, End PROVE RingInv' /\ (quiet => Calm)' /\ WalkInv'
<1>1. /\ UNCHANGED <<ring, task, said, alone, quiet>> /\ reader.at = "end"
      /\ reader' = [reader EXCEPT !.stop = cur_write, !.at = "visit"]
  BY DEF End
<1>2. /\ reader'.at = "visit" /\ reader'.stop = cur_write /\ reader'.cur = reader.cur
      /\ reader'.first = reader.first /\ reader'.seen = reader.seen
  BY <1>1 DEF LInv, Inv, TypeOK
<1>3. ASSUME alone, quiet PROVE WalkInv'
  <2>1. reader.cur = cur_start /\ reader.first /\ reader.seen = <<>> /\ Len(reader.seen) = 0
    BY <1>1, <1>3, EmptySeq DEF LInv, WalkInv
  <2>2. Off(cur_start, 0) = cur_start
    BY OffFacts DEF LInv, Inv, TypeOK
  <2>3. Count(Len(said)) \in Nat
    <3>1. Len(said) \in Nat
      BY DEF LInv, Inv, TypeOK
    <3> QED BY <3>1, CountFacts
  <2>4. SeenSoFar'
    <3>1. Len(reader'.seen) = 0
      BY <1>2, <2>1
    <3>2. Count(Len(said))' = Count(Len(said))
      BY <1>1 DEF Count
    <3> QED BY <2>3, <3>1, <3>2 DEF SeenSoFar
  <2> QED BY <1>1, <1>2, <2>1, <2>2, <2>4 DEF WalkInv, ring
<1>4. WalkInv'
  BY <1>1, <1>3 DEF WalkInv
<1> QED BY <1>1, <1>4, Undisturbed DEF LInv

(* The walk is at its end when it has seen all. *)
LEMMA EndOfWalk ==
  ASSUME LInv, alone, quiet, reader.at = "visit"
  PROVE  AtEnd <=> Len(reader.seen) = Count(Len(said))
<1> DEFINE m == Len(said)
           l == Len(reader.seen)
<1>1. /\ Whole(m) /\ reader.stop = cur_write /\ reader.cur = Off(cur_start, l)
      /\ reader.first <=> l = 0
      /\ l <= Count(m)
  BY DEF LInv, RingInv, WalkInv, SeenSoFar
<1>2. cur_start \in Index /\ m \in Nat /\ l \in Nat /\ N \in Nat \ {0}
  BY SizesAssumption DEF LInv, Inv, TypeOK
<1>3. CASE full
  <2>1. Count(m) = N /\ cur_write = cur_start /\ l \in 0 .. N
    BY <1>1, <1>2, <1>3, CountFacts, OffFacts DEF Whole
  <2>2. AtEnd <=> l # 0 /\ Off(cur_start, l) = cur_start
    BY <1>1, <1>3, <2>1 DEF AtEnd
  <2>3. Off(cur_start, l) = cur_start <=> l \in {0, N}
    BY <1>2, <2>1, OffFacts
  <2> QED BY <1>2, <2>1, <2>2, <2>3
<1>4. CASE ~full
  <2>1. /\ Count(m) = m /\ cur_write = Off(cur_start, m)
        /\ l \in 0 .. N - 1 /\ m \in 0 .. N - 1
    BY <1>1, <1>2, <1>4, CountFacts DEF Whole
  <2>2. AtEnd <=> Off(cur_start, l) = Off(cur_start, m)
    BY <1>1, <1>4, <2>1 DEF AtEnd
  <2> QED BY <1>2, <2>1, <2>2, OffFacts
<1> QED BY <1>3, <1>4

LEMMA VisitRing == ASSUME LInv, Visit PROVE RingInv' /\ (quiet => Calm)' /\ WalkInv'
<1> DEFINE e == storage[reader.cur]
           m == Len(said)
           l == Len(reader.seen)
<1>1. /\ UNCHANGED <<ring, task, said, alone, quiet>> /\ reader.at = "visit" /\ ~AtEnd
      /\ reader' = [reader EXCEPT !.seen = Append(@, e), !.cur = next(@), !.first = FALSE]
  BY DEF Visit
<1>2. /\ reader.seen \in Seq(Entry) /\ l \in Nat /\ m \in Nat /\ reader.cur \in Index
      /\ cur_start \in Index /\ e \in Entry
  BY DEF LInv, Inv, TypeOK
<1>3. /\ reader'.at = "visit" /\ reader'.stop = reader.stop /\ reader'.cur = next(reader.cur)
      /\ reader'.first = FALSE /\ reader'.seen = Append(reader.seen, e)
  BY <1>1 DEF LInv, Inv, TypeOK
<1>4. /\ Len(reader'.seen) = l + 1 /\ reader'.seen[l + 1] = e
      /\ \A k \in 1 .. l : reader'.seen[k] = reader.seen[k]
  BY <1>2, <1>3, AppendProperties
<1>5. ASSUME alone, quiet PROVE WalkInv'
  <2>1. /\ Whole(m) /\ reader.stop = cur_write /\ reader.cur = Off(cur_start, l)
        /\ SeenSoFar
    BY <1>1, <1>5 DEF LInv, RingInv, WalkInv
  <2>2. l < Count(m) /\ Count(m) \in 0 .. N /\ Count(m) <= m /\ N \in Nat
    BY <1>1, <1>2, <1>5, <2>1, EndOfWalk, CountFacts DEF SeenSoFar
  <2>3. e = Message(m - Count(m) + (l + 1))
    <3>1. l + 1 \in 1 .. Count(m) /\ (l + 1) - 1 = l
      BY <1>2, <2>2
    <3> QED BY <2>1, <3>1 DEF Whole, Kept
  <2>4. SeenSoFar'
    <3>1. \A k \in 1 .. l + 1 : reader'.seen[k] = Message(m - Count(m) + k)
      BY <1>2, <1>4, <2>1, <2>3 DEF SeenSoFar
    <3>2. Len(reader'.seen) <= Count(m)
      BY <1>2, <1>4, <2>2
    <3>3. Count(m)' = Count(m) /\ Len(said') = m /\ \A i : Message(i)' = Message(i)
      BY <1>1 DEF Count, Message
    <3> QED BY <1>4, <3>1, <3>2, <3>3 DEF SeenSoFar
  <2>5. reader'.cur = Off(cur_start, l + 1)
    <3>1. l \in 0 .. N - 1
      BY <1>2, <2>2
    <3> QED BY <1>2, <1>3, <2>1, <3>1, OffFacts
  <2>6. reader'.first <=> Len(reader'.seen) = 0
    BY <1>2, <1>3, <1>4
  <2> QED BY <1>1, <1>3, <1>4, <2>1, <2>4, <2>5, <2>6 DEF WalkInv, ring
<1>6. WalkInv'
  BY <1>1, <1>5 DEF WalkInv
<1> QED BY <1>1, <1>6, Undisturbed DEF LInv

LEMMA FinishRing == ASSUME LInv, Finish PROVE RingInv' /\ (quiet => Calm)' /\ WalkInv'
<1>1. /\ UNCHANGED <<ring, task, said, alone, quiet>> /\ reader.at = "visit" /\ AtEnd
      /\ reader' = [reader EXCEPT !.at = "done", !.cur = 0, !.stop = 0, !.first = TRUE]
  BY DEF Finish
<1>2. reader'.at = "done" /\ reader'.seen = reader.seen
  BY <1>1 DEF LInv, Inv, TypeOK
<1>3. ASSUME alone, quiet PROVE WalkInv'
  <2>1. SeenSoFar /\ Len(reader.seen) = Count(Len(said))
    BY <1>1, <1>3, EndOfWalk DEF LInv, WalkInv
  <2> QED BY <1>1, <1>2, <2>1 DEF WalkInv, SeenSoFar, Message, Count
<1>4. WalkInv'
  BY <1>1, <1>3 DEF WalkInv
<1> QED BY <1>1, <1>4, Undisturbed DEF LInv

LEMMA InitRing == Init => LInv
<1> SUFFICES ASSUME Init PROVE LInv
  OBVIOUS
<1>1. /\ cur_start = 0 /\ cur_write = 0 /\ full = FALSE /\ said = <<>> /\ Len(said) = 0
      /\ quiet = FALSE /\ \A t \in Tasks : At(t, "idle")
  BY EmptySeq DEF Init, At, NoPush
<1>2. N \in Nat \ {0}
  BY SizesAssumption
<1>3. Whole(0)
  BY <1>1, <1>2 DEF Whole, Kept, Count, Off
<1>4. RingInv /\ WalkInv
  BY <1>1, <1>3 DEF RingInv, WalkInv
<1> QED BY <1>1, <1>4, InitInv DEF LInv

(* While pushes do not overlap, a walk that nobody disturbs prints the last N *)
(* messages in their order, for any ring and any number of tasks.             *)
THEOREM ReadsLatestCorrect == Spec => []ReadsLatest
<1>1. ASSUME LInv, Next PROVE RingInv' /\ (quiet => Calm)' /\ WalkInv'
  <2>1. CASE \E t \in Tasks :
       \/ \E severity \in Severities : Push(t, severity)
       \/ Test(t) \/ StoreStart(t) \/ StoreWrite(t) \/ StoreFull(t)
       \/ SetSeverity(t) \/ SetMessage(t)
    BY <1>1, <2>1, PushRing, TestRing, StoreStartRing, StoreWriteRing, StoreFullRing,
       SetSeverityRing, SetMessageRing
  <2>2. CASE SetLevel
    BY <1>1, <2>2, SetLevelRing
  <2>3. CASE Begin \/ End \/ Visit \/ Finish
    BY <1>1, <2>3, BeginRing, EndRing, VisitRing, FinishRing
  <2> QED BY <1>1, <2>1, <2>2, <2>3 DEF Next
<1>2. ASSUME LInv, UNCHANGED vars PROVE RingInv' /\ (quiet => Calm)' /\ WalkInv'
  <2>1. UNCHANGED <<ring, task, reader, said, alone, quiet>>
    BY <1>2 DEF vars
  <2>2. WalkInv'
    BY <1>2, <2>1 DEF LInv, WalkInv, SeenSoFar, Message, ring
  <2> QED BY <1>2, <2>1, <2>2, Undisturbed DEF LInv
<1>3. LInv /\ [Next]_vars /\ Inv' => LInv'
  BY <1>1, <1>2 DEF LInv
<1>4. LInv => ReadsLatest
  <2> SUFFICES ASSUME LInv, reader.at = "done", alone, quiet PROVE reader.seen = Latest
    BY DEF ReadsLatest
  <2> DEFINE m == Len(said)
             c == Count(m)
  <2>1. Len(reader.seen) = c /\ \A k \in 1 .. c : reader.seen[k] = Message(m - c + k)
    BY DEF LInv, WalkInv, SeenSoFar
  <2>2. reader.seen \in Seq(Entry)
    BY DEF LInv, Inv, TypeOK
  <2>3. reader.seen \in [1 .. c -> Entry]
    BY <2>1, <2>2, LenProperties
  <2>4. Latest = [k \in 1 .. c |-> Message(m - c + k)]
    BY DEF Latest, Count, Message
  <2> QED BY <2>1, <2>3, <2>4
<1> QED BY <1>3, <1>4, InitRing, LogInvariant, PTL DEF Spec
=================================================================================
