--------------------------- MODULE PersistentStorage ---------------------------
(***************************************************************************)
(* The last flash sector (include/persistent_storage.h, include/mutex.h).  *)
(* Flash can only be erased as a whole, so every write of one member copies *)
(* the member and the rest of the sector to _write_buffer, erases the      *)
(* sector and programs the buffer, all under one mutex.  Power may fail or *)
(* the watchdog may bite between any two steps.                            *)
(*                                                                         *)
(* A member is written as a whole, by write; write_array_range differs in  *)
(* the bytes it copies only.                                               *)
(***************************************************************************)
EXTENDS Integers, FiniteSets

CONSTANTS
  Writers, \* the tasks that write
  Members, \* the members of persistent_storage_layout
  Data,    \* what a member can hold
  Erased,  \* a member of an erased sector: all ones
  Nobody   \* not a writer

ASSUME StorageAssumption ==
  /\ Erased \notin Data
  /\ Nobody \notin Writers

VARIABLES
  flash,      \* the sector, member by member
  wbuf,       \* _write_buffer; Erased stands for bytes that are not used
  lock,       \* the holder of _memory_mutex
  op,         \* for each writer the member it writes and how far it is
  \* history
  stored,     \* for each member what was programmed last
  interrupted \* for each member whether the last attempt to program it broke off

storage == <<flash, wbuf, lock, op, stored, interrupted>>

Steps == {"none", "lock", "copy", "fill", "erase", "program", "unlock"}

Go(w, step) == op' = [op EXCEPT ![w].at = step]

At(w, step) == op[w].at = step

-------------------------------------------------------------------------------
(* write and _write_impl.                                                   *)

WriteBegin(w, m) ==
  /\ At(w, "none")
  /\ op' = [op EXCEPT ![w] = [member |-> m, at |-> "lock"]]
  /\ UNCHANGED <<flash, wbuf, lock, stored, interrupted>>

(* Fault: nobody waits for the mutex. *)
Free_Always == TRUE

Free == lock = Nobody

Lock(w) ==
  /\ At(w, "lock")
  /\ Free
  /\ lock' = w
  /\ Go(w, "copy")
  /\ UNCHANGED <<flash, wbuf, stored, interrupted>>

CopyData(w, value) ==
  /\ At(w, "copy")
  /\ wbuf' = [wbuf EXCEPT ![op[w].member] = value]
  /\ Go(w, "fill")
  /\ UNCHANGED <<flash, lock, stored, interrupted>>

(* Fault: the rest of the sector is not read back. *)
Rest_None(m) == Erased

(* What is before and after the member in the sector. *)
Rest(m) == flash[m]

FillRest(w) ==
  /\ At(w, "fill")
  /\ wbuf' = [m \in Members |-> IF m = op[w].member THEN wbuf[m] ELSE Rest(m)]
  /\ Go(w, "erase")
  /\ UNCHANGED <<flash, lock, stored, interrupted>>

FlashErase(w) ==
  /\ At(w, "erase")
  /\ flash' = [m \in Members |-> Erased]
  /\ Go(w, "program")
  /\ UNCHANGED <<wbuf, lock, stored, interrupted>>

FlashProgram(w) ==
  /\ At(w, "program")
  /\ flash' = wbuf
  /\ stored' = [stored EXCEPT ![op[w].member] = wbuf[op[w].member]]
  /\ interrupted' = [interrupted EXCEPT ![op[w].member] = FALSE]
  /\ Go(w, "unlock")
  /\ UNCHANGED <<wbuf, lock>>

(* Fault: the mutex is still held after an error. *)
AfterError_KeepLock == "none"

AfterError == "unlock"

(* flash_safe_execute did not get hold of the other core within 500 ms: the *)
(* function is not run and its error returned.                              *)
EraseFails(w) ==
  /\ At(w, "erase")
  /\ Go(w, AfterError)
  /\ UNCHANGED <<flash, wbuf, lock, stored, interrupted>>

ProgramFails(w) ==
  /\ At(w, "program")
  /\ interrupted' = [m \in Members |-> TRUE]
  /\ Go(w, AfterError)
  /\ UNCHANGED <<flash, wbuf, lock, stored>>

(* The destructor of scoped_lock.  What stays in _write_buffer is           *)
(* overwritten before it is used again.                                     *)
Unlock(w) ==
  /\ At(w, "unlock")
  /\ lock' = Nobody
  /\ Go(w, "none")
  /\ wbuf' = [m \in Members |-> Erased]
  /\ UNCHANGED <<flash, stored, interrupted>>

(* The power fails or the watchdog resets the chip.  Halfway through an     *)
(* erase any members are erased, halfway through programming any are not    *)
(* programmed yet.                                                          *)
EraseHalfway(w, hit) ==
  /\ At(w, "erase")
  /\ flash' = [m \in Members |-> IF m \in hit THEN Erased ELSE flash[m]]
  /\ interrupted' = [m \in Members |-> m \in hit \/ interrupted[m]]
  /\ UNCHANGED stored

ProgramHalfway(w, done) ==
  /\ At(w, "program")
  /\ flash' = [m \in Members |-> IF m \in done THEN wbuf[m] ELSE Erased]
  /\ interrupted' = [m \in Members |-> m \notin done \/ interrupted[m]]
  /\ stored' = IF op[w].member \in done
                 THEN [stored EXCEPT ![op[w].member] = wbuf[op[w].member]]
                 ELSE stored

PowerLoss ==
  /\ \/ /\ \A w \in Writers : ~At(w, "program")
        /\ UNCHANGED <<flash, stored, interrupted>>
     \/ \E w \in Writers, ms \in SUBSET Members : EraseHalfway(w, ms) \/ ProgramHalfway(w, ms)
  /\ wbuf' = [m \in Members |-> Erased]
  /\ lock' = Nobody
  /\ op' = [w \in Writers |-> [op[w] EXCEPT !.at = "none"]]

-------------------------------------------------------------------------------
(* The sector is erased before the first write, or holds what was written.  *)
StorageInit ==
  /\ stored \in [Members -> Data \cup {Erased}]
  /\ flash = stored
  /\ interrupted = [m \in Members |-> stored[m] = Erased]
  /\ wbuf = [m \in Members |-> Erased]
  /\ lock = Nobody
  /\ op \in [Writers -> [member : Members, at : {"none"}]]

WriteStep(w) ==
  \/ Lock(w) \/ FillRest(w) \/ FlashErase(w) \/ FlashProgram(w)
  \/ EraseFails(w) \/ ProgramFails(w) \/ Unlock(w)

StorageNext ==
  \/ \E w \in Writers :
       \/ \E m \in Members : WriteBegin(w, m)
       \/ \E value \in Data : CopyData(w, value)
       \/ WriteStep(w)
  \/ PowerLoss

StorageSpec == StorageInit /\ [][StorageNext]_storage

-------------------------------------------------------------------------------
(* Properties.                                                              *)

StorageTypeOK ==
  /\ flash \in [Members -> Data \cup {Erased}]
  /\ wbuf \in [Members -> Data \cup {Erased}]
  /\ stored \in [Members -> Data \cup {Erased}]
  /\ interrupted \in [Members -> BOOLEAN]
  /\ lock \in Writers \cup {Nobody}
  /\ op \in [Writers -> [member : Members, at : Steps]]

(* Writing one member leaves the others as they were written last: no write *)
(* brings back what another writer has replaced meanwhile.  At worst a      *)
(* member is erased.                                                        *)
MembersSurvive ==
  \A m \in Members : flash[m] \in {stored[m], Erased}

(* A member that was written is not erased, but for the time between the    *)
(* erase and the programming of a write, or after a write that broke off    *)
(* there.                                                                   *)
ErasedOnlyIfInterrupted ==
  (\A w \in Writers : ~At(w, "program")) =>
    \A m \in Members : flash[m] = Erased => interrupted[m]
===============================================================================
