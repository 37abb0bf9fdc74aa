-------------------------- MODULE SettingsStore_proofs --------------------------
(***************************************************************************)
(* Proofs about PersistentStorage: for any number of writers and members,  *)
(* a write of one member leaves the others as they were written last, and  *)
(* only an interrupted write leaves a member erased.                       *)
(*                                                                         *)
(* Proofs about SettingsStore: the settings' writers use the flash sector  *)
(* as PersistentStorage allows, so what is proved there holds here, for    *)
(* any fields and host names.                                              *)
(***************************************************************************)
EXTENDS SettingsStore, TLAPS


Working == {"copy", "fill", "erase", "program", "unlock"}

(* A writer is at work exactly while it holds the mutex.                    *)
Exclusive == \A w \in Writers : op[w].at \in Working <=> lock = w

(* When the sector is about to be erased the buffer holds all the rest of   *)
(* it, and still does when the sector is about to be programmed.            *)
RestIsSaved ==
  \A w \in Writers, m \in Members : m # op[w].member =>
    /\ At(w, "erase") => wbuf[m] = flash[m]
    /\ At(w, "program") => /\ wbuf[m] \in {stored[m], Erased}
                           /\ wbuf[m] = Erased => interrupted[m]

(* A data member about to be programmed is data, and all of the sector is   *)
(* erased then.                                                             *)
ReadyToProgram ==
  \A w \in Writers :
    /\ At(w, "fill") \/ At(w, "erase") \/ At(w, "program") => wbuf[op[w].member] \in Data
    /\ At(w, "program") => flash = [m \in Members |-> Erased]

IInv ==
  /\ StorageTypeOK
  /\ Exclusive
  /\ RestIsSaved
  /\ ReadyToProgram
  /\ MembersSurvive
  /\ ErasedOnlyIfInterrupted

-------------------------------------------------------------------------------
Ops == [Writers -> [member : Members, at : Steps]]

(* What Go does to op: one writer is at another step, nothing else changes. *)
LEMMA GoLemma ==
  ASSUME NEW w \in Writers, NEW step \in Steps, op \in Ops, Go(w, step)
  PROVE  /\ op' \in Ops
         /\ op'[w].at = step
         /\ \A v \in Writers : op'[v].member = op[v].member
         /\ \A v \in Writers \ {w} : op'[v].at = op[v].at
  BY DEF Go, Ops

(* The state a write begins in satisfies the invariant. *)
LEMMA StorageStart == StorageInit => IInv
  BY StorageAssumption
     DEF StorageInit, IInv, StorageTypeOK, Exclusive, RestIsSaved, ReadyToProgram,
         MembersSurvive, ErasedOnlyIfInterrupted, At, Working, Steps

(* Begin: op only. *)
LEMMA BeginStep ==
  ASSUME IInv, NEW w \in Writers, NEW m \in Members, WriteBegin(w, m)
  PROVE  IInv'
<1>1. /\ op' \in Ops
      /\ op'[w].at = "lock"
      /\ \A v \in Writers \ {w} : op'[v] = op[v]
  BY DEF WriteBegin, IInv, StorageTypeOK, Ops, Steps
<1>2. UNCHANGED <<flash, wbuf, lock, stored, interrupted>> /\ op[w].at = "none"
  BY DEF WriteBegin, At
<1>3. StorageTypeOK'
  BY <1>1, <1>2 DEF IInv, StorageTypeOK, Ops
<1>4. Exclusive'
  BY <1>1, <1>2 DEF IInv, Exclusive, Working
<1>5. (RestIsSaved /\ ReadyToProgram)'
  BY <1>1, <1>2 DEF IInv, RestIsSaved, ReadyToProgram, At
<1>6. (MembersSurvive /\ ErasedOnlyIfInterrupted)'
  BY <1>1, <1>2 DEF IInv, MembersSurvive, ErasedOnlyIfInterrupted, At
<1> QED BY <1>3, <1>4, <1>5, <1>6 DEF IInv

(* The mutex is taken when nobody has it, so nobody else is at work. *)
LEMMA LockStep ==
  ASSUME IInv, NEW w \in Writers, Lock(w)
  PROVE  IInv'
<1>1. /\ op' \in Ops
      /\ op'[w].at = "copy"
      /\ \A v \in Writers : op'[v].member = op[v].member
      /\ \A v \in Writers \ {w} : op'[v].at = op[v].at
  BY GoLemma DEF Lock, IInv, StorageTypeOK, Ops, Steps
<1>2. /\ UNCHANGED <<flash, wbuf, stored, interrupted>>
      /\ op[w].at = "lock" /\ lock = Nobody /\ lock' = w
  BY DEF Lock, At, Free
<1>3. StorageTypeOK'
  BY <1>1, <1>2 DEF IInv, StorageTypeOK, Ops
<1>4. Exclusive'
  BY <1>1, <1>2, StorageAssumption DEF IInv, Exclusive, Working
<1>5. (RestIsSaved /\ ReadyToProgram)'
  BY <1>1, <1>2 DEF IInv, RestIsSaved, ReadyToProgram, At
<1>6. (MembersSurvive /\ ErasedOnlyIfInterrupted)'
  BY <1>1, <1>2 DEF IInv, MembersSurvive, ErasedOnlyIfInterrupted, At
<1> QED BY <1>3, <1>4, <1>5, <1>6 DEF IInv

(* Only the holder of the mutex is at work. *)
LEMMA OneAtWork ==
  ASSUME IInv, NEW w \in Writers, NEW v \in Writers, op[w].at \in Working, op[v].at \in Working
  PROVE  v = w
  BY DEF IInv, Exclusive

(* The member goes to the buffer; nobody else uses it. *)
LEMMA CopyStep ==
  ASSUME IInv, NEW w \in Writers, NEW value \in Data, CopyData(w, value)
  PROVE  IInv'
<1>1. /\ op' \in Ops
      /\ op'[w].at = "fill"
      /\ \A v \in Writers : op'[v].member = op[v].member
      /\ \A v \in Writers \ {w} : op'[v].at = op[v].at
  BY GoLemma DEF CopyData, IInv, StorageTypeOK, Ops, Steps
<1>2. /\ UNCHANGED <<flash, lock, stored, interrupted>>
      /\ op[w].at = "copy"
      /\ wbuf' = [wbuf EXCEPT ![op[w].member] = value]
  BY DEF CopyData, At
<1>3. \A v \in Writers \ {w} : op[v].at \notin Working
  BY <1>2, OneAtWork DEF Working
<1>4. StorageTypeOK'
  BY <1>1, <1>2 DEF IInv, StorageTypeOK, Ops
<1>5. Exclusive'
  BY <1>1, <1>2 DEF IInv, Exclusive, Working
<1>6. RestIsSaved'
  BY <1>1, <1>3 DEF RestIsSaved, At, Working
<1>7. ReadyToProgram'
  <2>1. wbuf'[op[w].member] = value
    BY <1>2 DEF IInv, StorageTypeOK
  <2> QED BY <2>1, <1>1, <1>3 DEF ReadyToProgram, At, Working
<1>8. (MembersSurvive /\ ErasedOnlyIfInterrupted)'
  BY <1>1, <1>2 DEF IInv, MembersSurvive, ErasedOnlyIfInterrupted, At
<1> QED BY <1>4, <1>5, <1>6, <1>7, <1>8 DEF IInv

(* The rest of the sector goes to the buffer; the member in it stays. *)
LEMMA FillStep ==
  ASSUME IInv, NEW w \in Writers, FillRest(w)
  PROVE  IInv'
<1>1. /\ op' \in Ops
      /\ op'[w].at = "erase"
      /\ \A v \in Writers : op'[v].member = op[v].member
      /\ \A v \in Writers \ {w} : op'[v].at = op[v].at
  BY GoLemma DEF FillRest, IInv, StorageTypeOK, Ops, Steps
<1>2. /\ UNCHANGED <<flash, lock, stored, interrupted>>
      /\ op[w].at = "fill"
      /\ wbuf' = [m \in Members |-> IF m = op[w].member THEN wbuf[m] ELSE flash[m]]
  BY DEF FillRest, At, Rest
<1>3. \A v \in Writers \ {w} : op[v].at \notin Working
  BY <1>2, OneAtWork DEF Working
<1>4. StorageTypeOK'
  BY <1>1, <1>2 DEF IInv, StorageTypeOK, Ops
<1>5. Exclusive'
  BY <1>1, <1>2 DEF IInv, Exclusive, Working
<1>6. RestIsSaved'
  BY <1>1, <1>2, <1>3 DEF RestIsSaved, At, Working
<1>7. ReadyToProgram'
  <2>1. op[w].member \in Members /\ wbuf[op[w].member] \in Data
    BY <1>2 DEF IInv, StorageTypeOK, ReadyToProgram, At
  <2>2. wbuf'[op[w].member] \in Data
    BY <1>2, <2>1
  <2> QED BY <2>2, <1>1, <1>3 DEF ReadyToProgram, At, Working
<1>8. (MembersSurvive /\ ErasedOnlyIfInterrupted)'
  BY <1>1, <1>2 DEF IInv, MembersSurvive, ErasedOnlyIfInterrupted, At
<1> QED BY <1>4, <1>5, <1>6, <1>7, <1>8 DEF IInv

(* The erase: what is lost is in the buffer, and an erased member of the    *)
(* buffer was interrupted before.                                           *)
LEMMA EraseStep ==
  ASSUME IInv, NEW w \in Writers, FlashErase(w)
  PROVE  IInv'
<1>1. /\ op' \in Ops
      /\ op'[w].at = "program"
      /\ \A v \in Writers : op'[v].member = op[v].member
      /\ \A v \in Writers \ {w} : op'[v].at = op[v].at
  BY GoLemma DEF FlashErase, IInv, StorageTypeOK, Ops, Steps
<1>2. /\ UNCHANGED <<wbuf, lock, stored, interrupted>>
      /\ op[w].at = "erase"
      /\ flash' = [m \in Members |-> Erased]
  BY DEF FlashErase, At
<1>3. \A v \in Writers \ {w} : op[v].at \notin Working
  BY <1>2, OneAtWork DEF Working
<1>4. StorageTypeOK'
  BY <1>1, <1>2 DEF IInv, StorageTypeOK, Ops
<1>5. Exclusive'
  BY <1>1, <1>2 DEF IInv, Exclusive, Working
<1>6. RestIsSaved'
  <2>1. ASSUME NEW m \in Members, m # op[w].member
        PROVE  /\ wbuf[m] \in {stored[m], Erased}
               /\ wbuf[m] = Erased => interrupted[m]
    <3>1. wbuf[m] = flash[m]
      BY <2>1, <1>2 DEF IInv, RestIsSaved, At
    <3>2. \A v \in Writers : ~At(v, "program")
      BY <1>2, <1>3 DEF At, Working
    <3> QED BY <3>1, <3>2 DEF IInv, MembersSurvive, ErasedOnlyIfInterrupted
  <2> QED BY <2>1, <1>1, <1>2, <1>3 DEF RestIsSaved, At, Working
<1>7. ReadyToProgram'
  BY <1>1, <1>2, <1>3 DEF IInv, ReadyToProgram, At, Working
<1>8. (MembersSurvive /\ ErasedOnlyIfInterrupted)'
  BY <1>1, <1>2 DEF IInv, MembersSurvive, ErasedOnlyIfInterrupted, At
<1> QED BY <1>4, <1>5, <1>6, <1>7, <1>8 DEF IInv

(* The programming brings all members back. *)
LEMMA ProgramStep ==
  ASSUME IInv, NEW w \in Writers, FlashProgram(w)
  PROVE  IInv'
<1> DEFINE mine == op[w].member
<1>1. /\ op' \in Ops
      /\ op'[w].at = "unlock"
      /\ \A v \in Writers : op'[v].member = op[v].member
      /\ \A v \in Writers \ {w} : op'[v].at = op[v].at
  BY GoLemma DEF FlashProgram, IInv, StorageTypeOK, Ops, Steps
<1>2. /\ UNCHANGED <<wbuf, lock>>
      /\ op[w].at = "program"
      /\ flash' = wbuf
      /\ stored' = [stored EXCEPT ![mine] = wbuf[mine]]
      /\ interrupted' = [interrupted EXCEPT ![mine] = FALSE]
  BY DEF FlashProgram, At
<1>3. \A v \in Writers \ {w} : op[v].at \notin Working
  BY <1>2, OneAtWork DEF Working
<1>4. mine \in Members /\ wbuf[mine] \in Data
  BY <1>2 DEF IInv, StorageTypeOK, ReadyToProgram, At
<1>5. \A m \in Members \ {mine} : /\ wbuf[m] \in {stored[m], Erased}
                                  /\ wbuf[m] = Erased => interrupted[m]
  BY <1>2 DEF IInv, RestIsSaved, At
<1> HIDE DEF mine
<1>6. StorageTypeOK'
  BY <1>1, <1>2, <1>4 DEF IInv, StorageTypeOK, Ops
<1>7. Exclusive'
  BY <1>1, <1>2 DEF IInv, Exclusive, Working
<1>8. (RestIsSaved /\ ReadyToProgram)'
  BY <1>1, <1>3 DEF RestIsSaved, ReadyToProgram, At, Working
<1>9. MembersSurvive'
  BY <1>2, <1>4, <1>5 DEF IInv, StorageTypeOK, MembersSurvive
<1>10. ErasedOnlyIfInterrupted'
  BY <1>2, <1>4, <1>5, StorageAssumption DEF IInv, StorageTypeOK, ErasedOnlyIfInterrupted
<1> QED BY <1>6, <1>7, <1>8, <1>9, <1>10 DEF IInv

(* A failed erase leaves everything but the step of the writer. *)
LEMMA EraseFailsStep ==
  ASSUME IInv, NEW w \in Writers, EraseFails(w)
  PROVE  IInv'
<1>1. /\ op' \in Ops
      /\ op'[w].at = "unlock"
      /\ \A v \in Writers : op'[v].member = op[v].member
      /\ \A v \in Writers \ {w} : op'[v].at = op[v].at
  BY GoLemma DEF EraseFails, AfterError, IInv, StorageTypeOK, Ops, Steps
<1>2. UNCHANGED <<flash, wbuf, lock, stored, interrupted>> /\ op[w].at = "erase"
  BY DEF EraseFails, At
<1>3. StorageTypeOK'
  BY <1>1, <1>2 DEF IInv, StorageTypeOK, Ops
<1>4. Exclusive'
  BY <1>1, <1>2 DEF IInv, Exclusive, Working
<1>5. (RestIsSaved /\ ReadyToProgram)'
  BY <1>1, <1>2 DEF IInv, RestIsSaved, ReadyToProgram, At
<1>6. (MembersSurvive /\ ErasedOnlyIfInterrupted)'
  BY <1>1, <1>2 DEF IInv, MembersSurvive, ErasedOnlyIfInterrupted, At
<1> QED BY <1>3, <1>4, <1>5, <1>6 DEF IInv

(* A failed programming leaves the sector erased. *)
LEMMA ProgramFailsStep ==
  ASSUME IInv, NEW w \in Writers, ProgramFails(w)
  PROVE  IInv'
<1>1. /\ op' \in Ops
      /\ op'[w].at = "unlock"
      /\ \A v \in Writers : op'[v].member = op[v].member
      /\ \A v \in Writers \ {w} : op'[v].at = op[v].at
  BY GoLemma DEF ProgramFails, AfterError, IInv, StorageTypeOK, Ops, Steps
<1>2. /\ UNCHANGED <<flash, wbuf, lock, stored>> /\ op[w].at = "program"
      /\ interrupted' = [m \in Members |-> TRUE]
  BY DEF ProgramFails, At
<1>3. StorageTypeOK'
  BY <1>1, <1>2 DEF IInv, StorageTypeOK, Ops
<1>4. Exclusive'
  BY <1>1, <1>2 DEF IInv, Exclusive, Working
<1>5. (RestIsSaved /\ ReadyToProgram)'
  BY <1>1, <1>2 DEF IInv, RestIsSaved, ReadyToProgram, At
<1>6. (MembersSurvive /\ ErasedOnlyIfInterrupted)'
  BY <1>1, <1>2 DEF IInv, MembersSurvive, ErasedOnlyIfInterrupted, At
<1> QED BY <1>3, <1>4, <1>5, <1>6 DEF IInv

(* The mutex is given back; nobody is at work then. *)
LEMMA UnlockStep ==
  ASSUME IInv, NEW w \in Writers, Unlock(w)
  PROVE  IInv'
<1>1. /\ op' \in Ops
      /\ op'[w].at = "none"
      /\ \A v \in Writers : op'[v].member = op[v].member
      /\ \A v \in Writers \ {w} : op'[v].at = op[v].at
  BY GoLemma DEF Unlock, IInv, StorageTypeOK, Ops, Steps
<1>2. /\ UNCHANGED <<flash, stored, interrupted>> /\ op[w].at = "unlock"
      /\ lock' = Nobody
      /\ wbuf' = [m \in Members |-> Erased]
  BY DEF Unlock, At
<1>3. \A v \in Writers : op'[v].at \notin Working
  BY <1>1, <1>2, OneAtWork DEF Working
<1>4. StorageTypeOK'
  BY <1>1, <1>2 DEF IInv, StorageTypeOK, Ops
<1>5. Exclusive'
  BY <1>2, <1>3, StorageAssumption DEF Exclusive
<1>6. (RestIsSaved /\ ReadyToProgram)'
  BY <1>3 DEF RestIsSaved, ReadyToProgram, At, Working
<1>7. (MembersSurvive /\ ErasedOnlyIfInterrupted)'
  BY <1>1, <1>2 DEF IInv, MembersSurvive, ErasedOnlyIfInterrupted, At
<1> QED BY <1>4, <1>5, <1>6, <1>7 DEF IInv

(* Whatever the power loss hits, the members are what was written or        *)
(* erased, and the erased ones are marked.                                  *)
LEMMA PowerLossStep ==
  ASSUME IInv, PowerLoss
  PROVE  IInv'
<1> DEFINE LossIsTyped == /\ flash' \in [Members -> Data \cup {Erased}]
                          /\ stored' \in [Members -> Data \cup {Erased}]
                          /\ interrupted' \in [Members -> BOOLEAN]
           LossIsMarked == \A m \in Members : flash'[m] = Erased => interrupted'[m]
<1>1. /\ wbuf' = [m \in Members |-> Erased]
      /\ lock' = Nobody
      /\ op' = [w \in Writers |-> [op[w] EXCEPT !.at = "none"]]
  BY DEF PowerLoss
<1>2. op' \in Ops /\ \A w \in Writers : op'[w].at = "none"
  BY <1>1 DEF IInv, StorageTypeOK, Ops, Steps
<1>3. LossIsTyped /\ MembersSurvive' /\ LossIsMarked
  <2>1. CASE (\A w \in Writers : ~At(w, "program")) /\ UNCHANGED <<flash, stored, interrupted>>
    BY <2>1 DEF IInv, StorageTypeOK, MembersSurvive, ErasedOnlyIfInterrupted
  <2>2. ASSUME NEW w \in Writers, NEW hit \in SUBSET Members, EraseHalfway(w, hit)
        PROVE  LossIsTyped /\ MembersSurvive' /\ LossIsMarked
    <3>1. \A v \in Writers : ~At(v, "program")
      BY <2>2, OneAtWork DEF EraseHalfway, At, Working
    <3>2. \A m \in Members : flash[m] = Erased => interrupted[m]
      BY <3>1 DEF IInv, ErasedOnlyIfInterrupted
    <3> QED BY <2>2, <3>2 DEF EraseHalfway, IInv, StorageTypeOK, MembersSurvive
  <2>3. ASSUME NEW w \in Writers, NEW done \in SUBSET Members, ProgramHalfway(w, done)
        PROVE  LossIsTyped /\ MembersSurvive' /\ LossIsMarked
    <3> DEFINE mine == op[w].member
    <3>1. /\ flash' = [m \in Members |-> IF m \in done THEN wbuf[m] ELSE Erased]
          /\ interrupted' = [m \in Members |-> m \notin done \/ interrupted[m]]
          /\ stored' = IF mine \in done THEN [stored EXCEPT ![mine] = wbuf[mine]] ELSE stored
          /\ op[w].at = "program"
      BY <2>3 DEF ProgramHalfway, At
    <3>2. mine \in Members /\ wbuf[mine] \in Data
      BY <3>1 DEF IInv, StorageTypeOK, ReadyToProgram, At
    <3>3. \A m \in Members \ {mine} : /\ wbuf[m] \in {stored[m], Erased}
                                      /\ wbuf[m] = Erased => interrupted[m]
      BY <3>1 DEF IInv, RestIsSaved, At
    <3> HIDE DEF mine
    <3>4. LossIsTyped
      BY <3>1, <3>2 DEF IInv, StorageTypeOK
    <3>5. MembersSurvive'
      BY <3>1, <3>2, <3>3 DEF IInv, StorageTypeOK, MembersSurvive
    <3>6. LossIsMarked
      BY <3>1, <3>2, <3>3, StorageAssumption
    <3> QED BY <3>4, <3>5, <3>6
  <2> QED BY <2>1, <2>2, <2>3 DEF PowerLoss
<1>4. StorageTypeOK'
  BY <1>1, <1>2, <1>3 DEF StorageTypeOK, Ops
<1>5. (Exclusive /\ RestIsSaved /\ ReadyToProgram)'
  BY <1>1, <1>2, StorageAssumption DEF Exclusive, RestIsSaved, ReadyToProgram, At, Working
<1>6. ErasedOnlyIfInterrupted'
  BY <1>3 DEF ErasedOnlyIfInterrupted
<1> QED BY <1>3, <1>4, <1>5, <1>6 DEF IInv

(* Every step keeps the invariant. *)
LEMMA StorageStep == IInv /\ [StorageNext]_storage => IInv'
<1> SUFFICES ASSUME IInv, [StorageNext]_storage PROVE IInv'
  OBVIOUS
<1>1. ASSUME NEW w \in Writers, NEW m \in Members, WriteBegin(w, m) PROVE IInv'
  BY <1>1, BeginStep
<1>2. ASSUME NEW w \in Writers, NEW value \in Data, CopyData(w, value) PROVE IInv'
  BY <1>2, CopyStep
<1>3. ASSUME NEW w \in Writers, WriteStep(w) PROVE IInv'
  BY <1>3, LockStep, FillStep, EraseStep, ProgramStep, EraseFailsStep, ProgramFailsStep, UnlockStep
     DEF WriteStep
<1>4. CASE PowerLoss
  BY <1>4, PowerLossStep
<1>5. CASE UNCHANGED storage
  BY <1>5 DEF storage, IInv, StorageTypeOK, Exclusive, RestIsSaved, ReadyToProgram,
              MembersSurvive, ErasedOnlyIfInterrupted, At
<1> QED BY <1>1, <1>2, <1>3, <1>4, <1>5 DEF StorageNext

(* The invariant of the storage. *)
LEMMA StorageInvariant == StorageSpec => []IInv
  BY StorageStart, StorageStep, PTL DEF StorageSpec

-------------------------------------------------------------------------------
(* A write of one member never brings back what another writer has replaced *)
(* (persistent_storage::_write_impl under _memory_mutex).                   *)
THEOREM MembersSurviveCorrect == StorageSpec => []MembersSurvive
<1>1. IInv => MembersSurvive
  BY DEF IInv
<1> QED BY <1>1, StorageInvariant, PTL

(* Only a write that broke off between its erase and its programming leaves *)
(* a member erased.                                                         *)
THEOREM ErasedOnlyIfInterruptedCorrect == StorageSpec => []ErasedOnlyIfInterrupted
<1>1. IInv => ErasedOnlyIfInterrupted
  BY DEF IInv
<1> QED BY <1>1, StorageInvariant, PTL

-------------------------------------------------------------------------------
(* The mutex is given back.                                                 *)

(* How many steps a writer that holds the mutex has before it at most.      *)
ToGo == [at \in Working |-> CASE at = "copy" -> 5 [] at = "fill" -> 4 [] at = "erase" -> 3
                              [] at = "program" -> 2 [] at = "unlock" -> 1]

(* Nobody takes the mutex from its holder but the holder itself, which is   *)
(* one step nearer to giving it back with each step it takes: after five of *)
(* them it has, also when erasing or programming fails                      *)
(* (persistent_storage::_write_impl).                                       *)
MutexComesBack ==
  [][\A w \in Writers : lock = w =>
       \/ lock' = Nobody
       \/ lock' = w /\ op'[w] = op[w]
       \/ lock' = w /\ ToGo[op'[w].at] < ToGo[op[w].at]]_storage

(* A step of another writer leaves lock and op[w] alone. *)
LEMMA HolderGoesOn ==
  ASSUME IInv, [StorageNext]_storage, NEW w \in Writers, lock = w
  PROVE  \/ lock' = Nobody
         \/ lock' = w /\ op'[w] = op[w]
         \/ lock' = w /\ ToGo[op'[w].at] < ToGo[op[w].at]
<1>a. op \in Ops /\ op[w].at \in Working /\ w # Nobody
  BY StorageAssumption DEF IInv, StorageTypeOK, Ops, Exclusive
<1>b. ASSUME NEW v \in Writers, op[v].at \in Working PROVE v = w
  BY <1>b DEF IInv, Exclusive
<1>1. ASSUME NEW v \in Writers, NEW m \in Members, WriteBegin(v, m)
      PROVE  lock' = w /\ op'[w] = op[w]
  <2>1. v # w
    BY <1>1, <1>a DEF WriteBegin, At, Working
  <2> QED BY <1>1, <1>a, <2>1 DEF WriteBegin, Ops
<1>2. ASSUME NEW v \in Writers, NEW value \in Data, CopyData(v, value)
      PROVE  lock' = w /\ op[w].at = "copy" /\ op'[w].at = "fill"
  <2>1. v = w
    BY <1>2, <1>b DEF CopyData, At, Working
  <2> QED BY <1>2, <1>a, <2>1 DEF CopyData, Go, At, Ops
<1>3. ASSUME NEW v \in Writers, WriteStep(v)
      PROVE  \/ lock' = Nobody
             \/ lock' = w /\ <<op[w].at, op'[w].at>> \in
                  {<<"fill", "erase">>, <<"erase", "program">>, <<"program", "unlock">>,
                   <<"erase", "unlock">>}
  <2>1. ~Lock(v)
    BY <1>a DEF Lock, Free
  <2>2. CASE FillRest(v)
    BY <2>2, <1>a, <1>b DEF FillRest, Go, At, Working, Ops
  <2>3. CASE FlashErase(v)
    BY <2>3, <1>a, <1>b DEF FlashErase, Go, At, Working, Ops
  <2>4. CASE FlashProgram(v)
    BY <2>4, <1>a, <1>b DEF FlashProgram, Go, At, Working, Ops
  <2>5. CASE EraseFails(v)
    BY <2>5, <1>a, <1>b DEF EraseFails, AfterError, Go, At, Working, Ops
  <2>6. CASE ProgramFails(v)
    BY <2>6, <1>a, <1>b DEF ProgramFails, AfterError, Go, At, Working, Ops
  <2>7. CASE Unlock(v)
    BY <2>7 DEF Unlock
  <2> QED BY <1>3, <2>1, <2>2, <2>3, <2>4, <2>5, <2>6, <2>7 DEF WriteStep
<1>4. CASE PowerLoss
  BY <1>4 DEF PowerLoss
<1>5. CASE UNCHANGED storage
  BY <1>5 DEF storage
<1>6. /\ ToGo["copy"] = 5 /\ ToGo["fill"] = 4 /\ ToGo["erase"] = 3
      /\ ToGo["program"] = 2 /\ ToGo["unlock"] = 1
  BY DEF ToGo, Working
<1> QED BY <1>1, <1>2, <1>3, <1>4, <1>5, <1>6 DEF StorageNext

(* The mutex of the flash sector is given back after five steps of its      *)
(* holder, on every path through a write.                                   *)
THEOREM MutexComesBackCorrect == StorageSpec => MutexComesBack
<1>1. ASSUME IInv, [StorageNext]_storage
      PROVE  [\A w \in Writers : lock = w =>
                \/ lock' = Nobody
                \/ lock' = w /\ op'[w] = op[w]
                \/ lock' = w /\ ToGo[op'[w].at] < ToGo[op[w].at]]_storage
  BY <1>1, HolderGoesOn
<1> QED BY <1>1, StorageInvariant, PTL DEF StorageSpec, MutexComesBack
-------------------------------------------------------------------------------

(* A sector, or an image of one, has settings where the settings are and a  *)
(* host name where the host name is.                                        *)
Fits(sector) ==
  /\ sector["sets"] \in AnySettings \cup {Erased}
  /\ sector["hostname"] \in HostNames \cup {Erased}

(* The control task writes the settings, the web thread the host name it    *)
(* was just given.                                                          *)
OwnMembers ==
  /\ op["control"].member = "sets"
  /\ op["web"].member = "hostname"
  /\ web = "post" => host \in HostNames

SInv == IInv /\ TypeOK /\ Fits(flash) /\ Fits(wbuf) /\ OwnMembers

-------------------------------------------------------------------------------
(* What a step of a write does beside what IInv says: the sector stays      *)
(* fitting, the writers keep their members, and only w goes on.             *)
Keeps(w) ==
  /\ Fits(flash') /\ Fits(wbuf')
  /\ \A v \in Writers : op'[v].member = op[v].member
  /\ \A v \in Writers \ {w} : op'[v].at = op[v].at

LEMMA SInvTypes ==
  ASSUME SInv
  PROVE  /\ op \in Ops
         /\ flash \in [{"sets", "hostname"} -> Data \cup {Erased}]
         /\ wbuf \in [{"sets", "hostname"} -> Data \cup {Erased}]
         /\ "control" \in Writers /\ "web" \in Writers
         /\ "sets" \in Members /\ "hostname" \in Members
BY PartsAssumption DEF SInv, IInv, StorageTypeOK, Ops

LEMMA ErasedFits == Fits([m \in Members |-> Erased])
BY PartsAssumption DEF Fits

LEMMA WriteKeeps ==
  ASSUME SInv, NEW w \in Writers, WriteStep(w)
  PROVE  Keeps(w)
<1>a. op \in Ops /\ Fits(flash) /\ Fits(wbuf)
  BY SInvTypes DEF SInv
<1>b. ASSUME NEW step \in Steps, Go(w, step)
      PROVE  /\ \A v \in Writers : op'[v].member = op[v].member
             /\ \A v \in Writers \ {w} : op'[v].at = op[v].at
  BY <1>a, <1>b, GoLemma
<1>1. CASE Lock(w)
  BY <1>1, <1>a, <1>b DEF Lock, Keeps, Steps
<1>2. CASE FillRest(w)
  <2>1. Fits(wbuf')
    BY <1>2, <1>a, SInvTypes DEF FillRest, Fits, Rest
  <2> QED BY <2>1, <1>2, <1>a, <1>b DEF FillRest, Keeps, Steps
<1>3. CASE FlashErase(w)
  BY <1>3, <1>a, <1>b, ErasedFits DEF FlashErase, Keeps, Steps
<1>4. CASE FlashProgram(w)
  BY <1>4, <1>a, <1>b DEF FlashProgram, Keeps, Steps
<1>5. CASE EraseFails(w)
  BY <1>5, <1>a, <1>b DEF EraseFails, AfterError, Keeps, Steps
<1>6. CASE ProgramFails(w)
  BY <1>6, <1>a, <1>b DEF ProgramFails, AfterError, Keeps, Steps
<1>7. CASE Unlock(w)
  BY <1>7, <1>a, <1>b, ErasedFits DEF Unlock, Keeps, Steps
<1> QED BY <1>1, <1>2, <1>3, <1>4, <1>5, <1>6, <1>7 DEF WriteStep

(* Each writer copies what belongs into its member. *)
LEMMA CopyKeeps ==
  ASSUME SInv, NEW w \in Writers, NEW value \in Data, CopyData(w, value),
         w = "control" => value \in AnySettings,
         w = "web" => value \in HostNames
  PROVE  Keeps(w)
<1>a. op \in Ops /\ Fits(flash) /\ Fits(wbuf)
  BY SInvTypes DEF SInv
<1>1. /\ \A v \in Writers : op'[v].member = op[v].member
      /\ \A v \in Writers \ {w} : op'[v].at = op[v].at
  BY <1>a, GoLemma DEF CopyData, Steps
<1>2. Fits(wbuf')
  <2>1. CASE w = "control"
    BY <2>1, <1>a, SInvTypes DEF CopyData, Fits, SInv, OwnMembers
  <2>2. CASE w = "web"
    BY <2>2, <1>a, SInvTypes DEF CopyData, Fits, SInv, OwnMembers
  <2> QED BY <2>1, <2>2, PartsAssumption
<1> QED BY <1>a, <1>1, <1>2 DEF Keeps, CopyData

LEMMA BeginKeeps ==
  ASSUME SInv, NEW w \in Writers, NEW m \in Members, m = op[w].member, WriteBegin(w, m)
  PROVE  Keeps(w) /\ op'[w].at = "lock"
BY SInvTypes DEF SInv, WriteBegin, Keeps, Ops

(* A reset takes every writer back to its start. *)
LEMMA LossKeeps ==
  ASSUME SInv, PowerLoss
  PROVE  /\ Fits(flash') /\ Fits(wbuf')
         /\ \A v \in Writers : op'[v].member = op[v].member /\ op'[v].at = "none"
<1>a. op \in Ops /\ Fits(flash) /\ Fits(wbuf)
  BY SInvTypes DEF SInv
<1>1. \A v \in Writers : op'[v].member = op[v].member /\ op'[v].at = "none"
  BY <1>a DEF PowerLoss, Ops
<1>2. Fits(wbuf')
  BY ErasedFits DEF PowerLoss
<1>3. ASSUME NEW w \in Writers, NEW hit \in SUBSET Members, EraseHalfway(w, hit)
      PROVE  Fits(flash')
  BY <1>3, <1>a, SInvTypes DEF EraseHalfway, Fits
<1>4. ASSUME NEW w \in Writers, NEW done \in SUBSET Members, ProgramHalfway(w, done)
      PROVE  Fits(flash')
  BY <1>4, <1>a, SInvTypes DEF ProgramHalfway, Fits
<1>5. Fits(flash')
  BY <1>a, <1>3, <1>4 DEF PowerLoss
<1> QED BY <1>1, <1>2, <1>5

-------------------------------------------------------------------------------
(* The settings that are loaded are settings. *)
LEMMA LoadedAreSettings ==
  ASSUME SInv PROVE Sanitized(FromFlash) \in AnySettings
<1>1. FromFlash \in AnySettings
  BY DEF FromFlash, SInv, Fits, AnySettings
<1> QED BY <1>1 DEF Sanitized, Defaults, AnySettings, Values

LEMMA HostIsTyped ==
  ASSUME NEW sector, Fits(sector) PROVE HostFromFlash(sector) \in HostNames \cup {NoName}
BY DEF Fits, HostFromFlash

(* Every start satisfies the invariant and is a start of the storage. *)
LEMMA SettingsStart == Init => SInv /\ StorageInit
<1> SUFFICES ASSUME Init PROVE SInv /\ StorageInit
  OBVIOUS
<1>1. IInv /\ StorageInit
  BY StorageStart DEF Init
<1>2. /\ Fits(flash) /\ Fits(wbuf)
      /\ \A w \in Writers : At(w, "none")
  BY ErasedFits DEF Init, StorageInit, Fits, At
<1>3. TypeOK
  BY <1>1, <1>2, HostIsTyped, PartsAssumption
     DEF Init, TypeOK, IInv, Defaults, AnySettings, Values, At
<1> QED BY <1>1, <1>2, <1>3 DEF SInv, OwnMembers, Init

(* Every step is a step of the storage or leaves it alone. *)
LEMMA StepsOfStorage ==
  ASSUME SInv, [Next]_vars
  PROVE  [StorageNext]_storage
<1>a. /\ "control" \in Writers /\ "web" \in Writers
      /\ "sets" \in Members /\ "hostname" \in Members
      /\ ram \in Data
      /\ web = "post" => host \in Data
  BY SInvTypes, PartsAssumption DEF SInv, TypeOK, OwnMembers
<1>1. CASE WebStep
  <2>1. ASSUME NEW h \in HostNames, PostHostName(h) PROVE StorageNext
    BY <2>1, <1>a DEF PostHostName, StorageNext
  <2>2. CASE PostWrite
    BY <2>2, <1>a DEF PostWrite, StorageNext
  <2> QED BY <1>1, <2>1, <2>2 DEF WebStep, PutBegin, PutEnd, PutFails, PutField
<1>2. CASE ControlStep
  BY <1>2, <1>a DEF ControlStep, ControlCheck, ControlWrite, ControlReset, StorageNext
<1>3. CASE Restart
  BY <1>3 DEF Restart, StorageNext
<1> QED BY <1>1, <1>2, <1>3 DEF Next, UsbSet, LoadSettings, vars

-------------------------------------------------------------------------------
(* The invariant, step by step. *)

LEMMA WebKeeps == ASSUME SInv, IInv', WebStep PROVE SInv'
<1>a. /\ StorageTypeOK' /\ op \in Ops /\ op' \in Ops
      /\ "control" \in Writers /\ "web" \in Writers
  BY SInvTypes DEF IInv, StorageTypeOK, Ops
<1>1. CASE PutBegin
  BY <1>1, <1>a DEF PutBegin, storage, SInv, TypeOK, OwnMembers, Fits, At
<1>2. CASE PutEnd
  BY <1>2, <1>a DEF PutEnd, storage, SInv, TypeOK, OwnMembers, Fits, At
<1>3. CASE PutFails
  BY <1>3, <1>a DEF PutFails, storage, SInv, TypeOK, OwnMembers, Fits, At
<1>4. ASSUME NEW f \in Fields, NEW v \in Values, PutField(f, v) PROVE SInv'
  <2>1. ram' \in AnySettings
    BY <1>4 DEF PutField, SInv, TypeOK, AnySettings
  <2> QED BY <2>1, <1>4, <1>a DEF PutField, storage, SInv, TypeOK, OwnMembers, Fits, At
<1>5. ASSUME NEW h \in HostNames, PostHostName(h) PROVE SInv'
  <2>1. Keeps("web") /\ op'["web"].at = "lock"
    BY <1>5, <1>a, SInvTypes, BeginKeeps DEF PostHostName, SInv, OwnMembers
  <2>2. TypeOK'
    BY <2>1, <1>5, <1>a DEF PostHostName, Keeps, SInv, TypeOK, At
  <2> QED BY <2>1, <2>2, <1>5, <1>a DEF PostHostName, Keeps, SInv, OwnMembers
<1>6. CASE PostWrite
  <2>1. Keeps("web")
    BY <1>6, <1>a, CopyKeeps, WriteKeeps, PartsAssumption DEF PostWrite, SInv, OwnMembers
  <2>2. TypeOK'
    BY <2>1, <1>6, <1>a DEF PostWrite, Keeps, SInv, TypeOK, At
  <2> QED BY <2>1, <2>2, <1>6, <1>a DEF PostWrite, Keeps, SInv, OwnMembers
<1> QED BY <1>1, <1>2, <1>3, <1>4, <1>5, <1>6 DEF WebStep

LEMMA ControlKeeps == ASSUME SInv, IInv', ControlStep PROVE SInv'
<1>a. /\ StorageTypeOK' /\ op \in Ops /\ op' \in Ops
      /\ "control" \in Writers /\ "web" \in Writers
  BY SInvTypes DEF IInv, StorageTypeOK, Ops
<1>1. CASE ControlCheck /\ changed
  <2>1. Keeps("control") /\ op'["control"].at = "lock"
    BY <1>1, <1>a, SInvTypes, BeginKeeps DEF ControlCheck, SInv, OwnMembers
  <2>2. TypeOK'
    BY <2>1, <1>1, <1>a DEF ControlCheck, Keeps, SInv, TypeOK, At
  <2> QED BY <2>1, <2>2, <1>1, <1>a DEF ControlCheck, Keeps, SInv, OwnMembers
<1>2. CASE ControlCheck /\ ~changed
  BY <1>2, <1>a DEF ControlCheck, storage, SInv, TypeOK, OwnMembers, Fits, At
<1>3. CASE ControlWrite
  <2>1. Keeps("control")
    BY <1>3, <1>a, CopyKeeps, WriteKeeps, PartsAssumption DEF ControlWrite, SInv, TypeOK
  <2>2. TypeOK'
    BY <2>1, <1>3, <1>a DEF ControlWrite, Keeps, SInv, TypeOK, At
  <2> QED BY <2>1, <2>2, <1>3, <1>a DEF ControlWrite, Keeps, SInv, OwnMembers
<1>4. CASE ControlReset
  BY <1>4, <1>a DEF ControlReset, storage, SInv, TypeOK, OwnMembers, Fits, At
<1> QED BY <1>1, <1>2, <1>3, <1>4 DEF ControlStep

LEMMA OtherKeeps ==
  ASSUME SInv, IInv', Restart \/ LoadSettings \/ UNCHANGED vars
                      \/ \E f \in Fields, v \in Values : UsbSet(f, v)
  PROVE  SInv'
<1>a. /\ StorageTypeOK' /\ op \in Ops /\ op' \in Ops
      /\ "control" \in Writers /\ "web" \in Writers
  BY SInvTypes DEF IInv, StorageTypeOK, Ops
<1>1. CASE Restart
  <2>1. /\ Fits(flash') /\ Fits(wbuf')
        /\ \A v \in Writers : op'[v].member = op[v].member /\ op'[v].at = "none"
    BY <1>1, LossKeeps DEF Restart
  <2>2. host' \in HostNames \cup {NoName}
    BY <1>1, <2>1, HostIsTyped DEF Restart
  <2>3. ram' \in AnySettings
    BY <1>1 DEF Restart, Defaults, AnySettings, Values
  <2>4. TypeOK'
    BY <2>1, <2>2, <2>3, <1>1, <1>a DEF Restart, TypeOK, At
  <2> QED BY <2>1, <2>4, <1>1, <1>a DEF Restart, SInv, OwnMembers
<1>2. CASE LoadSettings
  BY <1>2, <1>a, LoadedAreSettings DEF LoadSettings, storage, SInv, TypeOK, OwnMembers, Fits, At
<1>3. CASE UNCHANGED vars
  BY <1>3, <1>a DEF vars, storage, SInv, TypeOK, OwnMembers, Fits, At
<1>4. ASSUME NEW f \in Fields, NEW v \in Values, UsbSet(f, v) PROVE SInv'
  <2>1. ram' \in AnySettings
    BY <1>4 DEF UsbSet, SInv, TypeOK, AnySettings
  <2> QED BY <2>1, <1>4, <1>a DEF UsbSet, storage, SInv, TypeOK, OwnMembers, Fits, At
<1> QED BY <1>1, <1>2, <1>3, <1>4

LEMMA SettingsStep == SInv /\ [Next]_vars => SInv'
<1> SUFFICES ASSUME SInv, [Next]_vars PROVE SInv'
  OBVIOUS
<1>1. IInv'
  BY StepsOfStorage, StorageStep DEF SInv
<1> QED BY <1>1, WebKeeps, ControlKeeps, OtherKeeps DEF Next

LEMMA SettingsInvariant == Spec => []SInv
  BY SettingsStart, SettingsStep, PTL DEF Spec

-------------------------------------------------------------------------------
(* The types hold, and a task is inside of persistent_storage::write        *)
(* exactly where its own program is at the call.                            *)
THEOREM SettingsTypeCorrect == Spec => []TypeOK
<1>1. SInv => TypeOK
  BY DEF SInv
<1> QED BY <1>1, SettingsInvariant, PTL

(* Web server, control task, startup and resets use the flash sector as     *)
(* PersistentStorage allows: each writer copies into its own member only.   *)
THEOREM ImplementsStorage == Spec => StorageSpec
<1>1. Init => StorageInit
  BY SettingsStart
<1>2. SInv /\ [Next]_vars => [StorageNext]_storage
  BY StepsOfStorage
<1> QED BY <1>1, <1>2, SettingsInvariant, PTL DEF Spec, StorageSpec

(* Storing the settings never brings back an old host name, nor the reverse *)
(* (victron_control_task and set_hostname).                                 *)
THEOREM SettingsSurvive == Spec => []MembersSurvive
BY ImplementsStorage, MembersSurviveCorrect, PTL

(* Settings and host name are only found erased after a write that broke    *)
(* off, whatever restarts there were.                                       *)
THEOREM SettingsErasedOnlyIfInterrupted == Spec => []ErasedOnlyIfInterrupted
BY ImplementsStorage, ErasedOnlyIfInterruptedCorrect, PTL

(* The control task and the web server give the mutex back to each other.   *)
THEOREM SettingsMutexComesBack == Spec => MutexComesBack
BY ImplementsStorage, MutexComesBackCorrect
-------------------------------------------------------------------------------
(* Settings that wait to be stored are announced, and no write that has      *)
(* copied the settings, nor the reset after it, meets any.                   *)
Waiting ==
  pending => /\ changed
             /\ control # "reset"
             /\ control = "write" => At("control", "lock") \/ At("control", "copy")

LEMMA WaitingStart == Init => Waiting
BY DEF Init, Waiting

LEMMA WaitingControl == ASSUME SInv, Waiting, ControlStep PROVE Waiting'
<1>a. op \in Ops /\ "control" \in Writers
  BY SInvTypes
<1>1. CASE ControlCheck /\ changed
  <2>1. op'["control"].at = "lock"
    BY <1>1, <1>a DEF ControlCheck, WriteBegin, Ops
  <2> QED BY <2>1, <1>1 DEF ControlCheck, Waiting, At
<1>2. CASE ControlCheck /\ ~changed
  BY <1>2 DEF ControlCheck, Waiting
<1>3. CASE ControlWrite
  <2>1. CASE pending'
    <3>1. WriteStep("control") /\ pending /\ control = "write" /\ changed' = changed
      BY <1>3, <2>1 DEF ControlWrite
    <3>2. At("control", "lock") \/ At("control", "copy")
      BY <3>1 DEF Waiting
    <3>3. Lock("control")
      BY <3>1, <3>2 DEF WriteStep, Lock, FillRest, FlashErase, FlashProgram,
         EraseFails, ProgramFails, Unlock, At
    <3>4. op'["control"].at = "copy"
      BY <3>3, <1>a DEF Lock, Go, Ops
    <3> QED BY <1>3, <3>1, <3>4 DEF ControlWrite, Waiting, At
  <2> QED BY <2>1 DEF Waiting
<1>4. CASE ControlReset
  BY <1>4 DEF ControlReset, Waiting
<1> QED BY <1>1, <1>2, <1>3, <1>4 DEF ControlStep

LEMMA WaitingWeb == ASSUME SInv, Waiting, WebStep PROVE Waiting'
<1>1. ASSUME NEW h \in HostNames, PostHostName(h) PROVE Waiting'
  <2>1. op'["control"].at = op["control"].at
    BY <1>1, SInvTypes DEF PostHostName, WriteBegin, Ops
  <2> QED BY <1>1, <2>1 DEF PostHostName, Waiting, At
<1>2. CASE PostWrite
  <2>1. Keeps("web")
    BY <1>2, SInvTypes, CopyKeeps, WriteKeeps, PartsAssumption DEF PostWrite, SInv, OwnMembers
  <2> QED BY <1>2, <2>1, SInvTypes DEF Keeps, PostWrite, Waiting, At
<1>3. CASE PutEnd
  BY <1>3 DEF PutEnd, storage, Waiting, At
<1> QED BY <1>1, <1>2, <1>3 DEF WebStep, PutBegin, PutFails, PutField, storage, Waiting, At

LEMMA WaitingStep == SInv /\ Waiting /\ [Next]_vars => Waiting'
<1> SUFFICES ASSUME SInv, Waiting, [Next]_vars PROVE Waiting'
  OBVIOUS
<1>1. CASE Restart
  BY <1>1 DEF Restart, Waiting
<1>2. CASE LoadSettings \/ UNCHANGED vars \/ \E f \in Fields, v \in Values : UsbSet(f, v)
  BY <1>2 DEF LoadSettings, UsbSet, vars, storage, Waiting, At
<1> QED BY <1>1, <1>2, WaitingWeb, WaitingControl DEF Next

(* A PUT that does not end in the middle of the control task's write stays  *)
(* announced until the control task has copied it (main.cpp:108 to 110).    *)
THEOREM PutIsNotForgottenCorrect == Spec => []PutIsNotForgotten
<1>1. Waiting => PutIsNotForgotten
  BY DEF Waiting, PutIsNotForgotten
<1> QED BY <1>1, WaitingStart, WaitingStep, SettingsInvariant, PTL DEF Spec
===============================================================================
