------------------------- MODULE VEBusRequests_proofs -------------------------
(***************************************************************************)
(* Proofs about the request FIFO, for any number of keys, ids, slots,      *)
(* retries and requests.                                                   *)
(***************************************************************************)
EXTENDS VEBusRequests, SequenceTheorems, TLAPS

-------------------------------------------------------------------------------
(* What push, removal by swap and assignment of a popped element do to a     *)
(* static_vector, slot by slot.                                              *)

(* push keeps every live slot, and adds one unless the vector is full.       *)
LEMMA PushProperties ==
  ASSUME NEW S, NEW v \in Seq(S), NEW e \in S, NEW N \in Nat, Len(v) <= N
  PROVE  /\ Push(v, e, N) \in Seq(S)
         /\ Len(Push(v, e, N)) = IF Len(v) = N THEN Len(v) ELSE Len(v) + 1
         /\ Len(Push(v, e, N)) <= N
         /\ \A j \in 1 .. Len(Push(v, e, N)) :
              Push(v, e, N)[j] = IF j = Len(v) + 1 THEN e ELSE v[j]
<1>1. CASE Len(v) = N
  BY <1>1 DEF Push
<1>2. CASE Len(v) # N
  BY <1>2 DEF Push
<1> QED BY <1>1, <1>2

(* SwapRemove shortens the vector by one and moves the last element into     *)
(* slot i.                                                                   *)
LEMMA SwapRemoveProperties ==
  ASSUME NEW S, NEW v \in Seq(S), NEW i \in 1 .. Len(v)
  PROVE  /\ SwapRemove(v, i) \in Seq(S)
         /\ Len(SwapRemove(v, i)) = Len(v) - 1
         /\ \A j \in 1 .. Len(v) - 1 :
              SwapRemove(v, i)[j] = IF j = i THEN v[Len(v)] ELSE v[j]
<1> DEFINE n == Len(v) - 1
           w == [j \in 1 .. n |-> IF j = i THEN v[Len(v)] ELSE v[j]]
<1>1. n \in Nat /\ Len(v) \in Nat
  BY LenProperties
<1>2. \A j \in 1 .. Len(v) : v[j] \in S
  BY ElementOfSeq
<1>3. w \in [1 .. n -> S]
  BY <1>1, <1>2
<1>4. w \in Seq(S)
  BY <1>1, <1>3, SeqDef
<1>5. Len(w) = n
  BY <1>1, <1>3, <1>4, LenProperties
<1> QED BY <1>4, <1>5 DEF SwapRemove

(* AssignPopped is SwapRemove, of slot 0 when i was the last of several      *)
(* slots.                                                                    *)
LEMMA AssignPoppedProperties ==
  ASSUME NEW S, NEW v \in Seq(S), NEW i \in 1 .. Len(v)
  PROVE  /\ AssignPopped(v, i) \in Seq(S)
         /\ Len(AssignPopped(v, i)) = Len(v) - 1
         /\ \A j \in 1 .. Len(v) - 1 :
              AssignPopped(v, i)[j] =
                IF j = (IF i = Len(v) THEN 1 ELSE i) THEN v[Len(v)] ELSE v[j]
<1> DEFINE k == IF i = Len(v) THEN 1 ELSE i
<1>1. Len(v) \in Nat
  BY LenProperties
<1>2. k \in 1 .. Len(v) /\ SlotOf(Len(v) - 1, i) = k
  BY <1>1 DEF SlotOf
<1>3. AssignPopped(v, i) = SwapRemove(v, k)
  BY <1>2 DEF AssignPopped
<1> HIDE DEF k
<1>4. /\ SwapRemove(v, k) \in Seq(S)
      /\ Len(SwapRemove(v, k)) = Len(v) - 1
      /\ \A j \in 1 .. Len(v) - 1 :
           SwapRemove(v, k)[j] = IF j = k THEN v[Len(v)] ELSE v[j]
  BY <1>2, SwapRemoveProperties
<1> QED BY <1>3, <1>4 DEF k

-------------------------------------------------------------------------------
(* Types.                                                                    *)

LEMMA NewEntryType == \A r \in Requests : NewEntry(r) \in Entry
BY SizesAssumption DEF NewEntry, Entry

(* An entry stays an entry when it is sent, answered or marked for a retry,  *)
(* and keeps the fields these leave alone.                                   *)
LEMMA EntryUpdates ==
  ASSUME NEW e \in Entry
  PROVE  /\ MarkSent(e) \in Entry
         /\ MarkSent(e).req = e.req /\ MarkSent(e).resp = e.resp
         /\ MarkSent(e).resend = e.resend /\ MarkSent(e).sent
         /\ MayRetry(e) => MarkUnsent(e) \in Entry
         /\ MarkUnsent(e).req = e.req /\ MarkUnsent(e).resp = e.resp
         /\ MarkUnsent(e).resend = e.resend + 1 /\ ~MarkUnsent(e).sent
<1>0. 0 \in 0 .. Timeout
  BY SizesAssumption
<1>1. \A f \in Entry, b \in BOOLEAN : [f EXCEPT !.sent = b] \in Entry
  BY DEF Entry
<1>2. \A f \in Entry : [f EXCEPT !.age = 0] \in Entry
  BY <1>0 DEF Entry
<1>3. MarkSent(e) \in Entry
  <2>1. MarkSent(e) = [[e EXCEPT !.sent = TRUE] EXCEPT !.age = 0]
    BY DEF MarkSent
  <2> QED BY <1>1, <1>2, <2>1
<1>4. ASSUME MayRetry(e) PROVE MarkUnsent(e) \in Entry
  <2>1. [e EXCEPT !.resend = @ + 1] \in Entry
    BY <1>4, SizesAssumption DEF Entry, MayRetry
  <2>2. MarkUnsent(e)
          = [[[e EXCEPT !.resend = @ + 1] EXCEPT !.sent = FALSE] EXCEPT !.age = 0]
    BY DEF MarkUnsent
  <2>3. [[e EXCEPT !.resend = @ + 1] EXCEPT !.sent = FALSE] \in Entry
    BY <1>1, <2>1
  <2> QED BY <1>2, <2>2, <2>3
<1>5. /\ MarkSent(e).req = e.req /\ MarkSent(e).resp = e.resp
      /\ MarkSent(e).resend = e.resend /\ MarkSent(e).sent = TRUE
  BY DEF MarkSent, Entry
<1>6. /\ MarkUnsent(e).req = e.req /\ MarkUnsent(e).resp = e.resp
      /\ MarkUnsent(e).resend = e.resend + 1 /\ MarkUnsent(e).sent = FALSE
  BY DEF MarkUnsent, Entry
<1> QED BY <1>3, <1>4, <1>5, <1>6

(* What TypeOK says of one slot.                                             *)
LEMMA SlotType ==
  ASSUME TypeOK
  PROVE  /\ Len(dataFifo) \in Nat
         /\ Slots = 1 .. Len(dataFifo)
         /\ \A i \in Slots : dataFifo[i] \in Entry
BY LenProperties, ElementOfSeq DEF TypeOK, Slots

(* Every action keeps the types.                                             *)
LEMMA TypeOKStep == TypeOK /\ [Next]_vars => TypeOK'
<1> SUFFICES ASSUME TypeOK, [Next]_vars PROVE TypeOK'
  OBVIOUS
<1> USE SizesAssumption
<1>a. /\ Len(dataFifo) \in Nat
      /\ Slots = 1 .. Len(dataFifo)
      /\ \A i \in Slots : dataFifo[i] \in Entry
  BY SlotType
<1>b. Len(reqs) \in Nat /\ Len(reqs) <= MaxRequests
  BY LenProperties DEF TypeOK
<1>1. ASSUME NEW k \in Keys, NEW id \in Ids \cup {NoId}, Build(k, id), lastId' \in Ids
      PROVE  TypeOK'
  <2>1. /\ reqs' \in Seq([key : Keys, id : Ids \cup {NoId}])
        /\ Len(reqs') <= MaxRequests /\ reqs' # <<>>
    <3> DEFINE R == [key : Keys, id : Ids \cup {NoId}]
               q == [key |-> k, id |-> id]
    <3>1. q \in R
      OBVIOUS
    <3>2. reqs \in Seq(R) /\ reqs' = Append(reqs, q) /\ Len(reqs) < MaxRequests
      BY <1>1 DEF Build, TypeOK
    <3> HIDE DEF R, q
    <3>3. reqs' \in Seq(R) /\ Len(reqs') = Len(reqs) + 1
      BY <3>1, <3>2, AppendProperties
    <3>4. reqs' # <<>>
      BY <1>b, <3>3, EmptySeq
    <3> QED BY <1>b, <3>2, <3>3, <3>4 DEF R
  <2> QED BY <1>1, <2>1 DEF Build, TypeOK, history
<1>2. ASSUME NEW k \in Keys, Request(k) PROVE TypeOK'
  <2>1. NextId(lastId) \in Ids
    BY DEF TypeOK, Ids, NextId
  <2> QED BY <1>1, <1>2, <2>1 DEF Request
<1>3. ASSUME NEW k \in Keys, SetSwitch(k) PROVE TypeOK'
  BY <1>1, <1>3 DEF SetSwitch, TypeOK
<1>4. CASE RequestRefused
  <2>1. (lastId + NumIds - 1) % NumIds \in Ids
    BY DEF TypeOK, Ids
  <2> QED BY <1>4, <2>1 DEF RequestRefused, TypeOK, history
<1>5. CASE addOrUpdateFifo
  <2>1. NewEntry(Len(reqs)) \in Entry
    <3>1. Len(reqs) \in Requests
      BY <1>5, <1>b, EmptySeq DEF addOrUpdateFifo, TypeOK, Requests
    <3> QED BY <3>1, NewEntryType
  <2>2. dataFifo' \in Seq(Entry) /\ Len(dataFifo') <= FifoSize
    <3>1. ASSUME NEW i \in Slots, dataFifo' = [dataFifo EXCEPT ![i] = NewEntry(Len(reqs))]
          PROVE  dataFifo' \in Seq(Entry) /\ Len(dataFifo') <= FifoSize
      BY <1>a, <2>1, <3>1, ExceptSeq DEF TypeOK
    <3>2. ASSUME dataFifo' = Push(dataFifo, NewEntry(Len(reqs)), FifoSize)
          PROVE  dataFifo' \in Seq(Entry) /\ Len(dataFifo') <= FifoSize
      BY <2>1, <3>2, PushProperties DEF TypeOK
    <3> QED BY <1>5, <3>1, <3>2 DEF addOrUpdateFifo
  <2> QED BY <1>5, <2>2 DEF addOrUpdateFifo, TypeOK, fifoFree, history
<1>6. CASE OnSync
  <2>1. PICK i \in Slots :
          /\ sends' = [sends EXCEPT ![dataFifo[i].req] = @ + 1]
          /\ dataFifo' = IF responseExpected(dataFifo[i].req)
                           THEN [dataFifo EXCEPT ![i] = MarkSent(@)]
                           ELSE SwapRemove(dataFifo, i)
    BY <1>6 DEF OnSync
  <2>2. dataFifo' \in Seq(Entry) /\ Len(dataFifo') <= FifoSize
    <3>1. MarkSent(dataFifo[i]) \in Entry
      BY <1>a, EntryUpdates
    <3>3. CASE responseExpected(dataFifo[i].req)
      BY <1>a, <2>1, <3>1, <3>3, ExceptSeq DEF TypeOK
    <3>4. CASE ~responseExpected(dataFifo[i].req)
      BY <1>a, <2>1, <3>4, SwapRemoveProperties DEF TypeOK
    <3> QED BY <3>3, <3>4
  <2>3. sends' \in [Requests -> Nat]
    <3> DEFINE r == dataFifo[i].req
    <3>1. r \in Requests
      BY <1>a DEF Entry
    <3>2. sends' = [sends EXCEPT ![r] = @ + 1] /\ sends \in [Requests -> Nat]
      BY <2>1 DEF TypeOK
    <3> HIDE DEF r
    <3> QED BY <3>1, <3>2
  <2> QED BY <1>6, <2>2, <2>3 DEF OnSync, TypeOK, fifoFree
<1>7. ASSUME NEW r \in 1 .. Len(reqs), NEW code \in {"ok", "bad"}, OnReply(r, code)
      PROVE  TypeOK'
  <2>1. dataFifo' \in Seq(Entry) /\ Len(dataFifo') <= FifoSize
    <3>1. ASSUME NEW i \in Slots, dataFifo' = [dataFifo EXCEPT ![i].resp = code]
          PROVE  dataFifo' \in Seq(Entry) /\ Len(dataFifo') <= FifoSize
      <4>1. [dataFifo[i] EXCEPT !.resp = code] \in Entry
        BY <1>a DEF Entry
      <4> QED BY <1>a, <3>1, <4>1, ExceptSeq DEF TypeOK
    <3>2. CASE UNCHANGED dataFifo
      BY <3>2 DEF TypeOK
    <3> QED BY <1>7, <3>1, <3>2 DEF OnReply
  <2>2. replies' \in [Requests -> Nat]
    BY <1>7, <1>b DEF OnReply, TypeOK, Requests
  <2> QED BY <1>7, <2>1, <2>2 DEF OnReply, TypeOK, fifoFree
<1>8. CASE CheckTimeoutBegin
  <2>1. dataFifo # <<>> => Len(dataFifo) \in 1 .. Len(dataFifo)
    BY EmptySeq DEF TypeOK
  <2> QED BY <1>a, <1>8, <2>1 DEF CheckTimeoutBegin, TypeOK, history
<1>r. ASSUME NEW i \in Slots, Retry(i), MayRetry(dataFifo[i])
      PROVE  dataFifo' \in Seq(Entry) /\ Len(dataFifo') = Len(dataFifo)
  <2>1. MarkUnsent(dataFifo[i]) \in Entry
    BY <1>a, <1>r, EntryUpdates
  <2> QED BY <1>a, <1>r, <2>1, ExceptSeq DEF Retry, TypeOK
<1>9. CASE CheckTimeout
  <2>1. sweepAt \in Slots
    BY <1>a, <1>9 DEF CheckTimeout, TypeOK
  <2>2. /\ dataFifo' \in Seq(Entry)
        /\ Len(dataFifo') \in {Len(dataFifo), Len(dataFifo) - 1}
    <3>1. CASE UNCHANGED dataFifo
      BY <3>1 DEF TypeOK
    <3>2. CASE MayRetry(dataFifo[sweepAt]) /\ Retry(sweepAt)
      BY <1>r, <2>1, <3>2
    <3>3. CASE Remove(sweepAt)
      BY <1>a, <2>1, <3>3, SwapRemoveProperties DEF Remove, TypeOK
    <3> QED BY <1>9, <3>1, <3>2, <3>3 DEF CheckTimeout
  <2>3. /\ sweepAt' \in Nat
        /\ maintain' = "sweep" => sweepAt' \in 1 .. Len(dataFifo')
    BY <1>a, <1>9, <2>1, <2>2 DEF CheckTimeout
  <2>4. maintain' \in {"sweep", "response"} /\ Len(dataFifo') <= FifoSize
    BY <1>a, <1>9, <2>2 DEF CheckTimeout, TypeOK
  <2> QED BY <1>9, <2>2, <2>3, <2>4 DEF CheckTimeout, TypeOK, history
<1>10. CASE CheckResponse
  <2> DEFINE Fits == dataFifo' \in Seq(Entry) /\ Len(dataFifo') <= FifoSize
             Result == \/ maintain' = "timeout" /\ got' = got
                       \/ maintain' = "save" /\ got' \in Requests
  <2>1. ASSUME NEW i \in Slots, TakeOut(i)
        PROVE  Fits
    <3>1. dataFifo' \in Seq(Entry) /\ Len(dataFifo') = Len(dataFifo) - 1
      BY <1>a, <2>1, AssignPoppedProperties DEF TakeOut, TypeOK
    <3> QED BY <1>a, <3>1 DEF TypeOK
  <2>2. ASSUME NEW i \in Slots, Retry(i), MayRetry(dataFifo[i])
        PROVE  Fits
    BY <1>r, <2>2 DEF TypeOK
  <2>3. ASSUME UNCHANGED <<dataFifo, got>>, maintain' = "timeout"
        PROVE  Fits /\ Result
    BY <2>3 DEF TypeOK
  <2>4. ASSUME NEW i \in Slots, got' = dataFifo[i].req, TakeOut(i), maintain' = "save"
        PROVE  Fits /\ Result
    <3>1. got' \in Requests
      BY <1>a, <2>4 DEF Entry
    <3> QED BY <2>1, <2>4, <3>1
  <2>5. ASSUME NEW i \in Slots, maintain' = "timeout", UNCHANGED got,
               IF MayRetry(dataFifo[i]) THEN Retry(i) ELSE TakeOut(i)
        PROVE  Fits /\ Result
    BY <2>1, <2>2, <2>5
  <2>6. Fits /\ Result
    <3> HIDE DEF Fits, Result
    <3> QED BY <1>10, <2>3, <2>4, <2>5 DEF CheckResponse
  <2>7. UNCHANGED <<reqs, client, lastId, sweepAt, history>>
    BY <1>10 DEF CheckResponse
  <2>8. got' \in 0 .. MaxRequests
    BY <2>6 DEF TypeOK, Requests
  <2> QED BY <2>6, <2>7, <2>8 DEF TypeOK, history
<1>11. CASE SaveResponse
  BY <1>11 DEF SaveResponse, TypeOK
<1>12. CASE Tick
  <2>1. ASSUME NEW e \in Entry PROVE Older(e) \in Entry
    <3>1. e.age \in 0 .. Timeout /\ (IF e.age < Timeout THEN e.age + 1 ELSE e.age) \in 0 .. Timeout
      BY DEF Entry
    <3> QED BY <3>1, SMTT(30) DEF Older, Entry
  <2>2. [i \in Slots |-> Older(dataFifo[i])] \in Seq(Entry)
    BY <1>a, <2>1, SeqDef
  <2>3. dataFifo' \in Seq(Entry) /\ Len(dataFifo') = Len(dataFifo)
    BY <1>a, <1>12, <2>2, LenProperties DEF Tick
  <2> QED BY <1>12, <2>3 DEF Tick, TypeOK, history
<1>13. CASE UNCHANGED vars
  BY <1>13 DEF vars, TypeOK, history
<1> QED
  BY <1>2, <1>3, <1>4, <1>5, <1>6, <1>7, <1>8, <1>9, <1>10, <1>11, <1>12, <1>13
     DEF Next, Client, Bus, Maintain

(* The types of all variables hold in every reachable state; above all no    *)
(* entry's resendCount exceeds VEBUS_MAX_RESEND and the sweep only touches   *)
(* live slots.                                                               *)
THEOREM TypeCorrect == Spec => []TypeOK
<1>1. Init => TypeOK
  BY SizesAssumption, EmptySeq DEF Init, TypeOK, Ids, Requests
<1> QED BY <1>1, TypeOKStep, PTL DEF Spec

-------------------------------------------------------------------------------
(* What a step does to the FIFO, slot by slot.                               *)

Sets(i, e) ==
  /\ Len(dataFifo') = Len(dataFifo)
  /\ \A j \in 1 .. Len(dataFifo) : dataFifo'[j] = IF j = i THEN e ELSE dataFifo[j]

Drops(k) ==
  /\ Len(dataFifo') = Len(dataFifo) - 1
  /\ \A j \in 1 .. Len(dataFifo) - 1 :
       dataFifo'[j] = IF j = k THEN dataFifo[Len(dataFifo)] ELSE dataFifo[j]

Pushes(e) ==
  /\ Len(dataFifo') = Len(dataFifo) + 1
  /\ \A j \in 1 .. Len(dataFifo) + 1 :
       dataFifo'[j] = IF j = Len(dataFifo) + 1 THEN e ELSE dataFifo[j]

Ages ==
  /\ Len(dataFifo') = Len(dataFifo)
  /\ \A j \in 1 .. Len(dataFifo) :
       /\ dataFifo'[j].req = dataFifo[j].req
       /\ dataFifo'[j].sent = dataFifo[j].sent
       /\ dataFifo'[j].resend = dataFifo[j].resend
       /\ dataFifo'[j].resp = dataFifo[j].resp
       /\ dataFifo'[j].age >= dataFifo[j].age

(* The slot TakeOut(i) really frees.                                         *)
Freed(i) == IF i = Len(dataFifo) THEN 1 ELSE i

(* The assignments of the actions in these terms.                            *)
LEMMA FifoShapes ==
  ASSUME TypeOK
  PROVE  /\ \A i \in Slots, e \in Entry :
              dataFifo' = [dataFifo EXCEPT ![i] = e] => Sets(i, e)
         /\ \A i \in Slots : Retry(i) /\ MayRetry(dataFifo[i])
                            => Sets(i, MarkUnsent(dataFifo[i]))
         /\ \A i \in Slots : dataFifo' = SwapRemove(dataFifo, i) => Drops(i)
         /\ \A i \in Slots : TakeOut(i) => Drops(Freed(i))
         /\ \A e \in Entry : dataFifo' = Push(dataFifo, e, FifoSize)
                            => Pushes(e) \/ UNCHANGED dataFifo
         /\ Tick => Ages
<1>a. /\ Len(dataFifo) \in Nat
      /\ Slots = 1 .. Len(dataFifo)
      /\ \A i \in Slots : dataFifo[i] \in Entry
      /\ dataFifo \in Seq(Entry) /\ Len(dataFifo) <= FifoSize
  BY SlotType DEF TypeOK
<1>1. ASSUME NEW i \in Slots, NEW e \in Entry, dataFifo' = [dataFifo EXCEPT ![i] = e]
      PROVE  Sets(i, e)
  BY <1>a, <1>1, ExceptSeq DEF Sets
<1>2. ASSUME NEW i \in Slots, Retry(i), MayRetry(dataFifo[i])
      PROVE  Sets(i, MarkUnsent(dataFifo[i]))
  <2>1. MarkUnsent(dataFifo[i]) \in Entry
    BY <1>a, <1>2, EntryUpdates
  <2> QED BY <1>1, <1>2, <2>1 DEF Retry
<1>3. ASSUME NEW i \in Slots, dataFifo' = SwapRemove(dataFifo, i) PROVE Drops(i)
  BY <1>a, <1>3, SwapRemoveProperties DEF Drops
<1>4. ASSUME NEW i \in Slots, TakeOut(i) PROVE Drops(Freed(i))
  <2>1. dataFifo \in Seq(Entry) /\ i \in 1 .. Len(dataFifo)
    BY <1>a
  <2>2. /\ Len(AssignPopped(dataFifo, i)) = Len(dataFifo) - 1
        /\ \A j \in 1 .. Len(dataFifo) - 1 :
             AssignPopped(dataFifo, i)[j] =
               IF j = Freed(i) THEN dataFifo[Len(dataFifo)] ELSE dataFifo[j]
    BY <2>1, AssignPoppedProperties DEF Freed
  <2>3. dataFifo' = AssignPopped(dataFifo, i)
    BY <1>4 DEF TakeOut
  <2> QED BY <2>2, <2>3 DEF Drops
<1>5. ASSUME NEW e \in Entry, dataFifo' = Push(dataFifo, e, FifoSize)
      PROVE  Pushes(e) \/ UNCHANGED dataFifo
  BY <1>a, <1>5, PushProperties, SizesAssumption DEF Pushes, Push
<1>6. ASSUME Tick PROVE Ages
  <2>1. \A i \in Slots : /\ Older(dataFifo[i]).req = dataFifo[i].req
                         /\ Older(dataFifo[i]).sent = dataFifo[i].sent
                         /\ Older(dataFifo[i]).resend = dataFifo[i].resend
                         /\ Older(dataFifo[i]).resp = dataFifo[i].resp
                         /\ Older(dataFifo[i]).age >= dataFifo[i].age
    BY <1>a, SizesAssumption DEF Older, Entry
  <2>2. dataFifo' \in Seq(Entry)
    BY <1>6, TypeOKStep DEF TypeOK, Next
  <2>3. Len(dataFifo') = Len(dataFifo)
    BY <1>a, <1>6, <2>2, LenProperties DEF Tick
  <2> QED BY <1>a, <1>6, <2>1, <2>3 DEF Ages, Tick
<1> QED BY <1>1, <1>2, <1>3, <1>4, <1>5, <1>6

-------------------------------------------------------------------------------
(* A request is in at most one slot, and only after it was added. *)
EntriesDistinct ==
  /\ \A i \in Slots : Added(dataFifo[i].req)
  /\ \A i, j \in Slots : dataFifo[i].req = dataFifo[j].req => i = j

(* f is what an entry e may have become: tried once more, or transmitted, or *)
(* nearer to its timeout.                                                    *)
Nearer(e, f) ==
  \/ e.resend < f.resend
  \/ e.resend = f.resend /\ ~e.sent /\ f.sent
  \/ e.resend = f.resend /\ e.sent = f.sent /\ e.age <= f.age

(* No step but addOrUpdateFifo puts a request into the FIFO.                 *)
FifoKept ==
  \/ UNCHANGED dataFifo
  \/ \E i \in Slots, e \in Entry :
       Sets(i, e) /\ e.req = dataFifo[i].req /\ Nearer(dataFifo[i], e)
  \/ \E k \in Slots : Drops(k)
  \/ Ages

LEMMA FifoKeptStep ==
  ASSUME TypeOK, [Next]_vars, ~addOrUpdateFifo
  PROVE  FifoKept
<1>a. /\ Slots = 1 .. Len(dataFifo) /\ Len(dataFifo) \in Nat
      /\ \A i \in Slots : dataFifo[i] \in Entry
  BY SlotType
<1>b. ASSUME NEW i \in Slots, TakeOut(i) PROVE FifoKept
  <2>1. Freed(i) \in Slots
    BY <1>a DEF Freed
  <2> QED BY <1>b, <2>1, FifoShapes DEF FifoKept
<1>c. ASSUME NEW i \in Slots, Retry(i), MayRetry(dataFifo[i]) PROVE FifoKept
  <2>1. /\ MarkUnsent(dataFifo[i]) \in Entry
        /\ MarkUnsent(dataFifo[i]).req = dataFifo[i].req
        /\ MarkUnsent(dataFifo[i]).resend = dataFifo[i].resend + 1
    BY <1>a, <1>c, EntryUpdates
  <2>2. dataFifo[i].resend \in Nat
    BY <1>a DEF Entry
  <2>3. Nearer(dataFifo[i], MarkUnsent(dataFifo[i]))
    BY <2>1, <2>2 DEF Nearer
  <2> QED BY <1>c, <2>1, <2>3, FifoShapes DEF FifoKept
<1>1. CASE UNCHANGED dataFifo
  BY <1>1 DEF FifoKept
<1>2. CASE OnSync
  <2>1. PICK i \in Slots :
          /\ ~dataFifo[i].sent
          /\ dataFifo' = IF responseExpected(dataFifo[i].req)
                          THEN [dataFifo EXCEPT ![i] = MarkSent(@)]
                          ELSE SwapRemove(dataFifo, i)
    BY <1>2 DEF OnSync, First, Unsent
  <2>2. /\ MarkSent(dataFifo[i]) \in Entry /\ MarkSent(dataFifo[i]).req = dataFifo[i].req
        /\ Nearer(dataFifo[i], MarkSent(dataFifo[i]))
    BY <1>a, <2>1, EntryUpdates DEF Nearer
  <2>3. CASE responseExpected(dataFifo[i].req)
    BY <2>1, <2>2, <2>3, FifoShapes DEF FifoKept
  <2>4. CASE ~responseExpected(dataFifo[i].req)
    BY <2>1, <2>4, FifoShapes DEF FifoKept
  <2> QED BY <2>3, <2>4
<1>3. ASSUME NEW i \in Slots, NEW code \in {"ok", "bad"},
             dataFifo' = [dataFifo EXCEPT ![i].resp = code]
      PROVE  FifoKept
  <2>1. /\ [dataFifo[i] EXCEPT !.resp = code] \in Entry
        /\ [dataFifo[i] EXCEPT !.resp = code].req = dataFifo[i].req
        /\ Nearer(dataFifo[i], [dataFifo[i] EXCEPT !.resp = code])
    BY <1>a DEF Entry, Nearer
  <2> DEFINE e == [dataFifo[i] EXCEPT !.resp = code]
  <2>2. dataFifo' = [dataFifo EXCEPT ![i] = e]
    BY <1>3
  <2>3. e \in Entry /\ e.req = dataFifo[i].req /\ Nearer(dataFifo[i], e)
    BY <2>1
  <2> HIDE DEF e
  <2> QED BY <2>2, <2>3, FifoShapes DEF FifoKept
<1>4. CASE CheckTimeout
  <2>1. sweepAt \in Slots
    BY <1>a, <1>4 DEF CheckTimeout, TypeOK
  <2> QED BY <1>1, <1>4, <1>c, <2>1, FifoShapes DEF CheckTimeout, Remove, FifoKept
<1>5. CASE CheckResponse
  BY <1>1, <1>5, <1>b, <1>c DEF CheckResponse
<1>6. CASE Tick
  BY <1>6, FifoShapes DEF FifoKept
<1> QED
  BY <1>1, <1>2, <1>3, <1>4, <1>5, <1>6
     DEF Next, Client, Bus, Maintain, Request, SetSwitch, Build, RequestRefused,
         OnReply, CheckTimeoutBegin, SaveResponse, vars

LEMMA FifoKeptRequests ==
  ASSUME TypeOK, TypeOK', FifoKept
  PROVE  /\ \A i \in Slots' : \E j \in Slots : dataFifo'[i].req = dataFifo[j].req
         /\ (\A i, j \in Slots : dataFifo[i].req = dataFifo[j].req => i = j)
              => \A i, j \in Slots' : dataFifo'[i].req = dataFifo'[j].req => i = j
<1>a. /\ Slots = 1 .. Len(dataFifo) /\ Len(dataFifo) \in Nat
      /\ Slots' = 1 .. Len(dataFifo')
  BY SlotType, LenProperties DEF TypeOK, Slots
<1>1. CASE UNCHANGED dataFifo
  BY <1>1 DEF Slots
<1>2. ASSUME NEW i \in Slots, NEW e \in Entry, Sets(i, e), e.req = dataFifo[i].req
      PROVE  /\ Slots' = Slots
             /\ \A j \in Slots : dataFifo'[j].req = dataFifo[j].req
  BY <1>a, <1>2 DEF Sets
<1>3. ASSUME NEW k \in Slots, Drops(k)
      PROVE  /\ Slots' = 1 .. Len(dataFifo) - 1
             /\ \A j \in Slots' : dataFifo'[j] =
                    dataFifo[IF j = k THEN Len(dataFifo) ELSE j]
  BY <1>a, <1>3 DEF Drops
<1>4. CASE \E k \in Slots : Drops(k)
  <2>1. PICK k \in Slots : Drops(k)
    BY <1>4
  <2> DEFINE from(j) == IF j = k THEN Len(dataFifo) ELSE j
  <2>2. \A i, j \in Slots' : from(i) \in Slots /\ (from(i) = from(j) => i = j)
    BY <1>a, <1>3, <2>1
  <2>3. \A j \in Slots' : dataFifo'[j] = dataFifo[from(j)]
    BY <1>3, <2>1
  <2> HIDE DEF from
  <2> QED BY <2>2, <2>3
<1>5. CASE Ages
  BY <1>a, <1>5 DEF Ages
<1> QED BY <1>1, <1>2, <1>4, <1>5 DEF FifoKept

(* Which requests count as added after a step.                               *)
LEMMA AddedStep ==
  ASSUME TypeOK, [Next]_vars
  PROVE  /\ \A r : Added(r) <=> r \in 1 .. (IF client = "adding" THEN Len(reqs) - 1
                                                              ELSE Len(reqs))
         /\ ~addOrUpdateFifo => \A r : Added(r)' <=> Added(r)
         /\ addOrUpdateFifo => \A r : Added(r)' <=> r \in 1 .. Len(reqs)
         /\ Len(reqs') >= Len(reqs)
         /\ \A r \in 1 .. Len(reqs) : reqs'[r] = reqs[r]
<1>a. Len(reqs) \in Nat
  BY LenProperties DEF TypeOK
<1>1. \A r : Added(r) <=> r \in 1 .. (IF client = "adding" THEN Len(reqs) - 1
                                                       ELSE Len(reqs))
  BY <1>a DEF Added
<1>2. CASE UNCHANGED <<reqs, client>>
  <2>1. ~addOrUpdateFifo
    BY <1>2 DEF addOrUpdateFifo
  <2> QED BY <1>1, <1>2, <1>a, <2>1 DEF Added
<1>3. ASSUME NEW k \in Keys, NEW id \in Ids \cup {NoId}, Build(k, id)
      PROVE  /\ ~addOrUpdateFifo
             /\ \A r : Added(r)' <=> Added(r)
             /\ Len(reqs') = Len(reqs) + 1
             /\ \A r \in 1 .. Len(reqs) : reqs'[r] = reqs[r]
  <2> DEFINE q == [key |-> k, id |-> id]
             R == [key : Keys, id : Ids \cup {NoId}]
  <2>1. q \in R /\ reqs \in Seq(R) /\ reqs' = Append(reqs, q)
    BY <1>3 DEF Build, TypeOK
  <2> HIDE DEF q, R
  <2>2. Len(reqs') = Len(reqs) + 1 /\ \A r \in 1 .. Len(reqs) : reqs'[r] = reqs[r]
    BY <2>1, AppendProperties
  <2>3. client = "idle" /\ client' = "adding"
    BY <1>3 DEF Build
  <2> QED BY <1>a, <2>2, <2>3 DEF addOrUpdateFifo, Added
<1>4. CASE addOrUpdateFifo
  BY <1>1, <1>4, <1>a DEF addOrUpdateFifo, Added
<1>5. \/ UNCHANGED <<reqs, client>>
      \/ addOrUpdateFifo
      \/ \E k \in Keys, id \in Ids \cup {NoId} : Build(k, id)
  <2>1. NextId(lastId) \in Ids
    BY SizesAssumption DEF TypeOK, Ids, NextId
  <2> QED BY <2>1
     DEF Next, Client, Bus, Maintain, Request, SetSwitch, RequestRefused, OnSync,
         OnReply, CheckTimeoutBegin, CheckTimeout, CheckResponse, SaveResponse,
         Tick, vars
<1> QED BY <1>1, <1>2, <1>3, <1>4, <1>5, <1>a

(* addOrUpdateFifo: the last request built becomes an added one, and is put  *)
(* over the first entry with its key, behind all others, or nowhere.         *)
LEMMA AddShapes ==
  ASSUME TypeOK, addOrUpdateFifo
  PROVE  LET r == Len(reqs) IN
         /\ r \in Requests /\ NewEntry(r) \in Entry /\ NewEntry(r).req = r
         /\ ~Added(r) /\ client = "adding" /\ UNCHANGED reqs
         /\ \/ \E i \in Slots : First(i, SameKeySlots(r)) /\ Sets(i, NewEntry(r))
            \/ /\ SameKeySlots(r) = {}
               /\ Pushes(NewEntry(r)) \/ UNCHANGED dataFifo
<1>1. Len(reqs) \in Requests
  BY LenProperties, EmptySeq DEF TypeOK, addOrUpdateFifo, Requests
<1>2. NewEntry(Len(reqs)) \in Entry /\ NewEntry(Len(reqs)).req = Len(reqs)
  BY <1>1, NewEntryType DEF NewEntry
<1>3. ~Added(Len(reqs)) /\ client = "adding" /\ UNCHANGED reqs
  BY DEF addOrUpdateFifo, Added
<1>4. \/ \E i \in Slots : /\ First(i, SameKeySlots(Len(reqs)))
                         /\ dataFifo' = [dataFifo EXCEPT ![i] = NewEntry(Len(reqs))]
      \/ /\ SameKeySlots(Len(reqs)) = {}
         /\ dataFifo' = Push(dataFifo, NewEntry(Len(reqs)), FifoSize)
  BY DEF addOrUpdateFifo
<1> QED BY <1>1, <1>2, <1>3, <1>4, FifoShapes

Base == TypeOK /\ EntriesDistinct

LEMMA BaseStep == Base /\ [Next]_vars => Base'
<1> SUFFICES ASSUME Base, [Next]_vars PROVE Base'
  OBVIOUS
<1>a. TypeOK /\ TypeOK' /\ EntriesDistinct
  BY TypeOKStep DEF Base
<1>b. /\ Slots = 1 .. Len(dataFifo) /\ Len(dataFifo) \in Nat
      /\ Slots' = 1 .. Len(dataFifo')
  BY <1>a, SlotType, LenProperties DEF TypeOK, Slots
<1>1. CASE ~addOrUpdateFifo
  <2>1. FifoKept
    BY <1>1, <1>a, FifoKeptStep
  <2> QED BY <1>1, <1>a, <2>1, FifoKeptRequests, AddedStep DEF EntriesDistinct, Base
<1>2. CASE addOrUpdateFifo
  <2> DEFINE r == Len(reqs)
             e == NewEntry(r)
  <2>1. /\ e.req = r /\ ~Added(r)
        /\ \/ \E i \in Slots : Sets(i, e)
           \/ Pushes(e) \/ UNCHANGED dataFifo
    BY <1>2, <1>a, AddShapes
  <2>2. r \in 1 .. Len(reqs) /\ UNCHANGED reqs /\ client' = "idle"
    <3>1. Len(reqs) \in Nat /\ Len(reqs) \in Requests
      BY <1>2, <1>a, AddShapes, LenProperties DEF TypeOK
    <3> QED BY <1>2, <3>1 DEF Requests, addOrUpdateFifo
  <2>3. \A j \in Slots : dataFifo[j].req # r /\ dataFifo[j].req \in 1 .. Len(reqs)
    BY <1>a, <2>1 DEF EntriesDistinct, Added
  <2> HIDE DEF e, r
  <2>4. CASE \E i \in Slots : Sets(i, e)
    <3>1. PICK i \in Slots : Sets(i, e)
      BY <2>4
    <3>2. /\ Slots' = Slots
          /\ \A j \in Slots : dataFifo'[j] = IF j = i THEN e ELSE dataFifo[j]
      BY <1>b, <3>1 DEF Sets
    <3>3. \A j \in Slots' : dataFifo'[j].req \in 1 .. Len(reqs)
      BY <2>1, <2>2, <2>3, <3>2
    <3>4. \A j, k \in Slots' : dataFifo'[j].req = dataFifo'[k].req => j = k
      BY <1>a, <2>1, <2>3, <3>2 DEF EntriesDistinct
    <3> QED BY <1>a, <2>2, <3>3, <3>4 DEF EntriesDistinct, Base, Added
  <2>5. CASE Pushes(e)
    <3>1. /\ Slots' = 1 .. Len(dataFifo) + 1
          /\ \A j \in Slots' : dataFifo'[j] = IF j = Len(dataFifo) + 1 THEN e
                                                                  ELSE dataFifo[j]
          /\ \A j \in Slots' : j # Len(dataFifo) + 1 => j \in Slots
      BY <1>b, <2>5 DEF Pushes
    <3>3. \A j \in Slots' : dataFifo'[j].req \in 1 .. Len(reqs)
      BY <2>1, <2>2, <2>3, <3>1
    <3>4. \A j, k \in Slots' : dataFifo'[j].req = dataFifo'[k].req => j = k
      BY <1>a, <2>1, <2>3, <3>1 DEF EntriesDistinct
    <3> QED BY <1>a, <2>2, <3>3, <3>4 DEF EntriesDistinct, Base, Added
  <2>6. CASE UNCHANGED dataFifo
    BY <1>a, <1>b, <2>2, <2>3, <2>6 DEF EntriesDistinct, Base, Added
  <2> QED BY <2>1, <2>4, <2>5, <2>6
<1> QED BY <1>1, <1>2

LEMMA BaseInit == Init => Base
<1> SUFFICES ASSUME Init PROVE Base
  OBVIOUS
<1>1. TypeOK
  BY SizesAssumption, EmptySeq DEF Init, TypeOK, Ids, Requests
<1>2. Slots = {}
  BY <1>1, SlotType, EmptySeq DEF Init
<1> QED BY <1>1, <1>2 DEF Base, EntriesDistinct

(* The part of the invariant all later proofs rest on: the types, and no    *)
(* request in two slots of the FIFO.                                         *)
THEOREM BaseCorrect == Spec => []Base
BY BaseInit, BaseStep, PTL DEF Spec

-------------------------------------------------------------------------------
(* Requests move on.                                                         *)

(* A queued request only gets nearer to leaving the FIFO, in whatever slot   *)
(* it is found afterwards: what it lost of its age it paid for with one of   *)
(* its retries or with a transmission, and both are limited.                 *)
RequestsMoveOn ==
  [][\A i \in Slots, j \in Slots' :
       dataFifo[i].req = dataFifo'[j].req => Nearer(dataFifo[i], dataFifo'[j])]_vars

LEMMA NearerToItself == ASSUME NEW e \in Entry PROVE Nearer(e, e)
BY DEF Nearer, Entry

LEMMA MovesOn ==
  ASSUME Base, [Next]_vars, NEW i \in Slots, NEW j \in Slots',
         dataFifo[i].req = dataFifo'[j].req
  PROVE  Nearer(dataFifo[i], dataFifo'[j])
<1>a. TypeOK /\ TypeOK' /\ EntriesDistinct
  BY TypeOKStep DEF Base
<1>b. /\ Slots = 1 .. Len(dataFifo) /\ Len(dataFifo) \in Nat
      /\ Slots' = 1 .. Len(dataFifo')
      /\ \A k \in Slots : dataFifo[k] \in Entry
  BY <1>a, SlotType, LenProperties DEF TypeOK, Slots
<1>c. ASSUME NEW k \in Slots, dataFifo'[j] = dataFifo[k]
      PROVE  Nearer(dataFifo[i], dataFifo'[j])
  <2>1. k = i
    BY <1>a, <1>c DEF EntriesDistinct
  <2> QED BY <1>b, <1>c, <2>1, NearerToItself
<1>1. CASE addOrUpdateFifo
  <2> DEFINE e == NewEntry(Len(reqs))
  <2>1. /\ e.req = Len(reqs) /\ ~Added(Len(reqs))
        /\ \/ \E k \in Slots : Sets(k, e)
           \/ Pushes(e) \/ UNCHANGED dataFifo
    BY <1>1, <1>a, AddShapes
  <2>2. dataFifo[i].req # e.req
    BY <1>a, <2>1 DEF EntriesDistinct
  <2> HIDE DEF e
  <2>3. j \in Slots /\ dataFifo'[j] = dataFifo[j]
    BY <1>b, <2>1, <2>2 DEF Sets, Pushes
  <2> QED BY <1>c, <2>3
<1>2. CASE ~addOrUpdateFifo
  <2>1. FifoKept
    BY <1>2, <1>a, FifoKeptStep
  <2>2. CASE UNCHANGED dataFifo
    BY <1>b, <1>c, <2>2
  <2>3. ASSUME NEW k \in Slots, NEW e \in Entry,
               Sets(k, e), e.req = dataFifo[k].req, Nearer(dataFifo[k], e)
        PROVE  Nearer(dataFifo[i], dataFifo'[j])
    <3>1. j \in Slots /\ dataFifo'[j] = IF j = k THEN e ELSE dataFifo[j]
      BY <1>b, <2>3 DEF Sets
    <3>2. CASE j = k
      <4>1. i = k
        BY <1>a, <2>3, <3>1, <3>2 DEF EntriesDistinct
      <4> QED BY <2>3, <3>1, <3>2, <4>1
    <3>3. CASE j # k
      BY <1>c, <3>1, <3>3
    <3> QED BY <3>2, <3>3
  <2>4. ASSUME NEW k \in Slots, Drops(k)
        PROVE  Nearer(dataFifo[i], dataFifo'[j])
    <3> DEFINE from == IF j = k THEN Len(dataFifo) ELSE j
    <3>1. from \in Slots /\ dataFifo'[j] = dataFifo[from]
      BY <1>b, <2>4 DEF Drops
    <3> QED BY <1>c, <3>1
  <2>5. CASE Ages
    <3>1. /\ j \in Slots /\ dataFifo'[j].req = dataFifo[j].req
          /\ dataFifo'[j].sent = dataFifo[j].sent
          /\ dataFifo'[j].resend = dataFifo[j].resend
          /\ dataFifo'[j].age >= dataFifo[j].age
      BY <1>b, <2>5 DEF Ages
    <3>2. i = j
      BY <1>a, <3>1 DEF EntriesDistinct
    <3> QED BY <3>1, <3>2 DEF Nearer
  <2> QED BY <2>1, <2>2, <2>3, <2>4, <2>5 DEF FifoKept
<1> QED BY <1>1, <1>2

(* No request is ever put back in its way out of the FIFO, wherever swaps    *)
(* and the wrong assignment move its entry.                                  *)
THEOREM RequestsMoveOnCorrect == Spec => RequestsMoveOn
<1>1. ASSUME Base, [Next]_vars
      PROVE  [\A i \in Slots, j \in Slots' :
                dataFifo[i].req = dataFifo'[j].req => Nearer(dataFifo[i], dataFifo'[j])]_vars
  BY <1>1, MovesOn
<1> QED BY <1>1, BaseCorrect, PTL DEF Spec, RequestsMoveOn

-------------------------------------------------------------------------------
(* Newer requests supersede older ones.                                      *)

LEMMA NoStaleEntryStep ==
  ASSUME Base, NoStaleEntry, [Next]_vars
  PROVE  NoStaleEntry'
<1>a. TypeOK /\ TypeOK' /\ EntriesDistinct
  BY TypeOKStep DEF Base
<1>b. /\ Slots = 1 .. Len(dataFifo) /\ Len(dataFifo) \in Nat
      /\ Slots' = 1 .. Len(dataFifo') /\ Len(reqs) \in Nat
  BY <1>a, SlotType, LenProperties DEF TypeOK, Slots
<1>c. \A q \in 1 .. Len(reqs) : Key(q)' = Key(q)
  BY <1>a, AddedStep DEF Key
<1>d. \A j \in Slots : dataFifo[j].req \in 1 .. Len(reqs)
  BY <1>a DEF EntriesDistinct, Added
<1>1. CASE ~addOrUpdateFifo
  <2>1. \A i \in Slots' : \E j \in Slots : dataFifo'[i].req = dataFifo[j].req
    BY <1>1, <1>a, FifoKeptStep, FifoKeptRequests
  <2>2. \A q : Added(q)' => Added(q) /\ q \in 1 .. Len(reqs)
    BY <1>1, <1>a, AddedStep DEF Added
  <2> SUFFICES ASSUME NEW i \in Slots', NEW q \in Requests, Added(q)',
                      Key(q)' = Key(dataFifo[i].req)'
               PROVE  q <= dataFifo'[i].req
    BY DEF NoStaleEntry
  <2>3. PICK j \in Slots : dataFifo'[i].req = dataFifo[j].req
    BY <2>1
  <2>4. Key(dataFifo[i].req)' = Key(dataFifo[j].req)
    BY <1>c, <1>d, <2>3 DEF Key
  <2>5. Added(q) /\ Key(q) = Key(dataFifo[j].req)
    BY <1>c, <2>2, <2>4
  <2> QED BY <2>3, <2>5 DEF NoStaleEntry
<1>2. CASE addOrUpdateFifo
  <2> DEFINE r == Len(reqs)
             e == NewEntry(r)
  <2>1. /\ e.req = r /\ UNCHANGED reqs /\ r \in Requests
        /\ \/ \E i \in Slots : First(i, SameKeySlots(r)) /\ Sets(i, e)
           \/ SameKeySlots(r) = {} /\ (Pushes(e) \/ UNCHANGED dataFifo)
    BY <1>2, <1>a, AddShapes
  <2>2. \A q : Added(q)' => q \in 1 .. r /\ (q # r => Added(q))
    BY <1>2, <1>a, <1>b, AddedStep DEF addOrUpdateFifo
  <2>3. ASSUME NEW q \in Requests, Added(q)', NEW j \in Slots,
               Key(q) = Key(dataFifo[j].req), j \notin SameKeySlots(r)
        PROVE  q <= dataFifo[j].req
    BY <2>2, <2>3 DEF SameKeySlots, NoStaleEntry
  <2>4. \A i, j \in SameKeySlots(r) : i = j
    <3> SUFFICES ASSUME NEW i \in SameKeySlots(r), NEW j \in SameKeySlots(r)
                 PROVE  i = j
      OBVIOUS
    <3>1. /\ i \in Slots /\ j \in Slots
          /\ Key(dataFifo[i].req) = Key(dataFifo[j].req)
      BY DEF SameKeySlots
    <3>2. \A k \in Slots : dataFifo[k].req \in Requests /\ Added(dataFifo[k].req)
      BY <1>a, SlotType DEF Entry, EntriesDistinct
    <3>3. dataFifo[i].req <= dataFifo[j].req /\ dataFifo[j].req <= dataFifo[i].req
      BY <3>1, <3>2 DEF NoStaleEntry
    <3>4. dataFifo[i].req = dataFifo[j].req
      BY <1>d, <3>1, <3>3
    <3> QED BY <1>a, <3>1, <3>4 DEF EntriesDistinct
  <2>5. \A q : Key(q)' = Key(q)
    BY <2>1 DEF Key
  <2> SUFFICES ASSUME NEW i \in Slots', NEW q \in Requests, Added(q)',
                      Key(q) = Key(dataFifo'[i].req)
               PROVE  q <= dataFifo'[i].req
    BY <2>1 DEF NoStaleEntry, Key
  <2>6. q <= r
    BY <1>b, <2>2
  <2> HIDE DEF e, r
  <2>7. CASE \E k \in Slots : First(k, SameKeySlots(r)) /\ Sets(k, e)
    <3>1. PICK k \in Slots : First(k, SameKeySlots(r)) /\ Sets(k, e)
      BY <2>7
    <3>2. CASE i = k
      BY <1>b, <2>1, <2>6, <3>1, <3>2 DEF Sets
    <3>3. CASE i # k
      <4>1. i \in Slots /\ dataFifo'[i] = dataFifo[i]
        BY <1>b, <3>1, <3>3 DEF Sets
      <4>2. i \notin SameKeySlots(r)
        BY <2>4, <3>1, <3>3 DEF First
      <4> QED BY <2>3, <4>1, <4>2
    <3> QED BY <3>2, <3>3
  <2>8. CASE SameKeySlots(r) = {} /\ Pushes(e)
    <3>1. CASE i = Len(dataFifo) + 1
      BY <1>b, <2>1, <2>6, <2>8, <3>1 DEF Pushes
    <3>2. CASE i # Len(dataFifo) + 1
      <4>1. i \in Slots /\ dataFifo'[i] = dataFifo[i]
        BY <1>b, <2>8, <3>2 DEF Pushes
      <4> QED BY <2>3, <2>8, <4>1
    <3> QED BY <3>1, <3>2
  <2>9. CASE SameKeySlots(r) = {} /\ UNCHANGED dataFifo
    BY <1>b, <2>3, <2>9
  <2> QED BY <2>1, <2>7, <2>8, <2>9
<1> QED BY <1>1, <1>2

(* No queued request is older than an added one with the same address and    *)
(* command: the inverter is never sent a set point that was overruled.       *)
THEOREM NoStaleEntryCorrect == Spec => []NoStaleEntry
<1>1. Init => NoStaleEntry
  BY DEF Init, NoStaleEntry, Added
<1>2. Base /\ NoStaleEntry /\ [Next]_vars => NoStaleEntry'
  BY NoStaleEntryStep
<1> QED BY <1>1, <1>2, BaseCorrect, PTL DEF Spec

(* Nothing has happened yet to a request that is not added. *)
FreshUntouched ==
  \A r \in Requests : ~Added(r) => /\ sends[r] = 0
                                   /\ replies[r] = 0
                                   /\ delivered[r] = 0
                                   /\ ~(maintain = "save" /\ got = r)

(* Every transmission of a queued request is paid for by its resendCount,   *)
(* the first one and the one it still waits for included.                   *)
SendsCounted ==
  \A i \in Slots :
    LET e == dataFifo[i] IN
    IF responseExpected(e.req)
      THEN sends[e.req] + (IF e.sent THEN 0 ELSE 1) <= e.resend + 1
      ELSE sends[e.req] = 0 /\ ~e.sent

LEMMA FreshUntouchedStep ==
  ASSUME Base, FreshUntouched, [Next]_vars
  PROVE  FreshUntouched'
<1>a. TypeOK /\ EntriesDistinct
  BY DEF Base
<1>b. \A r : ~Added(r)' => ~Added(r)
  <2>1. CASE addOrUpdateFifo
    BY <1>a, <2>1, AddedStep DEF Added
  <2> QED BY <1>a, <2>1, AddedStep
<1>c. \A i \in Slots : dataFifo[i].req \in Requests /\ Added(dataFifo[i].req)
  BY <1>a, SlotType DEF EntriesDistinct, Entry
<1> SUFFICES ASSUME NEW r \in Requests, ~Added(r)'
             PROVE  /\ sends'[r] = 0 /\ replies'[r] = 0 /\ delivered'[r] = 0
                    /\ ~(maintain' = "save" /\ got' = r)
  BY DEF FreshUntouched
<1>d. /\ ~Added(r) /\ sends[r] = 0 /\ replies[r] = 0 /\ delivered[r] = 0
      /\ ~(maintain = "save" /\ got = r)
  BY <1>b DEF FreshUntouched
<1>1. CASE UNCHANGED <<history, maintain, got>>
  BY <1>1, <1>d DEF history
<1>2. CASE OnSync
  <2>1. PICK i \in Slots : sends' = [sends EXCEPT ![dataFifo[i].req] = @ + 1]
    BY <1>2 DEF OnSync
  <2>2. dataFifo[i].req # r
    BY <1>c, <1>d
  <2> QED BY <1>2, <1>a, <1>d, <2>1, <2>2 DEF OnSync, TypeOK
<1>3. ASSUME NEW q \in 1 .. Len(reqs), NEW code \in {"ok", "bad"}, OnReply(q, code)
      PROVE  /\ replies'[r] = 0
             /\ UNCHANGED <<sends, delivered, maintain, got>>
  <2>1. replies' = [replies EXCEPT ![q] = @ + 1] /\ replies[q] < sends[q]
    BY <1>3 DEF OnReply
  <2>2. q # r
    BY <1>d, <2>1
  <2> QED BY <1>3, <1>a, <1>d, <2>1, <2>2 DEF OnReply, TypeOK
<1>4. CASE CheckTimeoutBegin \/ CheckTimeout
  BY <1>4, <1>d DEF CheckTimeoutBegin, CheckTimeout, history
<1>5. CASE CheckResponse
  <2>1. UNCHANGED history
    BY <1>5 DEF CheckResponse
  <2>2. maintain' = "save" => \E i \in Slots : got' = dataFifo[i].req
    BY <1>5 DEF CheckResponse
  <2> QED BY <1>c, <1>d, <2>1, <2>2 DEF history
<1>6. CASE SaveResponse
  BY <1>6, <1>a, <1>d DEF SaveResponse, TypeOK
<1> QED
  BY <1>1, <1>2, <1>3, <1>4, <1>5, <1>6, <1>d
     DEF Next, Client, Bus, Maintain, Request, SetSwitch, Build, RequestRefused,
         addOrUpdateFifo, Tick, vars

(* SendsCounted only looks at req, sent and resend.                          *)
LEMMA SendsCountedKept ==
  ASSUME TypeOK, TypeOK', EntriesDistinct, SendsCounted, UNCHANGED sends, FifoKept,
         \A q \in 1 .. Len(reqs) : reqs'[q] = reqs[q],
         \A i \in Slots, e \in Entry : Sets(i, e) /\ e.req = dataFifo[i].req =>
           \/ e.sent = dataFifo[i].sent /\ e.resend = dataFifo[i].resend
           \/ e.resend = dataFifo[i].resend + 1 /\ ~e.sent
  PROVE  SendsCounted'
<1>a. /\ Slots = 1 .. Len(dataFifo) /\ Len(dataFifo) \in Nat
      /\ Slots' = 1 .. Len(dataFifo')
      /\ \A i \in Slots : dataFifo[i] \in Entry
  BY SlotType, LenProperties DEF TypeOK, Slots
<1>1. \A i \in Slots : dataFifo[i].req \in Requests /\ dataFifo[i].req \in 1 .. Len(reqs)
  BY <1>a DEF EntriesDistinct, Added, Entry
<1>2. \A i \in Slots' : \E j \in Slots :
        /\ dataFifo'[i].req = dataFifo[j].req
        /\ \/ /\ dataFifo'[i].sent = dataFifo[j].sent
              /\ dataFifo'[i].resend = dataFifo[j].resend
           \/ dataFifo'[i].resend = dataFifo[j].resend + 1 /\ ~dataFifo'[i].sent
  <2>1. CASE UNCHANGED dataFifo
    BY <2>1 DEF Slots
  <2>2. CASE \E i \in Slots, e \in Entry : Sets(i, e) /\ e.req = dataFifo[i].req
    <3>1. PICK k \in Slots, e \in Entry : Sets(k, e) /\ e.req = dataFifo[k].req
      BY <2>2
    <3>2. \/ e.sent = dataFifo[k].sent /\ e.resend = dataFifo[k].resend
          \/ e.resend = dataFifo[k].resend + 1 /\ ~e.sent
      BY <3>1
    <3>3. /\ Slots' = Slots
          /\ \A i \in Slots : dataFifo'[i] = IF i = k THEN e ELSE dataFifo[i]
      BY <1>a, <3>1 DEF Sets
    <3> QED BY <3>1, <3>2, <3>3
  <2>3. CASE \E k \in Slots : Drops(k)
    <3>1. PICK k \in Slots : Drops(k)
      BY <2>3
    <3>2. \A i \in Slots' : dataFifo'[i] = dataFifo[IF i = k THEN Len(dataFifo) ELSE i]
                         /\ (IF i = k THEN Len(dataFifo) ELSE i) \in Slots
      BY <1>a, <3>1 DEF Drops
    <3> QED BY <3>2
  <2>4. CASE Ages
    BY <1>a, <2>4 DEF Ages
  <2> QED BY <2>1, <2>2, <2>3, <2>4 DEF FifoKept
<1> SUFFICES ASSUME NEW i \in Slots'
             PROVE  LET e == dataFifo'[i] IN
                    IF reqs'[e.req].id # NoId
                      THEN sends'[e.req] + (IF e.sent THEN 0 ELSE 1) <= e.resend + 1
                      ELSE sends'[e.req] = 0 /\ ~e.sent
  BY DEF SendsCounted, responseExpected, Id
<1>3. PICK j \in Slots :
        /\ dataFifo'[i].req = dataFifo[j].req
        /\ \/ /\ dataFifo'[i].sent = dataFifo[j].sent
              /\ dataFifo'[i].resend = dataFifo[j].resend
           \/ dataFifo'[i].resend = dataFifo[j].resend + 1 /\ ~dataFifo'[i].sent
  BY <1>2
<1> DEFINE e == dataFifo[j]
<1>4. /\ reqs'[e.req] = reqs[e.req] /\ sends'[e.req] = sends[e.req]
      /\ sends[e.req] \in Nat /\ e.resend \in Nat /\ e.sent \in BOOLEAN
  <2>1. e \in Entry /\ e.req \in Requests /\ e.req \in 1 .. Len(reqs)
    BY <1>a, <1>1
  <2>2. e.resend \in Nat /\ e.sent \in BOOLEAN
    BY <2>1, SizesAssumption DEF Entry
  <2> HIDE DEF e
  <2> QED BY <2>1, <2>2 DEF TypeOK
<1>5. IF reqs[e.req].id # NoId
        THEN sends[e.req] + (IF e.sent THEN 0 ELSE 1) <= e.resend + 1
        ELSE sends[e.req] = 0 /\ ~e.sent
  BY DEF SendsCounted, responseExpected, Id
<1>6. sends[e.req] <= e.resend + 1
  BY <1>4, <1>5
<1> HIDE DEF e
<1> QED BY <1>3, <1>4, <1>5, <1>6 DEF e

(* An entry changes its sent flag or its count only when it is sent or       *)
(* marked for a retry.                                                       *)
LEMMA EntryChange ==
  ASSUME TypeOK, [Next]_vars, ~addOrUpdateFifo, ~OnSync,
         NEW i \in Slots, NEW e \in Entry, Sets(i, e), e.req = dataFifo[i].req
  PROVE  \/ e.sent = dataFifo[i].sent /\ e.resend = dataFifo[i].resend
         \/ e.resend = dataFifo[i].resend + 1 /\ ~e.sent
<1>a. /\ Slots = 1 .. Len(dataFifo) /\ Len(dataFifo) \in Nat
      /\ \A j \in Slots : dataFifo[j] \in Entry
  BY SlotType
<1>b. dataFifo'[i] = e /\ Len(dataFifo') = Len(dataFifo)
  BY <1>a DEF Sets
<1>c. ASSUME NEW k \in Slots, Drops(k) PROVE FALSE
  BY <1>a, <1>b, <1>c DEF Drops
<1>d. ASSUME NEW k \in Slots, TakeOut(k) PROVE FALSE
  <2>1. Freed(k) \in Slots
    BY <1>a DEF Freed
  <2> QED BY <1>c, <1>d, <2>1, FifoShapes
<1>e. ASSUME NEW k \in Slots, Retry(k), MayRetry(dataFifo[k])
      PROVE  \/ e.sent = dataFifo[i].sent /\ e.resend = dataFifo[i].resend
             \/ e.resend = dataFifo[i].resend + 1 /\ ~e.sent
  <2>1. dataFifo'[i] = IF i = k THEN MarkUnsent(dataFifo[k]) ELSE dataFifo[i]
    BY <1>a, <1>e, FifoShapes DEF Sets
  <2> QED BY <1>a, <1>b, <2>1, EntryUpdates
<1>1. CASE UNCHANGED dataFifo
  BY <1>1, <1>b
<1>2. ASSUME NEW k \in Slots, NEW code \in {"ok", "bad"},
             dataFifo' = [dataFifo EXCEPT ![k].resp = code]
      PROVE  e.sent = dataFifo[i].sent /\ e.resend = dataFifo[i].resend
  <2> DEFINE f == [dataFifo[k] EXCEPT !.resp = code]
  <2>1. f \in Entry /\ f.sent = dataFifo[k].sent /\ f.resend = dataFifo[k].resend
    BY <1>a DEF Entry
  <2>2. dataFifo' = [dataFifo EXCEPT ![k] = f]
    BY <1>2
  <2> HIDE DEF f
  <2>3. Sets(k, f)
    BY <2>1, <2>2, FifoShapes
  <2> QED BY <1>a, <1>b, <2>1, <2>3 DEF Sets
<1>3. CASE CheckTimeout
  <2>1. sweepAt \in Slots
    BY <1>a, <1>3 DEF CheckTimeout, TypeOK
  <2> QED BY <1>1, <1>3, <1>c, <1>e, <2>1, FifoShapes DEF CheckTimeout, Remove
<1>4. CASE CheckResponse
  BY <1>1, <1>4, <1>d, <1>e DEF CheckResponse
<1>5. CASE Tick
  BY <1>a, <1>b, <1>5, FifoShapes DEF Ages
<1> QED
  BY <1>1, <1>2, <1>3, <1>4, <1>5
     DEF Next, Client, Bus, Maintain, Request, SetSwitch, Build, RequestRefused,
         OnReply, CheckTimeoutBegin, SaveResponse, vars

LEMMA SendsCountedStep ==
  ASSUME Base, FreshUntouched, SendsCounted, [Next]_vars
  PROVE  SendsCounted'
<1>a. TypeOK /\ TypeOK' /\ EntriesDistinct
  BY TypeOKStep DEF Base
<1>b. /\ Slots = 1 .. Len(dataFifo) /\ Len(dataFifo) \in Nat
      /\ Slots' = 1 .. Len(dataFifo')
      /\ \A i \in Slots : dataFifo[i] \in Entry
  BY <1>a, SlotType, LenProperties DEF TypeOK, Slots
<1>c. \A q \in 1 .. Len(reqs) : reqs'[q] = reqs[q]
  BY <1>a, AddedStep
<1>1. CASE ~addOrUpdateFifo /\ ~OnSync
  <2>1. FifoKept
    BY <1>1, <1>a, FifoKeptStep
  <2>2. \A i \in Slots, e \in Entry : Sets(i, e) /\ e.req = dataFifo[i].req =>
          \/ e.sent = dataFifo[i].sent /\ e.resend = dataFifo[i].resend
          \/ e.resend = dataFifo[i].resend + 1 /\ ~e.sent
    BY <1>1, <1>a, EntryChange
  <2>3. UNCHANGED sends
    BY <1>1
       DEF Next, Client, Bus, Maintain, Request, SetSwitch, Build, RequestRefused,
           OnReply, CheckTimeoutBegin, CheckTimeout, CheckResponse, SaveResponse,
           Tick, vars, history
  <2> QED BY <1>a, <1>c, <2>1, <2>2, <2>3, SendsCountedKept
<1> DEFINE Counted(e, rq, n) ==
             IF rq[e.req].id # NoId
               THEN n[e.req] + (IF e.sent THEN 0 ELSE 1) <= e.resend + 1
               ELSE n[e.req] = 0 /\ ~e.sent
<1>d. \A i \in Slots : Counted(dataFifo[i], reqs, sends)
  BY DEF SendsCounted, responseExpected, Id
<1>e. (\A i \in Slots' : Counted(dataFifo'[i], reqs', sends')) => SendsCounted'
  BY DEF SendsCounted, responseExpected, Id
<1>2. CASE addOrUpdateFifo
  <2> DEFINE f == NewEntry(Len(reqs))
  <2>1. /\ f \in Entry /\ UNCHANGED reqs
        /\ ~Added(f.req) /\ f.req \in Requests
        /\ (\E i \in Slots : Sets(i, f)) \/ Pushes(f) \/ UNCHANGED dataFifo
    BY <1>2, <1>a, AddShapes
  <2>2. f.resend = 0 /\ ~f.sent
    BY DEF NewEntry
  <2>3. UNCHANGED sends
    BY <1>2 DEF addOrUpdateFifo, history
  <2>4. sends[f.req] = 0
    BY <2>1 DEF FreshUntouched
  <2> HIDE DEF f
  <2>5. Counted(f, reqs, sends)
    BY <2>2, <2>4
  <2>6. \A i \in Slots' : dataFifo'[i] = f \/ \E j \in Slots : dataFifo'[i] = dataFifo[j]
    <3>1. CASE \E i \in Slots : Sets(i, f)
      BY <1>b, <3>1 DEF Sets
    <3>2. CASE Pushes(f)
      BY <1>b, <3>2 DEF Pushes
    <3>3. CASE UNCHANGED dataFifo
      BY <3>3 DEF Slots
    <3> QED BY <2>1, <3>1, <3>2, <3>3
  <2>7. \A i \in Slots' : Counted(dataFifo'[i], reqs, sends)
    <3> HIDE DEF Counted
    <3> QED BY <1>d, <2>5, <2>6
  <2> QED BY <1>e, <2>1, <2>3, <2>7
<1>3. CASE OnSync
  <2>1. PICK i \in Slots :
          /\ i \in Unsent
          /\ sends' = [sends EXCEPT ![dataFifo[i].req] = @ + 1]
          /\ dataFifo' = IF responseExpected(dataFifo[i].req)
                           THEN [dataFifo EXCEPT ![i] = MarkSent(@)]
                           ELSE SwapRemove(dataFifo, i)
    BY <1>3 DEF OnSync, First
  <2>2. UNCHANGED reqs
    BY <1>3 DEF OnSync
  <2>3. ASSUME NEW j \in Slots, j # i PROVE Counted(dataFifo[j], reqs, sends')
    <3>1. dataFifo[j].req # dataFifo[i].req /\ dataFifo[j].req \in Requests
      BY <1>a, <1>b, <2>3 DEF EntriesDistinct, Entry
    <3>2. sends'[dataFifo[j].req] = sends[dataFifo[j].req]
      BY <1>a, <2>1, <3>1 DEF TypeOK
    <3> QED BY <1>d, <3>2
  <2>4. CASE responseExpected(dataFifo[i].req)
    <3> DEFINE f == MarkSent(dataFifo[i])
    <3>1. f \in Entry /\ f.sent /\ f.resend = dataFifo[i].resend /\ f.req = dataFifo[i].req
      BY <1>b, EntryUpdates
    <3>2. Sets(i, f)
      BY <1>a, <2>1, <2>4, <3>1, FifoShapes
    <3> HIDE DEF f
    <3>3. ~dataFifo[i].sent /\ dataFifo[i].req \in Requests /\ dataFifo[i].resend \in Nat
      BY <1>b, <2>1 DEF Unsent, Entry
    <3>4. sends'[dataFifo[i].req] = sends[dataFifo[i].req] + 1
      BY <1>a, <2>1, <3>3 DEF TypeOK
    <3>5. sends[dataFifo[i].req] + 1 <= dataFifo[i].resend + 1
      BY <1>d, <2>4, <3>3 DEF responseExpected, Id
    <3>6. Counted(f, reqs, sends')
      <4>1. (IF f.sent THEN 0 ELSE 1) = 0 /\ sends[dataFifo[i].req] \in Nat
        BY <1>a, <3>1, <3>3 DEF TypeOK
      <4>2. reqs[f.req].id # NoId
        BY <2>4, <3>1 DEF responseExpected, Id
      <4>3. sends'[f.req] + 0 <= f.resend + 1
        BY <3>1, <3>4, <3>5, <4>1
      <4> QED BY <4>1, <4>2, <4>3
    <3>7. \A j \in Slots' : j \in Slots /\ dataFifo'[j] = IF j = i THEN f ELSE dataFifo[j]
      BY <1>b, <3>2 DEF Sets
    <3>8. \A j \in Slots' : Counted(dataFifo'[j], reqs, sends')
      <4> HIDE DEF Counted
      <4> QED BY <2>3, <3>6, <3>7
    <3> QED BY <1>e, <2>2, <3>8
  <2>5. CASE ~responseExpected(dataFifo[i].req)
    <3>1. Drops(i)
      BY <1>a, <2>1, <2>5, FifoShapes
    <3>2. \A j \in Slots' : \E k \in Slots : k # i /\ dataFifo'[j] = dataFifo[k]
      BY <1>b, <3>1 DEF Drops
    <3>3. \A j \in Slots' : Counted(dataFifo'[j], reqs, sends')
      <4> HIDE DEF Counted
      <4> QED BY <2>3, <3>2
    <3> QED BY <1>e, <2>2, <3>3
  <2> QED BY <2>4, <2>5
<1> QED BY <1>1, <1>2, <1>3

LEMMA SendBoundStep ==
  ASSUME Base, FreshUntouched, SendsCounted, SendBound, [Next]_vars
  PROVE  SendBound'
<1>a. TypeOK /\ EntriesDistinct
  BY DEF Base
<1>b. \A r \in 1 .. Len(reqs) : reqs'[r] = reqs[r]
  BY <1>a, AddedStep
<1>c. Len(reqs) \in Nat /\ Len(reqs') \in Nat /\ Len(reqs') >= Len(reqs)
  BY <1>a, TypeOKStep, AddedStep, LenProperties DEF TypeOK
<1> SUFFICES ASSUME NEW r \in Requests
             PROVE  sends'[r] <= IF r \in 1 .. Len(reqs') /\ reqs'[r].id # NoId
                                   THEN MaxResend + 1 ELSE 1
  BY DEF SendBound, responseExpected, Id
<1>d. sends[r] <= IF r \in 1 .. Len(reqs) /\ reqs[r].id # NoId
                    THEN MaxResend + 1 ELSE 1
  BY DEF SendBound, responseExpected, Id
<1>e. sends[r] \in Nat /\ MaxResend \in Nat
  BY <1>a, SizesAssumption DEF TypeOK
<1>1. CASE UNCHANGED sends
  BY <1>1, <1>b, <1>c, <1>d, <1>e
<1>2. CASE OnSync
  <2>1. PICK i \in Slots :
          i \in Unsent /\ sends' = [sends EXCEPT ![dataFifo[i].req] = @ + 1]
    BY <1>2 DEF OnSync, First
  <2>2. CASE r # dataFifo[i].req
    <3>1. sends'[r] = sends[r]
      BY <1>a, <2>1, <2>2 DEF TypeOK
    <3> QED BY <1>b, <1>c, <1>d, <1>e, <3>1
  <2>3. CASE r = dataFifo[i].req
    <3>1. /\ sends'[r] = sends[r] + 1 /\ ~dataFifo[i].sent
          /\ dataFifo[i].resend \in Nat /\ dataFifo[i].resend <= MaxResend
          /\ r \in 1 .. Len(reqs)
      <4>1. sends' = [sends EXCEPT ![r] = @ + 1] /\ ~dataFifo[i].sent
        BY <2>1, <2>3 DEF Unsent
      <4>2. sends'[r] = sends[r] + 1
        BY <1>a, <4>1 DEF TypeOK
      <4>3. dataFifo[i].resend \in 0 .. MaxResend
        BY <1>a, SlotType DEF Entry
      <4>4. r \in 1 .. Len(reqs)
        BY <1>a, <2>3 DEF EntriesDistinct, Added
      <4> QED BY <1>e, <4>1, <4>2, <4>3, <4>4
    <3>2. UNCHANGED reqs
      BY <1>2 DEF OnSync
    <3>3. IF reqs[r].id # NoId THEN sends[r] + 1 <= dataFifo[i].resend + 1
                               ELSE sends[r] = 0
      BY <2>3, <3>1 DEF SendsCounted, responseExpected, Id
    <3> QED BY <1>e, <3>1, <3>2, <3>3
  <2> QED BY <2>2, <2>3
<1>3. UNCHANGED sends \/ OnSync
  BY DEF Next, Client, Bus, Maintain, Request, SetSwitch, Build, RequestRefused,
         addOrUpdateFifo, OnReply, CheckTimeoutBegin, CheckTimeout, CheckResponse,
         SaveResponse, Tick, vars, history
<1> QED BY <1>1, <1>2, <1>3

(* A request is transmitted at most 1 + VEBUS_MAX_RESEND times, a switch     *)
(* command once.                                                             *)
THEOREM SendBoundCorrect == Spec => []SendBound
<1> DEFINE Inv == Base /\ FreshUntouched /\ SendsCounted /\ SendBound
<1>1. Init => Inv
  <2> SUFFICES ASSUME Init PROVE Inv
    OBVIOUS
  <2>1. Base /\ Slots = {}
    BY BaseInit, SlotType, EmptySeq DEF Init, Base
  <2>2. /\ \A r \in Requests : sends[r] = 0 /\ replies[r] = 0 /\ delivered[r] = 0
        /\ maintain # "save"
    BY DEF Init
  <2>3. SendBound
    BY <2>2, SizesAssumption DEF SendBound
  <2> QED BY <2>1, <2>2, <2>3 DEF FreshUntouched, SendsCounted
<1>2. Inv /\ [Next]_vars => Inv'
  BY BaseStep, FreshUntouchedStep, SendsCountedStep, SendBoundStep
<1>3. Inv => SendBound
  OBVIOUS
<1> QED BY <1>1, <1>2, <1>3, PTL DEF Spec

(* No request built after a queued one has its id. *)
IdsFresh ==
  \A i \in Slots, r \in 1 .. Len(reqs) :
    Id(r) = Id(dataFifo[i].req) /\ Id(r) \in Ids => r <= dataFifo[i].req

LEMMA IdsFreshStep ==
  ASSUME Base, IdsFresh, [Next]_vars
  PROVE  IdsFresh'
<1>a. TypeOK /\ TypeOK' /\ EntriesDistinct
  BY TypeOKStep DEF Base
<1>b. /\ Slots = 1 .. Len(dataFifo) /\ Len(dataFifo) \in Nat
      /\ Slots' = 1 .. Len(dataFifo') /\ Len(reqs) \in Nat
  BY <1>a, SlotType, LenProperties DEF TypeOK, Slots
<1>c. \A q \in 1 .. Len(reqs) : reqs'[q] = reqs[q]
  BY <1>a, AddedStep
<1>d. \A j \in Slots : dataFifo[j].req \in 1 .. Len(reqs)
  BY <1>a DEF EntriesDistinct, Added
<1> SUFFICES ASSUME NEW i \in Slots', NEW q \in 1 .. Len(reqs'),
                    reqs'[q].id = reqs'[dataFifo'[i].req].id, reqs'[q].id \in Ids
             PROVE  q <= dataFifo'[i].req
  BY DEF IdsFresh, Id
<1>e. ASSUME NEW j \in Slots, q \in 1 .. Len(reqs), dataFifo'[i].req = dataFifo[j].req
      PROVE  q <= dataFifo'[i].req
  BY <1>c, <1>d, <1>e DEF IdsFresh, Id
<1>1. CASE addOrUpdateFifo
  <2> DEFINE f == NewEntry(Len(reqs))
  <2>1. /\ UNCHANGED reqs /\ f.req = Len(reqs)
        /\ (\E k \in Slots : Sets(k, f)) \/ Pushes(f) \/ UNCHANGED dataFifo
    BY <1>1, <1>a, AddShapes
  <2> HIDE DEF f
  <2>2. dataFifo'[i] = f \/ \E j \in Slots : dataFifo'[i] = dataFifo[j]
    <3>1. CASE \E k \in Slots : Sets(k, f)
      BY <1>b, <3>1 DEF Sets
    <3>2. CASE Pushes(f)
      BY <1>b, <3>2 DEF Pushes
    <3>3. CASE UNCHANGED dataFifo
      BY <3>3 DEF Slots
    <3> QED BY <2>1, <3>1, <3>2, <3>3
  <2> QED BY <1>b, <1>e, <2>1, <2>2
<1>2. CASE ~addOrUpdateFifo
  <2>1. PICK j \in Slots : dataFifo'[i].req = dataFifo[j].req
    BY <1>2, <1>a, FifoKeptStep, FifoKeptRequests
  <2>2. CASE UNCHANGED reqs
    BY <1>e, <2>1, <2>2
  <2>3. ASSUME NEW k \in Keys, NEW id \in Ids \cup {NoId}, Build(k, id),
               id = NoId \/ ~IdTaken(id)
        PROVE  q \in 1 .. Len(reqs)
    <3> DEFINE new == [key |-> k, id |-> id]
               R == [key : Keys, id : Ids \cup {NoId}]
    <3>1. new \in R /\ new.id = id /\ reqs \in Seq(R) /\ reqs' = Append(reqs, new)
      BY <1>a, <2>3 DEF Build, TypeOK
    <3> HIDE DEF new, R
    <3>2. Len(reqs') = Len(reqs) + 1 /\ reqs'[Len(reqs) + 1] = new
      BY <1>b, <3>1, AppendProperties
    <3>3. SUFFICES ASSUME q = Len(reqs) + 1 PROVE FALSE
      BY <1>b, <3>2
    <3>4. id \in Ids /\ id = reqs[dataFifo[j].req].id
      BY <1>c, <1>d, <2>1, <3>1, <3>2, <3>3
    <3>5. ~IdTaken(id)
      BY <2>3, <3>4, SizesAssumption DEF Ids, NoId
    <3>6. id \in UsedIds
      BY <3>4 DEF UsedIds, Queued, Id
    <3> QED BY <3>5, <3>6 DEF IdTaken
  <2>4. \/ UNCHANGED reqs
        \/ \E k \in Keys, id \in Ids \cup {NoId} :
              Build(k, id) /\ (id = NoId \/ ~IdTaken(id))
    <3>1. NextId(lastId) \in Ids
      BY <1>a, SizesAssumption DEF TypeOK, Ids, NextId
    <3> QED BY <3>1
       DEF Next, Client, Bus, Maintain, Request, SetSwitch, RequestRefused, OnSync,
           addOrUpdateFifo, OnReply, CheckTimeoutBegin, CheckTimeout, CheckResponse,
           SaveResponse, Tick, vars
  <2>5. q \in 1 .. Len(reqs)
    BY <2>3, <2>4
  <2> QED BY <1>e, <2>1, <2>5
<1> QED BY <1>1, <1>2

(* An entry gets an answer from the inverter only.                           *)
LEMMA AnswerKept ==
  ASSUME TypeOK, [Next]_vars, UNCHANGED replies,
         NEW i \in Slots, NEW e \in Entry, Sets(i, e), e.req = dataFifo[i].req,
         ~addOrUpdateFifo
  PROVE  e.resp = dataFifo[i].resp
<1>a. /\ Slots = 1 .. Len(dataFifo) /\ Len(dataFifo) \in Nat
      /\ \A j \in Slots : dataFifo[j] \in Entry
  BY SlotType
<1>b. dataFifo'[i] = e /\ Len(dataFifo') = Len(dataFifo)
  BY <1>a DEF Sets
<1>c. ASSUME NEW k \in Slots, Drops(k) PROVE FALSE
  BY <1>a, <1>b, <1>c DEF Drops
<1>d. ASSUME NEW k \in Slots, TakeOut(k) PROVE FALSE
  <2>1. Freed(k) \in Slots
    BY <1>a DEF Freed
  <2> QED BY <1>c, <1>d, <2>1, FifoShapes
<1>e. ASSUME NEW k \in Slots, Retry(k), MayRetry(dataFifo[k])
      PROVE  e.resp = dataFifo[i].resp
  <2>1. dataFifo'[i] = IF i = k THEN MarkUnsent(dataFifo[k]) ELSE dataFifo[i]
    BY <1>a, <1>e, FifoShapes DEF Sets
  <2> QED BY <1>a, <1>b, <2>1, EntryUpdates
<1>1. CASE UNCHANGED dataFifo
  BY <1>1, <1>b
<1>2. CASE OnSync
  <2>1. PICK k \in Slots : dataFifo' = IF responseExpected(dataFifo[k].req)
                                        THEN [dataFifo EXCEPT ![k] = MarkSent(@)]
                                        ELSE SwapRemove(dataFifo, k)
    BY <1>2 DEF OnSync
  <2>2. MarkSent(dataFifo[k]) \in Entry /\ MarkSent(dataFifo[k]).resp = dataFifo[k].resp
    BY <1>a, EntryUpdates
  <2>3. Sets(k, MarkSent(dataFifo[k])) \/ Drops(k)
    BY <2>1, <2>2, FifoShapes
  <2> QED BY <1>a, <1>b, <1>c, <2>2, <2>3 DEF Sets
<1>3. CASE CheckTimeout
  <2>1. sweepAt \in Slots
    BY <1>a, <1>3 DEF CheckTimeout, TypeOK
  <2> QED BY <1>1, <1>3, <1>c, <1>e, <2>1, FifoShapes DEF CheckTimeout, Remove
<1>4. CASE CheckResponse
  BY <1>1, <1>4, <1>d, <1>e DEF CheckResponse
<1>5. CASE Tick
  BY <1>a, <1>b, <1>5, FifoShapes DEF Ages
<1>6. ASSUME NEW q \in 1 .. Len(reqs), NEW code \in {"ok", "bad"}, OnReply(q, code)
      PROVE  FALSE
  <2>1. q \in Requests
    <3>1. Len(reqs) \in Nat /\ Len(reqs) <= MaxRequests
      BY LenProperties DEF TypeOK
    <3> QED BY <3>1, SizesAssumption DEF Requests
  <2>2. replies' = [replies EXCEPT ![q] = @ + 1]
    BY <1>6 DEF OnReply
  <2> QED BY <2>1, <2>2 DEF TypeOK
<1> QED
  BY <1>1, <1>2, <1>3, <1>4, <1>5, <1>6
     DEF Next, Client, Bus, Maintain, Request, SetSwitch, Build, RequestRefused,
         CheckTimeoutBegin, SaveResponse, vars

LEMMA AnswerBelongsStep ==
  ASSUME Base, IdsFresh, AnswerBelongs, [Next]_vars
  PROVE  AnswerBelongs'
<1>a. TypeOK /\ TypeOK' /\ EntriesDistinct
  BY TypeOKStep DEF Base
<1>b. /\ Slots = 1 .. Len(dataFifo) /\ Len(dataFifo) \in Nat
      /\ Slots' = 1 .. Len(dataFifo')
      /\ Len(reqs) \in Nat /\ Len(reqs) <= MaxRequests
      /\ \A i \in Slots : dataFifo[i] \in Entry
  BY <1>a, SlotType, LenProperties DEF TypeOK, Slots
<1>c. \A j \in Slots : /\ dataFifo[j].req \in 1 .. Len(reqs)
                      /\ dataFifo[j].req \in Requests
  BY <1>a, <1>b DEF EntriesDistinct, Added, Entry
<1> DEFINE Fine(e, n) == e.resp # "none" => n[e.req] > 0
<1>d. \A i \in Slots : Fine(dataFifo[i], replies)
  BY DEF AnswerBelongs
<1>1. ASSUME NEW q \in 1 .. Len(reqs), NEW code \in {"ok", "bad"}, OnReply(q, code)
      PROVE  AnswerBelongs'
  <2>1. /\ q \in Requests /\ replies' = [replies EXCEPT ![q] = @ + 1]
        /\ UNCHANGED <<reqs, got, delivered>>
        /\ Id(q) # NoId
        /\ \A p \in q + 1 .. Len(reqs) : Id(p) # Id(q)
    <3>1. q \in Requests
      BY <1>b, SizesAssumption DEF Requests
    <3> QED BY <1>1, <3>1 DEF OnReply, responseExpected
  <2>2. /\ \A r \in Requests : replies[r] \in Nat /\ replies'[r] \in Nat
        /\ \A r \in Requests : replies'[r] >= replies[r]
        /\ replies'[q] > 0
    <3>1. replies \in [Requests -> Nat]
      BY <1>a DEF TypeOK
    <3>2. \A r \in Requests : replies'[r] = IF r = q THEN replies[r] + 1 ELSE replies[r]
      BY <2>1, <3>1
    <3> QED BY <2>1, <3>1, <3>2
  <2>3. \A r \in Requests : delivered'[r] > 0 \/ got' = r => replies'[r] > 0
    BY <2>1, <2>2 DEF AnswerBelongs
  <2>4. \A j \in Slots : Fine(dataFifo[j], replies')
    BY <1>c, <1>d, <2>2
  <2>5. CASE UNCHANGED dataFifo
    BY <2>3, <2>4, <2>5 DEF AnswerBelongs, Slots
  <2>6. ASSUME NEW i \in Slots, First(i, IdSlots(Id(q))),
               dataFifo' = [dataFifo EXCEPT ![i].resp = code]
        PROVE  AnswerBelongs'
    <3>1. Id(dataFifo[i].req) = Id(q)
      BY <2>6 DEF First, IdSlots
    <3>2. Id(q) \in Ids
      <4>1. reqs[q] \in [key : Keys, id : Ids \cup {NoId}]
        BY <1>a, ElementOfSeq DEF TypeOK
      <4> QED BY <2>1, <4>1 DEF Id
    <3>3. q <= dataFifo[i].req
      BY <3>1, <3>2 DEF IdsFresh
    <3>4. dataFifo[i].req = q
      BY <1>b, <1>c, <2>1, <3>1, <3>3
    <3> DEFINE f == [dataFifo[i] EXCEPT !.resp = code]
    <3>5. f \in Entry /\ f.req = q
      BY <1>b, <3>4 DEF Entry
    <3>6. dataFifo' = [dataFifo EXCEPT ![i] = f]
      BY <2>6
    <3> HIDE DEF f
    <3>7. Sets(i, f)
      BY <1>a, <3>5, <3>6, FifoShapes
    <3>8. \A j \in Slots' : Fine(dataFifo'[j], replies')
      BY <1>b, <2>2, <2>4, <3>5, <3>7 DEF Sets
    <3> QED BY <2>3, <3>8 DEF AnswerBelongs
  <2> QED BY <1>1, <2>5, <2>6 DEF OnReply
<1>2. CASE UNCHANGED replies
  <2>1. \A i \in Slots' : Fine(dataFifo'[i], replies)
    <3>1. CASE addOrUpdateFifo
      <4> DEFINE f == NewEntry(Len(reqs))
      <4>1. (\E k \in Slots : Sets(k, f)) \/ Pushes(f) \/ UNCHANGED dataFifo
        BY <3>1, <1>a, AddShapes
      <4>2. f.resp = "none"
        BY DEF NewEntry
      <4> HIDE DEF f
      <4>3. CASE \E k \in Slots : Sets(k, f)
        BY <1>b, <1>d, <4>2, <4>3 DEF Sets
      <4>4. CASE Pushes(f)
        BY <1>b, <1>d, <4>2, <4>4 DEF Pushes
      <4>5. CASE UNCHANGED dataFifo
        BY <1>d, <4>5 DEF Slots
      <4> QED BY <4>1, <4>3, <4>4, <4>5
    <3>2. CASE ~addOrUpdateFifo
      <4>1. FifoKept
        BY <1>a, <3>2, FifoKeptStep
      <4>2. CASE UNCHANGED dataFifo
        BY <1>d, <4>2 DEF Slots
      <4>3. CASE \E i \in Slots, e \in Entry : Sets(i, e) /\ e.req = dataFifo[i].req
        <5>1. PICK k \in Slots, e \in Entry : Sets(k, e) /\ e.req = dataFifo[k].req
          BY <4>3
        <5>2. e.resp = dataFifo[k].resp
          BY <1>2, <1>a, <3>2, <5>1, AnswerKept
        <5> QED BY <1>b, <1>d, <5>1, <5>2 DEF Sets
      <4>4. CASE \E k \in Slots : Drops(k)
        <5>1. PICK k \in Slots : Drops(k)
          BY <4>4
        <5>2. ASSUME NEW i \in Slots'
              PROVE  \E j \in Slots : dataFifo'[i] = dataFifo[j]
          <6>1. i \in Slots /\ Len(dataFifo) \in Slots /\ i \in 1 .. Len(dataFifo) - 1
            BY <1>b, <5>1 DEF Drops
          <6>2. dataFifo'[i] = dataFifo[Len(dataFifo)] \/ dataFifo'[i] = dataFifo[i]
            BY <5>1, <6>1 DEF Drops
          <6> QED BY <6>1, <6>2
        <5> QED BY <1>d, <5>2
      <4>5. CASE Ages
        BY <1>b, <1>d, <4>5 DEF Ages
      <4> QED BY <4>1, <4>2, <4>3, <4>4, <4>5 DEF FifoKept
    <3> QED BY <3>1, <3>2
  <2>2. ASSUME NEW r \in Requests, delivered'[r] > 0 \/ got' = r
        PROVE  replies[r] > 0
    <3>1. CASE UNCHANGED <<delivered, got>>
      BY <2>2, <3>1 DEF AnswerBelongs
    <3>2. CASE CheckResponse
      <4>1. /\ UNCHANGED delivered
            /\ \/ UNCHANGED got
               \/ \E i \in Slots : dataFifo[i].resp = "ok" /\ got' = dataFifo[i].req
        BY <3>2 DEF CheckResponse, history
      <4> QED BY <1>d, <2>2, <4>1 DEF AnswerBelongs
    <3>3. CASE SaveResponse
      <4>1. delivered' = [delivered EXCEPT ![got] = @ + 1] /\ got' = 0
        BY <3>3 DEF SaveResponse
      <4>2. r = got \/ delivered'[r] = delivered[r]
        BY <1>a, <4>1 DEF TypeOK
      <4> QED BY <2>2, <4>1, <4>2 DEF AnswerBelongs, Requests
    <3> QED
      BY <3>1, <3>2, <3>3
         DEF Next, Client, Bus, Maintain, Request, SetSwitch, Build, RequestRefused,
             addOrUpdateFifo, OnSync, OnReply, CheckTimeoutBegin, CheckTimeout, Tick,
             vars, history
  <2> QED BY <1>2, <2>1, <2>2 DEF AnswerBelongs
<1> QED
  BY <1>1, <1>2
     DEF Next, Client, Bus, Maintain, Request, SetSwitch, Build, RequestRefused, OnSync,
         addOrUpdateFifo, CheckTimeoutBegin, CheckTimeout, CheckResponse, SaveResponse,
         Tick, vars, history

(* Whatever answer is attributed to a request, the inverter did answer that  *)
(* very request, although ids are handed out again.                          *)
THEOREM AnswerBelongsCorrect == Spec => []AnswerBelongs
<1>1. Init => IdsFresh /\ AnswerBelongs
  <2> SUFFICES ASSUME Init PROVE IdsFresh /\ AnswerBelongs
    OBVIOUS
  <2>1. Slots = {}
    BY BaseInit, SlotType, EmptySeq DEF Init, Base
  <2>2. (\A r \in Requests : delivered[r] = 0) /\ got = 0
    BY DEF Init
  <2> QED BY <2>1, <2>2 DEF IdsFresh, AnswerBelongs, Requests
<1>2. Base /\ IdsFresh /\ AnswerBelongs /\ [Next]_vars => IdsFresh' /\ AnswerBelongs'
  BY IdsFreshStep, AnswerBelongsStep
<1> QED BY <1>1, <1>2, BaseCorrect, PTL DEF Spec

-------------------------------------------------------------------------------
(* Deliveries.                                                               *)

(* Answers delivered for r, the one being saved included. *)
Saved(r) == delivered[r] + (IF maintain = "save" /\ got = r THEN 1 ELSE 0)

(* Only the entry in slot 0 can have been delivered before. *)
SavedCounted ==
  /\ \A r \in Requests : Saved(r) <= 2
  /\ \A i \in Slots : Saved(dataFifo[i].req) <= IF i = 1 THEN 1 ELSE 0

LEMMA SavedStep ==
  ASSUME TypeOK, [Next]_vars
  PROVE  \/ \A r \in Requests : Saved(r)' = Saved(r)
         \/ \E i \in Slots :
              /\ TakeOut(i)
              /\ \A r \in Requests :
                   Saved(r)' = Saved(r) + (IF r = dataFifo[i].req THEN 1 ELSE 0)
<1>a. \A r \in Requests : delivered[r] \in Nat
  BY DEF TypeOK
<1>1. CASE UNCHANGED <<delivered, got, maintain>>
  BY <1>1 DEF Saved
<1>2. CASE /\ UNCHANGED <<delivered, got>>
           /\ maintain # "save" /\ maintain' # "save"
  BY <1>2 DEF Saved
<1>3. CASE SaveResponse
  <2>1. /\ maintain = "save" /\ got \in Requests /\ maintain' = "timeout"
        /\ delivered' = [delivered EXCEPT ![got] = @ + 1]
    BY <1>3 DEF SaveResponse, TypeOK
  <2>2. \A r \in Requests :
          delivered'[r] = delivered[r] + (IF got = r THEN 1 ELSE 0)
    BY <1>a, <2>1 DEF TypeOK
  <2> QED BY <1>a, <2>1, <2>2 DEF Saved
<1>4. CASE CheckResponse
  <2>1. UNCHANGED delivered /\ maintain = "response"
    BY <1>4 DEF CheckResponse, history
  <2>2. CASE maintain' = "timeout" /\ UNCHANGED got
    BY <1>2, <2>1, <2>2
  <2>3. ASSUME NEW i \in Slots, got' = dataFifo[i].req, TakeOut(i), maintain' = "save"
        PROVE  \A r \in Requests :
                 Saved(r)' = Saved(r) + (IF r = dataFifo[i].req THEN 1 ELSE 0)
    BY <1>a, <2>1, <2>3 DEF Saved
  <2> QED BY <1>2, <1>4, <2>1, <2>2, <2>3 DEF CheckResponse
<1> QED
  BY <1>1, <1>2, <1>3, <1>4
     DEF Next, Client, Bus, Maintain, Request, SetSwitch, Build, RequestRefused,
         addOrUpdateFifo, OnSync, OnReply, CheckTimeoutBegin, CheckTimeout, Tick,
         vars, history

LEMMA SavedCountedStep ==
  ASSUME Base, FreshUntouched, SavedCounted, [Next]_vars
  PROVE  SavedCounted'
<1>a. TypeOK /\ TypeOK' /\ EntriesDistinct
  BY TypeOKStep DEF Base
<1>b. /\ Slots = 1 .. Len(dataFifo) /\ Len(dataFifo) \in Nat
      /\ Slots' = 1 .. Len(dataFifo') /\ Len(dataFifo') \in Nat
      /\ \A i \in Slots : dataFifo[i] \in Entry /\ dataFifo[i].req \in Requests
  BY <1>a, SlotType, LenProperties DEF TypeOK, Slots, Entry
<1>c. \A r \in Requests : Saved(r) \in Nat
  BY <1>a DEF Saved, TypeOK
<1>d. /\ \A r \in Requests : Saved(r) <= 2
      /\ \A i \in Slots : Saved(dataFifo[i].req) <= IF i = 1 THEN 1 ELSE 0
  BY DEF SavedCounted
<1> SUFFICES /\ \A r \in Requests : Saved(r)' <= 2
             /\ \A i \in Slots' : \E r \in Requests :
                  dataFifo'[i].req = r /\ Saved(r)' <= IF i = 1 THEN 1 ELSE 0
  BY DEF SavedCounted, Saved
<1>1. CASE \A r \in Requests : Saved(r)' = Saved(r)
  <2>1. \A r \in Requests : Saved(r)' <= 2
    BY <1>1, <1>d
  <2>2. \A i \in Slots' : \E r \in Requests :
          dataFifo'[i].req = r /\ Saved(r) <= IF i = 1 THEN 1 ELSE 0
    <3>1. ASSUME Slots' = Slots, \A i \in Slots : dataFifo'[i].req = dataFifo[i].req
          PROVE  \A i \in Slots' : \E r \in Requests :
                   dataFifo'[i].req = r /\ Saved(r) <= IF i = 1 THEN 1 ELSE 0
      BY <1>b, <1>d, <3>1
    <3>2. CASE addOrUpdateFifo
      <4> DEFINE f == NewEntry(Len(reqs))
      <4>1. /\ f.req \in Requests /\ ~Added(f.req)
            /\ (\E k \in Slots : Sets(k, f)) \/ Pushes(f) \/ UNCHANGED dataFifo
        BY <3>2, <1>a, AddShapes
      <4>2. Saved(f.req) = 0
        BY <4>1 DEF FreshUntouched, Saved
      <4> HIDE DEF f
      <4>3. CASE \E k \in Slots : Sets(k, f)
        BY <1>b, <1>d, <4>1, <4>2, <4>3 DEF Sets
      <4>4. CASE Pushes(f)
        BY <1>b, <1>d, <4>1, <4>2, <4>4 DEF Pushes
      <4>5. CASE UNCHANGED dataFifo
        BY <3>1, <4>5 DEF Slots
      <4> QED BY <4>1, <4>3, <4>4, <4>5
    <3>3. CASE ~addOrUpdateFifo
      <4>1. FifoKept
        BY <1>a, <3>3, FifoKeptStep
      <4>2. CASE UNCHANGED dataFifo
        BY <3>1, <4>2 DEF Slots
      <4>3. CASE \E i \in Slots, e \in Entry : Sets(i, e) /\ e.req = dataFifo[i].req
        BY <1>b, <3>1, <4>3 DEF Sets
      <4>4. CASE \E k \in Slots : Drops(k)
        <5>1. PICK k \in Slots : Drops(k)
          BY <4>4
        <5>2. \A i \in Slots' :
                /\ i \in Slots /\ i < Len(dataFifo)
                /\ dataFifo'[i] = IF i = k THEN dataFifo[Len(dataFifo)] ELSE dataFifo[i]
          BY <1>b, <5>1 DEF Drops
        <5>3. Slots' # {} => /\ Len(dataFifo) \in Slots
                             /\ Saved(dataFifo[Len(dataFifo)].req) <= 0
          BY <1>b, <1>d, <5>2
        <5>4. \A i \in Slots' : Saved(dataFifo[Len(dataFifo)].req)
                                 <= IF i = 1 THEN 1 ELSE 0
          BY <1>b, <1>c, <5>3
        <5> QED BY <1>b, <1>d, <5>2, <5>3, <5>4
      <4>5. CASE Ages
        BY <1>b, <3>1, <4>5 DEF Ages
      <4> QED BY <4>1, <4>2, <4>3, <4>4, <4>5 DEF FifoKept
    <3> QED BY <3>2, <3>3
  <2> QED BY <1>1, <2>1, <2>2
<1>2. ASSUME NEW k \in Slots, TakeOut(k),
             \A r \in Requests :
               Saved(r)' = Saved(r) + (IF r = dataFifo[k].req THEN 1 ELSE 0)
      PROVE  /\ \A r \in Requests : Saved(r)' <= 2
             /\ \A i \in Slots' : \E r \in Requests :
                  dataFifo'[i].req = r /\ Saved(r)' <= IF i = 1 THEN 1 ELSE 0
  <2> DEFINE n == Len(dataFifo)
             q == dataFifo[k].req
  <2>1. Drops(Freed(k))
    BY <1>2, <1>a, FifoShapes
  <2>2. Saved(q) <= 1 /\ q \in Requests /\ (k # 1 => Saved(q) <= 0)
    <3>1. q \in Requests /\ Saved(q) <= IF k = 1 THEN 1 ELSE 0
      BY <1>b, <1>d
    <3>2. Saved(q) \in Nat
      BY <1>c, <3>1
    <3> HIDE DEF q
    <3> QED BY <3>1, <3>2
  <2>3. \A r \in Requests : Saved(r)' <= 2
    BY <1>2, <1>c, <1>d, <2>2
  <2>4. \A i \in Slots' : /\ i \in Slots /\ n \in Slots /\ i < n
                         /\ dataFifo'[i] = dataFifo[IF i = Freed(k) THEN n ELSE i]
    BY <1>b, <2>1 DEF Drops
  <2>5. ASSUME NEW i \in Slots'
        PROVE  \E r \in Requests :
                 dataFifo'[i].req = r /\ Saved(r)' <= IF i = 1 THEN 1 ELSE 0
    <3> DEFINE j == IF i = Freed(k) THEN n ELSE i
    <3>1. j \in Slots /\ i \in Slots /\ i < n /\ dataFifo'[i] = dataFifo[j]
      BY <2>4
    <3>2. PICK p \in Requests : p = dataFifo[j].req
      BY <1>b, <3>1
    <3>3. Saved(p) <= IF j = 1 THEN 1 ELSE 0
      BY <1>d, <3>1, <3>2
    <3>4. CASE j # k
      <4>1. p # q
        BY <1>a, <3>1, <3>2, <3>4 DEF EntriesDistinct
      <4>2. Saved(p)' = Saved(p)
        BY <1>2, <1>c, <4>1
      <4>3. j = 1 => i = 1
        BY <1>b, <3>1
      <4>4. Saved(p)' <= IF i = 1 THEN 1 ELSE 0
        BY <1>c, <3>3, <4>2, <4>3
      <4> QED BY <3>1, <3>2, <4>4
    <3>5. CASE j = k
      <4>1. k = n /\ i = 1
        BY <1>b, <3>1, <3>5 DEF Freed
      <4>2. Saved(p) <= 0
        BY <1>b, <3>1, <3>3, <3>5, <4>1
      <4>3. Saved(p)' = Saved(p) + 1
        BY <1>2, <3>2, <3>5
      <4>4. Saved(p)' <= 1
        BY <1>c, <4>2, <4>3
      <4> QED BY <3>1, <3>2, <4>1, <4>4
    <3> QED BY <3>4, <3>5
  <2> QED BY <2>3, <2>5
<1>3. CASE \E i \in Slots :
              /\ TakeOut(i)
              /\ \A r \in Requests :
                   Saved(r)' = Saved(r) + (IF r = dataFifo[i].req THEN 1 ELSE 0)
  <2>1. PICK i \in Slots :
          /\ TakeOut(i)
          /\ \A r \in Requests :
               Saved(r)' = Saved(r) + (IF r = dataFifo[i].req THEN 1 ELSE 0)
    BY <1>3
  <2> QED BY <1>2, <2>1
<1> QED BY <1>1, <1>3, <1>a, SavedStep

(* The response callback is called at most twice for one request.            *)
THEOREM DeliveredAtMostTwiceCorrect == Spec => []DeliveredAtMostTwice
<1> DEFINE Inv == Base /\ FreshUntouched /\ SavedCounted
<1>1. Init => Inv
  <2> SUFFICES ASSUME Init PROVE Inv
    OBVIOUS
  <2>1. Base /\ Slots = {}
    BY BaseInit, SlotType, EmptySeq DEF Init, Base
  <2>2. /\ \A r \in Requests : sends[r] = 0 /\ replies[r] = 0 /\ delivered[r] = 0
        /\ maintain # "save"
    BY DEF Init
  <2> QED BY <2>1, <2>2 DEF FreshUntouched, SavedCounted, Saved
<1>2. Inv /\ [Next]_vars => Inv'
  BY BaseStep, FreshUntouchedStep, SavedCountedStep
<1>3. Inv => DeliveredAtMostTwice
  BY DEF Base, SavedCounted, Saved, DeliveredAtMostTwice, TypeOK
<1> QED BY <1>1, <1>2, <1>3, PTL DEF Spec
-------------------------------------------------------------------------------
(* The refinement.                                                           *)

Status == [r \in Requests |-> Standing(r)]

(* The inverter answers frames it got. *)
RepliesSent == \A r \in Requests : replies[r] <= sends[r]

PInv == /\ Base /\ FreshUntouched /\ SendsCounted /\ SendBound
        /\ IdsFresh /\ AnswerBelongs /\ SavedCounted /\ RepliesSent

LEMMA RepliesSentStep == ASSUME TypeOK, RepliesSent, [Next]_vars PROVE RepliesSent'
<1>a. \A r \in Requests : sends[r] \in Nat /\ replies[r] \in Nat
  BY DEF TypeOK
<1>1. CASE UNCHANGED <<sends, replies>>
  BY <1>1 DEF RepliesSent
<1>2. CASE OnSync
  <2>1. PICK i \in Slots : sends' = [sends EXCEPT ![dataFifo[i].req] = @ + 1]
    BY <1>2 DEF OnSync
  <2>2. UNCHANGED replies
    BY <1>2 DEF OnSync
  <2>3. \A r \in Requests : sends[r] <= sends'[r]
    BY <1>a, <2>1 DEF TypeOK
  <2>4. \A r \in Requests : sends'[r] \in Nat
    BY <1>2, TypeOKStep DEF TypeOK
  <2> QED BY <1>a, <2>2, <2>3, <2>4 DEF RepliesSent
<1>3. ASSUME NEW q \in 1 .. Len(reqs), NEW code \in {"ok", "bad"}, OnReply(q, code)
      PROVE  RepliesSent'
  <2>1. replies' = [replies EXCEPT ![q] = @ + 1] /\ replies[q] < sends[q] /\ UNCHANGED sends
    BY <1>3 DEF OnReply
  <2>2. \A r \in Requests : replies'[r] = IF r = q THEN replies[r] + 1 ELSE replies[r]
    BY <2>1 DEF TypeOK
  <2> QED BY <1>a, <2>1, <2>2 DEF RepliesSent
<1> QED
  BY <1>1, <1>2, <1>3
     DEF Next, Client, Bus, Maintain, Request, SetSwitch, Build, RequestRefused,
         addOrUpdateFifo, CheckTimeoutBegin, CheckTimeout, CheckResponse, SaveResponse,
         Tick, vars, history

LEMMA PInvInit == Init => PInv
<1> SUFFICES ASSUME Init PROVE PInv
  OBVIOUS
<1>1. Base /\ Slots = {}
  BY BaseInit, SlotType, EmptySeq DEF Init, Base
<1>2. /\ \A r \in Requests : sends[r] = 0 /\ replies[r] = 0 /\ delivered[r] = 0
      /\ maintain # "save" /\ got = 0
  BY DEF Init
<1>3. SendBound
  BY <1>2, SizesAssumption DEF SendBound
<1>4. IdsFresh /\ SendsCounted
  BY <1>1 DEF IdsFresh, SendsCounted
<1>5. AnswerBelongs
  BY <1>1, <1>2 DEF AnswerBelongs, Requests
<1>6. FreshUntouched /\ SavedCounted /\ RepliesSent
  BY <1>1, <1>2 DEF FreshUntouched, SavedCounted, Saved, RepliesSent
<1> QED BY <1>1, <1>3, <1>4, <1>5, <1>6 DEF PInv

LEMMA PInvStep == PInv /\ [Next]_vars => PInv'
<1> SUFFICES ASSUME PInv, [Next]_vars PROVE PInv'
  OBVIOUS
<1>1. Base' /\ FreshUntouched' /\ SendsCounted' /\ SendBound'
  BY BaseStep, FreshUntouchedStep, SendsCountedStep, SendBoundStep DEF PInv
<1>2. IdsFresh' /\ AnswerBelongs' /\ SavedCounted'
  BY IdsFreshStep, AnswerBelongsStep, SavedCountedStep DEF PInv
<1>3. RepliesSent'
  BY RepliesSentStep DEF PInv, Base
<1> QED BY <1>1, <1>2, <1>3 DEF PInv

(* What the shapes of a step make of the queued requests. *)
LEMMA QueuedKept ==
  ASSUME TypeOK, TypeOK',
         \/ UNCHANGED dataFifo
         \/ \E i \in Slots, e \in Entry : Sets(i, e) /\ e.req = dataFifo[i].req
         \/ Ages
  PROVE  Queued' = Queued
<1>a. /\ Slots = 1 .. Len(dataFifo) /\ Len(dataFifo) \in Nat
      /\ Slots' = 1 .. Len(dataFifo')
  BY SlotType, LenProperties DEF TypeOK, Slots
<1>1. Slots' = Slots /\ \A i \in Slots : dataFifo'[i].req = dataFifo[i].req
  BY <1>a DEF Sets, Ages
<1> QED BY <1>1 DEF Queued

LEMMA QueuedDrops ==
  ASSUME Base, TypeOK', NEW k \in Slots, Drops(k)
  PROVE  dataFifo[k].req \in Queued /\ Queued' = Queued \ {dataFifo[k].req}
<1>a. /\ Slots = 1 .. Len(dataFifo) /\ Len(dataFifo) \in Nat
      /\ Slots' = 1 .. Len(dataFifo')
  BY SlotType, LenProperties DEF Base, TypeOK, Slots
<1>b. \A i, j \in Slots : dataFifo[i].req = dataFifo[j].req => i = j
  BY DEF Base, EntriesDistinct
<1>1. /\ Slots' = 1 .. Len(dataFifo) - 1
      /\ \A j \in Slots' : dataFifo'[j] = IF j = k THEN dataFifo[Len(dataFifo)] ELSE dataFifo[j]
  BY <1>a DEF Drops
<1>2. Queued' \subseteq Queued \ {dataFifo[k].req}
  <2> SUFFICES ASSUME NEW j \in Slots'
               PROVE  dataFifo'[j].req \in Queued \ {dataFifo[k].req}
    BY DEF Queued
  <2>1. j \in Slots /\ Len(dataFifo) \in Slots /\ j # Len(dataFifo)
    BY <1>a, <1>1
  <2>2. PICK i \in Slots : dataFifo'[j] = dataFifo[i] /\ i # k
    BY <1>1, <2>1
  <2> QED BY <1>b, <2>2 DEF Queued
<1>3. Queued \ {dataFifo[k].req} \subseteq Queued'
  <2> SUFFICES ASSUME NEW i \in Slots, i # k PROVE \E j \in Slots' : dataFifo'[j].req = dataFifo[i].req
    BY DEF Queued
  <2>1. CASE i = Len(dataFifo)
    <3>1. k \in Slots' /\ dataFifo'[k] = dataFifo[i]
      BY <1>a, <1>1, <2>1
    <3> QED BY <3>1
  <2>2. CASE i # Len(dataFifo)
    <3>1. i \in Slots' /\ dataFifo'[i] = dataFifo[i]
      BY <1>a, <1>1, <2>2
    <3> QED BY <3>1
  <2> QED BY <2>1, <2>2
<1>4. dataFifo[k].req \in Queued
  BY DEF Queued
<1> QED BY <1>2, <1>3, <1>4

LEMMA QueuedAdded == ASSUME Base, NEW q \in Queued PROVE q \in Requests /\ Added(q)
<1>1. PICK i \in Slots : q = dataFifo[i].req
  BY DEF Queued
<1> QED BY <1>1, SlotType DEF Base, EntriesDistinct, Entry

(* A request that leaves the FIFO is closed; nobody else notices. *)
LEMMA StatusDrops ==
  ASSUME PInv, [Next]_vars, ~addOrUpdateFifo, NEW k \in Slots, Drops(k)
  PROVE  /\ dataFifo[k].req \in Requests /\ Status[dataFifo[k].req] = "pending"
         /\ Status' = [Status EXCEPT ![dataFifo[k].req] = "closed"]
<1> DEFINE p == dataFifo[k].req
<1>a. TypeOK /\ TypeOK' /\ Base
  BY TypeOKStep DEF PInv, Base
<1>1. p \in Queued /\ Queued' = Queued \ {p}
  BY <1>a, QueuedDrops
<1>2. p \in Requests /\ Added(p)
  BY <1>a, <1>1, QueuedAdded
<1>3. \A r : Added(r)' <=> Added(r)
  BY <1>a, AddedStep
<1> HIDE DEF p
<1>4. Standing(p) = "pending"
  BY <1>1, <1>2 DEF Standing
<1>5. \A r \in Requests : Standing(r)' = IF r = p THEN "closed" ELSE Standing(r)
  BY <1>1, <1>2, <1>3 DEF Standing
<1>6. Status' = [Status EXCEPT ![p] = "closed"]
  BY <1>2, <1>5 DEF Status
<1> QED BY <1>2, <1>4, <1>6 DEF Status, p

LEMMA StatusKept ==
  ASSUME PInv, [Next]_vars, ~addOrUpdateFifo, Queued' = Queued
  PROVE  Status' = Status
<1>1. \A r : Added(r)' <=> Added(r)
  BY AddedStep DEF PInv, Base
<1> QED BY <1>1 DEF Status, Standing

-------------------------------------------------------------------------------
(* Every step is one of the promise, or none.                                *)

PromiseStep == Promise!Next \/ UNCHANGED <<Status, sends, delivered>>

LEMMA QuietMaps ==
  ASSUME PInv, [Next]_vars, ~addOrUpdateFifo, UNCHANGED <<sends, delivered>>
  PROVE  PromiseStep
<1>a. TypeOK /\ TypeOK'
  BY TypeOKStep DEF PInv, Base
<1>1. FifoKept
  BY <1>a, FifoKeptStep
<1>2. CASE \E k \in Slots : Drops(k)
  <2>1. PICK k \in Slots : Drops(k)
    BY <1>2
  <2>2. PICK p : p = dataFifo[k].req
    OBVIOUS
  <2>3. p \in Requests /\ Status[p] = "pending" /\ Status' = [Status EXCEPT ![p] = "closed"]
    BY <2>1, <2>2, StatusDrops
  <2>4. Promise!Close(p)
    BY <2>3 DEF Promise!Close, Promise!Pending, Status
  <2> QED BY <2>3, <2>4 DEF PromiseStep, Promise!Next
<1>3. CASE ~\E k \in Slots : Drops(k)
  <2>1. Queued' = Queued
    BY <1>1, <1>3, <1>a, QueuedKept DEF FifoKept
  <2> QED BY <2>1, StatusKept DEF PromiseStep
<1> QED BY <1>2, <1>3

LEMMA OnSyncMaps == ASSUME PInv, OnSync PROVE PromiseStep
<1>a. TypeOK /\ TypeOK' /\ SendBound' /\ [Next]_vars /\ Base
  BY TypeOKStep, PInvStep DEF PInv, Base, Next, Bus
<1>b. /\ Slots = 1 .. Len(dataFifo) /\ \A i \in Slots : dataFifo[i] \in Entry
  BY <1>a, SlotType
<1>1. PICK i \in Slots :
        /\ sends' = [sends EXCEPT ![dataFifo[i].req] = @ + 1]
        /\ dataFifo' = IF responseExpected(dataFifo[i].req)
                         THEN [dataFifo EXCEPT ![i] = MarkSent(@)]
                         ELSE SwapRemove(dataFifo, i)
  BY DEF OnSync
<1>2. PICK p : p = dataFifo[i].req
  OBVIOUS
<1>3. p \in Requests /\ p \in Queued /\ Added(p)
  BY <1>a, <1>2, QueuedAdded DEF Queued
<1>4. ~addOrUpdateFifo
  <2>1. client' = client
    BY DEF OnSync
  <2> QED BY <2>1 DEF addOrUpdateFifo
<1>5. Status[p] = "pending"
  BY <1>3 DEF Status, Standing
<1>6. Status' \in {Status, [Status EXCEPT ![p] = "closed"]}
  <2>1. CASE responseExpected(dataFifo[i].req)
    <3>1. MarkSent(dataFifo[i]) \in Entry /\ MarkSent(dataFifo[i]).req = dataFifo[i].req
      BY <1>b, EntryUpdates
    <3>2. Sets(i, MarkSent(dataFifo[i]))
      BY <1>1, <1>a, <2>1, <3>1, FifoShapes
    <3>3. Queued' = Queued
      BY <1>a, <3>1, <3>2, QueuedKept
    <3> QED BY <1>a, <1>4, <3>3, StatusKept
  <2>2. CASE ~responseExpected(dataFifo[i].req)
    <3>1. Drops(i)
      BY <1>1, <1>a, <2>2, FifoShapes
    <3> QED BY <1>a, <1>2, <1>4, <3>1, StatusDrops
  <2> QED BY <2>1, <2>2
<1>7. sends[p] < MaxResend + 1
  <2>1. sends'[p] = sends[p] + 1 /\ sends[p] \in Nat
    BY <1>1, <1>2, <1>3, <1>a DEF TypeOK
  <2>2. sends'[p] <= MaxResend + 1
    <3>1. sends'[p] <= MaxResend + 1 \/ sends'[p] <= 1
      BY <1>3, <1>a DEF SendBound
    <3> QED BY <2>1, <3>1, SizesAssumption
  <2> QED BY <2>1, <2>2, SizesAssumption
<1>8. UNCHANGED delivered
  BY DEF OnSync
<1>9. Promise!Transmit(p)
  BY <1>1, <1>2, <1>3, <1>5, <1>6, <1>7, <1>8 DEF Promise!Transmit, Promise!Pending, Status
<1> QED BY <1>3, <1>9 DEF PromiseStep, Promise!Next

LEMMA SaveMaps == ASSUME PInv, SaveResponse PROVE PromiseStep
<1>a. TypeOK /\ [Next]_vars
  BY DEF PInv, Base, Next, Maintain
<1>1. /\ maintain = "save" /\ UNCHANGED <<dataFifo, client, sends>>
      /\ delivered' = [delivered EXCEPT ![got] = @ + 1]
  BY DEF SaveResponse
<1>2. got \in Requests /\ delivered[got] \in Nat /\ sends[got] \in Nat /\ replies[got] \in Nat
  BY <1>1, <1>a DEF TypeOK
<1>3. sends[got] > 0
  BY <1>2 DEF PInv, AnswerBelongs, RepliesSent
<1>4. delivered[got] < 2
  <2>1. Saved(got) <= 2
    BY <1>2 DEF PInv, SavedCounted
  <2> QED BY <1>1, <1>2, <2>1 DEF Saved
<1>5. Status' = Status
  <2>1. ~addOrUpdateFifo
    BY <1>1 DEF addOrUpdateFifo
  <2>2. Queued' = Queued
    BY <1>1 DEF Queued, Slots
  <2> QED BY <1>a, <2>1, <2>2, StatusKept
<1>6. Promise!Deliver(got)
  BY <1>1, <1>3, <1>4, <1>5 DEF Promise!Deliver, Status
<1> QED BY <1>2, <1>6 DEF PromiseStep, Promise!Next

LEMMA AddMaps == ASSUME PInv, addOrUpdateFifo PROVE PromiseStep
<1> DEFINE r == Len(reqs)
           e == NewEntry(r)
<1>a. TypeOK /\ TypeOK' /\ Base /\ [Next]_vars
  BY TypeOKStep DEF PInv, Base, Next, Client
<1>b. /\ Slots = 1 .. Len(dataFifo) /\ Len(dataFifo) \in Nat
      /\ Slots' = 1 .. Len(dataFifo')
      /\ \A i, j \in Slots : dataFifo[i].req = dataFifo[j].req => i = j
  BY <1>a, SlotType, LenProperties DEF TypeOK, Slots, Base, EntriesDistinct
<1>1. /\ r \in Requests /\ e.req = r /\ ~Added(r) /\ client = "adding" /\ UNCHANGED reqs
      /\ (\E i \in Slots : Sets(i, e)) \/ Pushes(e) \/ UNCHANGED dataFifo
  BY <1>a, AddShapes
<1>2. UNCHANGED <<sends, delivered>>
  BY DEF addOrUpdateFifo, history
<1>3. /\ \A q : Added(q)' <=> q \in 1 .. r
      /\ \A q : Added(q) <=> q \in 1 .. r - 1
      /\ r \in Nat \ {0}
  BY <1>1, <1>a, AddedStep DEF Requests
<1>4. PICK m \in Requests : m = r
  BY <1>1
<1> HIDE DEF e, r
<1>5. /\ \A q \in Requests : q # m => (Added(q)' <=> Added(q))
      /\ Added(m)' /\ ~Added(m)
  BY <1>1, <1>3, <1>4 DEF Requests
<1>6. m \notin Queued /\ \A q \in Queued : q \in Requests /\ Added(q)
  BY <1>a, <1>5, QueuedAdded
<1>7. Promise!InOrder(m)
  <2>1. Status[m] = "new"
    BY <1>5 DEF Status, Standing
  <2>2. \A q \in Requests : q < m => Status[q] # "new"
    BY <1>3, <1>4 DEF Status, Standing, Requests
  <2> QED BY <2>1, <2>2 DEF Promise!InOrder, Status
<1>8. CASE \E i \in Slots : Sets(i, e)
  <2>1. PICK i \in Slots : Sets(i, e)
    BY <1>8
  <2>2. PICK p : p = dataFifo[i].req
    OBVIOUS
  <2>3. p \in Queued /\ p \in Requests /\ Added(p) /\ p # m
    BY <1>5, <1>6, <2>2 DEF Queued
  <2>4. Slots' = Slots /\ \A j \in Slots : dataFifo'[j] = IF j = i THEN e ELSE dataFifo[j]
    BY <1>b, <2>1 DEF Sets
  <2>5. Queued' = (Queued \ {p}) \cup {m}
    BY <1>1, <1>4, <1>b, <2>2, <2>4 DEF Queued
  <2>6. \A q \in Requests :
          Standing(q)' = IF q = m THEN "pending" ELSE IF q = p THEN "closed" ELSE Standing(q)
    BY <1>5, <2>3, <2>5 DEF Standing
  <2>7. Status' = [Status EXCEPT ![m] = "pending", ![p] = "closed"]
    BY <2>3, <2>6 DEF Status
  <2>8. Status[p] = "pending"
    BY <2>3 DEF Status, Standing
  <2>9. Promise!Accept(m)
    BY <1>2, <1>7, <2>3, <2>7, <2>8 DEF Promise!Accept, Promise!Pending, Status
  <2> QED BY <1>4, <2>9 DEF PromiseStep, Promise!Next
<1>9. CASE Pushes(e)
  <2>1. /\ Slots' = Slots \cup {Len(dataFifo) + 1}
        /\ \A j \in Slots : dataFifo'[j] = dataFifo[j]
        /\ dataFifo'[Len(dataFifo) + 1] = e
    BY <1>b, <1>9 DEF Pushes
  <2>2. Queued' = Queued \cup {m}
    BY <1>1, <1>4, <2>1 DEF Queued
  <2>3. \A q \in Requests : Standing(q)' = IF q = m THEN "pending" ELSE Standing(q)
    BY <1>5, <2>2 DEF Standing
  <2>4. Status' = [Status EXCEPT ![m] = "pending"]
    BY <2>3 DEF Status
  <2>5. Promise!Accept(m)
    BY <1>2, <1>7, <2>4 DEF Promise!Accept, Status
  <2> QED BY <1>4, <2>5 DEF PromiseStep, Promise!Next
<1>10. CASE UNCHANGED dataFifo
  <2>1. Queued' = Queued
    BY <1>10 DEF Queued, Slots
  <2>2. \A q \in Requests : Standing(q)' = IF q = m THEN "closed" ELSE Standing(q)
    BY <1>5, <1>6, <2>1 DEF Standing
  <2>3. Status' = [Status EXCEPT ![m] = "closed"]
    BY <2>2 DEF Status
  <2>4. Promise!Refuse(m)
    BY <1>2, <1>7, <2>3 DEF Promise!Refuse, Status
  <2> QED BY <1>4, <2>4 DEF PromiseStep, Promise!Next
<1> QED BY <1>1, <1>8, <1>9, <1>10

(* The request FIFO does what VEBus promises, for any keys, ids, slots,      *)
(* retries and requests: it implements RequestPromise.                       *)
THEOREM KeepsPromiseCorrect == Spec => KeepsPromise
<1>1. Init => Promise!Init
  <2> SUFFICES ASSUME Init PROVE Promise!Init
    OBVIOUS
  <2>1. \A r \in Requests : Standing(r) = "new"
    <3>1. reqs = <<>> /\ Len(reqs) = 0
      BY EmptySeq DEF Init
    <3> QED BY <3>1 DEF Standing, Added
  <2> QED BY <2>1 DEF Init, Promise!Init
<1>2. ASSUME PInv, [Next]_vars PROVE PromiseStep
  <2>1. CASE UNCHANGED <<sends, delivered>> /\ ~addOrUpdateFifo
    BY <1>2, <2>1, QuietMaps
  <2>2. CASE addOrUpdateFifo
    BY <1>2, <2>2, AddMaps
  <2>3. CASE OnSync
    BY <1>2, <2>3, OnSyncMaps
  <2>4. CASE SaveResponse
    BY <1>2, <2>4, SaveMaps
  <2> QED
    BY <1>2, <2>1, <2>2, <2>3, <2>4
       DEF Next, Client, Bus, Maintain, Request, SetSwitch, Build, RequestRefused, OnReply,
           CheckTimeoutBegin, CheckTimeout, CheckResponse, Tick, vars, history
<1>3. PInv /\ [Next]_vars => [Promise!Next]_(Promise!vars)
  BY <1>2 DEF PromiseStep, Promise!vars, Status
<1> QED BY <1>1, <1>3, PInvInit, PInvStep, PTL DEF Spec, KeepsPromise, Promise!Spec
===============================================================================
