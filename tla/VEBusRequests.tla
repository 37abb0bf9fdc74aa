---------------------------- MODULE VEBusRequests -----------------------------
(***************************************************************************)
(* The request FIFO of class VEBus (src/ve_bus.cpp): requests to the       *)
(* inverter are built and queued by a client task, sent by the             *)
(* communication task whenever the bus offers a sync frame, answered by    *)
(* the inverter, and retried, given up or delivered by the task that calls *)
(* Maintain every 10 ms.                                                   *)
(*                                                                         *)
(* _semaphoreDataFifo protects the FIFO.  Every section that holds it is   *)
(* one step here, except the sweep of checkResponseTimeout, which is one   *)
(* step per entry: getNextFreeId_1 reads the FIFO without the semaphore    *)
(* and can see the sweep half done.                                        *)
(*                                                                         *)
(* A request is named by its position in reqs, the history of all requests *)
(* built.  Its key stands for the pair (address, command), its id for the  *)
(* byte 0x80 .. 0xFF that the inverter echoes in its answer.               *)
(***************************************************************************)
EXTENDS Integers, Sequences, StaticVector

CONSTANTS
  Keys,        \* the (address, command) pairs of requests
  NumIds,      \* ids getNextFreeId_1 can hand out (128 in the code)
  FifoSize,    \* VEBUS_FIFO_SIZE
  MaxResend,   \* VEBUS_MAX_RESEND
  Timeout,     \* VEBUS_RESPONSE_TIMEOUT, in ticks of the clock
  MaxRequests  \* bound on the requests a behaviour builds

ASSUME KeysAssumption  == Keys # {}
ASSUME SizesAssumption == /\ FifoSize \in Nat \ {0}
                          /\ NumIds \in Nat \ {0}
                          /\ MaxResend \in Nat
                          /\ Timeout \in Nat \ {0}
                          /\ MaxRequests \in Nat

Ids == 0 .. NumIds - 1

(* Data::id of a request that never asked for one; the field defaults to 0, *)
(* which is none of 0x80 .. 0xFF.                                           *)
NoId == NumIds

Requests == 1 .. MaxRequests

VARIABLES
  reqs,      \* the requests built so far: [key, id]
  client,    \* the calling task: "idle", or "adding" the last request of reqs
  lastId,    \* _id, the id tried last
  dataFifo,  \* _dataFifo
  maintain,  \* where the task in Maintain stands
  sweepAt,   \* loop index of checkResponseTimeout
  got,       \* the request whose answer saveResponseData works on, or 0
  sends,     \* history: frames transmitted for each request
  replies,   \* history: frames the inverter answered for each request
  delivered  \* history: answers saved and handed to the response callback

history == <<sends, replies, delivered>>
vars == <<reqs, client, lastId, dataFifo, maintain, sweepAt, got, history>>

(* struct Data: age is millis() - sentTimeMs, capped at Timeout; resp is    *)
(* responseData: empty, with the expected code in byte 6, or with another.  *)
Entry == [req    : Requests,
          sent   : BOOLEAN,
          resend : 0 .. MaxResend,
          resp   : {"none", "ok", "bad"},
          age    : 0 .. Timeout]

NewEntry(r) ==
  [req |-> r, sent |-> FALSE, resend |-> 0, resp |-> "none", age |-> 0]

Key(r) == reqs[r].key
Id(r)  == reqs[r].id
responseExpected(r) == Id(r) # NoId

Slots  == DOMAIN dataFifo
Queued == {dataFifo[i].req : i \in Slots}

First(i, S) == i \in S /\ \A j \in S : i <= j
Last(i, S)  == i \in S /\ \A j \in S : j <= i

(* Only the sweep holds the semaphore for longer than a step. *)
fifoFree == maintain # "sweep"

Init ==
  /\ reqs = <<>>
  /\ client = "idle"
  /\ lastId = NumIds - 1
  /\ dataFifo = <<>>
  /\ maintain = "timeout"
  /\ sweepAt = 0
  /\ got = 0
  /\ sends = [r \in Requests |-> 0]
  /\ replies = [r \in Requests |-> 0]
  /\ delivered = [r \in Requests |-> 0]

-------------------------------------------------------------------------------
(* The client: WriteViaID, SetPower, Read, ReadInfo, ReadSoftwareVersion    *)
(* and CommandReadDeviceState, which differ in the key only, and SetSwitch. *)

UsedIds == {Id(r) : r \in Queued}

NextId(id) == (id + 1) % NumIds

(* Fault: the candidate is taken without looking at the FIFO. *)
IdTaken_Never(id) == FALSE

IdTaken(id) == id \in UsedIds

(* The data of a request; of the frame in it only key and id matter. *)
Build(k, id) ==
  /\ client = "idle"
  /\ Len(reqs) < MaxRequests
  /\ reqs' = Append(reqs, [key |-> k, id |-> id])
  /\ client' = "adding"
  /\ UNCHANGED <<dataFifo, maintain, sweepAt, got, history>>

(***************************************************************************)
(* getNextFreeId_1 tries NumIds - 1 candidates but never resets idUsed:    *)
(* only the first candidate can be accepted.  A refused request returns an *)
(* error to its caller and leaves _id one behind where it was.             *)
(***************************************************************************)
Request(k) ==
  /\ ~IdTaken(NextId(lastId))
  /\ lastId' = NextId(lastId)
  /\ Build(k, NextId(lastId))

RequestRefused ==
  /\ client = "idle"
  /\ IdTaken(NextId(lastId))
  /\ lastId' = (lastId + NumIds - 1) % NumIds
  /\ UNCHANGED <<reqs, client, dataFifo, maintain, sweepAt, got, history>>

(* SetSwitch leaves address and command uninitialized: any key.            *)
SetSwitch(k) ==
  /\ Build(k, NoId)
  /\ UNCHANGED lastId

SameKeySlots(r) == {i \in Slots : Key(dataFifo[i].req) = Key(r)}

(* Fault: a request with a queued key is pushed, not merged. *)
addOrUpdateFifo_NoUpdate ==
  /\ client = "adding"
  /\ fifoFree
  /\ dataFifo' = Push(dataFifo, NewEntry(Len(reqs)), FifoSize)
  /\ client' = "idle"
  /\ UNCHANGED <<reqs, lastId, maintain, sweepAt, got, history>>

(* The new request replaces a queued one with its key, whatever that one    *)
(* still waits for; otherwise it is pushed, or dropped when the FIFO is     *)
(* full.  The caller is not told which.                                     *)
addOrUpdateFifo ==
  LET r == Len(reqs) IN
  /\ client = "adding"
  /\ fifoFree
  /\ \/ \E i \in Slots :
          /\ First(i, SameKeySlots(r))
          /\ dataFifo' = [dataFifo EXCEPT ![i] = NewEntry(r)]
     \/ /\ SameKeySlots(r) = {}
        /\ dataFifo' = Push(dataFifo, NewEntry(r), FifoSize)
  /\ client' = "idle"
  /\ UNCHANGED <<reqs, lastId, maintain, sweepAt, got, history>>

-------------------------------------------------------------------------------
(* The communication task and the inverter.                                 *)

MarkSent(e) == [e EXCEPT !.sent = TRUE, !.age = 0]

(* Fault: an entry is sent again although its answer is still awaited. *)
Unsent_All == Slots

Unsent == {i \in Slots : ~dataFifo[i].sent}

(* commandHandling on a sync frame: the first unsent entry goes out; one    *)
(* that expects no answer leaves the FIFO, replaced by the last one.        *)
OnSync ==
  /\ fifoFree
  /\ \E i \in Slots :
       LET r == dataFifo[i].req IN
       /\ First(i, Unsent)
       /\ sends' = [sends EXCEPT ![r] = @ + 1]
       /\ dataFifo' = IF responseExpected(r)
                        THEN [dataFifo EXCEPT ![i] = MarkSent(@)]
                        ELSE SwapRemove(dataFifo, i)
  /\ UNCHANGED <<reqs, client, lastId, maintain, sweepAt, got, replies, delivered>>

IdSlots(id) == {i \in Slots : Id(dataFifo[i].req) = id}

(***************************************************************************)
(* The inverter answers a frame of request r, late or not, with a code     *)
(* that fits or not; the answer may also be lost (no step).  It is stored  *)
(* in the first entry with its id, or dropped when there is none.  An      *)
(* answer is never so late that its id was handed out again: that takes    *)
(* NumIds further requests.                                                *)
(***************************************************************************)
OnReply(r, code) ==
  /\ fifoFree
  /\ responseExpected(r)
  /\ replies[r] < sends[r]
  /\ \A q \in r + 1 .. Len(reqs) : Id(q) # Id(r)
  /\ replies' = [replies EXCEPT ![r] = @ + 1]
  /\ \/ \E i \in Slots :
          /\ First(i, IdSlots(Id(r)))
          /\ dataFifo' = [dataFifo EXCEPT ![i].resp = code]
     \/ /\ IdSlots(Id(r)) = {}
        /\ UNCHANGED dataFifo
  /\ UNCHANGED <<reqs, client, lastId, maintain, sweepAt, got, sends, delivered>>

-------------------------------------------------------------------------------
(* Maintain: checkResponseTimeout, then checkResponseMessage, again and     *)
(* again.                                                                   *)

(* Fault: a retry is not counted. *)
MarkUnsent_NoCount(e) == [e EXCEPT !.sent = FALSE, !.age = 0]

MarkUnsent(e) == [e EXCEPT !.resend = @ + 1, !.sent = FALSE, !.age = 0]

(* Fault: a request not yet sent never times out. *)
Due_SentOnly(i) == dataFifo[i].age >= Timeout /\ dataFifo[i].sent

Due(i) == dataFifo[i].age >= Timeout

CheckTimeoutBegin ==
  /\ maintain = "timeout"
  /\ IF dataFifo = <<>>
       THEN maintain' = "response" /\ UNCHANGED sweepAt
       ELSE maintain' = "sweep" /\ sweepAt' = Len(dataFifo)
  /\ UNCHANGED <<reqs, client, lastId, dataFifo, got, history>>

(* Fault: the resend limit allows one more retry. *)
MayRetry_OffByOne(e) == e.resend <= MaxResend

MayRetry(e) == e.resend < MaxResend

Remove(i) == dataFifo' = SwapRemove(dataFifo, i)
Retry(i)  == dataFifo' = [dataFifo EXCEPT ![i] = MarkUnsent(@)]

(* One round of the loop over the FIFO, last entry first. *)
CheckTimeout ==
  /\ maintain = "sweep"
  /\ \/ ~Due(sweepAt) /\ UNCHANGED dataFifo
     \/ Due(sweepAt) /\ MayRetry(dataFifo[sweepAt]) /\ Retry(sweepAt)
     \/ Due(sweepAt) /\ ~MayRetry(dataFifo[sweepAt]) /\ Remove(sweepAt)
  /\ sweepAt' = sweepAt - 1
  /\ maintain' = IF sweepAt = 1 THEN "response" ELSE "sweep"
  /\ UNCHANGED <<reqs, client, lastId, got, history>>

Answered == {i \in Slots : dataFifo[i].resp # "none"}

(* Fault: the answered entry stays where it is. *)
TakeOut_Keep(i) == dataFifo' = dataFifo

(* `_dataFifo[i] = *_dataFifo.pop()`: when i is the last of several slots,  *)
(* it is slot 0 that is overwritten, by the entry that should go.           *)
TakeOut(i) == dataFifo' = AssignPopped(dataFifo, i)

(* The last entry with an answer is handled: delivered, given up, or        *)
(* queued again with its rejected answer still in it.                       *)
CheckResponse ==
  /\ maintain = "response"
  /\ \/ /\ Answered = {}
        /\ maintain' = "timeout"
        /\ UNCHANGED <<dataFifo, got>>
     \/ \E i \in Slots :
          /\ Last(i, Answered)
          /\ \/ /\ dataFifo[i].resp = "ok"
                /\ got' = dataFifo[i].req
                /\ TakeOut(i)
                /\ maintain' = "save"
             \/ /\ dataFifo[i].resp = "bad"
                /\ IF MayRetry(dataFifo[i]) THEN Retry(i) ELSE TakeOut(i)
                /\ maintain' = "timeout"
                /\ UNCHANGED got
  /\ UNCHANGED <<reqs, client, lastId, sweepAt, history>>

(* saveResponseData, after the semaphore was released.  What it makes of the *)
(* answer for the callback is left out.                                     *)
SaveResponse ==
  /\ maintain = "save"
  /\ delivered' = [delivered EXCEPT ![got] = @ + 1]
  /\ got' = 0
  /\ maintain' = "timeout"
  /\ UNCHANGED <<reqs, client, lastId, dataFifo, sweepAt, sends, replies>>

-------------------------------------------------------------------------------
Older(e) == [e EXCEPT !.age = IF @ < Timeout THEN @ + 1 ELSE @]

(* millis() advances. *)
Tick ==
  /\ \E i \in Slots : dataFifo[i].age < Timeout
  /\ dataFifo' = [i \in Slots |-> Older(dataFifo[i])]
  /\ UNCHANGED <<reqs, client, lastId, maintain, sweepAt, got, history>>

Client == \/ \E k \in Keys : Request(k) \/ SetSwitch(k)
          \/ RequestRefused
          \/ addOrUpdateFifo

Bus == \/ OnSync
       \/ \E r \in 1 .. Len(reqs), code \in {"ok", "bad"} : OnReply(r, code)

Maintain == CheckTimeoutBegin \/ CheckTimeout \/ CheckResponse \/ SaveResponse

Next == Client \/ Bus \/ Maintain \/ Tick

Spec == Init /\ [][Next]_vars

(* Maintain is called every 10 ms by a task of the highest priority and     *)
(* time passes; neither the client nor the bus owes anyone a step.          *)
Fairness == WF_vars(Maintain) /\ WF_vars(Tick)

FairSpec == Spec /\ Fairness
-------------------------------------------------------------------------------
(* Every variable has a value of its type; no entry is resent more often    *)
(* than VEBUS_MAX_RESEND; the sweep never reads past the live entries.      *)
TypeOK ==
  /\ reqs \in Seq([key : Keys, id : Ids \cup {NoId}]) /\ Len(reqs) <= MaxRequests
  /\ client \in {"idle", "adding"}
  /\ client = "adding" => reqs # <<>>
  /\ lastId \in Ids
  /\ dataFifo \in Seq(Entry) /\ Len(dataFifo) <= FifoSize
  /\ maintain \in {"timeout", "sweep", "response", "save"}
  /\ sweepAt \in Nat
  /\ maintain = "sweep" => sweepAt \in 1 .. Len(dataFifo)
  /\ got \in 0 .. MaxRequests
  /\ maintain = "save" => got \in Requests
  /\ sends \in [Requests -> Nat]
  /\ replies \in [Requests -> Nat]
  /\ delivered \in [Requests -> Nat]

Added(r) == r \in 1 .. Len(reqs) /\ ~(client = "adding" /\ r = Len(reqs))

(* A newer request with the same address and command supersedes an older    *)
(* one: nothing that was asked for before the latest such request is still  *)
(* waiting to be sent, not even after slots were swapped, assigned over or  *)
(* refused.                                                                 *)
NoStaleEntry ==
  \A i \in Slots, r \in Requests :
    Added(r) /\ Key(r) = Key(dataFifo[i].req) => r <= dataFifo[i].req

(* An answer is only ever attributed to a request whose own frame the       *)
(* inverter answered: ids in the FIFO are unique although they wrap.        *)
AnswerBelongs ==
  /\ \A i \in Slots : dataFifo[i].resp # "none" => replies[dataFifo[i].req] > 0
  /\ \A r \in Requests : delivered[r] > 0 \/ got = r => replies[r] > 0

(* Frames are limited: a request that expects an answer is put on the wire  *)
(* at most 1 + VEBUS_MAX_RESEND times, a switch command once, whatever the  *)
(* order of timeouts, wrong answers and sync frames (an EEPROM write wears  *)
(* the inverter's memory each time, ve_bus.h:65).                           *)
SendBound ==
  \A r \in Requests :
    sends[r] <= IF r \in 1 .. Len(reqs) /\ responseExpected(r)
                  THEN MaxResend + 1 ELSE 1

(* The response callback hears of one request at most twice: once is what   *)
(* is meant, and the entry left behind in slot 0 by an assignment over the  *)
(* wrong slot costs at most one repetition.                                 *)
DeliveredAtMostTwice == \A r \in Requests : delivered[r] <= 2

(* A queued request does not stay for ever, on a dead bus neither: it is    *)
(* sent without answer, answered, superseded, given up or lost.             *)
EveryRequestLeaves == \A r \in Requests : r \in Queued ~> r \notin Queued

(* The promise VEBus keeps about a request: where it stands there. *)
Standing(r) == IF ~Added(r) THEN "new"
               ELSE IF r \in Queued THEN "pending" ELSE "closed"

Promise == INSTANCE RequestPromise
  WITH MaxTx <- MaxResend + 1, MaxDelivery <- 2,
       status <- [r \in Requests |-> Standing(r)],
       tx <- sends, deliveries <- delivered

(* Whatever the tasks and the bus do, requests are accepted in the order    *)
(* they are made, transmitted only while they are pending and never again   *)
(* once they left, and deliver only what was transmitted.                   *)
KeepsPromise == Promise!Spec
================================================================================
