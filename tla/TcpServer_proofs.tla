--------------------------- MODULE TcpServer_proofs ---------------------------
(***************************************************************************)
(* Proofs about TcpServer, for any pool of connections, number of slots,   *)
(* heap and length of the responses.                                       *)
(***************************************************************************)
EXTENDS TcpServer, TLAPS

(* The part of the state that the callbacks change beside the request. *)
ConnTypes ==
  /\ pcb \in [Pcbs -> {"free", "open", "closing"}]
  /\ unacked \in [Pcbs -> Nat]
  /\ slots \in [Slots -> Pcbs \cup {Null}]
  /\ corrupt \in BOOLEAN

(* A slot is stale only as long as it is taken: a new connection in it is   *)
(* live.                                                                    *)
StaleIsTaken == stale \subseteq Taken

Connections == ConnTypes /\ StaleIsTaken /\ SlotsAreConnections

RequestTypes ==
  /\ client \in Pcbs \cup {Null} /\ left \in 0 .. MaxResponse /\ retry \in 1 .. Retries
  /\ BuffersComeBack

IInv == Connections /\ RequestTypes

conns == <<pcb, unacked, slots, corrupt, stale>>

LEMMA Types == IInv => TypeOK
BY TcpAssumption DEF IInv, Connections, ConnTypes, StaleIsTaken, RequestTypes,
  BuffersComeBack, TypeOK, Taken, Slots

LEMMA InitIInv == Init => IInv
<1> SUFFICES ASSUME Init PROVE IInv
  OBVIOUS
<1>1. ConnTypes /\ Taken = {} /\ stale = {}
  BY DEF Init, ConnTypes, Taken
<1>2. SlotsAreConnections
  BY <1>1 DEF Init, SlotsAreConnections, Live
<1>3. RequestTypes
  BY TcpAssumption DEF Init, RequestTypes, BuffersComeBack
<1> QED BY <1>1, <1>2, <1>3 DEF IInv, Connections, StaleIsTaken

LEMMA ConnectionsUnchanged ==
  ASSUME Connections, UNCHANGED conns
  PROVE  Connections'
BY DEF conns, Connections, ConnTypes, StaleIsTaken, SlotsAreConnections, Live, Taken

-------------------------------------------------------------------------------
(* Clearing slots.                                                          *)

(* Clearing is safe when it takes all slots with the same connection, and   *)
(* those of what lwIP frees by itself.                                      *)
LEMMA ClearKeepsConnections ==
  ASSUME Connections, ~corrupt,
         NEW S \in SUBSET Taken, NEW gone \in SUBSET Pcbs,
         \A i \in S, j \in Taken : slots[j] = slots[i] => j \in S,
         \A j \in Taken : slots[j] \in gone => j \in S,
         ClearSlots(S, gone)
  PROVE  Connections'
<1>1. PICK freed \in SUBSET {slots[i] : i \in S} :
        /\ pcb' = [p \in Pcbs |-> IF p \in freed \cup gone THEN "free"
                                  ELSE IF \E i \in S : slots[i] = p THEN "closing" ELSE pcb[p]]
        /\ unacked' = [p \in Pcbs |-> IF p \in freed \cup gone THEN 0 ELSE unacked[p]]
        /\ slots' = [i \in Slots |-> IF i \in S THEN Null ELSE slots[i]]
        /\ stale' = stale \ S
  BY DEF ClearSlots, Cleared
<1>2. corrupt' \in BOOLEAN
  BY DEF ClearSlots
<1>3. ConnTypes'
  BY <1>1, <1>2 DEF Connections, ConnTypes
<1>4. S \subseteq Slots /\ Taken' = Taken \ S /\ \A i \in Taken' : slots'[i] = slots[i]
  BY <1>1 DEF Taken
<1>5. StaleIsTaken'
  BY <1>1, <1>4 DEF Connections, StaleIsTaken
<1>6. Live' = Live \ S
  BY <1>1, <1>4 DEF Live
<1>7. ASSUME NEW j \in Live \ S
      PROVE  slots'[j] = slots[j] /\ slots[j] \in Pcbs /\ pcb'[slots[j]] = pcb[slots[j]]
  <2>1. j \in Taken /\ slots[j] \in Pcbs /\ slots'[j] = slots[j]
    BY <1>1, <1>4, <1>6, <1>7 DEF Live, Taken, Connections, ConnTypes
  <2>2. slots[j] \notin {slots[i] : i \in S} /\ slots[j] \notin gone
    BY <1>7, <2>1
  <2> QED BY <1>1, <2>1, <2>2
<1>8. ASSUME NEW p \in Pcbs, pcb'[p] = "open"
      PROVE  pcb[p] = "open" /\ \A i \in S : slots[i] # p
  BY <1>1, <1>8
<1>9. SlotsAreConnections'
  <2>1. \A i \in Live' : pcb'[slots'[i]] = "open"
    BY <1>6, <1>7 DEF Connections, SlotsAreConnections
  <2>2. \A i, j \in Live' : slots'[i] = slots'[j] => i = j
    BY <1>6, <1>7 DEF Connections, SlotsAreConnections
  <2>3. ASSUME NEW p \in Pcbs, pcb'[p] = "open"
        PROVE  \E i \in Live' : slots'[i] = p
    <3>1. PICK i \in Live : slots[i] = p
      BY <1>8, <2>3 DEF Connections, SlotsAreConnections
    <3>2. i \in Live \ S
      BY <1>8, <2>3, <3>1
    <3> QED BY <1>6, <1>7, <3>1, <3>2
  <2> QED BY <2>1, <2>2, <2>3 DEF SlotsAreConnections
<1> QED BY <1>3, <1>5, <1>9 DEF Connections

(* The slots of one connection, without anything lwIP frees by itself. *)
LEMMA ClearOne ==
  ASSUME Connections, ~corrupt, NEW p \in Pcbs, ClearSlots(SlotsOf(p), {})
  PROVE  Connections'
<1>1. SlotsOf(p) \in SUBSET Taken
  BY TcpAssumption DEF SlotsOf, Taken
<1>2. \A i \in SlotsOf(p), j \in Taken : slots[j] = slots[i] => j \in SlotsOf(p)
  BY DEF SlotsOf, Taken
<1>3. \A j \in Taken : slots[j] \in {} => j \in SlotsOf(p)
  OBVIOUS
<1>4. {} \in SUBSET Pcbs
  OBVIOUS
<1> QED BY <1>1, <1>2, <1>3, <1>4, ClearKeepsConnections

LEMMA ClearAll ==
  ASSUME Connections, ~corrupt, NEW gone \in SUBSET Pcbs, ClearSlots(Taken, gone)
  PROVE  Connections'
<1>1. \A i \in Taken, j \in Taken : slots[j] = slots[i] => j \in Taken
  OBVIOUS
<1>2. \A j \in Taken : slots[j] \in gone => j \in Taken
  OBVIOUS
<1>3. Taken \in SUBSET Taken
  OBVIOUS
<1> QED BY <1>1, <1>2, <1>3, ClearKeepsConnections

-------------------------------------------------------------------------------
(* One lemma per kind of step.                                              *)

LEMMA AcceptKeeps ==
  ASSUME Connections, NEW p \in Pcbs, Accept(p)
  PROVE  Connections'
<1>1. PICK i \in Slots \ Taken : slots' = [slots EXCEPT ![i] = p]
  BY DEF Accept
<1>2. ~corrupt /\ pcb[p] = "free" /\ pcb' = [pcb EXCEPT ![p] = "open"]
      /\ UNCHANGED <<unacked, corrupt, stale>>
  BY DEF Accept, Idle
<1>3. ConnTypes'
  BY <1>1, <1>2 DEF Connections, ConnTypes
<1>4. Taken' = Taken \cup {i} /\ i \notin Taken
  BY <1>1, TcpAssumption DEF Taken, Connections, ConnTypes
<1>5. StaleIsTaken' /\ Live' = Live \cup {i} /\ i \notin Live
  BY <1>2, <1>4 DEF Connections, StaleIsTaken, Live
<1>6. slots'[i] = p /\ \A j \in Live : slots'[j] = slots[j] /\ slots[j] # p /\ slots[j] \in Pcbs
  BY <1>1, <1>2, <1>4, <1>5 DEF Live, Taken, Connections, ConnTypes, SlotsAreConnections
<1>7. pcb'[p] = "open" /\ \A q \in Pcbs \ {p} : pcb'[q] = pcb[q]
  BY <1>2 DEF Connections, ConnTypes
<1>8. SlotsAreConnections'
  <2>1. \A j \in Live' : pcb'[slots'[j]] = "open"
    BY <1>2, <1>5, <1>6, <1>7 DEF Connections, SlotsAreConnections
  <2>2. \A j, k \in Live' : slots'[j] = slots'[k] => j = k
    BY <1>2, <1>5, <1>6 DEF Connections, SlotsAreConnections
  <2>3. \A q \in Pcbs : pcb'[q] = "open" => \E j \in Live' : slots'[j] = q
    BY <1>2, <1>5, <1>6, <1>7 DEF Connections, SlotsAreConnections
  <2> QED BY <2>1, <2>2, <2>3 DEF SlotsAreConnections
<1> QED BY <1>3, <1>5, <1>8 DEF Connections

(* Connections end without the server's doing: live slots and open          *)
(* connections go together.                                                 *)
LEMMA AbortKeeps ==
  ASSUME Connections, NEW p \in Pcbs, Abort(p)
  PROVE  Connections'
<1>1. /\ ~corrupt /\ pcb' = [pcb EXCEPT ![p] = "free"]
      /\ unacked' = [unacked EXCEPT ![p] = 0]
      /\ stale' = stale \cup SlotsOf(p) /\ UNCHANGED <<slots, corrupt>>
  BY DEF Abort, Idle
<1>2. ConnTypes' /\ Taken' = Taken
  BY <1>1 DEF Connections, ConnTypes, Taken
<1>3. StaleIsTaken' /\ Live' = Live \ SlotsOf(p)
  BY <1>1, <1>2, TcpAssumption DEF Connections, StaleIsTaken, Live, Taken, SlotsOf
<1>4. \A j \in Live' : slots[j] \in Pcbs \ {p} /\ pcb'[slots[j]] = pcb[slots[j]]
  BY <1>1, <1>3 DEF Live, Taken, SlotsOf, Connections, ConnTypes
<1>5. \A q \in Pcbs : pcb'[q] = "open" => q # p /\ pcb[q] = "open"
  BY <1>1 DEF Connections, ConnTypes
<1>6. SlotsAreConnections'
  <2>1. \A q \in Pcbs : pcb'[q] = "open" => \E j \in Live' : slots[j] = q
    BY <1>1, <1>3, <1>5 DEF SlotsOf, Connections, SlotsAreConnections
  <2> QED BY <2>1, <1>1, <1>3, <1>4 DEF Connections, SlotsAreConnections
<1> QED BY <1>2, <1>3, <1>6 DEF Connections

(* A place of the pool that is not open changes to another such state. *)
LEMMA ClosedKeeps ==
  ASSUME Connections, NEW p \in Pcbs, pcb[p] # "open",
         NEW state \in {"free", "closing"}, pcb' = [pcb EXCEPT ![p] = state],
         unacked' \in [Pcbs -> Nat], UNCHANGED <<slots, corrupt, stale>>
  PROVE  Connections'
<1>1. ConnTypes' /\ Taken' = Taken /\ Live' = Live /\ StaleIsTaken'
  BY DEF Connections, ConnTypes, StaleIsTaken, Taken, Live
<1>2. \A q \in Pcbs : pcb'[q] = "open" <=> pcb[q] = "open"
  BY DEF Connections, ConnTypes
<1>3. \A j \in Live : slots[j] \in Pcbs
  BY DEF Live, Taken, Connections, ConnTypes
<1>4. SlotsAreConnections'
  BY <1>1, <1>2, <1>3 DEF Connections, SlotsAreConnections
<1> QED BY <1>1, <1>4 DEF Connections

(* Sending and acknowledgements only move data. *)
LEMMA DataKeeps ==
  ASSUME Connections, NEW p \in Pcbs, NEW n \in Nat,
         unacked' = [unacked EXCEPT ![p] = n], UNCHANGED <<pcb, slots, corrupt, stale>>
  PROVE  Connections'
BY DEF Connections, ConnTypes, StaleIsTaken, SlotsAreConnections, Live, Taken

-------------------------------------------------------------------------------
LEMMA IInvInductive ==
  ASSUME IInv, [Next]_vars
  PROVE  IInv'
<1>a. Connections /\ RequestTypes
  BY DEF IInv
<1>b. UNCHANGED request => RequestTypes'
  BY <1>a DEF request, RequestTypes, BuffersComeBack
<1> USE TcpAssumption
<1>1. CASE SendSome
  <2>1. client \in Pcbs /\ unacked[client] \in Nat
    BY <1>1, <1>a DEF SendSome, Sending, RequestTypes, Connections, ConnTypes
  <2>2. unacked[client] + 1 \in Nat
        /\ unacked' = [unacked EXCEPT ![client] = unacked[client] + 1]
    BY <1>1, <2>1 DEF SendSome
  <2>3. Connections'
    BY <1>1, <1>a, <2>1, <2>2, DataKeeps DEF SendSome
  <2>4. RequestTypes'
    BY <1>1, <1>a DEF SendSome, Sending, RequestTypes, BuffersComeBack
  <2> QED BY <2>3, <2>4 DEF IInv
<1>2. CASE WriteFails
  <2>1. Connections'
    BY <1>2, <1>a, ConnectionsUnchanged DEF WriteFails, conns
  <2>2. RequestTypes'
    BY <1>2, <1>a DEF WriteFails, AfterFailure, RequestTypes, BuffersComeBack
  <2> QED BY <2>1, <2>2 DEF IInv
<1>3. CASE SendFails
  <2>1. Connections'
    BY <1>3, <1>a, ClearOne DEF SendFails, Sending, RequestTypes
  <2>2. RequestTypes'
    BY <1>3, <1>a DEF SendFails, Sending, RequestTypes, BuffersComeBack
  <2> QED BY <2>1, <2>2 DEF IInv
<1>4. CASE SendRefused
  <2>1. Connections'
    BY <1>4, <1>a, ConnectionsUnchanged DEF SendRefused, conns
  <2>2. RequestTypes'
    BY <1>4, <1>a DEF SendRefused, RequestTypes, BuffersComeBack
  <2> QED BY <2>1, <2>2 DEF IInv
<1>5. CASE UseAborted
  <2>1. Connections'
    BY <1>5, <1>a DEF UseAborted, Connections, ConnTypes, StaleIsTaken, SlotsAreConnections, Taken
  <2> QED BY <1>5, <1>b, <2>1 DEF UseAborted, IInv
<1>6. CASE RequestEnd
  <2>1. Connections'
    BY <1>6, <1>a, ConnectionsUnchanged DEF RequestEnd, conns
  <2>2. RequestTypes'
    BY <1>6, <1>a DEF RequestEnd, AfterRequest, RequestTypes, BuffersComeBack
  <2> QED BY <2>1, <2>2 DEF IInv
<1>7. CASE AcceptFails
  BY <1>7, <1>a, <1>b, ClearAll DEF AcceptFails, Idle, IInv
<1>8. ASSUME NEW p \in Pcbs, Accept(p)
      PROVE  IInv'
  BY <1>8, <1>a, <1>b, AcceptKeeps DEF Accept, IInv
<1>9. ASSUME NEW p \in Pcbs, Refuse(p)
      PROVE  IInv'
  <2>1. CASE pcb' = pcb
    BY <1>9, <2>1, <1>a, <1>b, ConnectionsUnchanged DEF Refuse, conns, IInv
  <2>2. CASE pcb' = [pcb EXCEPT ![p] = "closing"]
    BY <1>9, <2>2, <1>a, <1>b, ClosedKeeps DEF Refuse, IInv, Connections, ConnTypes
  <2> QED BY <1>9, <2>1, <2>2 DEF Refuse
<1>10. ASSUME NEW p \in Pcbs, Receive(p)
       PROVE  IInv'
  <2>1. Connections'
    BY <1>10, <1>a, ConnectionsUnchanged DEF Receive, conns
  <2>2. RequestTypes'
    BY <1>10, <1>a, <1>b DEF Receive, Idle, RequestTypes, BuffersComeBack
  <2> QED BY <2>1, <2>2 DEF IInv
<1>11. ASSUME NEW p \in Pcbs, Ack(p)
       PROVE  IInv'
  BY <1>11, <1>a, <1>b, DataKeeps DEF Ack, IInv
<1>12. ASSUME NEW p \in Pcbs, RemoteClose(p)
       PROVE  IInv'
  BY <1>12, <1>a, <1>b, ClearOne DEF RemoteClose, Idle, IInv
<1>13. ASSUME NEW p \in Pcbs, Poll(p)
       PROVE  IInv'
  BY <1>13, <1>a, <1>b, ClearOne DEF Poll, PollCloses, Idle, IInv
<1>14. ASSUME NEW p \in Pcbs, Reset(p)
       PROVE  IInv'
  BY <1>14, <1>a, <1>b, ClearAll DEF Reset, Idle, IInv
<1>15. ASSUME NEW p \in Pcbs, Abort(p)
       PROVE  IInv'
  BY <1>15, <1>a, <1>b, AbortKeeps DEF Abort, IInv
<1>16. ASSUME NEW p \in Pcbs, Gone(p)
       PROVE  IInv'
  BY <1>16, <1>a, <1>b, ClosedKeeps DEF Gone, IInv, Connections, ConnTypes
<1>17. CASE UNCHANGED vars
  BY <1>17, <1>a, <1>b, ConnectionsUnchanged DEF vars, conns, request, IInv
<1> QED
  BY <1>1, <1>2, <1>3, <1>4, <1>5, <1>6, <1>7, <1>8, <1>9, <1>10, <1>11, <1>12, <1>13,
     <1>14, <1>15, <1>16, <1>17
  DEF Next, Serve

LEMMA Invariance == Spec => []IInv
BY InitIInv, IInvInductive, PTL DEF Spec

-------------------------------------------------------------------------------
(* The variables keep their types; no buffer is counted as given back       *)
(* twice.                                                                   *)
THEOREM TcpTypeCorrect == Spec => []TypeOK
BY Invariance, Types, PTL

(* Until lwIP's pool is corrupt, the open connections and the slots that    *)
(* count belong together one to one, through every order of accepting,      *)
(* failing, closing, polling and resetting.                                 *)
THEOREM SlotsAreConnectionsCorrect == Spec => []SlotsAreConnections
BY Invariance, PTL DEF IInv, Connections

(* Between two requests all buffers are free, on every path through         *)
(* tcp_server_recv.                                                         *)
THEOREM BuffersComeBackCorrect == Spec => []BuffersComeBack
BY Invariance, PTL DEF IInv, RequestTypes

-------------------------------------------------------------------------------
(* Serving ends.                                                            *)

(* How often lwIP can still be called for the response that is being sent.  *)
Budget == left * Retries + retry

(* Each call for a response uses up some of what is left for it, and        *)
(* nothing else happens meanwhile: after (MaxResponse + 1) * Retries calls  *)
(* the request is over, even if lwIP accepts nothing (tcp_server.h:479).    *)
SendingRunsOut ==
  [][client # Null /\ ~corrupt =>
       \/ client' = Null
       \/ corrupt'
       \/ client' = client /\ Budget' < Budget]_vars

LEMMA BudgetBounds ==
  ASSUME RequestTypes
  PROVE  Budget \in 1 .. (MaxResponse + 1) * Retries
<1>1. left * Retries \in Nat /\ left * Retries <= MaxResponse * Retries
  BY TcpAssumption DEF RequestTypes
<1>2. (MaxResponse + 1) * Retries = MaxResponse * Retries + Retries
  BY TcpAssumption
<1>3. MaxResponse * Retries \in Nat
  BY TcpAssumption
<1> QED BY <1>1, <1>2, <1>3, TcpAssumption DEF RequestTypes, Budget

(* One unit of the response less pays for all retries. *)
LEMMA OneLess ==
  ASSUME RequestTypes, left > 0, left' = left - 1, retry' \in {retry, Retries}
  PROVE  Budget' < Budget
<1>1. left \in Nat /\ retry \in 1 .. Retries /\ Retries \in Nat \ {0}
  BY TcpAssumption DEF RequestTypes
<1>2. (left - 1) * Retries = left * Retries - Retries /\ left * Retries \in Nat
  BY <1>1
<1> DEFINE all == left * Retries
<1>3. Budget' = (all - Retries) + retry' /\ Budget = all + retry /\ all \in Nat
  BY <1>2 DEF Budget
<1> HIDE DEF all
<1>4. /\ all \in Int /\ Retries \in Int /\ retry \in Int /\ retry' \in Int
      /\ retry' <= Retries /\ 0 < retry
  BY <1>1, <1>3
<1>5. \A a, R, r, s \in Int : s <= R /\ 0 < r => (a - R) + s < a + r
  OBVIOUS
<1>6. (all - Retries) + retry' < all + retry
  BY <1>4, <1>5
<1> QED BY <1>3, <1>6

LEMMA ServeRunsDown ==
  ASSUME RequestTypes, client # Null, ~corrupt, [Next]_vars
  PROVE  \/ client' = Null
         \/ corrupt'
         \/ client' = client /\ Budget' < Budget
         \/ UNCHANGED vars
<1>1. CASE SendSome \/ SendFails
  BY <1>1, OneLess DEF SendSome, SendFails, Sending
<1>2. CASE WriteFails
  <2>1. left' = left /\ retry' = retry - 1 /\ client' = client
    BY <1>2 DEF WriteFails, AfterFailure
  <2>2. left * Retries \in Nat /\ retry \in Nat
    BY TcpAssumption DEF RequestTypes
  <2> QED BY <2>1, <2>2 DEF Budget
<1>3. CASE SendRefused
  BY <1>3, OneLess DEF SendRefused
<1>4. CASE UseAborted \/ RequestEnd
  BY <1>4 DEF UseAborted, RequestEnd
<1> QED BY <1>1, <1>2, <1>3, <1>4
        DEF Next, Serve, Idle, AcceptFails, Accept, Refuse, Receive, Ack, RemoteClose, Poll,
            Reset, Abort, Gone

(* While a request is served, nothing but its sending happens, and each     *)
(* call of lwIP brings it nearer to its end: a response costs at most       *)
(* (MaxResponse + 1) * Retries of them.                                     *)
THEOREM SendingRunsOutCorrect ==
  Spec => SendingRunsOut /\ [](Budget \in 1 .. (MaxResponse + 1) * Retries)
<1>1. ASSUME IInv, [Next]_vars
      PROVE  [client # Null /\ ~corrupt =>
                \/ client' = Null
                \/ corrupt'
                \/ client' = client /\ Budget' < Budget]_vars
  BY <1>1, ServeRunsDown DEF IInv
<1>2. IInv => Budget \in 1 .. (MaxResponse + 1) * Retries
  BY BudgetBounds DEF IInv
<1> QED BY <1>1, <1>2, Invariance, PTL DEF Spec, SendingRunsOut
===============================================================================
