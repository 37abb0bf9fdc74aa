------------------------------- MODULE TcpServer -------------------------------
(***************************************************************************)
(* The connections of the web server (include/tcp_server/tcp_server.h).    *)
(* Each client gets a slot in client_pcbs; its requests are answered one   *)
(* at a time in the thread of lwIP, through a receive and a send buffer.   *)
(*                                                                         *)
(* All callbacks run in that one thread: while a request is served nothing *)
(* else happens in lwIP, so no acknowledgement is handled either.  A pcb   *)
(* is a place in lwIP's pool and is given out again after it was freed.    *)
(* Data is counted in units of what one call of tcp_write takes.  It is    *)
(* copied to lwIP's heap (LWIP_NETIF_TX_SINGLE_PBUF) until it is           *)
(* acknowledged.  The heap (MEM_SIZE) is not larger than TCP_SND_BUF and   *)
(* holds headers too, so tcp_sndbuf never reaches 0: it is the heap that   *)
(* runs out, and tcp_write then fails.                                     *)
(***************************************************************************)
EXTENDS Integers, FiniteSets, Functions

CONSTANTS
  Pcbs,        \* lwIP's pool of connections
  NumSlots,    \* message_buffers
  Memory,      \* the heap
  Retries,     \* retry in send_data
  MaxResponse, \* bound on a response
  Null         \* nullptr

ASSUME TcpAssumption ==
  /\ Null \notin Pcbs
  /\ NumSlots \in Nat \ {0} /\ MaxResponse \in Nat \ {0}
  /\ Memory \in Nat \ {0} /\ Retries \in Nat \ {0}

VARIABLES
  pcb,      \* for each place of the pool: "free", "open", or "closing", when
            \* the server has closed it and lwIP is not yet done with it
  unacked,  \* the data of each connection that is on the heap
  slots,    \* client_pcbs
  client,   \* whose request is served, or Null
  left,     \* the data its response still has to send
  retry,    \* retry in send_data
  recvUsed, \* receive buffers in use
  sendUsed, \* send buffers in use
  corrupt,  \* lwIP was handed a freed pcb: its pool is in any state from there on
  \* history
  stale     \* the slots whose connection lwIP aborted

vars == <<pcb, unacked, slots, client, left, retry, recvUsed, sendUsed, corrupt, stale>>
request == <<client, left, retry, recvUsed, sendUsed>>

Slots == 1 .. NumSlots
Taken == {i \in Slots : slots[i] # Null}
SlotsOf(p) == {i \in Slots : slots[i] = p}
Used == FoldFunction(+, 0, unacked)

(* The next callback can come. *)
Idle == client = Null /\ ~corrupt

-------------------------------------------------------------------------------
(* Fault: the slots keep their connections. *)
Cleared_Not(S) == slots

Cleared(S) == [i \in Slots |-> IF i \in S THEN Null ELSE slots[i]]

(***************************************************************************)
(* clear_client_pcb for all slots of S; gone is what lwIP frees by itself  *)
(* after the callback.  tcp_close leaves a connection to lwIP or frees it; *)
(* a second close of a freed one corrupts the pool.                        *)
(***************************************************************************)
ClearSlots(S, gone) ==
  \E freed \in SUBSET {slots[i] : i \in S} :
    /\ pcb' = [p \in Pcbs |-> IF p \in freed \cup gone THEN "free"
                              ELSE IF \E i \in S : slots[i] = p THEN "closing" ELSE pcb[p]]
    /\ unacked' = [p \in Pcbs |-> IF p \in freed \cup gone THEN 0 ELSE unacked[p]]
    /\ slots' = Cleared(S)
    /\ stale' = stale \ S
    /\ corrupt' = \/ \E i \in S : pcb[slots[i]] = "free"
                  \/ \E i, j \in S : i # j /\ slots[i] = slots[j] /\ slots[i] \in freed

(* tcp_server_accept: the first free slot. *)
Accept(p) ==
  /\ Idle
  /\ pcb[p] = "free"
  /\ \E i \in Slots \ Taken :
       /\ \A j \in Slots \ Taken : i <= j
       /\ slots' = [slots EXCEPT ![i] = p]
  /\ pcb' = [pcb EXCEPT ![p] = "open"]
  /\ UNCHANGED <<unacked, request, corrupt, stale>>

(* No slot: the connection is closed before it gets callbacks. *)
Refuse(p) ==
  /\ Idle
  /\ pcb[p] = "free"
  /\ Taken = Slots
  /\ pcb' \in {pcb, [pcb EXCEPT ![p] = "closing"]}
  /\ UNCHANGED <<unacked, slots, request, corrupt, stale>>

(* The pool is empty: accept is called with an error and closes all. *)
AcceptFails ==
  /\ Idle
  /\ \A p \in Pcbs : pcb[p] # "free"
  /\ ClearSlots(Taken, {})
  /\ UNCHANGED request

-------------------------------------------------------------------------------
(* Serving a request.                                                       *)

(* tcp_server_recv with data: a receive buffer, a send buffer, the endpoint.*)
Receive(p) ==
  /\ Idle
  /\ pcb[p] = "open"
  /\ recvUsed < NumSlots
  /\ IF sendUsed < NumSlots
       THEN /\ recvUsed' = recvUsed + 1 /\ sendUsed' = sendUsed + 1
            /\ client' = p /\ left' \in 1 .. MaxResponse /\ retry' = Retries
       ELSE UNCHANGED request
  /\ UNCHANGED <<pcb, unacked, slots, corrupt, stale>>

Sending == client # Null /\ ~corrupt /\ left > 0 /\ pcb[client] = "open"

(* send_data, one tcp_write.  An endpoint that streams calls send_data for  *)
(* each of its parts, each call has its own retries.                        *)
SendSome ==
  /\ Sending
  /\ Used < Memory
  /\ unacked' = [unacked EXCEPT ![client] = @ + 1]
  /\ left' = left - 1
  /\ retry' \in {retry, Retries}
  /\ UNCHANGED <<pcb, slots, client, recvUsed, sendUsed, corrupt, stale>>

(* Fault: the retries are not counted. *)
AfterFailure_NoCount(n) == n

AfterFailure(n) == n - 1

(* tcp_write fails, which it also does for other reasons than the heap. *)
WriteFails ==
  /\ Sending
  /\ retry > 1
  /\ retry' = AfterFailure(retry)
  /\ UNCHANGED <<pcb, unacked, slots, client, left, recvUsed, sendUsed, corrupt, stale>>

(* The last retry fails, or tcp_output does: the client loses its slot. *)
SendFails ==
  /\ Sending
  /\ retry = 1 \/ Used < Memory
  /\ ClearSlots(SlotsOf(client), {})
  /\ left' = left - 1 /\ retry' = Retries
  /\ UNCHANGED <<client, recvUsed, sendUsed>>

(* An endpoint that streams goes on with its next part after an earlier     *)
(* send has closed the connection; all retries of tcp_write are refused.    *)
SendRefused ==
  /\ client # Null /\ ~corrupt
  /\ left > 0
  /\ pcb[client] = "closing"
  /\ left' = left - 1
  /\ UNCHANGED <<pcb, unacked, slots, client, retry, recvUsed, sendUsed, corrupt, stale>>

(* The connection was aborted by an earlier send: both going on and         *)
(* returning ERR_OK from tcp_server_recv uses the freed pcb.                *)
UseAborted ==
  /\ client # Null /\ ~corrupt
  /\ pcb[client] = "free"
  /\ corrupt' = TRUE
  /\ UNCHANGED <<pcb, unacked, slots, request, stale>>

(* Fault: the receive buffer is not given back. *)
AfterRequest_Keep(n) == n

AfterRequest(n) == n - 1

RequestEnd ==
  /\ client # Null /\ ~corrupt
  /\ left = 0
  /\ pcb[client] # "free"
  /\ client' = Null
  /\ recvUsed' = AfterRequest(recvUsed) /\ sendUsed' = sendUsed - 1
  /\ UNCHANGED <<pcb, unacked, slots, left, retry, corrupt, stale>>

Ack(p) ==
  /\ Idle
  /\ pcb[p] # "free" /\ unacked[p] > 0
  /\ unacked' = [unacked EXCEPT ![p] = 0]
  /\ UNCHANGED <<pcb, slots, request, corrupt, stale>>

-------------------------------------------------------------------------------
(* The ends of a connection.                                                *)

(* tcp_server_recv without data: the client has closed. *)
RemoteClose(p) ==
  /\ Idle
  /\ pcb[p] = "open"
  /\ ClearSlots(SlotsOf(p), {})
  /\ UNCHANGED request

(* Fault: the poll leaves the client alone. *)
PollCloses_None(p) == {}

(* tcp_server_poll, when nothing was acknowledged for poll_time_s. *)
PollCloses(p) == SlotsOf(p)

Poll(p) ==
  /\ Idle
  /\ pcb[p] = "open"
  /\ ClearSlots(PollCloses(p), {})
  /\ UNCHANGED request

(* tcp_server_err with ERR_RST, before lwIP frees the pcb: no client is     *)
(* given to tcp_server_result, which then means all of them.                *)
Reset(p) ==
  /\ Idle
  /\ pcb[p] = "open"
  /\ ClearSlots(Taken, {p})
  /\ UNCHANGED request

(* tcp_server_err with ERR_ABRT, after lwIP freed the pcb, for example when *)
(* the interface got another address: nothing is done.                      *)
Abort(p) ==
  /\ Idle
  /\ pcb[p] = "open"
  /\ pcb' = [pcb EXCEPT ![p] = "free"]
  /\ unacked' = [unacked EXCEPT ![p] = 0]
  /\ stale' = stale \cup SlotsOf(p)
  /\ UNCHANGED <<slots, request, corrupt>>

(* lwIP is done with a closed connection. *)
Gone(p) ==
  /\ Idle
  /\ pcb[p] = "closing"
  /\ pcb' = [pcb EXCEPT ![p] = "free"]
  /\ unacked' = [unacked EXCEPT ![p] = 0]
  /\ UNCHANGED <<slots, request, corrupt, stale>>

-------------------------------------------------------------------------------
(* After start. *)
Init ==
  /\ pcb = [p \in Pcbs |-> "free"]
  /\ unacked = [p \in Pcbs |-> 0]
  /\ slots = [i \in Slots |-> Null]
  /\ client = Null /\ left = 0 /\ retry = Retries
  /\ recvUsed = 0 /\ sendUsed = 0
  /\ corrupt = FALSE
  /\ stale = {}

Serve == SendSome \/ WriteFails \/ SendFails \/ SendRefused \/ UseAborted \/ RequestEnd

Next ==
  \/ Serve
  \/ AcceptFails
  \/ \E p \in Pcbs :
       \/ Accept(p) \/ Refuse(p)
       \/ Receive(p) \/ Ack(p)
       \/ RemoteClose(p) \/ Poll(p) \/ Reset(p) \/ Abort(p) \/ Gone(p)

Spec == Init /\ [][Next]_vars

(* The thread goes on serving.  Before each message it takes lwIP looks     *)
(* whether a poll is due, so that no amount of requests keeps it from it;   *)
(* but each acknowledgement starts the client's time anew.                  *)
FairSpec ==
  /\ Spec /\ WF_vars(Serve)
  /\ \A p \in Pcbs : SF_vars(Poll(p)) \/ []<><<Ack(p)>>_vars

-------------------------------------------------------------------------------
(* Properties.                                                              *)

(* The variables have their types, and a buffer is counted as used only     *)
(* while it exists.                                                         *)
TypeOK ==
  /\ pcb \in [Pcbs -> {"free", "open", "closing"}]
  /\ unacked \in [Pcbs -> Nat]
  /\ slots \in [Slots -> Pcbs \cup {Null}]
  /\ client \in Pcbs \cup {Null} /\ left \in 0 .. MaxResponse /\ retry \in 1 .. Retries
  /\ recvUsed \in 0 .. NumSlots /\ sendUsed \in 0 .. NumSlots
  /\ corrupt \in BOOLEAN
  /\ stale \subseteq Slots

Live == Taken \ stale

(* An open connection has exactly one slot: it counts as a client, and the  *)
(* poll and the errors find it.  No other slot but one whose connection     *)
(* lwIP aborted stays behind.                                               *)
SlotsAreConnections ==
  ~corrupt =>
    /\ \A i \in Live : pcb[slots[i]] = "open"
    /\ \A i, j \in Live : slots[i] = slots[j] => i = j
    /\ \A p \in Pcbs : pcb[p] = "open" => \E i \in Live : slots[i] = p

(* Between two requests all buffers are free, whatever became of the        *)
(* requests before: the next request is not dropped.                        *)
BuffersComeBack ==
  IF client = Null THEN recvUsed = 0 /\ sendUsed = 0 ELSE recvUsed = 1 /\ sendUsed = 1

(* A client that gets nothing any more loses its connection: a poll finds   *)
(* it, unless other reasons end it first.                                   *)
EveryClientGoes ==
  \A p \in Pcbs : []<><<Ack(p)>>_vars \/ (pcb[p] = "open" ~> pcb[p] # "open" \/ corrupt)

(* tcp_server.h:479 "give 10 retries": a send that does not get through is  *)
(* given up, although nothing can make room while it tries, and the thread  *)
(* returns to its other work.                                               *)
EverySendEnds == client # Null ~> client = Null \/ corrupt
===============================================================================
