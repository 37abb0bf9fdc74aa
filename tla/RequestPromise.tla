---------------------------- MODULE RequestPromise ----------------------------
(***************************************************************************)
(* What VEBus promises about the requests handed to it, without FIFO,      *)
(* semaphores, tasks and clocks.  Requests are accepted in the order they  *)
(* are made; an accepted one is transmitted a limited number of times and  *)
(* only while it is pending; it closes once and for all; what it brings    *)
(* back comes after a transmission.                                        *)
(***************************************************************************)
EXTENDS Integers

CONSTANTS
  Requests,    \* a set of numbers, in the order the requests are made
  MaxTx,       \* transmissions of one request
  MaxDelivery  \* answers handed to the callback for one request

VARIABLES
  status,     \* "new", "pending" or "closed" for each request
  tx,         \* frames transmitted
  deliveries  \* answers delivered

vars == <<status, tx, deliveries>>

Pending == {r \in Requests : status[r] = "pending"}

Init ==
  /\ status = [r \in Requests |-> "new"]
  /\ tx = [r \in Requests |-> 0]
  /\ deliveries = [r \in Requests |-> 0]

InOrder(r) ==
  /\ status[r] = "new"
  /\ \A q \in Requests : q < r => status[q] # "new"

(* Accepted; a request it supersedes closes at the same moment. *)
Accept(r) ==
  /\ InOrder(r)
  /\ \/ status' = [status EXCEPT ![r] = "pending"]
     \/ \E q \in Pending :
          status' = [status EXCEPT ![r] = "pending", ![q] = "closed"]
  /\ UNCHANGED <<tx, deliveries>>

Refuse(r) ==
  /\ InOrder(r)
  /\ status' = [status EXCEPT ![r] = "closed"]
  /\ UNCHANGED <<tx, deliveries>>

(* A request that expects no answer closes with its transmission. *)
Transmit(r) ==
  /\ r \in Pending
  /\ tx[r] < MaxTx
  /\ tx' = [tx EXCEPT ![r] = @ + 1]
  /\ status' \in {status, [status EXCEPT ![r] = "closed"]}
  /\ UNCHANGED deliveries

Close(r) ==
  /\ r \in Pending
  /\ status' = [status EXCEPT ![r] = "closed"]
  /\ UNCHANGED <<tx, deliveries>>

Deliver(r) ==
  /\ tx[r] > 0
  /\ deliveries[r] < MaxDelivery
  /\ deliveries' = [deliveries EXCEPT ![r] = @ + 1]
  /\ UNCHANGED <<status, tx>>

Next == \E r \in Requests :
          Accept(r) \/ Refuse(r) \/ Transmit(r) \/ Close(r) \/ Deliver(r)

Spec == Init /\ [][Next]_vars
===============================================================================
