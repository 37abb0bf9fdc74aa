------------------------------- MODULE DhcpServer -------------------------------
(***************************************************************************)
(* The DHCP server of the access point (src/dhcpserver.c).  A lease is the *)
(* hardware address of its holder and the upper half of the clock at which *)
(* it ends; whether it has ended is decided by the sign of a difference on *)
(* a clock that wraps.  Messages may be lost both ways: what the server    *)
(* does not answer the client asks again.  The server sends no NACK.       *)
(***************************************************************************)
EXTENDS Integers

CONSTANTS
  Clients,  \* the hardware addresses
  Patient,  \* the clients that ask until they have an address
  Free,     \* the hardware address of all zeros
  Slots,    \* DHCPS_MAX_IP
  Unit,     \* what the lower half of the clock counts: 2^16 ms
  Circle,   \* where the clock wraps: 2^32 ms
  Duration, \* DEFAULT_LEASE_TIME_S in ms
  Jumps     \* how far the clock goes between two messages

ASSUME SizesAssumption ==
  /\ Slots \in Nat \ {0} /\ Unit \in Nat \ {0} /\ Circle \in Nat /\ Duration \in Nat
  /\ Circle % (2 * Unit) = 0 /\ Duration + Unit < Circle \div 2
  /\ Jumps \subseteq Nat \ {0}
ASSUME ClientsAssumption == Free \notin Clients /\ Patient \subseteq Clients

Index == 0 .. Slots - 1

VARIABLES
  now,    \* cyw43_hal_ticks_ms()
  lease,  \* d->lease
  offer,  \* the address each client was offered or used last, Slots when none
  left,   \* how long each client may still use it
  \* history
  age     \* the time since each address was acknowledged, up to Circle

vars == <<now, lease, offer, left, age>>

-------------------------------------------------------------------------------
(* Fault: the dropped half is taken for 0. *)
EndOf_RoundDown(expiry) == expiry * Unit

(* The end of a lease on the clock, the dropped half filled with ones.  It  *)
(* has passed when the difference as a signed number is negative.           *)
EndOf(expiry) == expiry * Unit + Unit - 1
Expired(l) == (EndOf(l.expiry) - now) % Circle >= Circle \div 2

(* The end that is stored for a lease that begins now. *)
Ends == ((now + Duration) % Circle) \div Unit

IsFirst(i, S) == i \in S /\ \A j \in S : i <= j
OwnAt(c) == {i \in Index : lease[i].mac = c}

(* Fault: only an address that was never leased is offered. *)
Candidates_NoReuse(c) == {i \in Index : lease[i].mac = Free}

(* The scan of a DISCOVER stops at the client's own address; until then the *)
(* first address that is free or whose lease has ended is remembered and,   *)
(* in the second case, cleared.                                             *)
Candidates(c) ==
  {i \in Index : /\ lease[i].mac = Free \/ Expired(lease[i])
                 /\ \A j \in OwnAt(c) : i < j}

Offered(c, i) == IsFirst(i, IF OwnAt(c) = {} THEN Candidates(c) ELSE OwnAt(c))

Cleared(c) ==
  [i \in Index |->
     IF IsFirst(i, Candidates(c)) /\ Expired(lease[i]) THEN [lease[i] EXCEPT !.mac = Free]
                                                       ELSE lease[i]]

(* A client without an address asks for one.  No answer when there is none. *)
Discover(c, heard) ==
  /\ left[c] = 0
  /\ \E i \in Index :
       /\ Offered(c, i)
       /\ offer' = IF heard THEN [offer EXCEPT ![c] = i] ELSE offer
  /\ lease' = Cleared(c)
  /\ UNCHANGED <<now, left, age>>

(* Fault: an address is granted to whoever asks for it. *)
Granted_Always(c, i) == TRUE

Granted(c, i) == lease[i].mac \in {c, Free}

(* A client asks for the address it was offered, or for the one it had      *)
(* before it lost its link.  Anything else is ignored, and so is a renewal, *)
(* which has no REQUESTED_IP.                                               *)
Request(c, heard) ==
  /\ left[c] = 0
  /\ offer[c] # Slots
  /\ Granted(c, offer[c])
  /\ lease' = [lease EXCEPT ![offer[c]] = [mac |-> c, expiry |-> Ends]]
  /\ age' = [age EXCEPT ![offer[c]] = 0]
  /\ left' = IF heard THEN [left EXCEPT ![c] = Duration] ELSE left
  /\ UNCHANGED <<now, offer>>

Smaller(x, y) == IF x < y THEN x ELSE y

Tick(d) ==
  /\ now' = (now + d) % Circle
  /\ left' = [c \in Clients |-> IF left[c] > d THEN left[c] - d ELSE 0]
  /\ age' = [i \in Index |-> Smaller(age[i] + d, Circle)]
  /\ UNCHANGED <<lease, offer>>

(* A client that leaves forgets the time, not the address. *)
Leave(c) ==
  /\ left[c] > 0
  /\ left' = [left EXCEPT ![c] = 0]
  /\ UNCHANGED <<now, lease, offer, age>>

NoLeases == [i \in Index |-> [mac |-> Free, expiry |-> 0]]

(* The access point is switched off and on again: nobody keeps a link. *)
Restart ==
  /\ lease' = NoLeases
  /\ left' = [c \in Clients |-> 0]
  /\ age' = [i \in Index |-> Circle]
  /\ UNCHANGED <<now, offer>>

Init ==
  /\ now = 0
  /\ lease = NoLeases
  /\ offer = [c \in Clients |-> Slots]
  /\ left = [c \in Clients |-> 0]
  /\ age = [i \in Index |-> Circle]

Clock == \E d \in Jumps : Tick(d)

Next ==
  \/ \E c \in Clients, heard \in BOOLEAN : Discover(c, heard) \/ Request(c, heard)
  \/ \E c \in Clients : Leave(c)
  \/ Clock \/ Restart

Spec == Init /\ [][Next]_vars

(* The clock goes on; a patient client asks again and again, and not all of *)
(* its questions and not all of the answers are lost.                       *)
Fairness ==
  /\ WF_vars(Clock)
  /\ \A c \in Patient : SF_vars(Discover(c, TRUE)) /\ SF_vars(Request(c, TRUE))

FairSpec == Spec /\ Fairness

-------------------------------------------------------------------------------
(* Properties.                                                              *)

(* No two clients use one address at the same time, although the server     *)
(* keeps only the upper half of the clock, reuses addresses and hears of    *)
(* nobody who leaves (dhcpserver.c:229, 261).                               *)
NoSharedAddress ==
  \A c, d \in Clients :
    c # d /\ left[c] > 0 /\ left[d] > 0 => offer[c] # offer[d]

(* A lease that still runs is never taken for ended; one that has ended is  *)
(* seen to have ended, one unit late at most, until the clock has gone half *)
(* way round (dhcpserver.c:229, 271).                                       *)
LeaseSeenRight ==
  \A i \in Index : lease[i].mac # Free =>
    /\ age[i] <= Duration => ~Expired(lease[i])
    /\ Duration + Unit <= age[i] /\ age[i] <= Duration + Circle \div 2
         => Expired(lease[i])

(* A patient client has an address again and again, unless the others go on *)
(* asking for theirs: it waits while all addresses are leased to clients    *)
(* that have left, but not for ever, even if the clock goes round meanwhile *)
(* (dhcpserver.c:230).                                                      *)
AddressComesFree ==
  \A c \in Patient :
    []<>(left[c] > 0) \/ []<>(\E i \in Index : age[i] = 0 /\ lease[i].mac # c)
===============================================================================
