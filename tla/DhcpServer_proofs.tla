--------------------------- MODULE DhcpServer_proofs ---------------------------
(* Theorems about the access point and the DHCP server behind it, for any    *)
(* number of clients and addresses, any clock and lease time that            *)
(* SizesAssumption allows and any steps of the clock.  What the arithmetic   *)
(* on a clock that wraps needs of division is proved first.                  *)
EXTENDS DhcpServer, WifiStorage, TLAPS

(* Division with remainder, and that no other remainder is one.              *)
LEMMA Divides ==
  ASSUME NEW C \in Nat \ {0}, NEW x \in Int
  PROVE  /\ x \div C \in Int /\ x % C \in Int
         /\ 0 <= x % C /\ x % C < C
         /\ x = C * (x \div C) + (x % C)
OBVIOUS

LEMMA NoMultipleBetween ==
  ASSUME NEW C \in Nat \ {0}, NEW k \in Int, NEW r \in 0 .. C - 1, NEW s \in 0 .. C - 1,
         C * k = r - s
  PROVE  k = 0
<1>1. k >= 1 => C * k >= C
  OBVIOUS
<1>2. k <= -1 => C * k <= -C
  OBVIOUS
<1> QED BY <1>1, <1>2

LEMMA OneRemainder ==
  ASSUME NEW C \in Nat \ {0}, NEW x \in Int, NEW q \in Int, NEW r \in Int,
         0 <= r, r < C, x = C * q + r
  PROVE  x % C = r
<1> DEFINE k == q - (x \div C)
<1>1. /\ x \div C \in Int /\ x % C \in Int /\ 0 <= x % C /\ x % C < C
      /\ x = C * (x \div C) + (x % C)
  BY Divides
<1>2. k \in Int /\ C * k = C * q - C * (x \div C)
  BY <1>1
<1>3. C * k = (x % C) - r
  BY <1>1, <1>2
<1>4. k = 0
  BY <1>1, <1>2, <1>3, NoMultipleBetween
<1> QED BY <1>1, <1>2, <1>3, <1>4

(* Numbers that differ by a multiple have one remainder.                     *)
LEMMA SameRemainder ==
  ASSUME NEW C \in Nat \ {0}, NEW x \in Int, NEW y \in Int, NEW q \in Int, x = y + C * q
  PROVE  x % C = y % C
<1>1. /\ y \div C \in Int /\ y % C \in Int /\ 0 <= y % C /\ y % C < C
      /\ y = C * (y \div C) + (y % C)
  BY Divides
<1>2. C * ((y \div C) + q) = C * (y \div C) + C * q
  BY <1>1
<1> DEFINE k == (y \div C) + q
<1>3. k \in Int /\ x = C * k + (y % C)
  BY <1>1, <1>2
<1> HIDE DEF k
<1> QED BY <1>1, <1>3, OneRemainder

(* What is needed of the sizes. *)
LEMMA Sizes ==
  /\ Circle \in Nat \ {0} /\ Duration \in Nat /\ Unit \in Nat \ {0}
  /\ Circle \div 2 \in Nat /\ 2 * (Circle \div 2) <= Circle
  /\ Duration + Unit < Circle \div 2
BY SizesAssumption

-------------------------------------------------------------------------------
(* How long the server takes a lease to run. *)
Remaining(expiry, t) == (EndOf(expiry) - t) % Circle

(* Whoever has time left for an address is its holder at the server, which   *)
(* takes the lease to run at least that long.                                *)
Holds(c) ==
  left[c] > 0 =>
    /\ offer[c] \in Index
    /\ lease[offer[c]].mac = c
    /\ left[c] <= Remaining(lease[offer[c]].expiry, now)
    /\ Remaining(lease[offer[c]].expiry, now) < Duration + Unit

Types ==
  /\ now \in Nat
  /\ lease \in [Index -> [mac : Clients \cup {Free}, expiry : Int]]
  /\ offer \in [Clients -> Index \cup {Slots}]
  /\ left \in [Clients -> Nat]

Inv == Types /\ \A c \in Clients : Holds(c)

-------------------------------------------------------------------------------
(* The clock.                                                                *)

LEMMA ModDown ==
  ASSUME NEW n \in Nat, NEW E \in Int, NEW d \in Nat, d <= (E - n) % Circle
  PROVE  (E - ((n + d) % Circle)) % Circle = ((E - n) % Circle) - d
<1> DEFINE k == (n + d) \div Circle
           j == (E - n) \div Circle
<1>1. k \in Int /\ (n + d) % Circle \in Int /\ n + d = Circle * k + ((n + d) % Circle)
  BY Sizes, Divides
<1>2. /\ j \in Int /\ (E - n) % Circle \in Int /\ (E - n) % Circle < Circle
      /\ E - n = Circle * j + ((E - n) % Circle)
  BY Sizes, Divides
<1>3. Circle * (j + k) = Circle * j + Circle * k
  BY <1>1, <1>2, Sizes
<1>4. E - ((n + d) % Circle) = Circle * (j + k) + (((E - n) % Circle) - d)
  BY <1>1, <1>2, <1>3, Sizes
<1> HIDE DEF j, k
<1>5. j + k \in Int /\ E - ((n + d) % Circle) \in Int /\ ((E - n) % Circle) - d \in Int
  BY <1>1, <1>2
<1>6. 0 <= ((E - n) % Circle) - d /\ ((E - n) % Circle) - d < Circle
  BY <1>2, Sizes
<1> QED BY <1>4, <1>5, <1>6, Sizes, OneRemainder

LEMMA EndType == ASSUME NEW e \in Int PROVE EndOf(e) \in Int
BY Sizes DEF EndOf

LEMMA RemainingType ==
  ASSUME NEW e \in Int, NEW t \in Nat
  PROVE  Remaining(e, t) \in Nat
<1>1. EndOf(e) \in Int
  BY EndType
<1> QED BY <1>1, Sizes, Divides DEF Remaining

(* A lease that begins now runs for its duration and one unit more at most.  *)
LEMMA BeginsLong ==
  ASSUME NEW t \in Nat
  PROVE  LET e == ((t + Duration) % Circle) \div Unit
         IN  e \in Int /\ Duration <= Remaining(e, t) /\ Remaining(e, t) < Duration + Unit
<1> DEFINE end == (t + Duration) % Circle
           e == end \div Unit
           k == (t + Duration) \div Circle
           rest == Duration + (Unit - 1 - (end % Unit))
<1>1. end \in Int /\ k \in Int /\ t + Duration = Circle * k + end
  BY Sizes, Divides
<1>2. /\ e \in Int /\ end % Unit \in Int /\ 0 <= end % Unit /\ end % Unit < Unit
      /\ end = Unit * e + (end % Unit)
  BY <1>1, Sizes, Divides
<1>3. EndOf(e) = end - (end % Unit) + Unit - 1
  BY <1>1, <1>2, Sizes DEF EndOf
<1>4. rest \in Int /\ Duration <= rest /\ rest < Duration + Unit
  BY <1>2, Sizes
<1>5. 0 <= rest /\ rest < Circle
  BY <1>4, Sizes
<1>6. Circle * (-k) = -(Circle * k) /\ -k \in Int
  BY <1>1, Sizes
<1>7. EndOf(e) - t = Circle * (-k) + rest
  BY <1>1, <1>2, <1>3, <1>6, Sizes
<1>8. EndOf(e) - t \in Int
  BY <1>2, EndType
<1> HIDE DEF rest, k, end
<1>9. Remaining(e, t) = rest
  BY <1>4, <1>5, <1>6, <1>7, <1>8, Sizes, OneRemainder DEF Remaining
<1> QED BY <1>2, <1>4, <1>9 DEF end

(* As the clock goes on, a lease runs that much shorter. *)
LEMMA RunsDown ==
  ASSUME NEW t \in Nat, NEW d \in Nat, NEW e \in Int, d <= Remaining(e, t)
  PROVE  Remaining(e, (t + d) % Circle) = Remaining(e, t) - d
<1>1. EndOf(e) \in Int /\ d <= (EndOf(e) - t) % Circle
  BY EndType DEF Remaining
<1>2. (EndOf(e) - ((t + d) % Circle)) % Circle = ((EndOf(e) - t) % Circle) - d
  BY <1>1, ModDown
<1> QED BY <1>2 DEF Remaining

(* A holder's lease is not expired, in particular not for the scan. *)
LEMMA HeldIsRunning ==
  ASSUME Inv, NEW c \in Clients, left[c] > 0
  PROVE  ~Expired(lease[offer[c]])
<1>1. Remaining(lease[offer[c]].expiry, now) < Duration + Unit
  BY DEF Inv, Holds
<1>2. lease[offer[c]].expiry \in Int /\ now \in Nat
  BY DEF Inv, Types, Holds
<1>3. Remaining(lease[offer[c]].expiry, now) \in Nat
  BY <1>2, RemainingType
<1>4. ~(Remaining(lease[offer[c]].expiry, now) >= Circle \div 2)
  BY <1>1, <1>3, Sizes
<1> QED BY <1>4 DEF Remaining, Expired

LEMMA NoTwoHold ==
  ASSUME Inv, NEW c \in Clients, NEW d \in Clients, c # d, left[c] > 0, left[d] > 0
  PROVE  offer[c] # offer[d]
BY DEF Inv, Holds

-------------------------------------------------------------------------------
LEMMA InitInv == ASSUME Init PROVE Inv
<1>1. NoLeases \in [Index -> [mac : Clients \cup {Free}, expiry : Int]]
  BY DEF NoLeases
<1>2. Types
  BY <1>1 DEF Init, Types
<1>3. ASSUME NEW c \in Clients PROVE Holds(c)
  <2>1. left[c] = 0
    BY DEF Init
  <2>2. ~(left[c] > 0)
    BY <2>1
  <2> QED BY <2>2 DEF Holds
<1> QED BY <1>2, <1>3 DEF Inv

LEMMA DiscoverInv ==
  ASSUME Inv, NEW c \in Clients, NEW heard \in BOOLEAN, Discover(c, heard)
  PROVE  Inv'
<1>1. PICK i \in Index : offer' = IF heard THEN [offer EXCEPT ![c] = i] ELSE offer
  BY DEF Discover
<1>2. lease' = Cleared(c) /\ left' = left /\ now' = now /\ left[c] = 0
  BY DEF Discover
<1>3. Types'
  <2>1. Cleared(c) \in [Index -> [mac : Clients \cup {Free}, expiry : Int]]
    BY DEF Inv, Types, Cleared
  <2> QED BY <1>1, <1>2, <2>1 DEF Inv, Types
<1>4. ASSUME NEW d \in Clients PROVE Holds(d)'
  <2> SUFFICES ASSUME left[d] > 0 PROVE Holds(d)'
    BY <1>2 DEF Holds
  <2>1. offer'[d] = offer[d] /\ offer[d] \in Index
    BY <1>1, <1>2 DEF Inv, Types, Holds
  <2>2. lease'[offer[d]] = lease[offer[d]]
    BY <1>2, <2>1, HeldIsRunning DEF Cleared
  <2> QED BY <1>2, <2>1, <2>2 DEF Inv, Holds
<1> QED BY <1>3, <1>4 DEF Inv

LEMMA RequestInv ==
  ASSUME Inv, NEW c \in Clients, NEW heard \in BOOLEAN, Request(c, heard)
  PROVE  Inv'
<1> DEFINE i == offer[c]
<1>1. i \in Index /\ lease[i].mac \in {c, Free}
  BY DEF Request, Granted, Inv, Types
<1>2. /\ lease' = [lease EXCEPT ![i] = [mac |-> c, expiry |-> Ends]]
      /\ left' = IF heard THEN [left EXCEPT ![c] = Duration] ELSE left
      /\ now' = now /\ offer' = offer /\ left[c] = 0
  BY DEF Request
<1>3. Ends \in Int /\ Duration <= Remaining(Ends, now) /\ Remaining(Ends, now) < Duration + Unit
  BY BeginsLong DEF Inv, Types, Ends
<1>4. Types'
  <2>1. [mac |-> c, expiry |-> Ends] \in [mac : Clients \cup {Free}, expiry : Int]
    BY <1>3
  <2> QED BY <1>1, <1>2, <2>1, Sizes DEF Inv, Types
<1>5. Holds(c)'
  <2>1. lease'[i] = [mac |-> c, expiry |-> Ends]
    BY <1>1, <1>2 DEF Inv, Types
  <2>2. left'[c] \in {0, Duration}
    BY <1>2 DEF Inv, Types
  <2> QED BY <1>1, <1>2, <1>3, <2>1, <2>2 DEF Holds
<1>6. ASSUME NEW d \in Clients, d # c PROVE Holds(d)'
  <2> SUFFICES ASSUME left'[d] > 0 PROVE Holds(d)'
    BY DEF Holds
  <2>1. left'[d] = left[d]
    BY <1>2, <1>6 DEF Inv, Types
  <2>2. offer[d] # i
    BY <1>1, <1>6, <2>1, ClientsAssumption DEF Inv, Holds
  <2> QED BY <1>1, <1>2, <2>1, <2>2 DEF Inv, Types, Holds
<1> QED BY <1>4, <1>5, <1>6 DEF Inv

LEMMA TickInv == ASSUME Inv, NEW d \in Jumps, Tick(d) PROVE Inv'
<1>1. d \in Nat /\ now \in Nat
  BY SizesAssumption DEF Inv, Types
<1>2. /\ now' = (now + d) % Circle
      /\ left' = [c \in Clients |-> IF left[c] > d THEN left[c] - d ELSE 0]
      /\ lease' = lease /\ offer' = offer
  BY DEF Tick
<1>3. Types'
  <2>1. now' \in Nat
    BY <1>1, <1>2, Sizes, Divides
  <2> QED BY <1>1, <1>2, <2>1 DEF Inv, Types
<1>4. ASSUME NEW c \in Clients PROVE Holds(c)'
  <2> SUFFICES ASSUME left'[c] > 0 PROVE Holds(c)'
    BY DEF Holds
  <2> DEFINE e == lease[offer[c]].expiry
  <2>1. left[c] > d /\ left'[c] = left[c] - d /\ left[c] \in Nat
    BY <1>1, <1>2 DEF Inv, Types
  <2>2. /\ offer[c] \in Index /\ lease[offer[c]].mac = c /\ e \in Int
        /\ left[c] <= Remaining(e, now) /\ Remaining(e, now) < Duration + Unit
    BY <1>1, <2>1 DEF Inv, Types, Holds
  <2> HIDE DEF e
  <2>3. Remaining(e, now) \in Nat
    BY <1>1, <2>2, RemainingType
  <2>4. d <= Remaining(e, now)
    BY <1>1, <2>1, <2>2, <2>3
  <2>5. Remaining(e, now') = Remaining(e, now) - d
    BY <1>1, <1>2, <2>2, <2>4, RunsDown
  <2>6. left'[c] <= Remaining(e, now') /\ Remaining(e, now') < Duration + Unit
    BY <1>1, <2>1, <2>2, <2>3, <2>5, Sizes
  <2> QED BY <1>2, <2>2, <2>6 DEF Holds, e
<1> QED BY <1>3, <1>4 DEF Inv

LEMMA LeaveInv == ASSUME Inv, NEW c \in Clients, Leave(c) PROVE Inv'
<1>1. Types'
  BY DEF Leave, Inv, Types
<1>2. ASSUME NEW d \in Clients PROVE Holds(d)'
  BY DEF Leave, Inv, Types, Holds
<1> QED BY <1>1, <1>2 DEF Inv

LEMMA RestartInv == ASSUME Inv, Restart PROVE Inv'
<1>1. NoLeases \in [Index -> [mac : Clients \cup {Free}, expiry : Int]]
  BY DEF NoLeases
<1>2. Types'
  BY <1>1 DEF Restart, Inv, Types
<1>3. \A c \in Clients : left'[c] = 0
  BY DEF Restart
<1>4. \A c \in Clients : ~(left'[c] > 0)
  BY <1>3
<1> QED BY <1>2, <1>4 DEF Inv, Holds

-------------------------------------------------------------------------------
LEMMA HolderInvariant == Spec => []Inv
<1>1. Init => Inv
  BY InitInv
<1>2. Inv /\ [Next]_vars => Inv'
  <2> SUFFICES ASSUME Inv, [Next]_vars PROVE Inv'
    OBVIOUS
  <2>1. CASE \E c \in Clients, heard \in BOOLEAN : Discover(c, heard) \/ Request(c, heard)
    BY <2>1, DiscoverInv, RequestInv
  <2>2. CASE (\E c \in Clients : Leave(c)) \/ Clock \/ Restart
    BY <2>2, LeaveInv, TickInv, RestartInv DEF Clock
  <2>3. CASE UNCHANGED vars
    BY <2>3 DEF vars, Inv, Types, Holds
  <2> QED BY <2>1, <2>2, <2>3 DEF Next
<1> QED BY <1>1, <1>2, PTL DEF Spec

(* With the clock and the lease time of the program, no two clients use one  *)
(* address at the same time.                                                 *)
THEOREM NoSharedAddressCorrect == Spec => []NoSharedAddress
<1>1. Inv => NoSharedAddress
  BY NoTwoHold DEF NoSharedAddress
<1> QED BY <1>1, HolderInvariant, PTL

-------------------------------------------------------------------------------
(* What the server takes for the rest of a lease is what there was when it   *)
(* was acknowledged less the time since, as long as that is known.           *)
SeenSince(i) ==
  lease[i].mac # Free /\ age[i] < Circle =>
    \E rest \in Duration .. Duration + Unit - 1 :
      Remaining(lease[i].expiry, now) = (rest - age[i]) % Circle

SeenInv ==
  /\ Types
  /\ age \in [Index -> 0 .. Circle]
  /\ \A i \in Index : SeenSince(i)

LEMMA ModOn ==
  ASSUME NEW r \in Int, NEW d \in Nat, NEW E \in Int, NEW n \in Nat,
         (E - n) % Circle = r % Circle
  PROVE  (E - ((n + d) % Circle)) % Circle = (r - d) % Circle
<1> DEFINE k == (n + d) \div Circle
           j == (E - n) \div Circle
           i == r \div Circle
           q == (j - i) + k
<1>1. k \in Int /\ (n + d) % Circle \in Int /\ n + d = Circle * k + ((n + d) % Circle)
  BY Sizes, Divides
<1>2. j \in Int /\ (E - n) % Circle \in Int /\ E - n = Circle * j + ((E - n) % Circle)
  BY Sizes, Divides
<1>3. i \in Int /\ r = Circle * i + (r % Circle)
  BY Sizes, Divides
<1>4. q \in Int /\ Circle * q = Circle * j - Circle * i + Circle * k
  BY <1>1, <1>2, <1>3, Sizes
<1>5. Circle * i \in Int /\ Circle * j \in Int /\ Circle * k \in Int
  BY <1>1, <1>2, <1>3, Sizes
<1> HIDE DEF i, j, k, q
<1>6. E - ((n + d) % Circle) = (r - d) + (Circle * j - Circle * i + Circle * k)
  BY <1>1, <1>2, <1>3, <1>5
<1>7. E - ((n + d) % Circle) = (r - d) + Circle * q
  BY <1>4, <1>6
<1>8. r - d \in Int /\ E - ((n + d) % Circle) \in Int
  BY <1>1
<1> DEFINE x == E - ((n + d) % Circle)
           y == r - d
<1>9. x \in Int /\ y \in Int /\ x = y + Circle * q
  BY <1>7, <1>8
<1> HIDE DEF x, y
<1>10. x % Circle = y % Circle
  BY <1>4, <1>9, Sizes, SameRemainder
<1> QED BY <1>10 DEF x, y

LEMMA InCircle ==
  ASSUME NEW r \in Int
  PROVE  /\ 0 <= r /\ r < Circle => r % Circle = r
         /\ -(Circle \div 2) <= r /\ r < 0 => r % Circle >= Circle \div 2
<1>1. ASSUME 0 <= r, r < Circle PROVE r % Circle = r
  <2>1. r = Circle * 0 + r
    BY Sizes
  <2> QED BY <1>1, <2>1, Sizes, OneRemainder
<1>2. ASSUME -(Circle \div 2) <= r, r < 0 PROVE r % Circle >= Circle \div 2
  <2>1. r = Circle * (-1) + (r + Circle) /\ r + Circle \in Int
    BY Sizes
  <2>2. 0 <= r + Circle /\ r + Circle < Circle /\ r + Circle >= Circle \div 2
    BY <1>2, Sizes
  <2>3. r % Circle = r + Circle
    BY <2>1, <2>2, Sizes, OneRemainder
  <2> QED BY <2>2, <2>3
<1> QED BY <1>1, <1>2

LEMMA SeenInit == ASSUME Init PROVE SeenInv
<1>1. Types /\ age = [i \in Index |-> Circle]
  BY InitInv DEF Init, Inv
<1> QED BY <1>1, Sizes DEF SeenInv, SeenSince

LEMMA SeenDiscover ==
  ASSUME SeenInv, Types', NEW c \in Clients, NEW heard \in BOOLEAN,
         Discover(c, heard)
  PROVE  SeenInv'
<1>1. now' = now /\ age' = age /\ lease' = Cleared(c)
  BY DEF Discover
<1>2. ASSUME NEW i \in Index PROVE SeenSince(i)'
  <2>1. lease'[i].mac # Free => lease'[i] = lease[i]
    BY <1>1 DEF Cleared, SeenInv, Types
  <2> QED BY <1>1, <2>1 DEF SeenInv, SeenSince, Remaining, EndOf
<1> QED BY <1>1, <1>2 DEF SeenInv

LEMMA SeenRequest ==
  ASSUME SeenInv, Types', NEW c \in Clients, NEW heard \in BOOLEAN,
         Request(c, heard)
  PROVE  SeenInv'
<1>0. PICK j \in Index : j = offer[c]
  BY DEF Request, SeenInv, Types
<1>1. /\ now' = now /\ age' = [age EXCEPT ![j] = 0]
      /\ lease' = [lease EXCEPT ![j] = [mac |-> c, expiry |-> Ends]]
  BY <1>0 DEF Request
<1>2. age' \in [Index -> 0 .. Circle]
  BY <1>1, Sizes DEF SeenInv
<1>3. SeenSince(j)'
  <2>1. lease'[j].expiry = Ends /\ age'[j] = 0
    BY <1>1 DEF SeenInv, Types
  <2>2. /\ Duration <= Remaining(Ends, now) /\ Remaining(Ends, now) < Duration + Unit
        /\ Ends \in Int /\ now \in Nat
    BY BeginsLong DEF SeenInv, Types, Ends
  <2>3. Remaining(Ends, now) \in Duration .. Duration + Unit - 1
    BY <2>2, RemainingType, Sizes
  <2>4. Remaining(Ends, now) = (Remaining(Ends, now) - 0) % Circle
    BY <2>3, Sizes
  <2>5. Remaining(lease'[j].expiry, now') = Remaining(Ends, now)
    BY <1>1, <2>1
  <2>6. \E rest \in Duration .. Duration + Unit - 1 :
          Remaining(lease'[j].expiry, now') = (rest - age'[j]) % Circle
    BY <2>1, <2>3, <2>4, <2>5
  <2> QED BY <2>6 DEF SeenSince, Remaining, EndOf
<1>4. ASSUME NEW i \in Index, i # j PROVE SeenSince(i)'
  <2>1. lease'[i] = lease[i] /\ age'[i] = age[i]
    BY <1>1, <1>4 DEF SeenInv, Types
  <2> QED BY <1>1, <2>1 DEF SeenInv, SeenSince, Remaining, EndOf
<1> QED BY <1>2, <1>3, <1>4 DEF SeenInv

LEMMA SeenTick ==
  ASSUME SeenInv, Types', NEW d \in Jumps, Tick(d)
  PROVE  SeenInv'
<1>1. d \in Nat /\ now \in Nat
  BY SizesAssumption DEF SeenInv, Types
<1>2. /\ now' = (now + d) % Circle /\ lease' = lease
      /\ age' = [i \in Index |-> Smaller(age[i] + d, Circle)]
  BY DEF Tick
<1>3. age' \in [Index -> 0 .. Circle]
  BY <1>1, <1>2, Sizes DEF SeenInv, Smaller
<1>4. ASSUME NEW i \in Index PROVE SeenSince(i)'
  <2> SUFFICES ASSUME lease[i].mac # Free, age'[i] < Circle
               PROVE  \E rest \in Duration .. Duration + Unit - 1 :
                        Remaining(lease[i].expiry, now') = (rest - age'[i]) % Circle
    BY <1>2 DEF SeenSince, Remaining, EndOf
  <2>1. age[i] \in Nat /\ age'[i] = age[i] + d /\ age[i] < Circle
    BY <1>1, <1>2, Sizes DEF SeenInv, Smaller
  <2>2. PICK rest \in Duration .. Duration + Unit - 1 :
          Remaining(lease[i].expiry, now) = (rest - age[i]) % Circle
    BY <2>1 DEF SeenInv, SeenSince
  <2>3. lease[i].expiry \in Int /\ EndOf(lease[i].expiry) \in Int /\ rest - age[i] \in Int
    BY <2>1, EndType, Sizes DEF SeenInv, Types
  <2>4. Remaining(lease[i].expiry, now') = ((rest - age[i]) - d) % Circle
    BY <1>1, <1>2, <2>2, <2>3, ModOn DEF Remaining
  <2>5. (rest - age[i]) - d = rest - age'[i]
    BY <1>1, <2>1, Sizes
  <2> QED BY <2>4, <2>5
<1> QED BY <1>3, <1>4 DEF SeenInv

LEMMA SeenRestart ==
  ASSUME SeenInv, Types', Restart PROVE SeenInv'
<1>1. age' = [i \in Index |-> Circle]
  BY DEF Restart
<1> QED BY <1>1, Sizes DEF SeenInv, SeenSince

LEMMA SeenInvariant == Spec => []SeenInv
<1>1. Init => SeenInv
  BY SeenInit
<1>2. SeenInv /\ Inv' /\ [Next]_vars => SeenInv'
  <2> SUFFICES ASSUME SeenInv, Inv', [Next]_vars PROVE SeenInv'
    OBVIOUS
  <2>0. Types'
    BY DEF Inv
  <2>1. CASE \E c \in Clients, heard \in BOOLEAN : Discover(c, heard) \/ Request(c, heard)
    BY <2>0, <2>1, SeenDiscover, SeenRequest
  <2>2. CASE \E c \in Clients : Leave(c)
    BY <2>0, <2>2 DEF Leave, SeenInv, SeenSince, Remaining, EndOf
  <2>3. CASE Clock \/ Restart
    BY <2>0, <2>3, SeenTick, SeenRestart DEF Clock
  <2>4. CASE UNCHANGED vars
    BY <2>0, <2>4 DEF vars, SeenInv, SeenSince, Remaining, EndOf
  <2> QED BY <2>1, <2>2, <2>3, <2>4 DEF Next
<1> QED BY <1>1, <1>2, HolderInvariant, PTL DEF Spec

(* With the clock and the lease time of the program, a lease that runs is    *)
(* not taken for ended, and one that has ended is seen to have, until the    *)
(* clock has gone half way round.                                            *)
THEOREM LeaseSeenRightCorrect == Spec => []LeaseSeenRight
<1>1. ASSUME SeenInv PROVE LeaseSeenRight
  <2> SUFFICES ASSUME NEW i \in Index, lease[i].mac # Free
               PROVE  /\ age[i] <= Duration => ~Expired(lease[i])
                      /\ Duration + Unit <= age[i] /\ age[i] <= Duration + Circle \div 2
                           => Expired(lease[i])
    BY DEF LeaseSeenRight
  <2>1. age[i] \in Nat
    BY <1>1, Sizes DEF SeenInv
  <2> SUFFICES ASSUME age[i] < Circle
               PROVE  /\ age[i] <= Duration => ~Expired(lease[i])
                      /\ Duration + Unit <= age[i] /\ age[i] <= Duration + Circle \div 2
                           => Expired(lease[i])
    BY <2>1, Sizes
  <2>2. PICK rest \in Duration .. Duration + Unit - 1 :
          Remaining(lease[i].expiry, now) = (rest - age[i]) % Circle
    BY <1>1 DEF SeenInv, SeenSince
  <2>3. Expired(lease[i]) <=> (rest - age[i]) % Circle >= Circle \div 2
    BY <2>2 DEF Expired, Remaining
  <2>4. rest - age[i] \in Int
    BY <2>1, Sizes
  <2>5. ASSUME age[i] <= Duration PROVE ~Expired(lease[i])
    <3>1. 0 <= rest - age[i] /\ rest - age[i] < Circle \div 2
      BY <2>1, <2>5, Sizes
    <3>2. (rest - age[i]) % Circle = rest - age[i]
      BY <2>4, <3>1, InCircle, Sizes
    <3>3. ~((rest - age[i]) % Circle >= Circle \div 2)
      BY <2>4, <3>1, <3>2, Sizes
    <3> QED BY <2>3, <3>3
  <2>6. ASSUME Duration + Unit <= age[i], age[i] <= Duration + Circle \div 2
        PROVE  Expired(lease[i])
    <3>1. -(Circle \div 2) <= rest - age[i] /\ rest - age[i] < 0
      BY <2>1, <2>6, Sizes
    <3> QED BY <2>3, <2>4, <3>1, InCircle
  <2> QED BY <2>5, <2>6
<1> QED BY <1>1, SeenInvariant, PTL

-------------------------------------------------------------------------------
(* access_point::init and deinit.  Who is inside of one of them alone finds  *)
(* the access point as the call has left it.                                 *)

Alone ==
  /\ ~(UserInAp /\ TaskInAp)
  /\ at = "ap_active" => ap.on
  /\ user = "init_active" => ap.on
  /\ user = "deinit_active" => ~ap.on
  /\ ~UserInAp /\ ~TaskInAp => ap.on = ap.active

ApInv == ap \in [on : BOOLEAN, active : BOOLEAN] /\ (overlapped \/ Alone)

LEMMA ApStart == WifiInit => ApInv
  BY DEF WifiInit, ApInv, Alone, UserInAp, TaskInAp

(* Only the steps inside of the calls touch what the invariant is about.     *)
LEMMA ApStep == ApInv /\ [WifiNext]_wifiVars => ApInv'
<1> SUFFICES ASSUME ApInv, [WifiNext]_wifiVars PROVE ApInv'
  OBVIOUS
<1> USE DEF ApInv, Alone, UserInAp, TaskInAp
<1>1. CASE Start
  BY <1>1 DEF Start, points
<1>2. ASSUME NEW seconds \in Lengths, Round(seconds) PROVE ApInv'
  BY <1>2 DEF Round, points
<1>3. CASE Check
  BY <1>3 DEF Check, points
<1>4. CASE Connect \/ ConnectFails
  BY <1>4 DEF Connect, ConnectFails, points
<1>5. CASE Clear
  BY <1>5 DEF Clear, points
<1>6. CASE Book
  BY <1>6 DEF Book, points
<1>7. CASE Scan
  BY <1>7 DEF Scan, points
<1>8. CASE ApTest
  BY <1>8 DEF ApTest
<1>9. CASE ApOn
  BY <1>9 DEF ApOn
<1>10. CASE ApActive
  BY <1>10 DEF ApActive
<1>11. CASE UserAp
  BY <1>11 DEF UserAp
<1>12. CASE UserSwitches
  BY <1>12 DEF UserSwitches
<1>13. CASE UserSetsActive
  BY <1>13 DEF UserSetsActive
<1>14. CASE AskSsid \/ AskPwd \/ AskFlag
  BY <1>14 DEF AskSsid, AskPwd, AskFlag, points
<1>15. CASE Found \/ LinkUp \/ LinkDown
  BY <1>15 DEF Found, LinkUp, LinkDown, points
<1>16. CASE UNCHANGED wifiVars
  BY <1>16 DEF wifiVars, points
<1> QED BY <1>1, <1>2, <1>3, <1>4, <1>5, <1>6, <1>7, <1>8, <1>9, <1>10, <1>11, <1>12, <1>13,
          <1>14, <1>15, <1>16 DEF WifiNext, TaskStep, UserStep

(* access_point::active tells whether the access point is on whenever no     *)
(* call is under way, for any requests, rounds and networks, as long as no   *)
(* two calls have overlapped.                                                *)
THEOREM ActiveIsOnCorrect == WifiSpec => []ActiveIsOn
<1>1. ApInv => ActiveIsOn
  BY DEF ApInv, Alone, ActiveIsOn
<1> QED BY <1>1, ApStart, ApStep, PTL DEF WifiSpec
===============================================================================
