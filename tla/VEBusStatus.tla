------------------------------ MODULE VEBusStatus ------------------------------
(***************************************************************************)
(* What VEBus knows of the inverter (ve_bus.cpp): _masterMultiLed,         *)
(* _multiPlusStatus, _dcInfo and _acInfo.  The communication task stores   *)
(* what it decodes from frames, other tasks take copies.                   *)
(*                                                                         *)
(* Fields that are always stored together are one field here.  The         *)
(* communication task is the only one that stores, so it compares without  *)
(* _semaphoreStatus; a copy and a store are not atomic but are made while  *)
(* the semaphore is held.                                                  *)
(***************************************************************************)
EXTENDS Sequences

CONSTANTS
  Readers,  \* tasks that call the getters
  Phases,   \* PhaseInfo
  Values,   \* what a field can hold
  Nobody,   \* the semaphore is free
  Decoder   \* the communication task

ASSUME StatusAssumption ==
  /\ Phases # {} /\ Values # {}
  /\ Nobody \notin Readers \cup {Decoder} /\ Decoder \notin Readers

VARIABLES
  stored,  \* the fields of each kind of information
  isNew,   \* the new-value flag of each kind
  holder,  \* of _semaphoreStatus
  todo,    \* the parts of the frame being decoded that are still to be stored
  at,      \* where decodeVEbusFrame is
  content, \* what the first part of todo says
  left,    \* the fields of it that are still to be stored
  get,     \* for each reader: the kind it copies, the fields it still has to
           \* copy, and the copy
  \* history
  unread   \* the kinds of which something was stored that no copy has

decoding == <<todo, at, content, left>>
vars == <<stored, isNew, holder, decoding, get, unread>>

Kinds == {"led", "multi", "dc", "ac"}
Fields(k) == CASE k = "led"   -> {"low", "rest"}
               [] k = "multi" -> {"current", "temp", "ah"}
               [] k = "dc"    -> {"volt", "amps"}
               [] k = "ac"    -> {"phase", "rest"}
Domain(f) == IF f = "phase" THEN Phases ELSE Values
Contents(F) == {c \in [F -> Values \cup Phases] : \A f \in F : c[f] \in Domain(f)}
NoContent == [f \in {} |-> Nobody]

(* A part of a frame: a kind, and the fields of it the frame tells.          *)
Part(k, F) == [kind |-> k, fields |-> F]

decodeMasterMultiLed == {<<Part("led", {"low", "rest"})>>}
decodeChargerInverterCondition ==
  {<<Part("led", {"low"}), Part("multi", F)>> : F \in {{"current"}, {"current", "temp"}}}
decodeBatteryCondition == {<<Part("multi", {"ah"})>>}
decodeInfoFrame == {<<Part("dc", {"volt", "amps"})>>, <<Part("ac", {"phase", "rest"})>>}
decodeVoltage == {<<Part("dc", {"volt"})>>}

Frames == decodeMasterMultiLed \cup decodeChargerInverterCondition
          \cup decodeBatteryCondition \cup decodeInfoFrame \cup decodeVoltage

Idle == "idle"

-------------------------------------------------------------------------------
(* The communication task.                                                  *)

Following(rest) == IF rest = <<>> THEN Idle ELSE "compare"

Decode ==
  /\ at = Idle
  /\ todo' \in Frames
  /\ at' = "compare"
  /\ content' = NoContent
  /\ UNCHANGED <<stored, isNew, holder, left, get, unread>>

(* Fault: the temperature is not compared. *)
Changed_NotTemp(p, c) == \E f \in p.fields \ {"temp"} : stored[p.kind][f] # c[f]

(* AcInfo's == leaves the phase out; a frame that tells only the voltage is  *)
(* not compared.                                                            *)
Changed(p, c) ==
  \/ p = Part("dc", {"volt"})
  \/ \E f \in p.fields \ {"phase"} : stored[p.kind][f] # c[f]

(* _acInfo is never resized, so operator[] gives its first element for any   *)
(* phase; its flag is raised before the semaphore is taken.                 *)
Compare ==
  /\ at = "compare"
  /\ \E c \in Contents(Head(todo).fields) :
       /\ content' = c
       /\ IF Changed(Head(todo), c)
            THEN /\ at' = "take"
                 /\ isNew' = [isNew EXCEPT !["ac"] = @ \/ Head(todo).kind = "ac"]
                 /\ todo' = todo
            ELSE /\ todo' = Tail(todo) /\ at' = Following(Tail(todo))
                 /\ isNew' = isNew
  /\ UNCHANGED <<stored, holder, left, get, unread>>

(* Fault: the semaphore is not waited for. *)
Free_Always == TRUE

Free == holder = Nobody

StoreTake ==
  /\ at = "take"
  /\ Free
  /\ holder' = Decoder
  /\ left' = Head(todo).fields
  /\ at' = "store"
  /\ UNCHANGED <<stored, isNew, todo, content, get, unread>>

StoreField ==
  /\ at = "store"
  /\ \E f \in left :
       /\ stored' = [stored EXCEPT ![Head(todo).kind] = [@ EXCEPT ![f] = content[f]]]
       /\ left' = left \ {f}
  /\ UNCHANGED <<isNew, holder, todo, at, content, get, unread>>

(* Fault: a frame that only changes the battery's charge is not flagged. *)
Flagged_NotAh(p) == p.kind # "ac" /\ p.fields # {"ah"}

(* The AcInfo that is stored was made without the flag and takes it along.   *)
Flagged(p) == p.kind # "ac"

StoreGive ==
  /\ at = "store" /\ left = {}
  /\ LET p == Head(todo) IN
       /\ isNew' = [isNew EXCEPT ![p.kind] = IF p.kind = "ac" THEN Flagged(p)
                                                              ELSE @ \/ Flagged(p)]
       /\ unread' = unread \cup {p.kind}
  /\ holder' = Nobody
  /\ todo' = Tail(todo) /\ at' = Following(Tail(todo))
  /\ UNCHANGED <<stored, content, left, get>>

-------------------------------------------------------------------------------
(* The getters.                                                             *)

NoGet == [kind |-> Idle, left |-> {}, copy |-> NoContent, asked |-> Nobody]

(* GetAcInfo asks for a phase. *)
GetTake(r, k) ==
  /\ get[r].kind = Idle
  /\ Free
  /\ holder' = r
  /\ \E p \in IF k = "ac" THEN Phases ELSE {Nobody} :
       get' = [get EXCEPT ![r] = [kind |-> k, left |-> Fields(k), copy |-> NoContent, asked |-> p]]
  /\ isNew' = [isNew EXCEPT ![k] = k = "ac" /\ @]
  /\ UNCHANGED <<stored, decoding, unread>>

CopyField(g, f) ==
  [kind |-> g.kind, left |-> g.left \ {f}, asked |-> g.asked,
   copy |-> [h \in DOMAIN g.copy \cup {f} |-> IF h = f THEN stored[g.kind][f] ELSE g.copy[h]]]

GetField(r) ==
  /\ get[r].kind # Idle
  /\ \E f \in get[r].left : get' = [get EXCEPT ![r] = CopyField(@, f)]
  /\ UNCHANGED <<stored, isNew, holder, decoding, unread>>

GetGive(r) ==
  /\ get[r].kind # Idle /\ get[r].left = {}
  /\ isNew' = [isNew EXCEPT !["ac"] = @ /\ get[r].kind # "ac"]
  /\ unread' = unread \ {get[r].kind}
  /\ holder' = Nobody
  /\ get' = [get EXCEPT ![r] = NoGet]
  /\ UNCHANGED <<stored, decoding>>

-------------------------------------------------------------------------------
(* Everything is in static storage, which is zero: no phase has that number.*)
Init ==
  /\ \E zero \in Values :
       stored = [k \in Kinds |-> [f \in Fields(k) |-> IF f = "phase" THEN Nobody ELSE zero]]
  /\ content = NoContent
  /\ get = [r \in Readers |-> NoGet]
  /\ isNew = [k \in Kinds |-> FALSE]
  /\ holder = Nobody
  /\ todo = <<>> /\ at = Idle /\ left = {}
  /\ unread = {}

Get(r) == (\E k \in Kinds : GetTake(r, k)) \/ GetField(r) \/ GetGive(r)

Next == Decode \/ Compare \/ StoreTake \/ StoreField \/ StoreGive \/ \E r \in Readers : Get(r)

Spec == Init /\ [][Next]_vars

-------------------------------------------------------------------------------
(* Properties.                                                              *)

(* The variables have their types; decodeVEbusFrame is done with a frame    *)
(* only when all its parts are stored.                                      *)
TypeOK ==
  /\ DOMAIN stored = Kinds
  /\ \A k \in Kinds : stored[k] \in [Fields(k) -> Values \cup Phases \cup {Nobody}]
  /\ isNew \in [Kinds -> BOOLEAN]
  /\ holder \in Readers \cup {Nobody, Decoder}
  /\ at \in {Idle, "compare", "take", "store"} /\ (at = Idle <=> todo = <<>>)
  /\ \A i \in DOMAIN todo : todo[i].kind \in Kinds /\ todo[i].fields \subseteq Fields(todo[i].kind)
  /\ unread \subseteq Kinds
  /\ \A r \in Readers :
       /\ get[r].kind \in Kinds \cup {Idle} /\ get[r].asked \in Phases \cup {Nobody}
       /\ get[r].kind # Idle => get[r].left \subseteq Fields(get[r].kind)

Storing(k) == at = "store" /\ Head(todo).kind = k
Getting(k) == \E r \in Readers : get[r].kind = k

(* A getter returns what was stored together: when it has copied all        *)
(* fields, the copy is what is stored, and no store of that kind is on its  *)
(* way.                                                                     *)
SnapshotIsWhole ==
  \A r \in Readers : get[r].kind # Idle /\ get[r].left = {} =>
    get[r].copy = stored[get[r].kind] /\ ~Storing(get[r].kind)

(* Information that no getter has returned is flagged as new, whatever the  *)
(* order of frames and getters, except for AcInfo, whose flag is lost.      *)
NewsIsFlagged ==
  \A k \in unread \ {"ac"} : isNew[k] \/ Getting(k)

(* When a part of a frame is done with, what it says is what is stored:     *)
(* leaving out what did not change leaves out nothing else.  (AcInfo's      *)
(* comparison does leave out the phase.)                                    *)
StoredFollowsBus ==
  [][todo # <<>> /\ todo' = Tail(todo) /\ Head(todo).kind # "ac" =>
       \A f \in Head(todo).fields : stored'[Head(todo).kind][f] = content'[f]]_vars
===============================================================================
