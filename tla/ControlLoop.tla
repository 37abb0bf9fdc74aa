------------------------------ MODULE ControlLoop ------------------------------
(***************************************************************************)
(* A round of victron_control_task (src/main.cpp): the switch mode and the *)
(* power for the inverter, computed from the settings and the battery's    *)
(* voltage every two seconds, while the lwIP thread and the USB console    *)
(* change the settings one field at a time without a lock.  Storing the    *)
(* settings at the beginning of a round is in SettingsStore, queueing the  *)
(* commands in VEBusRequests.                                              *)
(***************************************************************************)
EXTENDS Integers

CONSTANTS
  Choices,  \* the values web server and USB console give to each field
  Loaded,   \* the settings that were read from flash
  Volts,    \* battery voltages
  Pots      \* positions of the potentiometer, in percent

(* The fields of struct settings the loop reads.  local_w and local_min_v   *)
(* are the task's own, but the USB console may set them too.  external_w is *)
(* set to 0 when the task starts and by nobody else.                        *)
Fields == {"web_override", "mode", "min_max_type", "min_soc", "max_soc",
           "min_v", "max_v", "min_w", "max_w", "local_w", "local_min_v",
           "bat_min_v", "bat_max_v"}
external_w == 0

(* What PUT /ui_settings knows; the command set of the console knows all.   *)
PutFields == Fields \ {"local_w", "local_min_v"}

ASSUME ChoicesAssumption ==
  /\ Choices \in [Fields -> SUBSET Int]
  /\ Loaded \in [Fields -> Int] /\ \A f \in Fields : Loaded[f] \in Choices[f]
  /\ Choices["web_override"] \subseteq {0, 1}
  /\ Volts \subseteq Int /\ Pots \subseteq 0 .. 100

VARIABLES
  sets,      \* settings::Default()
  bat,       \* the voltage GetDcInfo returns
  pot,       \* what the ADC measures
  at,        \* the statement the task is at
  seen,      \* web_override as it was first read
  volt,      \* cur_bat_v
  soc,       \* whether the limit is a state of charge
  limit,     \* max_v or min_v, in hundredths of a volt
  mode,      \* cur_mode
  power,     \* cur_power
  commanded, \* what the round gives to SetSwitch and SetPower
  \* history
  held       \* the values each field has had while the round decided

local == <<seen, volt, soc, limit, mode, power>>
vars == <<sets, bat, pot, at, local, commanded, held>>

-------------------------------------------------------------------------------
Sleep == 4
ChargerOnly == 5
InverterOnly == 6
ChargerInverter == 7

(* SwitchState is an 8 bit enumeration. *)
from_web_state(state) == (state + Sleep) % 256
MIN_MAX_TYPE_SOC == 0

(* In hundredths of a volt, as the settings are volts and percent. *)
soc_to_v(s, percent) ==
  percent * (s["bat_max_v"] - s["bat_min_v"]) + 100 * s["bat_min_v"]

Int16 == {w \in Int : -32768 <= w /\ w <= 32767}

(* The conversion of a float to i16 is undefined out of range.  The build   *)
(* converts to 32 bits, where it saturates, and keeps the low 16 of them.   *)
Saturated(w) == IF w > 2147483647 THEN 2147483647
                ELSE IF w < -2147483647 THEN -2147483647 - 1 ELSE w
i16(w) == LET low == Saturated(w) % 65536
          IN IF low > 32767 THEN low - 65536 ELSE low

(* The ADC channel of the power knob, whichever knob was asked for. *)
read_pot == pot

-------------------------------------------------------------------------------
(* The round.  Each read of a shared field is a step.                       *)

Nothing == [mode |-> Sleep, power |-> 0]

(* Between the first read of a round and the last. *)
Deciding == at \notin {"wait", "switch", "setpower"}

RoundBegin ==
  /\ at = "wait"
  /\ sets' = [sets EXCEPT !["local_w"] = read_pot * 60]
  /\ at' = "mincap"
  /\ held' = [f \in Fields |-> {sets'[f]}]
  /\ commanded' = Nothing
  /\ UNCHANGED <<bat, pot, local>>

ReadMinCap ==
  /\ at = "mincap"
  /\ sets' = [sets EXCEPT !["local_min_v"] = soc_to_v(sets, read_pot)]
  /\ at' = "battery"
  /\ held' = [held EXCEPT !["local_min_v"] = {sets'["local_min_v"]}]
  /\ UNCHANGED <<bat, pot, local, commanded>>

(* Fault: the voltage is read once. *)
ReadBattery_Once ==
  /\ at = "battery"
  /\ volt' = (IF volt = 0 THEN bat ELSE volt) /\ power' = 0 /\ mode' = Sleep
  /\ at' = "override"
  /\ UNCHANGED <<sets, bat, pot, seen, soc, limit, commanded, held>>

ReadBattery ==
  /\ at = "battery"
  /\ volt' = bat /\ power' = 0 /\ mode' = Sleep
  /\ at' = "override"
  /\ UNCHANGED <<sets, bat, pot, seen, soc, limit, commanded, held>>

ReadOverride ==
  /\ at = "override"
  /\ seen' = sets["web_override"]
  /\ at' = IF seen' = 1 THEN "mode" ELSE "again"
  /\ UNCHANGED <<sets, bat, pot, volt, soc, limit, mode, power, commanded, held>>

(* A mode that is none of the four has no case and leaves the power alone.  *)
ReadMode ==
  /\ at = "mode"
  /\ mode' = from_web_state(sets["mode"])
  /\ at' = IF mode' \in {ChargerOnly, InverterOnly} THEN "type" ELSE "again"
  /\ power' = IF mode' = ChargerInverter THEN external_w ELSE power
  /\ UNCHANGED <<sets, bat, pot, seen, volt, soc, limit, commanded, held>>

ReadType ==
  /\ at = "type"
  /\ soc' = (sets["min_max_type"] = MIN_MAX_TYPE_SOC)
  /\ at' = "limit"
  /\ UNCHANGED <<sets, bat, pot, seen, volt, limit, mode, power, commanded, held>>

(* The limit of a mode, which is a variable of its case; soc_to_v takes its *)
(* default arguments from the settings.                                     *)
LimitOf(s, m, isSoc) ==
  IF isSoc THEN soc_to_v(s, s[IF m = ChargerOnly THEN "max_soc" ELSE "min_soc"])
           ELSE 100 * s[IF m = ChargerOnly THEN "max_v" ELSE "min_v"]

ReadLimit ==
  /\ at = "limit"
  /\ limit' = LimitOf(sets, mode, soc)
  /\ at' = "power"
  /\ UNCHANGED <<sets, bat, pot, seen, volt, soc, mode, power, commanded, held>>

PowerOf(s, m, v, lim) ==
  CASE m = ChargerOnly  -> IF 100 * v < lim THEN -s["max_w"] ELSE 0
    [] m = InverterOnly -> IF 100 * v > lim THEN -s["min_w"] ELSE 0
    [] OTHER            -> 0

(* Fault: the mode is taken from the settings again. *)
ReadPower_ModeAgain ==
  /\ at = "power"
  /\ power' = PowerOf(sets, from_web_state(sets["mode"]), volt, limit)
  /\ at' = "again"
  /\ soc' = TRUE /\ limit' = 0
  /\ UNCHANGED <<sets, bat, pot, seen, volt, mode, commanded, held>>

ReadPower ==
  /\ at = "power"
  /\ power' = PowerOf(sets, mode, volt, limit)
  /\ at' = "again"
  /\ soc' = TRUE /\ limit' = 0
  /\ UNCHANGED <<sets, bat, pot, seen, volt, mode, commanded, held>>

(* The second test of web_override.  Nothing between the two stops the      *)
(* compiler from using the value it has.                                    *)
ReadOverrideAgain ==
  /\ at = "again"
  /\ \E o \in {seen, sets["web_override"]} : at' = IF o = 1 THEN "switch" ELSE "local"
  /\ UNCHANGED <<sets, bat, pot, local, commanded, held>>

ReadLocalLimit ==
  /\ at = "local"
  /\ mode' = ChargerInverter
  /\ IF 100 * volt < sets["local_min_v"]
       THEN at' = "local_w" /\ UNCHANGED power
       ELSE at' = "switch" /\ power' = external_w
  /\ UNCHANGED <<sets, bat, pot, seen, volt, soc, limit, commanded, held>>

ReadLocalPower ==
  /\ at = "local_w"
  /\ power' = -sets["local_w"]
  /\ at' = "switch"
  /\ UNCHANGED <<sets, bat, pot, seen, volt, soc, limit, mode, commanded, held>>

SetSwitch ==
  /\ at = "switch"
  /\ commanded' = [commanded EXCEPT !.mode = mode]
  /\ at' = "setpower"
  /\ UNCHANGED <<sets, bat, pot, local, held>>

(* The variables of the round end with it. *)
SetPower ==
  /\ at = "setpower"
  /\ commanded' = [commanded EXCEPT !.power = i16(power)]
  /\ at' = "wait"
  /\ seen' = 0 /\ soc' = TRUE /\ limit' = 0 /\ mode' = Sleep /\ power' = 0
  /\ held' = [f \in Fields |-> {}]
  /\ UNCHANGED <<sets, bat, pot, volt>>

-------------------------------------------------------------------------------
(* The others.                                                              *)

(* Storing the value a field has already changes nothing. *)
Set(f) ==
  /\ \E v \in Choices[f] \ {sets[f]} :
       /\ sets' = [sets EXCEPT ![f] = v]
       /\ held' = IF Deciding THEN [held EXCEPT ![f] = @ \cup {v}] ELSE held
  /\ UNCHANGED <<bat, pot, at, local, commanded>>

(* One key of PUT /ui_settings, or a command set of the console. *)
PutField == \E f \in PutFields : Set(f)
UsbSet == \E f \in Fields : Set(f)

(* A frame with another voltage, a knob that is turned. *)
Surroundings ==
  /\ bat' \in Volts /\ pot' \in Pots
  /\ <<bat', pot'>> # <<bat, pot>>
  /\ UNCHANGED <<sets, at, local, commanded, held>>

Init ==
  /\ sets = Loaded
  /\ bat \in Volts /\ pot \in Pots
  /\ at = "wait"
  /\ seen = 0 /\ volt = 0 /\ soc = TRUE /\ limit = 0 /\ mode = Sleep /\ power = 0
  /\ commanded = Nothing
  /\ held = [f \in Fields |-> {}]

ControlStep ==
  \/ RoundBegin \/ ReadMinCap \/ ReadBattery
  \/ ReadOverride \/ ReadMode \/ ReadType \/ ReadLimit \/ ReadPower
  \/ ReadOverrideAgain \/ ReadLocalLimit \/ ReadLocalPower
  \/ SetSwitch \/ SetPower

Others == PutField \/ UsbSet \/ Surroundings

Next == ControlStep \/ Others

Spec == Init /\ [][Next]_vars

(* The task has the highest priority in use; its delay and the semaphores   *)
(* it waits for end.                                                        *)
FairSpec == Spec /\ WF_vars(ControlStep)

-------------------------------------------------------------------------------
(* Properties.                                                              *)

(* What the settings ask for at a voltage, in one piece. *)
Wanted(s, v) ==
  LET m == from_web_state(s["mode"])
      below(socField, vField) ==
        IF s["min_max_type"] = MIN_MAX_TYPE_SOC
          THEN 100 * v < soc_to_v(s, s[socField]) ELSE v < s[vField]
      above(socField, vField) ==
        IF s["min_max_type"] = MIN_MAX_TYPE_SOC
          THEN 100 * v > soc_to_v(s, s[socField]) ELSE v > s[vField]
      watts == CASE m = ChargerOnly /\ below("max_soc", "max_v")  -> -s["max_w"]
                 [] m = InverterOnly /\ above("min_soc", "min_v") -> -s["min_w"]
                 [] OTHER -> 0
  IN IF s["web_override"] = 1
       THEN [mode |-> m, power |-> watts]
       ELSE [mode |-> ChargerInverter,
             power |-> IF 100 * v < s["local_min_v"] THEN -s["local_w"] ELSE external_w]

(* Every variable has a value of its type, and what the task remembers      *)
(* belongs to the statement it is at.                                       *)
TypeOK ==
  /\ sets \in [Fields -> Int]
  /\ bat \in Int /\ pot \in 0 .. 100 /\ volt \in Int
  /\ at \in {"wait", "mincap", "battery", "override", "mode", "type", "limit",
             "power", "again", "local", "local_w", "switch", "setpower"}
  /\ seen \in {0, 1} /\ soc \in BOOLEAN /\ limit \in Int
  /\ mode \in Int /\ power \in Int
  /\ commanded \in [mode : Int, power : Int16]
  /\ held \in [Fields -> SUBSET Int]
  /\ sets["web_override"] \in {0, 1}

(* The commands for these settings. *)
Command(s, v) == [mode |-> Wanted(s, v).mode, power |-> i16(Wanted(s, v).power)]

(* Settings that are put together from values the fields have had. *)
Mixes(h) ==
  [web_override : h["web_override"], mode : h["mode"],
   min_max_type : h["min_max_type"],
   min_soc : h["min_soc"], max_soc : h["max_soc"],
   min_v : h["min_v"], max_v : h["max_v"], min_w : h["min_w"], max_w : h["max_w"],
   local_w : h["local_w"], local_min_v : h["local_min_v"],
   bat_min_v : h["bat_min_v"], bat_max_v : h["bat_max_v"]]

(* However the settings are replaced in the middle of a round, its commands *)
(* are those of one decision for the voltage it read, on values the fields  *)
(* had during this round: mode, limit and power belong together, nothing is *)
(* left over from an earlier round, and if nobody changes a field, they are *)
(* what the settings ask for (main.cpp:130 to 161).  The one other outcome  *)
(* is the inverter put to sleep when web_override changes between its two   *)
(* tests (lines 130 and 148).                                               *)
CommandsAreWanted ==
  [][at = "setpower" /\ at' = "wait" =>
       \/ \E s \in Mixes(held) : commanded' = Command(s, volt)
       \/ held["web_override"] = {0, 1} /\ commanded' = Nothing]_vars

(* Once settings, voltage and knob stay as they are, so do the commands,    *)
(* and they are what the settings ask for: no field that was changed in the *)
(* middle of a round leaves a wrong command behind.                         *)
SettlesOnSettings ==
  <>[][~Others]_vars => <>[](at = "wait" => commanded = Command(sets, bat))
===============================================================================
