--------------------------- MODULE ControlLoop_proofs ---------------------------
(* Theorems about ControlLoop, for any settings, voltages and knob positions. *)
EXTENDS ControlLoop, TLAPS

(* Settings that are put together from what the fields have been. *)
Mix(s) == s \in [Fields -> Int] /\ \A f \in Fields : s[f] \in held[f]

Decided == [mode |-> mode, power |-> power]

(* What the round has found out so far is true of s.                         *)
TrueOf(s) ==
  /\ at \in {"override", "mode", "type", "limit", "power"} => power = 0
  /\ at = "override" => mode = Sleep
  /\ at = "mode" => mode = Sleep
  /\ at \in {"mode", "type", "limit", "power"} => seen = 1 /\ s["web_override"] = 1
  /\ at \in {"type", "limit", "power"} => mode = from_web_state(s["mode"])
  /\ at \in {"limit", "power"} => soc = (s["min_max_type"] = MIN_MAX_TYPE_SOC)
  /\ at = "power" => limit = LimitOf(s, mode, soc)
  /\ at = "again" /\ seen = 1 => s["web_override"] = 1 /\ Decided = Wanted(s, volt)
  /\ at = "again" /\ seen = 0 => s["web_override"] = 0 /\ Decided = Nothing
  /\ at \in {"local", "local_w"} => s["web_override"] = 0
  /\ at = "local_w" => 100 * volt < s["local_min_v"] /\ mode = ChargerInverter
  /\ at \in {"switch", "setpower"} =>
       \/ Decided = Wanted(s, volt)
       \/ held["web_override"] = {0, 1} /\ Decided = Nothing

(* One such s exists from the first read to the last command, and while the  *)
(* round decides, the settings as they stand are among the mixtures.         *)
LoopInv ==
  /\ TypeOK
  /\ held["web_override"] \subseteq {0, 1}
  /\ Deciding => Mix(sets)
  /\ at # "wait" => \E s : Mix(s) /\ TrueOf(s)
  /\ at = "setpower" => commanded.mode = mode

-------------------------------------------------------------------------------
(* Mixtures.                                                                 *)

(* The settings s with the fields F as they are in r. *)
Blend(s, r, F) == [f \in Fields |-> IF f \in F THEN r[f] ELSE s[f]]

LEMMA BlendIsMix ==
  ASSUME NEW s, NEW r, NEW F, NEW t, Mix(s), Mix(r), t = Blend(s, r, F)
  PROVE  /\ Mix(t)
         /\ \A f \in Fields : t[f] = IF f \in F THEN r[f] ELSE s[f]
BY DEF Mix, Blend

(* Mixtures are the records Mixes enumerates. *)
LEMMA MixInMixes == ASSUME NEW s, Mix(s) PROVE s \in Mixes(held)
<1>1. s = [web_override |-> s["web_override"], mode |-> s["mode"],
           min_max_type |-> s["min_max_type"],
           min_soc |-> s["min_soc"], max_soc |-> s["max_soc"],
           min_v |-> s["min_v"], max_v |-> s["max_v"],
           min_w |-> s["min_w"], max_w |-> s["max_w"],
           local_w |-> s["local_w"], local_min_v |-> s["local_min_v"],
           bat_min_v |-> s["bat_min_v"], bat_max_v |-> s["bat_max_v"]]
  BY DEF Mix, Fields
<1>2. \A f \in Fields : s[f] \in held[f]
  BY DEF Mix
<1> QED BY <1>1, <1>2 DEF Mixes, Fields

LEMMA LimitType ==
  ASSUME NEW s \in [Fields -> Int], NEW m, NEW isSoc \in BOOLEAN
  PROVE  LimitOf(s, m, isSoc) \in Int
<1>1. \A percent \in Int : soc_to_v(s, percent) \in Int
  BY DEF soc_to_v, Fields
<1>2. /\ s["max_soc"] \in Int /\ s["min_soc"] \in Int
      /\ 100 * s["max_v"] \in Int /\ 100 * s["min_v"] \in Int
  BY DEF Fields
<1> QED BY <1>1, <1>2 DEF LimitOf

(* Limits do not depend on the powers. *)
LEMMA LimitKept ==
  ASSUME NEW s, NEW t, NEW m, NEW isSoc,
         \A f \in Fields \ {"max_w", "min_w"} : t[f] = s[f]
  PROVE  LimitOf(t, m, isSoc) = LimitOf(s, m, isSoc)
<1>1. /\ t["max_soc"] = s["max_soc"] /\ t["min_soc"] = s["min_soc"]
      /\ t["max_v"] = s["max_v"] /\ t["min_v"] = s["min_v"]
      /\ t["bat_max_v"] = s["bat_max_v"] /\ t["bat_min_v"] = s["bat_min_v"]
  BY DEF Fields
<1> QED BY <1>1 DEF LimitOf, soc_to_v

LEMMA PowerType ==
  ASSUME NEW s \in [Fields -> Int], NEW m, NEW v, NEW lim
  PROVE  PowerOf(s, m, v, lim) \in Int
BY DEF PowerOf, Fields

LEMMA ModeType == ASSUME NEW w \in Int PROVE from_web_state(w) \in Int
BY DEF from_web_state, Sleep

LEMMA ConversionType == ASSUME NEW w \in Int PROVE i16(w) \in Int16
<1>1. Saturated(w) \in Int
  BY DEF Saturated
<1> QED BY <1>1 DEF i16, Int16

(* Limit and power, computed one after the other, are what the settings want. *)
LEMMA RemoteWanted ==
  ASSUME NEW s \in [Fields -> Int], NEW v \in Int, s["web_override"] = 1
  PROVE  LET m == from_web_state(s["mode"])
             lim == LimitOf(s, m, s["min_max_type"] = MIN_MAX_TYPE_SOC)
         IN [mode |-> m, power |-> PowerOf(s, m, v, lim)] = Wanted(s, v)
<1> DEFINE m == from_web_state(s["mode"])
           lim == LimitOf(s, m, s["min_max_type"] = MIN_MAX_TYPE_SOC)
<1>1. m \in Int /\ s["max_v"] \in Int /\ s["min_v"] \in Int
  BY ModeType DEF Fields
<1> HIDE DEF m
<1>2. CASE m = ChargerOnly
  BY <1>1, <1>2 DEF m, PowerOf, LimitOf, Wanted, ChargerOnly, InverterOnly
<1>3. CASE m = InverterOnly
  BY <1>1, <1>3 DEF m, PowerOf, LimitOf, Wanted, ChargerOnly, InverterOnly
<1>4. CASE m \notin {ChargerOnly, InverterOnly}
  BY <1>1, <1>4 DEF m, PowerOf, Wanted
<1> QED BY <1>2, <1>3, <1>4 DEF m

LEMMA LocalWanted ==
  ASSUME NEW s \in [Fields -> Int], NEW v \in Int, s["web_override"] = 0
  PROVE  Wanted(s, v) =
           [mode |-> ChargerInverter,
            power |-> IF 100 * v < s["local_min_v"] THEN -s["local_w"] ELSE external_w]
BY DEF Wanted

-------------------------------------------------------------------------------
(* The others.                                                               *)

LEMMA LoopInit == Init => LoopInv
<1> SUFFICES ASSUME Init PROVE LoopInv
  OBVIOUS
<1>1. sets \in [Fields -> Int] /\ sets["web_override"] \in {0, 1}
  BY ChoicesAssumption DEF Init, Fields
<1>2. bat \in Int /\ pot \in 0 .. 100
  <2>1. Volts \subseteq Int /\ Pots \subseteq 0 .. 100
    BY ChoicesAssumption
  <2> QED BY <2>1 DEF Init
<1>3. commanded \in [mode : Int, power : Int16] /\ mode \in Int
  BY DEF Init, Nothing, Sleep, Int16
<1>4. held \in [Fields -> SUBSET Int] /\ held["web_override"] = {}
  BY DEF Init, Fields
<1> QED BY <1>1, <1>2, <1>3, <1>4 DEF Init, LoopInv, TypeOK, Deciding

LEMMA SetInv == ASSUME LoopInv, NEW f \in Fields, Set(f) PROVE LoopInv'
<1>1. PICK v \in Choices[f] :
        /\ sets' = [sets EXCEPT ![f] = v]
        /\ held' = IF Deciding THEN [held EXCEPT ![f] = @ \cup {v}] ELSE held
  BY DEF Set
<1>2. v \in Int /\ (f = "web_override" => v \in {0, 1})
  BY ChoicesAssumption
<1>3. \A g \in Fields : held[g] \subseteq held'[g]
  BY <1>1 DEF LoopInv, TypeOK
<1>4. TypeOK' /\ (held["web_override"] \subseteq {0, 1})'
  <2>1. sets' \in [Fields -> Int] /\ sets'["web_override"] \in {0, 1}
    BY <1>1, <1>2 DEF LoopInv, TypeOK, Fields
  <2>2. held' \in [Fields -> SUBSET Int] /\ held'["web_override"] \subseteq {0, 1}
    BY <1>1, <1>2 DEF LoopInv, TypeOK, Fields
  <2> QED BY <2>1, <2>2 DEF LoopInv, TypeOK, Set, local
<1>5. (Deciding => Mix(sets))'
  <2> SUFFICES ASSUME Deciding PROVE Mix(sets)'
    BY DEF Set, Deciding
  <2> QED BY <1>1, <1>2, <1>3 DEF LoopInv, TypeOK, Mix
<1>6. ASSUME NEW s, Mix(s), TrueOf(s) PROVE Mix(s)' /\ TrueOf(s)'
  <2>1. Mix(s)'
    BY <1>3, <1>6 DEF Mix
  <2>2. at \in {"switch", "setpower"} => held' = held
    BY <1>1 DEF Deciding
  <2> QED BY <1>6, <2>1, <2>2 DEF TrueOf, Set, local, Decided
<1> QED BY <1>4, <1>5, <1>6 DEF LoopInv, Set, local

LEMMA SurroundingsInv == ASSUME LoopInv, Surroundings PROVE LoopInv'
<1>1. Volts \subseteq Int /\ Pots \subseteq 0 .. 100
  BY ChoicesAssumption
<1>2. bat' \in Int /\ pot' \in 0 .. 100
  BY <1>1 DEF Surroundings
<1> QED BY <1>2 DEF LoopInv, TypeOK, Deciding, Mix, TrueOf, Decided, Surroundings, local
-------------------------------------------------------------------------------
(* The steps of the round.                                                   *)

LEMMA BeginInv == ASSUME LoopInv, RoundBegin PROVE LoopInv'
<1>1. pot * 60 \in Int /\ sets' = [sets EXCEPT !["local_w"] = pot * 60]
  BY DEF LoopInv, TypeOK, RoundBegin, read_pot
<1>2. sets' \in [Fields -> Int] /\ sets'["web_override"] \in {0, 1}
  BY <1>1 DEF LoopInv, TypeOK, Fields
<1>3. held' = [f \in Fields |-> {sets'[f]}] /\ at' = "mincap"
  BY DEF RoundBegin
<1>4. held' \in [Fields -> SUBSET Int] /\ held'["web_override"] \subseteq {0, 1}
  BY <1>2, <1>3 DEF Fields
<1>5. TypeOK'
  BY <1>2, <1>3, <1>4 DEF LoopInv, TypeOK, RoundBegin, local, Nothing, Sleep, Int16
<1>6. Mix(sets)'
  BY <1>2, <1>3 DEF Mix
<1>7. PICK t : t = sets'
  OBVIOUS
<1>8. Mix(t)' /\ TrueOf(t)'
  BY <1>3, <1>6, <1>7 DEF Mix, TrueOf
<1> QED BY <1>3, <1>4, <1>5, <1>6, <1>8 DEF LoopInv

LEMMA MinCapInv == ASSUME LoopInv, ReadMinCap PROVE LoopInv'
<1>1. PICK v : v = soc_to_v(sets, read_pot)
  OBVIOUS
<1>2. v \in Int
  BY <1>1 DEF LoopInv, TypeOK, soc_to_v, read_pot, Fields
<1>3. sets' = [sets EXCEPT !["local_min_v"] = v] /\ at' = "battery"
  BY <1>1 DEF ReadMinCap
<1>4. sets' \in [Fields -> Int] /\ sets'["web_override"] \in {0, 1}
  BY <1>2, <1>3 DEF LoopInv, TypeOK, Fields
<1>5. held' = [held EXCEPT !["local_min_v"] = {v}]
  BY <1>3 DEF ReadMinCap, LoopInv, TypeOK, Fields
<1>6. held' \in [Fields -> SUBSET Int] /\ held'["web_override"] \subseteq {0, 1}
  BY <1>2, <1>5 DEF LoopInv, TypeOK, Fields
<1>7. TypeOK'
  BY <1>3, <1>4, <1>6 DEF LoopInv, TypeOK, ReadMinCap, local
<1>8. Mix(sets)'
  <2>1. Mix(sets)
    BY DEF LoopInv, Deciding, ReadMinCap
  <2>2. sets \in [Fields -> Int] /\ held \in [Fields -> SUBSET Int]
    BY DEF LoopInv, TypeOK
  <2> QED BY <1>3, <1>4, <1>5, <2>1, <2>2 DEF Mix
<1>9. PICK t : t = sets'
  OBVIOUS
<1>10. Mix(t)' /\ TrueOf(t)'
  BY <1>3, <1>8, <1>9 DEF Mix, TrueOf
<1> QED BY <1>3, <1>6, <1>7, <1>8, <1>10 DEF LoopInv

LEMMA BatteryInv == ASSUME LoopInv, ReadBattery PROVE LoopInv'
<1>1. TypeOK'
  BY DEF LoopInv, TypeOK, ReadBattery, Sleep
<1>2. PICK s : Mix(s)
  BY DEF LoopInv, ReadBattery
<1>3. Mix(s)' /\ TrueOf(s)'
  BY <1>2 DEF Mix, TrueOf, ReadBattery
<1>4. (Deciding => Mix(sets))'
  BY DEF LoopInv, Deciding, Mix, ReadBattery
<1> QED BY <1>1, <1>3, <1>4 DEF LoopInv, ReadBattery

LEMMA OverrideInv == ASSUME LoopInv, ReadOverride PROVE LoopInv'
<1>1. TypeOK'
  BY DEF LoopInv, TypeOK, ReadOverride
<1>2. Mix(sets)
  BY DEF LoopInv, Deciding, ReadOverride
<1>3. PICK t : t = sets
  OBVIOUS
<1>4. power = 0 /\ mode = Sleep
  BY DEF LoopInv, TrueOf, ReadOverride
<1>5. Mix(t)' /\ TrueOf(t)'
  BY <1>2, <1>3, <1>4 DEF LoopInv, TypeOK, Mix, TrueOf, Decided, Nothing, ReadOverride
<1>6. Mix(sets)'
  BY <1>2 DEF Mix, ReadOverride
<1> QED BY <1>1, <1>5, <1>6 DEF LoopInv, ReadOverride

LEMMA ModeInv == ASSUME LoopInv, ReadMode PROVE LoopInv'
<1>1. Mix(sets) /\ sets["mode"] \in Int
  BY DEF LoopInv, TypeOK, Fields, Deciding, ReadMode
<1>2. mode' \in Int /\ mode' = from_web_state(sets["mode"])
  BY <1>1, ModeType DEF ReadMode
<1>3. TypeOK'
  BY <1>2 DEF LoopInv, TypeOK, ReadMode, external_w
<1>4. Mix(sets)'
  BY <1>1 DEF Mix, ReadMode
<1>5. PICK s : Mix(s) /\ TrueOf(s)
  BY DEF LoopInv, ReadMode
<1>6. PICK t : t = Blend(s, sets, {"mode"})
  OBVIOUS
<1>7. /\ Mix(t)
      /\ \A f \in Fields : t[f] = IF f \in {"mode"} THEN sets[f] ELSE s[f]
  BY <1>1, <1>5, <1>6, BlendIsMix
<1>8. /\ t["mode"] = sets["mode"] /\ t["web_override"] = 1
      /\ seen = 1 /\ power' = 0
  BY <1>5, <1>7 DEF Fields, TrueOf, ReadMode, external_w
<1>9. TrueOf(t)'
  <2>1. CASE mode' \in {ChargerOnly, InverterOnly}
    BY <1>2, <1>8, <2>1 DEF TrueOf, ReadMode
  <2>2. CASE mode' \notin {ChargerOnly, InverterOnly}
    <3>1. Wanted(t, volt) = [mode |-> mode', power |-> 0]
      BY <1>2, <1>8, <2>2 DEF Wanted
    <3>2. at' = "again" /\ seen' = 1 /\ volt' = volt
      BY <1>8, <2>2 DEF ReadMode
    <3> QED BY <1>8, <3>1, <3>2 DEF TrueOf, Decided
  <2> QED BY <2>1, <2>2
<1>10. Mix(t)'
  BY <1>7 DEF Mix, ReadMode
<1> QED BY <1>3, <1>4, <1>9, <1>10 DEF LoopInv, ReadMode

LEMMA TypeInv == ASSUME LoopInv, ReadType PROVE LoopInv'
<1>1. TypeOK'
  BY DEF LoopInv, TypeOK, ReadType
<1>2. Mix(sets) /\ Mix(sets)'
  BY DEF LoopInv, Deciding, Mix, ReadType
<1>3. PICK s : Mix(s) /\ TrueOf(s)
  BY DEF LoopInv, ReadType
<1>4. PICK t : t = Blend(s, sets, {"min_max_type"})
  OBVIOUS
<1>5. /\ Mix(t)
      /\ \A f \in Fields : t[f] = IF f \in {"min_max_type"} THEN sets[f] ELSE s[f]
  BY <1>2, <1>3, <1>4, BlendIsMix
<1>6. /\ t["min_max_type"] = sets["min_max_type"] /\ t["mode"] = s["mode"]
      /\ t["web_override"] = s["web_override"]
  BY <1>5 DEF Fields
<1>7. Mix(t)' /\ TrueOf(t)'
  BY <1>3, <1>5, <1>6 DEF Mix, TrueOf, ReadType
<1> QED BY <1>1, <1>2, <1>7 DEF LoopInv, ReadType

LEMMA LimitInv == ASSUME LoopInv, ReadLimit PROVE LoopInv'
<1>1. limit' \in Int
  BY LimitType DEF LoopInv, TypeOK, ReadLimit
<1>2. TypeOK'
  BY <1>1 DEF LoopInv, TypeOK, ReadLimit
<1>3. Mix(sets) /\ Mix(sets)'
  BY DEF LoopInv, Deciding, Mix, ReadLimit
<1>4. PICK s : Mix(s) /\ TrueOf(s)
  BY DEF LoopInv, ReadLimit
<1>5. PICK t : t = Blend(sets, s, {"web_override", "mode", "min_max_type"})
  OBVIOUS
<1>6. /\ Mix(t)
      /\ \A f \in Fields :
           t[f] = IF f \in {"web_override", "mode", "min_max_type"} THEN s[f] ELSE sets[f]
  BY <1>3, <1>4, <1>5, BlendIsMix
<1>7. /\ t["min_max_type"] = s["min_max_type"] /\ t["mode"] = s["mode"]
      /\ t["web_override"] = s["web_override"]
  BY <1>6 DEF Fields
<1>8. LimitOf(t, mode, soc) = LimitOf(sets, mode, soc)
  <2>1. /\ t["max_soc"] = sets["max_soc"] /\ t["min_soc"] = sets["min_soc"]
        /\ t["max_v"] = sets["max_v"] /\ t["min_v"] = sets["min_v"]
        /\ t["bat_max_v"] = sets["bat_max_v"] /\ t["bat_min_v"] = sets["bat_min_v"]
    BY <1>6 DEF Fields
  <2> QED BY <2>1 DEF LimitOf, soc_to_v
<1>9. Mix(t)' /\ TrueOf(t)'
  BY <1>4, <1>6, <1>7, <1>8 DEF Mix, TrueOf, ReadLimit
<1> QED BY <1>2, <1>3, <1>9 DEF LoopInv, ReadLimit

LEMMA PowerInv == ASSUME LoopInv, ReadPower PROVE LoopInv'
<1>1. power' = PowerOf(sets, mode, volt, limit) /\ power' \in Int
  BY PowerType DEF LoopInv, TypeOK, ReadPower
<1>2. TypeOK'
  BY <1>1 DEF LoopInv, TypeOK, ReadPower
<1>3. Mix(sets) /\ Mix(sets)'
  BY DEF LoopInv, Deciding, Mix, ReadPower
<1>4. PICK s : Mix(s) /\ TrueOf(s)
  BY DEF LoopInv, ReadPower
<1>5. PICK t : t = Blend(s, sets, {"max_w", "min_w"})
  OBVIOUS
<1>6. /\ Mix(t)
      /\ \A f \in Fields : t[f] = IF f \in {"max_w", "min_w"} THEN sets[f] ELSE s[f]
  BY <1>3, <1>4, <1>5, BlendIsMix
<1>7. /\ t["max_w"] = sets["max_w"] /\ t["min_w"] = sets["min_w"]
      /\ t["min_max_type"] = s["min_max_type"] /\ t["mode"] = s["mode"]
      /\ t["web_override"] = s["web_override"]
  BY <1>6 DEF Fields
<1>8. LimitOf(t, mode, soc) = LimitOf(s, mode, soc)
  BY <1>6, LimitKept
<1>9. /\ seen = 1 /\ t["web_override"] = 1 /\ mode = from_web_state(t["mode"])
      /\ limit = LimitOf(t, mode, t["min_max_type"] = MIN_MAX_TYPE_SOC)
  BY <1>4, <1>7, <1>8 DEF TrueOf, ReadPower
<1>10. power' = PowerOf(t, mode, volt, limit)
  BY <1>1, <1>7 DEF PowerOf
<1>11. [mode |-> mode, power |-> power'] = Wanted(t, volt)
  <2>1. t \in [Fields -> Int] /\ volt \in Int
    BY <1>6 DEF Mix, LoopInv, TypeOK
  <2> QED BY <1>9, <1>10, <2>1, RemoteWanted
<1>12. Mix(t)' /\ TrueOf(t)'
  BY <1>6, <1>9, <1>11 DEF Mix, TrueOf, Decided, ReadPower
<1> QED BY <1>2, <1>3, <1>12 DEF LoopInv, ReadPower

LEMMA AgainInv == ASSUME LoopInv, ReadOverrideAgain PROVE LoopInv'
<1>1. PICK o \in {seen, sets["web_override"]} :
        at' = IF o = 1 THEN "switch" ELSE "local"
  BY DEF ReadOverrideAgain
<1>2. TypeOK' /\ o \in {0, 1} /\ seen \in {0, 1}
  BY <1>1 DEF LoopInv, TypeOK, ReadOverrideAgain, local
<1>3. Mix(sets) /\ Mix(sets)'
  BY DEF LoopInv, Deciding, Mix, ReadOverrideAgain
<1>4. PICK s : Mix(s) /\ TrueOf(s)
  BY DEF LoopInv, ReadOverrideAgain
<1>5. /\ s["web_override"] \in held["web_override"]
      /\ sets["web_override"] \in held["web_override"]
  BY <1>3, <1>4 DEF Mix, Fields
<1>6. \E t : Mix(t) /\ TrueOf(t)'
  <2>1. CASE o = 1 /\ seen = 1
    BY <1>1, <1>4, <2>1 DEF TrueOf, Decided, ReadOverrideAgain, local
  <2>2. CASE o = 1 /\ seen = 0
    <3>1. s["web_override"] = 0 /\ sets["web_override"] = 1 /\ Decided = Nothing
      BY <1>1, <1>4, <2>2 DEF TrueOf, ReadOverrideAgain
    <3>2. held["web_override"] = {0, 1}
      BY <1>5, <3>1 DEF LoopInv
    <3> QED BY <1>1, <1>4, <2>2, <3>1, <3>2 DEF TrueOf, Decided, ReadOverrideAgain, local
  <2>3. CASE o = 0 /\ seen = 0
    BY <1>1, <1>4, <2>3 DEF TrueOf, ReadOverrideAgain, local
  <2>4. CASE o = 0 /\ seen = 1
    <3>1. PICK t : t = sets
      OBVIOUS
    <3> QED BY <1>1, <1>3, <2>4, <3>1 DEF TrueOf, ReadOverrideAgain, local
  <2> QED BY <1>2, <2>1, <2>2, <2>3, <2>4
<1>7. \E t : Mix(t)' /\ TrueOf(t)'
  BY <1>6 DEF Mix, ReadOverrideAgain
<1> QED BY <1>1, <1>2, <1>3, <1>7 DEF LoopInv, ReadOverrideAgain

LEMMA LocalLimitInv == ASSUME LoopInv, ReadLocalLimit PROVE LoopInv'
<1>1. TypeOK'
  BY DEF LoopInv, TypeOK, ReadLocalLimit, ChargerInverter, external_w
<1>2. Mix(sets) /\ Mix(sets)'
  BY DEF LoopInv, Deciding, Mix, ReadLocalLimit
<1>3. PICK s : Mix(s) /\ TrueOf(s)
  BY DEF LoopInv, ReadLocalLimit
<1>4. PICK t : t = Blend(s, sets, {"local_min_v"})
  OBVIOUS
<1>5. /\ Mix(t)
      /\ \A f \in Fields : t[f] = IF f \in {"local_min_v"} THEN sets[f] ELSE s[f]
  BY <1>2, <1>3, <1>4, BlendIsMix
<1>6. t["local_min_v"] = sets["local_min_v"] /\ t["web_override"] = 0
  BY <1>3, <1>5 DEF Fields, TrueOf, ReadLocalLimit
<1>7. t \in [Fields -> Int] /\ volt \in Int
  BY <1>5 DEF Mix, LoopInv, TypeOK
<1>8. TrueOf(t)'
  <2>1. CASE 100 * volt < sets["local_min_v"]
    BY <1>6, <2>1 DEF TrueOf, ReadLocalLimit
  <2>2. CASE ~(100 * volt < sets["local_min_v"])
    <3>1. [mode |-> mode', power |-> power'] = Wanted(t, volt)
      BY <1>6, <1>7, <2>2, LocalWanted DEF ReadLocalLimit
    <3> QED BY <2>2, <3>1 DEF TrueOf, Decided, ReadLocalLimit
  <2> QED BY <2>1, <2>2
<1>9. Mix(t)'
  BY <1>5 DEF Mix, ReadLocalLimit
<1> QED BY <1>1, <1>2, <1>8, <1>9 DEF LoopInv, ReadLocalLimit

LEMMA LocalPowerInv == ASSUME LoopInv, ReadLocalPower PROVE LoopInv'
<1>1. TypeOK'
  BY DEF LoopInv, TypeOK, Fields, ReadLocalPower
<1>2. Mix(sets) /\ Mix(sets)'
  BY DEF LoopInv, Deciding, Mix, ReadLocalPower
<1>3. PICK s : Mix(s) /\ TrueOf(s)
  BY DEF LoopInv, ReadLocalPower
<1>4. PICK t : t = Blend(s, sets, {"local_w"})
  OBVIOUS
<1>5. /\ Mix(t)
      /\ \A f \in Fields : t[f] = IF f \in {"local_w"} THEN sets[f] ELSE s[f]
  BY <1>2, <1>3, <1>4, BlendIsMix
<1>6. /\ t["local_w"] = sets["local_w"] /\ t["web_override"] = 0
      /\ 100 * volt < t["local_min_v"] /\ mode = ChargerInverter
  BY <1>3, <1>5 DEF Fields, TrueOf, ReadLocalPower
<1>7. t \in [Fields -> Int] /\ volt \in Int
  BY <1>5 DEF Mix, LoopInv, TypeOK
<1>8. [mode |-> mode, power |-> power'] = Wanted(t, volt)
  BY <1>6, <1>7, LocalWanted DEF ReadLocalPower
<1>9. Mix(t)' /\ TrueOf(t)'
  BY <1>5, <1>8 DEF Mix, TrueOf, Decided, ReadLocalPower
<1> QED BY <1>1, <1>2, <1>9 DEF LoopInv, ReadLocalPower

LEMMA SwitchInv == ASSUME LoopInv, SetSwitch PROVE LoopInv'
<1>1. commanded' = [commanded EXCEPT !.mode = mode] /\ commanded'.mode = mode
  BY DEF LoopInv, TypeOK, SetSwitch
<1>2. TypeOK'
  BY <1>1 DEF LoopInv, TypeOK, SetSwitch, local
<1>3. PICK s : Mix(s) /\ TrueOf(s)
  BY DEF LoopInv, SetSwitch
<1>4. Mix(s)' /\ TrueOf(s)'
  BY <1>3 DEF Mix, TrueOf, Decided, SetSwitch, local
<1> QED BY <1>1, <1>2, <1>4 DEF LoopInv, Deciding, SetSwitch, local

LEMMA SetPowerInv == ASSUME LoopInv, SetPower PROVE LoopInv'
<1>1. i16(power) \in Int16
  BY ConversionType DEF LoopInv, TypeOK
<1>2. TypeOK' /\ held'["web_override"] = {}
  BY <1>1 DEF LoopInv, TypeOK, SetPower, Sleep, Fields
<1> QED BY <1>2 DEF LoopInv, Deciding, SetPower

-------------------------------------------------------------------------------
THEOREM LoopInvariant == Spec => []LoopInv
<1>1. ASSUME LoopInv, Next PROVE LoopInv'
  <2>1. CASE ControlStep
    BY <1>1, <2>1, BeginInv, MinCapInv, BatteryInv, OverrideInv, ModeInv, TypeInv,
       LimitInv, PowerInv, AgainInv, LocalLimitInv, LocalPowerInv, SwitchInv,
       SetPowerInv DEF ControlStep
  <2>2. CASE PutField
    BY <1>1, <2>2, SetInv DEF PutField, PutFields
  <2>3. CASE UsbSet
    BY <1>1, <2>3, SetInv DEF UsbSet
  <2>4. CASE Surroundings
    BY <1>1, <2>4, SurroundingsInv
  <2> QED BY <1>1, <2>1, <2>2, <2>3, <2>4 DEF Next, Others
<1>2. ASSUME LoopInv, UNCHANGED vars PROVE LoopInv'
  BY <1>2 DEF LoopInv, TypeOK, Deciding, Mix, TrueOf, Decided, vars, local
<1> QED BY LoopInit, <1>1, <1>2, PTL DEF Spec

(* The variables keep their types; what is sent fits into 16 bits.           *)
THEOREM TypeCorrect == Spec => []TypeOK
<1>1. LoopInv => TypeOK
  BY DEF LoopInv
<1> QED BY <1>1, LoopInvariant, PTL

(* Every command is one decision on values the fields had during the round,  *)
(* however settings, battery and knob change and whatever values they take.  *)
THEOREM CommandsAreAlwaysWanted == Spec => CommandsAreWanted
<1> DEFINE Ends == at = "setpower" /\ at' = "wait"
           Right == \/ \E s \in Mixes(held) : commanded' = Command(s, volt)
                    \/ held["web_override"] = {0, 1} /\ commanded' = Nothing
<1>1. ASSUME LoopInv, [Next]_vars, Ends PROVE Right
  <2>1. SetPower
    BY <1>1 DEF Next, ControlStep, Others, PutField, UsbSet, Set, Surroundings, vars,
       RoundBegin, ReadMinCap, ReadBattery, ReadOverride, ReadMode, ReadType, ReadLimit,
       ReadPower, ReadOverrideAgain, ReadLocalLimit, ReadLocalPower, SetSwitch
  <2>2. commanded' = [mode |-> mode, power |-> i16(power)]
    BY <1>1, <2>1 DEF LoopInv, TypeOK, SetPower
  <2>3. PICK s : Mix(s) /\ TrueOf(s)
    BY <1>1 DEF LoopInv
  <2>4. CASE Decided = Wanted(s, volt)
    <3>1. mode = Wanted(s, volt).mode /\ power = Wanted(s, volt).power
      BY <2>4 DEF Decided
    <3>2. commanded' = Command(s, volt)
      BY <2>2, <3>1 DEF Command
    <3> QED BY <2>3, <3>2, MixInMixes
  <2>5. CASE held["web_override"] = {0, 1} /\ Decided = Nothing
    <3>1. mode = Sleep /\ power = 0
      BY <2>5 DEF Decided, Nothing
    <3>2. i16(power) = 0
      BY <3>1 DEF i16, Saturated
    <3> QED BY <2>2, <2>5, <3>1, <3>2 DEF Nothing
  <2> QED BY <1>1, <2>3, <2>4, <2>5 DEF TrueOf
<1> QED BY <1>1, LoopInvariant, PTL DEF Spec, CommandsAreWanted
=================================================================================
