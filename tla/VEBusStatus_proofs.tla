-------------------------- MODULE VEBusStatus_proofs --------------------------
(***************************************************************************)
(* Proofs about VEBusStatus, for any readers, phases and values.           *)
(***************************************************************************)
EXTENDS VEBusStatus, SequenceTheorems, TLAPS

Names == {"low", "rest", "current", "temp", "ah", "volt", "amps", "phase"}
Parts == {p \in [kind : Kinds, fields : SUBSET Names] : p.fields \subseteq Fields(p.kind)}
Data == Values \cup Phases \cup {Nobody}

(* The semaphore is held exactly by who is in its section. *)
OneInSection ==
  /\ at = "store" <=> holder = Decoder
  /\ \A r \in Readers : get[r].kind # Idle <=> holder = r

(* What a getter has copied is what is stored. *)
CopiedIsStored ==
  \A r \in Readers : get[r].kind # Idle =>
    /\ DOMAIN get[r].copy = Fields(get[r].kind) \ get[r].left
    /\ \A f \in DOMAIN get[r].copy : get[r].copy[f] = stored[get[r].kind][f]

Copy == [kind : Kinds \cup {Idle}, left : SUBSET Names,
         copy : UNION {[F -> Data] : F \in SUBSET Names}, asked : Phases \cup {Nobody}]

Types ==
  /\ stored \in [Kinds -> UNION {[F -> Data] : F \in SUBSET Names}]
  /\ \A k \in Kinds : DOMAIN stored[k] = Fields(k)
  /\ isNew \in [Kinds -> BOOLEAN]
  /\ holder \in Readers \cup {Nobody, Decoder}
  /\ at \in {Idle, "compare", "take", "store"} /\ (at = Idle <=> todo = <<>>)
  /\ todo \in Seq(Parts)
  /\ at \in {"take", "store"} => content \in Contents(Head(todo).fields)
  /\ at = "store" => left \subseteq Head(todo).fields
  /\ unread \subseteq Kinds
  /\ get \in [Readers -> Copy]
  /\ \A r \in Readers : get[r].kind # Idle => get[r].left \subseteq Fields(get[r].kind)

IInv == Types /\ OneInSection /\ CopiedIsStored /\ NewsIsFlagged

-------------------------------------------------------------------------------
LEMMA FieldsOfKinds == \A k \in Kinds : Fields(k) \in SUBSET Names
BY DEF Kinds, Fields, Names

LEMMA FramesAreParts == \A fr \in Frames : fr \in Seq(Parts) /\ fr # <<>>
<1>1. \A F \in SUBSET {"low", "rest"} : Part("led", F) \in Parts
  BY DEF Part, Parts, Kinds, Fields, Names
<1>2. \A F \in SUBSET {"current", "temp", "ah"} : Part("multi", F) \in Parts
  BY DEF Part, Parts, Kinds, Fields, Names
<1>3. \A F \in SUBSET {"volt", "amps"} : Part("dc", F) \in Parts
  BY DEF Part, Parts, Kinds, Fields, Names
<1>4. Part("ac", {"phase", "rest"}) \in Parts
  BY DEF Part, Parts, Kinds, Fields, Names
<1>5. \A p \in Parts : <<p>> \in Seq(Parts) /\ <<p>> # <<>>
  OBVIOUS
<1>6. \A p, q \in Parts : <<p, q>> \in Seq(Parts) /\ <<p, q>> # <<>>
  OBVIOUS
<1>7. \A fr \in decodeMasterMultiLed \cup decodeBatteryCondition \cup decodeInfoFrame
                 \cup decodeVoltage : \E p \in Parts : fr = <<p>>
  BY <1>1, <1>2, <1>3, <1>4 DEF decodeMasterMultiLed, decodeBatteryCondition,
    decodeInfoFrame, decodeVoltage
<1>8. \A fr \in decodeChargerInverterCondition : \E p, q \in Parts : fr = <<p, q>>
  <2>1. Part("led", {"low"}) \in Parts /\ Part("multi", {"current"}) \in Parts
        /\ Part("multi", {"current", "temp"}) \in Parts
    BY <1>1, <1>2
  <2> QED BY <2>1 DEF decodeChargerInverterCondition
<1> SUFFICES ASSUME NEW fr \in Frames PROVE fr \in Seq(Parts) /\ fr # <<>>
  OBVIOUS
<1>9. CASE fr \in decodeChargerInverterCondition
  BY <1>6, <1>8, <1>9
<1>10. CASE fr \notin decodeChargerInverterCondition
  BY <1>5, <1>7, <1>10 DEF Frames
<1> QED BY <1>9, <1>10

LEMMA TodoFacts ==
  ASSUME Types, at # Idle
  PROVE  /\ Head(todo) \in Parts /\ Head(todo).kind \in Kinds
         /\ Head(todo).fields \subseteq Fields(Head(todo).kind)
         /\ Tail(todo) \in Seq(Parts)
<1>1. todo \in Seq(Parts) /\ todo # <<>>
  BY DEF Types
<1>2. Head(todo) \in Parts /\ Tail(todo) \in Seq(Parts)
  BY <1>1, HeadTailProperties
<1> QED BY <1>2 DEF Parts

LEMMA TypesSuffice == Types => TypeOK
<1> SUFFICES ASSUME Types PROVE TypeOK
  OBVIOUS
<1>1. \A k \in Kinds : stored[k] \in [Fields(k) -> Values \cup Phases \cup {Nobody}]
  BY DEF Types, Data
<1>2. \A i \in DOMAIN todo : todo[i] \in Parts
  BY DEF Types
<1>3. \A r \in Readers : get[r] \in Copy
  BY DEF Types
<1> QED BY <1>1, <1>2, <1>3 DEF Types, TypeOK, Parts, Copy

LEMMA InitIInv == Init => IInv
<1> SUFFICES ASSUME Init PROVE IInv
  OBVIOUS
<1>1. PICK zero \in Values :
        stored = [k \in Kinds |-> [f \in Fields(k) |-> IF f = "phase" THEN Nobody ELSE zero]]
  BY DEF Init
<1>2. \A k \in Kinds : stored[k] \in [Fields(k) -> Data]
  BY <1>1 DEF Data
<1>3. stored \in [Kinds -> UNION {[F -> Data] : F \in SUBSET Names}]
      /\ \A k \in Kinds : DOMAIN stored[k] = Fields(k)
  BY <1>1, <1>2, FieldsOfKinds
<1>4. NoContent \in [{} -> Data]
  BY DEF NoContent, Data
<1>5. NoGet \in Copy /\ NoGet.kind = Idle
  BY <1>4 DEF NoGet, Copy
<1>6. \A r \in Readers : get[r] = NoGet /\ get[r].kind = Idle
  BY <1>5 DEF Init
<1>7. Types
  BY <1>3, <1>5, <1>6 DEF Init, Types, Idle
<1> QED
  BY <1>6, <1>7, StatusAssumption
  DEF Init, IInv, OneInSection, CopiedIsStored, NewsIsFlagged, Idle

-------------------------------------------------------------------------------
(* One lemma per action.                                                    *)

LEMMA DecodeKeeps ==
  ASSUME IInv, Decode
  PROVE  IInv'
<1>1. todo' \in Seq(Parts) /\ todo' # <<>>
  BY FramesAreParts DEF Decode
<1>2. Types'
  BY <1>1 DEF IInv, Types, Decode, Idle
<1>3. OneInSection' /\ CopiedIsStored' /\ NewsIsFlagged'
  BY DEF IInv, OneInSection, CopiedIsStored, NewsIsFlagged, Getting, Decode, Idle
<1> QED BY <1>2, <1>3 DEF IInv

(* Where the decoder is after a part. *)
LEMMA FollowingFacts ==
  ASSUME NEW rest
  PROVE  /\ Following(rest) \in {Idle, "compare"}
         /\ Following(rest) = Idle <=> rest = <<>>
BY DEF Following, Idle

LEMMA CompareKeeps ==
  ASSUME IInv, Compare
  PROVE  IInv'
<1>1. at = "compare" /\ UNCHANGED <<stored, holder, left, get, unread>>
  BY DEF Compare
<1>2. Head(todo) \in Parts /\ Tail(todo) \in Seq(Parts)
  BY <1>1, TodoFacts DEF IInv, Idle
<1>3. \/ content' \in Contents(Head(todo).fields) /\ at' = "take" /\ todo' = todo
         /\ isNew' = [isNew EXCEPT !["ac"] = isNew["ac"] \/ Head(todo).kind = "ac"]
      \/ todo' = Tail(todo) /\ at' = Following(Tail(todo)) /\ isNew' = isNew
  BY DEF Compare
<1>4. CASE todo' = Tail(todo) /\ at' = Following(Tail(todo)) /\ isNew' = isNew
  <2>1. at' \in {Idle, "compare"} /\ (at' = Idle <=> todo' = <<>>)
    BY <1>4, FollowingFacts
  <2>2. Types'
    BY <1>1, <1>2, <1>4, <2>1 DEF IInv, Types, Idle
  <2>3. OneInSection' /\ CopiedIsStored' /\ NewsIsFlagged'
    BY <1>1, <1>4, <2>1 DEF IInv, OneInSection, CopiedIsStored, NewsIsFlagged, Getting, Idle
  <2> QED BY <2>2, <2>3 DEF IInv
<1>5. CASE content' \in Contents(Head(todo).fields) /\ at' = "take" /\ todo' = todo
           /\ isNew' = [isNew EXCEPT !["ac"] = isNew["ac"] \/ Head(todo).kind = "ac"]
  <2>1. isNew' \in [Kinds -> BOOLEAN]
    BY <1>5 DEF IInv, Types, Kinds
  <2>2. \A k \in Kinds \ {"ac"} : isNew'[k] = isNew[k]
    BY <1>5 DEF IInv, Types
  <2>3. Types'
    BY <1>1, <1>5, <2>1 DEF IInv, Types, Idle
  <2>4. OneInSection' /\ CopiedIsStored'
    BY <1>1, <1>5 DEF IInv, OneInSection, CopiedIsStored
  <2>5. NewsIsFlagged'
    BY <1>1, <2>2 DEF IInv, Types, NewsIsFlagged, Getting
  <2> QED BY <2>3, <2>4, <2>5 DEF IInv
<1> QED BY <1>3, <1>4, <1>5

LEMMA StoreTakeKeeps ==
  ASSUME IInv, StoreTake
  PROVE  IInv'
<1>1. holder = Nobody /\ \A r \in Readers : get[r].kind = Idle
  BY StatusAssumption DEF StoreTake, Free, IInv, OneInSection
<1>2. Types'
  BY DEF IInv, Types, StoreTake, Idle
<1>3. OneInSection' /\ CopiedIsStored' /\ NewsIsFlagged'
  BY <1>1, StatusAssumption
  DEF IInv, OneInSection, CopiedIsStored, NewsIsFlagged, Getting, StoreTake, Idle
<1> QED BY <1>2, <1>3 DEF IInv

LEMMA StoreFieldKeeps ==
  ASSUME IInv, StoreField
  PROVE  IInv'
<1>1. PICK f \in left :
        /\ stored' = [stored EXCEPT ![Head(todo).kind] =
                        [stored[Head(todo).kind] EXCEPT ![f] = content[f]]]
        /\ left' = left \ {f}
  BY DEF StoreField
<1>2. at = "store" /\ UNCHANGED <<isNew, holder, todo, at, content, get, unread>>
  BY DEF StoreField
<1>3. Head(todo).kind \in Kinds /\ Head(todo).fields \subseteq Fields(Head(todo).kind)
      /\ content \in Contents(Head(todo).fields) /\ f \in Head(todo).fields
  BY <1>1, <1>2, TodoFacts DEF IInv, Types, Idle
<1>4. content[f] \in Data
  BY <1>3 DEF Contents, Data
<1>5. stored[Head(todo).kind] \in [Fields(Head(todo).kind) -> Data]
  BY <1>3 DEF IInv, Types
<1>6. [stored[Head(todo).kind] EXCEPT ![f] = content[f]] \in [Fields(Head(todo).kind) -> Data]
  BY <1>4, <1>5
<1>7. /\ stored' \in [Kinds -> UNION {[F -> Data] : F \in SUBSET Names}]
      /\ \A k \in Kinds : DOMAIN stored'[k] = Fields(k)
  BY <1>1, <1>3, <1>6, FieldsOfKinds DEF IInv, Types
<1>8. Types'
  BY <1>1, <1>2, <1>7 DEF IInv, Types
<1>9. \A r \in Readers : get[r].kind = Idle
  BY <1>2, StatusAssumption DEF IInv, OneInSection
<1>10. OneInSection' /\ CopiedIsStored' /\ NewsIsFlagged'
  BY <1>2, <1>9 DEF IInv, OneInSection, CopiedIsStored, NewsIsFlagged, Getting
<1> QED BY <1>8, <1>10 DEF IInv

LEMMA StoreGiveKeeps ==
  ASSUME IInv, StoreGive
  PROVE  IInv'
<1> DEFINE p == Head(todo)
<1>1. /\ at = "store" /\ holder' = Nobody
      /\ isNew' = [isNew EXCEPT ![p.kind] = IF p.kind = "ac" THEN Flagged(p)
                                                             ELSE isNew[p.kind] \/ Flagged(p)]
      /\ unread' = unread \cup {p.kind}
      /\ todo' = Tail(todo) /\ at' = Following(Tail(todo))
      /\ UNCHANGED <<stored, content, left, get>>
  BY DEF StoreGive
<1>2. p.kind \in Kinds /\ Tail(todo) \in Seq(Parts)
  BY <1>1, TodoFacts DEF IInv, Idle
<1>3. at' \in {Idle, "compare"} /\ (at' = Idle <=> todo' = <<>>)
  BY <1>1, FollowingFacts
<1>4. isNew' \in [Kinds -> BOOLEAN] /\ (p.kind # "ac" => isNew'[p.kind])
      /\ \A k \in Kinds \ {p.kind} : isNew'[k] = isNew[k]
  BY <1>1, <1>2 DEF IInv, Types, Flagged
<1> HIDE DEF p
<1>5. Types'
  BY <1>1, <1>2, <1>3, <1>4 DEF IInv, Types, Idle
<1>6. \A r \in Readers : get[r].kind = Idle
  BY <1>1, StatusAssumption DEF IInv, OneInSection
<1>7. OneInSection' /\ CopiedIsStored'
  BY <1>1, <1>3, <1>6, StatusAssumption DEF IInv, OneInSection, CopiedIsStored, Idle
<1>8. NewsIsFlagged'
  BY <1>1, <1>2, <1>4 DEF IInv, Types, NewsIsFlagged, Getting
<1> QED BY <1>5, <1>7, <1>8 DEF IInv

LEMMA GetTakeKeeps ==
  ASSUME IInv, NEW r \in Readers, NEW k \in Kinds, GetTake(r, k)
  PROVE  IInv'
<1>1. PICK a \in Phases \cup {Nobody} :
        get' = [get EXCEPT ![r] = [kind |-> k, left |-> Fields(k), copy |-> NoContent, asked |-> a]]
  BY DEF GetTake
<1>2. /\ holder = Nobody /\ holder' = r
      /\ isNew' = [isNew EXCEPT ![k] = k = "ac" /\ isNew[k]]
      /\ UNCHANGED <<stored, todo, at, content, left, unread>>
  BY DEF GetTake, Free, decoding
<1>3. NoContent \in [{} -> Data] /\ DOMAIN NoContent = {} /\ k # Idle
  BY DEF NoContent, Data, Kinds, Idle
<1>4. get' \in [Readers -> Copy] /\ get'[r].kind = k /\ get'[r].left = Fields(k)
      /\ get'[r].copy = NoContent /\ \A q \in Readers \ {r} : get'[q] = get[q]
  BY <1>1, <1>3, FieldsOfKinds DEF IInv, Types, Copy
<1>5. isNew' \in [Kinds -> BOOLEAN] /\ \A j \in Kinds \ {k} : isNew'[j] = isNew[j]
  BY <1>2 DEF IInv, Types
<1>6. Types'
  <2>1. \A q \in Readers : get'[q].kind # Idle => get'[q].left \subseteq Fields(get'[q].kind)
    BY <1>4 DEF IInv, Types
  <2> QED BY <1>2, <1>4, <1>5, <2>1 DEF IInv, Types
<1>7. OneInSection'
  BY <1>2, <1>3, <1>4, StatusAssumption DEF IInv, OneInSection
<1>8. CopiedIsStored'
  BY <1>2, <1>3, <1>4 DEF IInv, CopiedIsStored
<1>9. NewsIsFlagged'
  <2>1. \A j \in Kinds : Getting(j) => j = k \/ \E q \in Readers \ {r} : get'[q].kind = j
    BY <1>2, <1>3, <1>4, StatusAssumption DEF IInv, OneInSection, Getting, Idle, Kinds
  <2>2. SUFFICES ASSUME NEW j \in unread' \ {"ac"} PROVE isNew'[j] \/ \E q \in Readers : get'[q].kind = j
    BY DEF NewsIsFlagged, Getting
  <2> QED BY <1>2, <1>4, <1>5, <2>1 DEF IInv, Types, NewsIsFlagged
<1> QED BY <1>6, <1>7, <1>8, <1>9 DEF IInv

LEMMA GetFieldKeeps ==
  ASSUME IInv, NEW r \in Readers, GetField(r)
  PROVE  IInv'
<1>1. PICK f \in get[r].left :
        get' = [get EXCEPT ![r] = CopyField(get[r], f)]
  BY DEF GetField
<1>2. get[r].kind # Idle /\ UNCHANGED <<stored, isNew, holder, todo, at, content, left, unread>>
  BY DEF GetField, decoding
<1> DEFINE K == get[r].kind
           F == DOMAIN get[r].copy \cup {f}
           copied == [g \in F |-> IF g = f THEN stored[K][f] ELSE get[r].copy[g]]
<1>3. get[r] \in Copy /\ K \in Kinds /\ get[r].left \subseteq Fields(K)
      /\ stored[K] \in [Fields(K) -> Data]
  <2>1. get[r] \in Copy /\ K \in Kinds
    BY <1>2 DEF IInv, Types, Copy
  <2> QED BY <1>2, <2>1 DEF IInv, Types
<1>4. F = Fields(K) \ (get[r].left \ {f}) /\ F \subseteq Fields(K)
  BY <1>2, <1>3 DEF IInv, CopiedIsStored
<1>5. \A g \in F : copied[g] = stored[K][g]
  BY <1>2 DEF IInv, CopiedIsStored
<1>6. copied \in [F -> Data] /\ F \in SUBSET Names
  BY <1>3, <1>4, <1>5, FieldsOfKinds
<1>7. /\ get'[r].kind = K /\ get'[r].left = get[r].left \ {f}
      /\ get'[r].copy = copied /\ get'[r].asked = get[r].asked
      /\ get'[r] \in Copy
  <2>1. get'[r] = [kind |-> K, left |-> get[r].left \ {f}, copy |-> copied, asked |-> get[r].asked]
    BY <1>1 DEF IInv, Types, CopyField
  <2> HIDE DEF copied, F, K
  <2>2. get[r].left \ {f} \in SUBSET Names /\ get[r].asked \in Phases \cup {Nobody}
    BY <1>3 DEF Copy
  <2> QED BY <1>3, <1>6, <2>1, <2>2 DEF Copy
<1>8. get' \in [Readers -> Copy] /\ \A q \in Readers \ {r} : get'[q] = get[q]
  BY <1>1, <1>7 DEF IInv, Types
<1> HIDE DEF copied, F
<1>9. Types'
  BY <1>2, <1>3, <1>7, <1>8 DEF IInv, Types
<1>10. OneInSection'
  BY <1>2, <1>7, <1>8 DEF IInv, OneInSection
<1>11. CopiedIsStored'
  BY <1>2, <1>4, <1>5, <1>6, <1>7, <1>8 DEF IInv, CopiedIsStored
<1>12. \A q \in Readers : get'[q].kind = get[q].kind
  BY <1>7, <1>8
<1>13. NewsIsFlagged'
  BY <1>2, <1>12 DEF IInv, NewsIsFlagged, Getting
<1> QED BY <1>9, <1>10, <1>11, <1>13 DEF IInv

LEMMA GetGiveKeeps ==
  ASSUME IInv, NEW r \in Readers, GetGive(r)
  PROVE  IInv'
<1>1. /\ get[r].kind # Idle /\ get' = [get EXCEPT ![r] = NoGet] /\ holder' = Nobody
      /\ isNew' = [isNew EXCEPT !["ac"] = isNew["ac"] /\ get[r].kind # "ac"]
      /\ unread' = unread \ {get[r].kind}
      /\ UNCHANGED <<stored, todo, at, content, left>>
  BY DEF GetGive, decoding
<1>a. NoContent \in [{} -> Data]
  BY DEF NoContent, Data
<1>2. NoGet \in Copy /\ NoGet.kind = Idle /\ Idle \notin Kinds
  BY <1>a DEF NoGet, Copy, Idle, Kinds
<1>3. get' \in [Readers -> Copy] /\ get'[r].kind = Idle /\ \A q \in Readers \ {r} : get'[q] = get[q]
  BY <1>1, <1>2 DEF IInv, Types
<1>4. isNew' \in [Kinds -> BOOLEAN] /\ \A k \in Kinds \ {"ac"} : isNew'[k] = isNew[k]
  BY <1>1 DEF IInv, Types, Kinds
<1>5. Types'
  BY <1>1, <1>3, <1>4 DEF IInv, Types
<1>6. OneInSection'
  BY <1>1, <1>3, StatusAssumption DEF IInv, OneInSection
<1>7. CopiedIsStored'
  BY <1>1, <1>3 DEF IInv, CopiedIsStored
<1>8. NewsIsFlagged'
  <2>1. SUFFICES ASSUME NEW k \in unread' \ {"ac"}, ~isNew'[k]
                 PROVE  \E q \in Readers : get'[q].kind = k
    BY DEF NewsIsFlagged, Getting
  <2>2. k # get[r].kind /\ k \in unread \ {"ac"} /\ k \in Kinds
    BY <1>1 DEF IInv, Types
  <2>3. PICK q \in Readers : get[q].kind = k
    BY <1>4, <2>1, <2>2 DEF IInv, NewsIsFlagged, Getting
  <2> QED BY <1>3, <2>2, <2>3
<1> QED BY <1>5, <1>6, <1>7, <1>8 DEF IInv

LEMMA IInvInductive ==
  ASSUME IInv, [Next]_vars
  PROVE  IInv'
<1>1. CASE UNCHANGED vars
  BY <1>1 DEF vars, decoding, IInv, Types, OneInSection, CopiedIsStored, NewsIsFlagged, Getting
<1>2. ASSUME NEW r \in Readers, Get(r)
      PROVE  IInv'
  BY <1>2, GetTakeKeeps, GetFieldKeeps, GetGiveKeeps DEF Get
<1> QED
  BY <1>1, <1>2, DecodeKeeps, CompareKeeps, StoreTakeKeeps, StoreFieldKeeps, StoreGiveKeeps
  DEF Next

LEMMA WholeFromIInv == IInv => SnapshotIsWhole
<1> SUFFICES ASSUME IInv, NEW r \in Readers, get[r].kind # Idle, get[r].left = {}
             PROVE  get[r].copy = stored[get[r].kind] /\ ~Storing(get[r].kind)
  BY DEF SnapshotIsWhole
<1>1. get[r] \in Copy /\ get[r].kind \in Kinds
  BY DEF IInv, Types, Copy
<1>2. DOMAIN get[r].copy = Fields(get[r].kind)
      /\ \A f \in DOMAIN get[r].copy : get[r].copy[f] = stored[get[r].kind][f]
  BY DEF IInv, CopiedIsStored
<1>3. stored[get[r].kind] \in [Fields(get[r].kind) -> Data]
      /\ get[r].copy \in [Fields(get[r].kind) -> Data]
  BY <1>1, <1>2 DEF IInv, Types, Copy
<1>4. at # "store"
  BY StatusAssumption DEF IInv, OneInSection
<1> QED BY <1>2, <1>3, <1>4 DEF Storing

LEMMA Invariance == Spec => []IInv
BY InitIInv, IInvInductive, PTL DEF Spec

-------------------------------------------------------------------------------
(* The variables keep their types, and no part of a frame is left over.     *)
THEOREM StatusTypeCorrect == Spec => []TypeOK
<1>1. IInv => TypeOK
  BY TypesSuffice DEF IInv
<1> QED BY <1>1, Invariance, PTL

(* No getter returns a mixture of what was stored before and after, for any *)
(* number of tasks that call getters.                                       *)
THEOREM SnapshotIsWholeCorrect == Spec => []SnapshotIsWhole
BY WholeFromIInv, Invariance, PTL

(* Nothing is stored without its flag, until a getter fetches it.           *)
THEOREM NewsIsFlaggedCorrect == Spec => []NewsIsFlagged
<1>1. IInv => NewsIsFlagged
  BY DEF IInv
<1> QED BY <1>1, Invariance, PTL
-------------------------------------------------------------------------------
(* What of a part has been stored is what the part says. *)
StoredIsContent ==
  at = "store" =>
    \A f \in Head(todo).fields \ left : stored[Head(todo).kind][f] = content[f]

LEMMA StoredInit == Init => StoredIsContent
BY DEF Init, StoredIsContent, Idle

LEMMA StoreFieldContent ==
  ASSUME IInv, StoredIsContent, StoreField PROVE StoredIsContent'
<1> DEFINE p == Head(todo)
<1>1. PICK f \in left : /\ stored' = [stored EXCEPT ![p.kind] = [@ EXCEPT ![f] = content[f]]]
                        /\ left' = left \ {f}
  BY DEF StoreField
<1>2. at = "store" /\ UNCHANGED <<todo, at, content>> /\ todo # <<>>
  BY DEF StoreField, IInv, Types, Idle
<1>3. /\ p \in Parts /\ left \subseteq p.fields /\ stored \in [Kinds -> UNION {[F -> Data] : F \in SUBSET Names}]
      /\ \A k \in Kinds : DOMAIN stored[k] = Fields(k)
  BY <1>2 DEF IInv, Types
<1>4. p.kind \in Kinds /\ p.fields \subseteq Fields(p.kind)
  BY <1>3 DEF Parts
<1> HIDE DEF p
<1>5. stored'[p.kind] = [stored[p.kind] EXCEPT ![f] = content[f]]
  BY <1>1, <1>3, <1>4
<1>6. f \in DOMAIN stored[p.kind]
  BY <1>1, <1>3, <1>4
<1>7. stored'[p.kind][f] = content[f] /\ \A g : g # f => stored'[p.kind][g] = stored[p.kind][g]
  BY <1>3, <1>4, <1>5, <1>6
<1>8. ASSUME NEW g \in p.fields \ left' PROVE stored'[p.kind][g] = content[g]
  <2>1. CASE g = f
    BY <1>7, <2>1
  <2>2. CASE g # f
    <3>1. g \in p.fields \ left
      BY <1>1, <2>2
    <3>2. stored[p.kind][g] = content[g]
      BY <1>2, <3>1 DEF StoredIsContent, p
    <3> QED BY <1>7, <2>2, <3>2
  <2> QED BY <2>1, <2>2
<1> QED BY <1>2, <1>8 DEF StoredIsContent, p

LEMMA StoredKeeps == ASSUME IInv, StoredIsContent, [Next]_vars PROVE StoredIsContent'
<1>1. CASE Decode
  BY <1>1 DEF Decode, StoredIsContent
<1>2. CASE Compare
  <2>1. at' # "store"
    BY <1>2 DEF Compare, Following, Idle
  <2> QED BY <2>1 DEF StoredIsContent
<1>3. CASE StoreTake
  BY <1>3 DEF StoreTake, StoredIsContent
<1>4. CASE StoreField
  BY <1>4, StoreFieldContent
<1>5. CASE StoreGive
  <2>1. at' # "store"
    BY <1>5 DEF StoreGive, Following, Idle
  <2> QED BY <2>1 DEF StoredIsContent
<1>6. CASE \E r \in Readers : Get(r)
  BY <1>6 DEF Get, GetTake, GetField, GetGive, decoding, StoredIsContent
<1>7. CASE UNCHANGED vars
  BY <1>7 DEF vars, decoding, StoredIsContent
<1> QED BY <1>1, <1>2, <1>3, <1>4, <1>5, <1>6, <1>7 DEF Next

LEMMA DoneIsStored ==
  ASSUME IInv, StoredIsContent, [Next]_vars,
         todo # <<>>, todo' = Tail(todo), Head(todo).kind # "ac"
  PROVE  \A f \in Head(todo).fields : stored'[Head(todo).kind][f] = content'[f]
<1> DEFINE p == Head(todo)
<1>1. p \in Parts /\ todo' # todo
  <2>1. todo \in Seq(Parts)
    BY DEF IInv, Types
  <2> QED BY <2>1
<1>2. CASE Compare
  <2>1. PICK c \in Contents(p.fields) :
          content' = c /\ (Changed(p, c) => todo' = todo) /\ stored' = stored
    BY <1>2 DEF Compare
  <2>2. ~Changed(p, c)
    BY <1>1, <2>1
  <2>3. "phase" \notin p.fields
    BY <1>1 DEF Parts, Kinds, Fields
  <2> QED BY <2>1, <2>2, <2>3 DEF Changed
<1>3. CASE StoreGive
  BY <1>3 DEF StoreGive, StoredIsContent
<1>4. CASE Decode
  BY <1>4 DEF Decode, IInv, Types
<1>5. CASE StoreTake \/ StoreField \/ (\E r \in Readers : Get(r)) \/ UNCHANGED vars
  BY <1>1, <1>5 DEF StoreTake, StoreField, Get, GetTake, GetField, GetGive, decoding, vars
<1> QED BY <1>2, <1>3, <1>4, <1>5 DEF Next

(* A part of a frame that is done with has left its values behind, whether  *)
(* it was stored or found unchanged.                                        *)
THEOREM StoredFollowsBusCorrect == Spec => StoredFollowsBus
<1>1. IInv /\ StoredIsContent /\ [Next]_vars =>
        [todo # <<>> /\ todo' = Tail(todo) /\ Head(todo).kind # "ac" =>
           \A f \in Head(todo).fields : stored'[Head(todo).kind][f] = content'[f]]_vars
  BY DoneIsStored
<1> QED BY <1>1, StoredInit, StoredKeeps, Invariance, PTL DEF Spec, StoredFollowsBus
===============================================================================
