------------------------ MODULE AgentContainerProofs ------------------------
(***************************************************************************)
(* Proofs about AgentContainer, with and without skills, for any number of *)
(* operations of users and of failures: types, and that the status stays   *)
(* consistent.  What that rests on is that the sort of the conditions      *)
(* neither drops nor repeats one, and that setting one adds or replaces it.*)
(***************************************************************************)
EXTENDS AgentContainer, FiniteSetTheorems, SequenceTheorems, TLAPS

(***************************************************************************)
(* Conditions                                                              *)
(***************************************************************************)

LEMMA ConditionsAreSequences ==
    ASSUME NEW s
    PROVE  s \in Conditions <=> s \in Seq(Condition) /\ Len(s) <= 3
  <1>1. ASSUME s \in Conditions PROVE s \in Seq(Condition) /\ Len(s) <= 3
    <2>1. PICK n \in 0 .. 3 : s \in [1 .. n -> Condition]
      BY <1>1 DEF Conditions
    <2>2. s \in Seq(Condition)
      BY <2>1, SeqDef
    <2>3. DOMAIN s = 1 .. Len(s) /\ Len(s) \in Nat /\ DOMAIN s = 1 .. n
      BY <2>1, <2>2, LenProperties
    <2>4. \A k \in Nat : k \in 1 .. Len(s) <=> k \in 1 .. n
      BY <2>3
    <2>5. Len(s) <= n
      <3>1. CASE Len(s) = 0
        BY <3>1
      <3>2. CASE Len(s) # 0
        <4>1. Len(s) \in 1 .. Len(s)
          BY <2>3, <3>2
        <4> QED
          BY <2>3, <2>4, <4>1
      <3> QED
        BY <3>1, <3>2
    <2> QED
      BY <2>2, <2>3, <2>5
  <1>2. ASSUME s \in Seq(Condition), Len(s) <= 3 PROVE s \in Conditions
    <2>1. s \in [1 .. Len(s) -> Condition] /\ Len(s) \in Nat
      BY <1>2, LenProperties
    <2>2. Len(s) \in 0 .. 3
      BY <1>2, <2>1
    <2> QED
      BY <2>1, <2>2 DEF Conditions
  <1> QED
    BY <1>1, <1>2

LEMMA TypesOfConditions ==
    ASSUME NEW s \in Seq(Condition)
    PROVE  /\ Types(s) \subseteq Type
           /\ IsFiniteSet(Types(s)) /\ Cardinality(Types(s)) \in 0 .. 3
  <1>1. Types(s) \subseteq Type
    <2>1. \A i \in DOMAIN s : s[i] \in Condition
      BY LenProperties, ElementOfSeq
    <2>2. \A i \in DOMAIN s : s[i].type \in Type
      BY <2>1 DEF Condition
    <2> QED
      BY <2>2 DEF Types
  <1>2. IsFiniteSet(Type) /\ Cardinality(Type) = 3
    <2> DEFINE A == {"Creating"}
               B == A \union {"Available"}
    <2>1. IsFiniteSet(A) /\ Cardinality(A) = 1
      BY FS_Singleton
    <2>2. IsFiniteSet(B) /\ Cardinality(B) = 2
      <3>1. "Available" \notin A
        OBVIOUS
      <3>2. IsFiniteSet(B) /\ Cardinality(B) = Cardinality(A) + 1
        BY <2>1, <3>1, FS_AddElement
      <3> QED
        BY <2>1, <3>2
    <2>3. Type = B \union {"Failed"} /\ "Failed" \notin B
      BY DEF Type
    <2>4. IsFiniteSet(Type) /\ Cardinality(Type) = Cardinality(B) + 1
      BY <2>2, <2>3, FS_AddElement
    <2> QED
      BY <2>2, <2>4
  <1>3. IsFiniteSet(Types(s)) /\ Cardinality(Types(s)) <= Cardinality(Type)
    BY <1>1, <1>2, FS_Subset
  <1>4. Cardinality(Types(s)) \in Nat
    BY <1>3, FS_CardinalityType
  <1> QED
    BY <1>1, <1>2, <1>3, <1>4

\* Setting a condition replaces the one of its type or adds it.
LEMMA SetConditionTypes ==
    ASSUME NEW s \in Seq(Condition), Cardinality(Types(s)) = Len(s), NEW c \in Condition
    PROVE  LET t == SetCondition(s, c)
           IN  /\ t \in Seq(Condition) /\ Cardinality(Types(t)) = Len(t)
               /\ Types(t) = Types(s) \union {c.type}
  <1> DEFINE t == SetCondition(s, c)
  <1>1. DOMAIN s = 1 .. Len(s) /\ Len(s) \in Nat /\ s \in [1 .. Len(s) -> Condition]
    BY LenProperties
  <1>2. CASE \E i \in DOMAIN s : s[i].type = c.type
    <2>1. t = [i \in DOMAIN s |-> IF s[i].type = c.type THEN c ELSE s[i]]
      BY <1>2 DEF SetCondition
    <2>2. t \in [1 .. Len(s) -> Condition] /\ DOMAIN t = DOMAIN s
      BY <1>1, <2>1
    <2>3. t \in Seq(Condition)
      BY <1>1, <2>2, SeqDef
    <2>4. Len(t) = Len(s)
      BY <1>1, <2>2, <2>3, LenProperties
    <2>5. \A i \in DOMAIN s : t[i].type = s[i].type
      BY <2>1
    <2>6. Types(t) = Types(s)
      BY <2>2, <2>5 DEF Types
    <2>7. c.type \in Types(s)
      BY <1>2 DEF Types
    <2> QED
      BY <2>3, <2>4, <2>6, <2>7
  <1>3. CASE \A i \in DOMAIN s : s[i].type # c.type
    <2>1. t = Append(s, c)
      BY <1>3 DEF SetCondition
    <2>2. /\ t \in Seq(Condition) /\ Len(t) = Len(s) + 1 /\ t[Len(s) + 1] = c
          /\ \A i \in 1 .. Len(s) : t[i] = s[i]
      BY <2>1, AppendProperties
    <2>3. DOMAIN t = (DOMAIN s) \union {Len(s) + 1}
      <3>1. DOMAIN t = 1 .. Len(s) + 1
        BY <2>2, LenProperties, SMTT(40)
      <3> QED
        BY <1>1, <3>1
    <2>4. Types(t) = Types(s) \union {c.type}
      BY <1>1, <2>2, <2>3, ZenonT(60) DEF Types
    <2>5. c.type \notin Types(s) /\ IsFiniteSet(Types(s))
      BY <1>3, TypesOfConditions DEF Types
    <2>6. Cardinality(Types(t)) = Cardinality(Types(s)) + 1
      BY <2>4, <2>5, FS_AddElement
    <2> QED
      BY <2>2, <2>4, <2>6
  <1> QED
    BY <1>2, <1>3

(***************************************************************************)
(* The sort                                                                *)
(***************************************************************************)

\* Places are in the sequence, and what is before has a smaller one.
LEMMA Places ==
    ASSUME NEW s \in Seq(Condition), NEW newest,
           NEW i \in DOMAIN s, NEW j \in DOMAIN s
    PROVE  /\ Place(s, newest, i) \in DOMAIN s
           /\ Before(s, newest, i, j) => Place(s, newest, i) < Place(s, newest, j)
  <1> DEFINE D == DOMAIN s
             Earlier(k) == {l \in D : Before(s, newest, l, k)}
  <1>1. D = 1 .. Len(s) /\ Len(s) \in Nat
    BY LenProperties
  <1>2. IsFiniteSet(D) /\ Cardinality(D) = Len(s)
    <2>1. IsFiniteSet(1 .. Len(s)) /\ Cardinality(1 .. Len(s)) = IF 1 > Len(s) THEN 0 ELSE Len(s) - 1 + 1
      BY <1>1, FS_Interval
    <2> QED
      BY <1>1, <2>1
  <1>3. ASSUME NEW k \in D
        PROVE  /\ IsFiniteSet(Earlier(k)) /\ Cardinality(Earlier(k)) \in Nat
               /\ Cardinality(Earlier(k)) <= Len(s) - 1 /\ k \notin Earlier(k)
    <2>1. k \notin Earlier(k)
      BY <1>1 DEF Before
    <2>2. Earlier(k) \in SUBSET (D \ {k})
      BY <2>1
    <2>3. IsFiniteSet(D \ {k}) /\ Cardinality(D \ {k}) = Len(s) - 1
      BY <1>2, FS_RemoveElement
    <2>4. IsFiniteSet(Earlier(k)) /\ Cardinality(Earlier(k)) <= Len(s) - 1
      BY <2>2, <2>3, FS_Subset
    <2> QED
      BY <2>1, <2>4, FS_CardinalityType
  <1>4. Place(s, newest, i) \in DOMAIN s
    <2>1. Place(s, newest, i) = 1 + Cardinality(Earlier(i))
      BY DEF Place
    <2>2. Cardinality(Earlier(i)) \in Nat /\ Cardinality(Earlier(i)) <= Len(s) - 1
      BY <1>3
    <2> QED
      BY <1>1, <2>1, <2>2
  <1>5. ASSUME Before(s, newest, i, j)
        PROVE  Place(s, newest, i) < Place(s, newest, j)
    <2>1. \A l \in D : Before(s, newest, l, i) => Before(s, newest, l, j)
      BY <1>1, <1>5 DEF Before
    <2>2. Earlier(i) \in SUBSET Earlier(j)
      BY <2>1
    <2>3. i \in Earlier(j) /\ i \notin Earlier(i)
      BY <1>3, <1>5
    <2>4. Earlier(i) # Earlier(j)
      BY <2>3
    <2>5. Cardinality(Earlier(i)) <= Cardinality(Earlier(j)) /\ Cardinality(Earlier(i)) # Cardinality(Earlier(j))
      <3>1. IsFiniteSet(Earlier(j))
        BY <1>3
      <3> QED
        BY <2>2, <2>4, <3>1, FS_Subset
    <2>6. Cardinality(Earlier(i)) \in Nat /\ Cardinality(Earlier(j)) \in Nat
      BY <1>3
    <2>7. Place(s, newest, i) = 1 + Cardinality(Earlier(i)) /\ Place(s, newest, j) = 1 + Cardinality(Earlier(j))
      BY DEF Place
    <2> QED
      BY <2>5, <2>6, <2>7
  <1> QED
    BY <1>4, <1>5

\* No two conditions share a place, and so every place is taken.
LEMMA PlacesFilled ==
    ASSUME NEW s \in Seq(Condition), NEW newest
    PROVE  /\ \A i, j \in DOMAIN s : Place(s, newest, i) = Place(s, newest, j) => i = j
           /\ \A p \in DOMAIN s : \E i \in DOMAIN s : Place(s, newest, i) = p
  <1> DEFINE D == DOMAIN s
             f == [i \in D |-> Place(s, newest, i)]
  <1>1. D = 1 .. Len(s) /\ Len(s) \in Nat
    BY LenProperties
  <1>2. ASSUME NEW i \in D, NEW j \in D, i # j
        PROVE  Place(s, newest, i) # Place(s, newest, j)
    <2>1. Before(s, newest, i, j) \/ Before(s, newest, j, i)
      BY <1>1, <1>2 DEF Before
    <2>2. Place(s, newest, i) \in Nat /\ Place(s, newest, j) \in Nat
      BY <1>1, Places
    <2>3. \/ Place(s, newest, i) < Place(s, newest, j)
          \/ Place(s, newest, j) < Place(s, newest, i)
      BY <2>1, Places
    <2> QED
      BY <2>2, <2>3
  <1>3. IsFiniteSet(D)
    BY <1>1, FS_Interval
  <1>4. f \in Injection(D, D)
    <2>1. f \in [D -> D]
      BY Places
    <2> QED
      BY <1>2, <2>1 DEF Injection, IsInjective
  <1>5. f \in Surjection(D, D)
    BY <1>3, <1>4, FS_Injection
  <1>6. \A p \in D : \E i \in D : f[i] = p
    BY <1>5 DEF Surjection
  <1> QED
    BY <1>2, <1>6

\* The sort keeps the conditions.
LEMMA SortedTypes ==
    ASSUME NEW s \in Seq(Condition), NEW newest
    PROVE  LET t == DescConditionsByTime(s, newest)
           IN  t \in Seq(Condition) /\ Len(t) = Len(s) /\ Types(t) = Types(s)
  <1> DEFINE D == DOMAIN s
             At(p) == CHOOSE i \in D : Place(s, newest, i) = p
             t == [p \in D |-> s[At(p)]]
  <1>1. DescConditionsByTime(s, newest) = t
    <2>1. {Sorted(c, n) : c \in {s}, n \in {newest}} = {Sorted(s, newest)}
      OBVIOUS
    <2>2. DescConditionsByTime(s, newest) = Sorted(s, newest)
      BY <2>1 DEF DescConditionsByTime
    <2> QED
      BY <2>2 DEF Sorted
  <1>2. ASSUME NEW p \in D PROVE At(p) \in D
    <2>1. \E i \in D : Place(s, newest, i) = p
      BY PlacesFilled
    <2> QED
      BY <2>1
  <1>3. ASSUME NEW i \in D PROVE \E p \in D : At(p) = i
    <2> DEFINE p == Place(s, newest, i)
    <2>1. p \in D
      BY Places
    <2>2. At(p) \in D /\ Place(s, newest, At(p)) = p
      BY <2>1
    <2>3. At(p) = i
      BY <2>2, PlacesFilled
    <2> QED
      BY <2>1, <2>3
  <1>4. D = 1 .. Len(s) /\ Len(s) \in Nat /\ \A i \in D : s[i] \in Condition
    BY LenProperties, ElementOfSeq
  <1>5. t \in [1 .. Len(s) -> Condition] /\ DOMAIN t = D
    BY <1>2, <1>4
  <1>6. t \in Seq(Condition)
    <2> HIDE DEF t
    <2> QED
      BY <1>4, <1>5, SeqDef
  <1>7. Len(t) = Len(s)
    BY <1>4, <1>5, <1>6, LenProperties
  <1>8. Types(t) = Types(s)
    <2>1. \A p \in D : t[p] = s[At(p)]
      OBVIOUS
    <2>2. Types(t) = {s[At(p)].type : p \in D}
      BY <1>5, <2>1 DEF Types
    <2>3. ASSUME NEW x PROVE x \in {s[At(p)].type : p \in D} <=> x \in Types(s)
      <3>1. ASSUME NEW p \in D, x = s[At(p)].type PROVE x \in Types(s)
        BY <1>2, <3>1 DEF Types
      <3>2. ASSUME NEW i \in D, x = s[i].type PROVE x \in {s[At(p)].type : p \in D}
        BY <1>3, <3>2
      <3> QED
        BY <3>1, <3>2 DEF Types
    <2> QED
      BY <2>2, <2>3
  <1> QED
    BY <1>1, <1>6, <1>7, <1>8

(***************************************************************************)
(* The status                                                              *)
(***************************************************************************)

LEMMA NewStatusConsistent == Consistent(NewStatus) /\ \A n \in Nat : NewStatus \in Status(n)
  <1>1. /\ <<>> \in Seq(Condition) /\ Len(<<>>) = 0
        /\ NewStatus.conditions = <<>> /\ ~NewStatus.endpoint /\ NewStatus.active = 0
    BY DEF NewStatus
  <1>2. Types(<<>>) = {}
    BY DEF Types
  <1>3. Cardinality({}) = 0
    BY FS_EmptySet
  <1>4. Consistent(NewStatus)
    BY <1>1, <1>2, <1>3 DEF Consistent
  <1>5. <<>> \in Conditions
    <2>1. <<>> \in Seq(Condition) /\ Len(<<>>) <= 3
      BY <1>1
    <2> QED
      BY <2>1, ConditionsAreSequences
  <1>6. \A n \in Nat : NewStatus \in Status(n)
    BY <1>5 DEF NewStatus, Status
  <1> QED
    BY <1>4, <1>6

\* A check makes a consistent status of one.
LEMMA CheckedConsistent ==
    ASSUME NEW n \in Nat, NEW old \in Status(n), Consistent(old), NEW version \in 0 .. n,
           NEW missing \in Message, NEW ticked \in BOOLEAN
    PROVE  /\ Checked(old, version, missing, ticked) \in Status(n)
           /\ Consistent(Checked(old, version, missing, ticked))
  <1> DEFINE creating == [type |-> "Creating", message |-> ""]
             created == IF old.endpoint THEN old.conditions
                        ELSE SetCondition(old.conditions, creating)
             outcome == [type |-> IF missing = "" THEN "Available" ELSE "Failed", message |-> missing]
             set == SetCondition(created, outcome)
             newest == {outcome.type} \union (IF old.endpoint THEN {} ELSE {"Creating"})
                         \union (IF ticked THEN {} ELSE old.fresh)
             conditions == DescConditionsByTime(set, newest)
             new == Checked(old, version, missing, ticked)
  <1>1. new = [endpoint |-> old.endpoint \/ missing = "",
               active |-> IF missing = "" THEN version ELSE old.active,
               conditions |-> conditions, fresh |-> newest]
    BY DEF Checked
  <1>2. creating \in Condition /\ creating.type = "Creating"
    BY DEF Condition, Type, Message
  <1>3. outcome \in Condition /\ outcome.type = IF missing = "" THEN "Available" ELSE "Failed"
    BY DEF Condition, Type
  <1>4. old.conditions \in Seq(Condition) /\ Cardinality(Types(old.conditions)) = Len(old.conditions)
    <2>1. old.conditions \in Conditions
      BY DEF Status
    <2> QED
      BY <2>1, ConditionsAreSequences DEF Consistent
  <1>5. /\ created \in Seq(Condition) /\ Cardinality(Types(created)) = Len(created)
        /\ Types(created) = Types(old.conditions) \union {"Creating"}
    <2>1. CASE old.endpoint
      <3>1. created = old.conditions
        BY <2>1
      <3>2. "Creating" \in Types(old.conditions)
        BY <2>1 DEF Consistent
      <3>3. Types(old.conditions) = Types(old.conditions) \union {"Creating"}
        BY <3>2
      <3> QED
        BY <1>4, <3>1, <3>3
    <2>2. CASE ~old.endpoint
      <3>1. created = SetCondition(old.conditions, creating)
        BY <2>2
      <3> HIDE DEF creating
      <3> QED
        BY <1>2, <1>4, <3>1, SetConditionTypes
    <2> QED
      BY <2>1, <2>2
  <1>6. /\ set \in Seq(Condition) /\ Cardinality(Types(set)) = Len(set)
        /\ Types(set) = Types(created) \union {outcome.type}
    <2> HIDE DEF created, outcome
    <2> QED
      BY <1>3, <1>5, SetConditionTypes
  <1>7. /\ conditions \in Seq(Condition) /\ Cardinality(Types(conditions)) = Len(conditions)
        /\ Types(conditions) = (Types(old.conditions) \union {"Creating"}) \union {outcome.type}
    <2> HIDE DEF set, newest
    <2>1. /\ conditions \in Seq(Condition) /\ Len(conditions) = Len(set)
          /\ Types(conditions) = Types(set)
      BY <1>6, SortedTypes
    <2> QED
      BY <1>5, <1>6, <2>1
  <1>8. conditions \in Conditions
    <2> HIDE DEF conditions
    <2>1. Cardinality(Types(conditions)) \in 0 .. 3
      BY <1>7, TypesOfConditions
    <2>2. Len(conditions) = Cardinality(Types(conditions)) /\ conditions \in Seq(Condition)
      BY <1>7
    <2>3. Len(conditions) <= 3
      BY <2>1, <2>2
    <2> QED
      BY <2>2, <2>3, ConditionsAreSequences
  <1>9. newest \in SUBSET Type
    BY <1>3 DEF Status, Condition, Type
  <1>10. new \in Status(n)
    <2> DEFINE endpoint == old.endpoint \/ missing = ""
               active == IF missing = "" THEN version ELSE old.active
    <2> HIDE DEF conditions, newest
    <2>1. (old.endpoint \/ missing = "") \in BOOLEAN
      OBVIOUS
    <2>2. (IF missing = "" THEN version ELSE old.active) \in 0 .. n
      BY DEF Status
    <2>3. new = [endpoint |-> endpoint, active |-> active, conditions |-> conditions, fresh |-> newest]
      BY <1>1
    <2> HIDE DEF endpoint, active, new
    <2> QED
      BY <1>8, <1>9, <2>1, <2>2, <2>3 DEF Status, endpoint, active
  <1>11. Consistent(new)
    <2> DEFINE types == Types(conditions)
    <2>1. /\ new.conditions = conditions /\ (new.endpoint <=> old.endpoint \/ missing = "")
          /\ new.active = IF missing = "" THEN version ELSE old.active
      <3> DEFINE endpoint == old.endpoint \/ missing = ""
      <3>1. new.conditions = conditions /\ new.endpoint = endpoint
        <4> HIDE DEF conditions, newest, new, endpoint
        <4> QED
          BY <1>1 DEF endpoint
      <3>2. new.active = IF missing = "" THEN version ELSE old.active
        <4> HIDE DEF conditions, newest, new
        <4> QED
          BY <1>1
      <3> QED
        BY <3>1, <3>2
    <2>2. "Creating" \in types
      BY <1>7
    <2>3. new.endpoint <=> "Available" \in types
      <3>1. old.endpoint <=> "Available" \in Types(old.conditions)
        BY DEF Consistent
      <3> QED
        BY <1>3, <1>7, <2>1, <3>1
    <2>4. ~new.endpoint => new.active = 0
      BY <2>1 DEF Consistent
    <2>5. Cardinality(Types(new.conditions)) = Len(new.conditions)
      BY <1>7, <2>1
    <2> HIDE DEF conditions, new
    <2> QED
      BY <2>1, <2>2, <2>3, <2>4, <2>5 DEF Consistent
  <1> QED
    BY <1>10, <1>11

(***************************************************************************)
(* The steps                                                               *)
(***************************************************************************)

LEMMA Later ==
    ASSUME NEW n \in Nat, NEW k \in Nat, n <= k
    PROVE  Container(n) \subseteq Container(k) /\ Owners(n) \subseteq Owners(k)
  <1>1. 0 .. n \subseteq 0 .. k /\ 0 .. n + 1 \subseteq 0 .. k + 1
    OBVIOUS
  <1>2. Status(n) \subseteq Status(k)
    BY <1>1 DEF Status
  <1> QED
    BY <1>1, <1>2 DEF Container, Owners

LEMMA NobodyType == ASSUME NEW n \in Nat PROVE Nobody \in Container(n)
  BY NewStatusConsistent DEF Nobody, Container

LEMMA IdleType ==
    ASSUME NEW n \in Nat
    PROVE  Idle \in [at : Kind \union {"idle", "check", "report"}, dac : Container(n), missing : Message]
  BY NobodyType DEF Idle, Message

LEMMA InitInv == Init => IInv
  <1> SUFFICES ASSUME Init PROVE IInv
    OBVIOUS
  <1>1. ops = 0 /\ 0 \in 0 .. MaxOps /\ 0 \in 0 .. MaxFaults
    BY ContainerAssumption DEF Init
  <1>2. objects \in Owners(0)
    BY DEF Init, Owners
  <1>3. container \in Container(0) /\ seen \in [container : Container(0), objects : Owners(0)]
    BY <1>2, NobodyType DEF Init
  <1>4. worker \in [at : Kind \union {"idle", "check", "report"}, dac : Container(0), missing : Message]
    BY IdleType DEF Init
  <1>5. StatusConsistent
    BY NewStatusConsistent DEF Init, Nobody, StatusConsistent
  <1>6. {present, queued, delayed, missed} \subseteq BOOLEAN /\ faults = 0
    BY DEF Init
  <1> QED
    BY <1>1, <1>2, <1>3, <1>4, <1>5, <1>6 DEF IInv, TypeOK

\* What a step of the handler does to the world and to the worker.
LEMMA HandlerTypes ==
    ASSUME IInv, HandlerStep \/ CallFails
    PROVE  IInv'
  <1>0. /\ ops \in Nat /\ worker.dac \in Container(ops) /\ worker.missing \in Message
        /\ worker.dac.uid \in 0 .. ops + 1 /\ objects \in Owners(ops)
    BY ContainerAssumption DEF IInv, TypeOK, Container
  <1>1. UNCHANGED <<seen, queued, ops, missed>> /\ faults' \in 0 .. MaxFaults
    BY ContainerAssumption DEF HandlerStep, CallFails, Fault, IInv, TypeOK
  <1>2. /\ worker' \in [at : Kind \union {"idle", "check", "report"}, dac : Container(ops),
                        missing : Message]
        /\ delayed' \in BOOLEAN
    <2>1. CASE \/ CreateService \/ createConfigMapForSkills \/ CreateDeployment \/ CallFails
      <3>1. \/ \E place \in Kind \union {"check"} : GoTo(place)
            \/ Fail
            \/ \E k \in {"service", "deployment"} :
                 worker' = [worker EXCEPT !.at = "report", !.missing = k] /\ UNCHANGED delayed
        BY <2>1 DEF CreateService, createConfigMapForSkills, CreateDeployment, CreateIfNotExists,
                    CallFails, Kind
      <3> QED
        BY <1>0, <3>1, IdleType DEF GoTo, Fail, IInv, TypeOK, Message
    <2>2. CASE checkDACStatus
      <3> DEFINE k == CASE seen.objects["service"] = 0 -> "service"
                        [] seen.objects["deployment"] = 0 -> "deployment"
                        [] OTHER -> ""
      <3>1. k \in Message
        BY DEF Message
      <3>2. worker' = [worker EXCEPT !.at = "report", !.missing = k]
        BY <2>2 DEF checkDACStatus
      <3> HIDE DEF k
      <3>3. worker' \in [at : Kind \union {"idle", "check", "report"}, dac : Container(ops),
                          missing : Message]
        BY <3>1, <3>2 DEF IInv, TypeOK
      <3> QED
        BY <2>2, <3>3 DEF checkDACStatus, IInv, TypeOK
    <2>3. CASE handleDACStatus
      <3>1. worker' = Idle /\ (delayed' = TRUE \/ UNCHANGED delayed)
        BY <2>3 DEF handleDACStatus, Fail
      <3> QED
        BY <1>0, <3>1, IdleType DEF IInv, TypeOK
    <2> QED
      BY <2>1, <2>2, <2>3 DEF HandlerStep
  <1>3. objects' \in Owners(ops) /\ UNCHANGED present
    <2>1. CASE \E k \in Kind : Create(k)
      BY <1>0, <2>1 DEF Create, Owners
    <2>2. CASE UNCHANGED <<objects, present>>
      BY <1>0, <2>2
    <2>3. \/ \E k \in Kind : Create(k)
          \/ UNCHANGED <<objects, present>>
      <3>1. CASE CreateService \/ createConfigMapForSkills \/ CreateDeployment
        BY <3>1 DEF CreateService, createConfigMapForSkills, CreateDeployment,
                    CreateIfNotExists, worldVars, IInv, TypeOK
      <3>2. CASE checkDACStatus \/ handleDACStatus \/ CallFails
        BY <3>2 DEF checkDACStatus, handleDACStatus, CallFails, worldVars
      <3> QED
        BY <3>1, <3>2 DEF HandlerStep
    <2> QED
      BY <2>1, <2>2, <2>3 DEF Create
  <1>4. container' \in Container(ops) /\ StatusConsistent'
    <2>1. CASE handleDACStatus /\ container' # container
      <3>1. PICK ticked \in BOOLEAN :
              LET status == Checked(worker.dac.status, worker.dac.version, worker.missing, ticked)
              IN  container = worker.dac /\ Update(status)
        BY <2>1 DEF handleDACStatus
      <3> DEFINE status == Checked(container.status, container.version, worker.missing, ticked)
      <3>2. /\ container \in Container(ops) /\ container.status \in Status(ops)
            /\ container.version \in 0 .. ops /\ Consistent(container.status)
        BY DEF IInv, TypeOK, StatusConsistent, Container
      <3>3. status \in Status(ops) /\ Consistent(status)
        BY <1>0, <3>2, CheckedConsistent
      <3>4. Update(status)
        BY <3>1
      <3> HIDE DEF status
      <3>5. PICK w \in 0 .. 1 : container' = [container EXCEPT !.status = status, !.writes = w]
        <4> DEFINE w == IF status = container.status THEN 1 - container.writes ELSE container.writes
        <4>1. container.writes \in 0 .. 1
          BY <3>2 DEF Container
        <4>2. w \in 0 .. 1
          BY <4>1
        <4>3. container' = [container EXCEPT !.status = status, !.writes = w]
          BY <3>4 DEF Update
        <4> HIDE DEF w
        <4> QED
          BY <4>2, <4>3
      <3>6. container'.status = status /\ container' \in Container(ops)
        BY <3>2, <3>3, <3>5 DEF Container
      <3> QED
        BY <3>3, <3>6 DEF StatusConsistent
    <2>2. CASE UNCHANGED container
      BY <2>2 DEF IInv, TypeOK, StatusConsistent
    <2>3. ~handleDACStatus => UNCHANGED container
      BY DEF HandlerStep, CallFails, CreateService, createConfigMapForSkills, CreateDeployment,
             CreateIfNotExists, Create, checkDACStatus, worldVars
    <2> QED
      BY <2>1, <2>2, <2>3
  <1> QED
    BY <1>1, <1>2, <1>3, <1>4 DEF IInv, TypeOK

LEMMA UserTypes ==
    ASSUME IInv, UserOp
    PROVE  IInv'
  <1>0. /\ ops \in Nat /\ ops + 1 \in Nat /\ ops <= ops + 1 /\ ops' = ops + 1
        /\ ops' \in 0 .. MaxOps
    BY ContainerAssumption DEF UserOp, IInv, TypeOK
  <1>1. Container(ops) \subseteq Container(ops') /\ Owners(ops) \subseteq Owners(ops')
    BY <1>0, Later
  <1>2. container' \in Container(ops') /\ StatusConsistent' /\ objects' \in Owners(ops')
        /\ present' \in BOOLEAN
    <2>1. CASE Apply
      <3>1. container' = [Nobody EXCEPT !.uid = ops + 2, !.version = 1]
        BY <2>1 DEF Apply
      <3>2. ops + 2 \in 0 .. ops' + 1 /\ 1 \in 0 .. ops'
        BY <1>0
      <3>3. NewStatus \in Status(ops') /\ Consistent(NewStatus)
        BY <1>0, NewStatusConsistent
      <3>4. container' = [uid |-> ops + 2, version |-> 1, writes |-> 0, status |-> NewStatus]
        BY <3>1 DEF Nobody
      <3>5. container' \in Container(ops') /\ StatusConsistent'
        BY <3>2, <3>3, <3>4 DEF Container, StatusConsistent
      <3> QED
        BY <1>1, <2>1, <3>5 DEF Apply, IInv, TypeOK
    <2>2. CASE Edit
      <3>1. container' = [container EXCEPT !.version = @ + 1] /\ container \in Container(ops)
        BY <2>2 DEF Edit, IInv, TypeOK
      <3>2. /\ container.version + 1 \in 0 .. ops' /\ container.uid \in 0 .. ops' + 1
            /\ container.writes \in 0 .. 1 /\ container.status \in Status(ops')
        <4>1. container.version \in 0 .. ops /\ container \in Container(ops')
          BY <1>1, <3>1 DEF Container
        <4> QED
          BY <1>0, <4>1 DEF Container
      <3>3. container' \in Container(ops') /\ container'.status = container.status
        BY <3>1, <3>2 DEF Container
      <3> QED
        BY <1>1, <2>2, <3>3 DEF Edit, IInv, TypeOK, StatusConsistent
    <2>3. CASE Delete
      BY <1>0, <1>1, <2>3, NobodyType, NewStatusConsistent
         DEF Delete, Nobody, StatusConsistent, IInv, TypeOK
    <2>4. CASE Provide
      BY <1>1, <2>4 DEF Provide, IInv, TypeOK, StatusConsistent
    <2> QED
      BY <2>1, <2>2, <2>3, <2>4 DEF UserOp
  <1>3. seen' \in [container : Container(ops'), objects : Owners(ops')]
    BY <1>1 DEF UserOp, IInv, TypeOK
  <1>4. worker' \in [at : Kind \union {"idle", "check", "report"}, dac : Container(ops'),
                     missing : Message]
    BY <1>1 DEF UserOp, IInv, TypeOK
  <1> QED
    BY <1>0, <1>2, <1>3, <1>4 DEF UserOp, IInv, TypeOK

\* The caches, the queue, a restart and the garbage collector.
LEMMA RestTypes ==
    ASSUME IInv,
           \/ Reconcile \/ SyncContainer \/ Requeue \/ Resync \/ Crash
           \/ \E k \in Kind : SyncObject(k) \/ Collect(k)
    PROVE  IInv'
  <1>0. UNCHANGED <<container, present, ops>> /\ ops \in Nat
    <2>1. ops \in Nat
      BY ContainerAssumption DEF IInv, TypeOK
    <2> QED
      BY <2>1 DEF Reconcile, SyncContainer, Requeue, Resync, Crash, SyncObject, Collect, worldVars
  <1>1. StatusConsistent'
    BY <1>0 DEF IInv, StatusConsistent
  <1>2. objects' \in Owners(ops)
    <2>1. CASE \E k \in Kind : Collect(k)
      BY <1>0, <2>1 DEF Collect, Owners, IInv, TypeOK
    <2> QED
      BY <2>1 DEF Reconcile, SyncContainer, Requeue, Resync, Crash, SyncObject, worldVars,
                  IInv, TypeOK
  <1>3. seen' \in [container : Container(ops), objects : Owners(ops)]
    <2>1. CASE \E k \in Kind : SyncObject(k)
      BY <1>0, <2>1 DEF SyncObject, Owners, IInv, TypeOK
    <2>2. CASE SyncContainer
      <3>1. /\ seen' = [seen EXCEPT !.container = container] /\ container \in Container(ops)
            /\ seen \in [container : Container(ops), objects : Owners(ops)]
        BY <2>2 DEF SyncContainer, IInv, TypeOK
      <3> QED
        BY <3>1
    <2>3. CASE Crash
      <3>1. /\ seen' = [container |-> container, objects |-> objects]
            /\ container \in Container(ops) /\ objects \in Owners(ops)
        BY <2>3 DEF Crash, IInv, TypeOK
      <3> QED
        BY <3>1
    <2> QED
      BY <2>1, <2>2, <2>3 DEF Reconcile, Requeue, Resync, Collect, IInv, TypeOK
  <1>4. worker' \in [at : Kind \union {"idle", "check", "report"}, dac : Container(ops),
                     missing : Message]
    <2>1. CASE Reconcile
      <3>1. worker' = Idle \/ worker' = [at |-> "service", dac |-> seen.container, missing |-> ""]
        BY <2>1 DEF Reconcile
      <3>2. seen.container \in Container(ops) /\ "service" \in Kind /\ "" \in Message
        BY DEF IInv, TypeOK, Kind, Message
      <3>3. [at |-> "service", dac |-> seen.container, missing |-> ""]
              \in [at : Kind \union {"idle", "check", "report"}, dac : Container(ops), missing : Message]
        BY <3>2
      <3> QED
        BY <1>0, <3>1, <3>3, IdleType
    <2>2. CASE Crash
      BY <1>0, <2>2, IdleType DEF Crash
    <2> QED
      BY <2>1, <2>2 DEF SyncContainer, Requeue, Resync, SyncObject, Collect, IInv, TypeOK
  <1>5. faults' \in 0 .. MaxFaults
    <2>1. faults' = faults \/ (faults < MaxFaults /\ faults' = faults + 1)
      BY DEF Reconcile, SyncContainer, Requeue, Resync, Crash, Fault, SyncObject, Collect
    <2>2. faults \in 0 .. MaxFaults /\ MaxFaults \in Nat
      BY ContainerAssumption DEF IInv, TypeOK
    <2> QED
      BY <2>1, <2>2
  <1>6. {queued', delayed', missed'} \subseteq BOOLEAN
    BY DEF Reconcile, SyncContainer, Requeue, Resync, Crash, SyncObject, Collect, IInv, TypeOK
  <1> QED
    BY <1>0, <1>1, <1>2, <1>3, <1>4, <1>5, <1>6 DEF IInv, TypeOK

(***************************************************************************)
(* Theorems                                                                *)
(***************************************************************************)

THEOREM ContainerInvariant == Spec => []IInv
  <1>1. Init => IInv
    BY InitInv
  <1>2. IInv /\ [Next]_vars => IInv'
    <2> SUFFICES ASSUME IInv, [Next]_vars PROVE IInv'
      OBVIOUS
    <2>1. CASE UNCHANGED vars
      BY <2>1 DEF vars, worldVars, IInv, TypeOK, StatusConsistent
    <2> QED
      BY <2>1, HandlerTypes, UserTypes, RestTypes DEF Next
  <1> QED
    BY <1>1, <1>2, PTL DEF Spec

\* Every variable keeps its type: at most three conditions, and no uid or
\* version that users did not make.
THEOREM ContainerTypes == Spec => []TypeOK
  <1>1. IInv => TypeOK
    BY DEF IInv
  <1> QED
    BY <1>1, ContainerInvariant, PTL

\* After any sequence of checks, refused updates, races and crashes the status
\* has one condition of each type, and an endpoint exactly if a check has ever
\* found everything.
THEOREM StatusStaysConsistent == Spec => []StatusConsistent
  <1>1. IInv => StatusConsistent
    BY DEF IInv
  <1> QED
    BY <1>1, ContainerInvariant, PTL

=============================================================================
