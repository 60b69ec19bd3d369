------------------------- MODULE VirgilExtension_proofs -------------------------
(***************************************************************************)
(* What the property source of the starter does to the settings of users,   *)
(* and to the requests of the tab, whatever those settings are.             *)
(***************************************************************************)
EXTENDS VirgilExtension, SequenceTheorems, FiniteSetTheorems, TLAPS

(* The first of a non-empty set of positions.                               *)
LEMMA MinIsFirst ==
    ASSUME NEW S \in SUBSET Nat, NEW i \in S, \A j \in S : i <= j
    PROVE  Min(S) = i
<1>1. \E x \in S : \A y \in S : x <= y
    OBVIOUS
<1>2. Min(S) \in S /\ \A y \in S : Min(S) <= y
    BY <1>1 DEF Min
<1>3. Min(S) <= i /\ i <= Min(S) /\ Min(S) \in Nat /\ i \in Nat
    BY <1>2
<1> QED BY <1>3

LEMMA MinExists ==
    ASSUME NEW S \in SUBSET Nat, S # {}
    PROVE  Min(S) \in S /\ \A j \in S : Min(S) <= j
<1> DEFINE R == OpToRel(<, Nat)
<1>1. \E i \in S : \A j \in S : <<j, i>> \notin R
    BY NatLessThanWellFounded, WFMin
<1>2. PICK i \in S : \A j \in S : ~(j < i)
    BY <1>1 DEF OpToRel
<1>3. \A j \in S : i <= j
    BY <1>2
<1> QED BY <1>3, MinIsFirst

(* The names are different, those of lists and their indexed forms too.     *)
LEMMA NamesDiffer ==
    ASSUME NEW e \in Endpoints
    PROVE  /\ \A d \in Endpoints : Mapping(d) = Mapping(e) => d = e
           /\ \A d \in Endpoints : Mapping(d) # Indexed(Mapping(e))
           /\ Mapping(e)[2] = e
           /\ Mapping(e) \notin ListNames
           /\ Indexed(Mapping(e)) \notin ListNames
<1> DEFINE T == {"management.endpoints.web.path-mapping", e, "[*]"}
<1>1. Mapping(e) \in Seq(T) /\ <<"[*]">> \in Seq(T)
    BY DEF Mapping
<1>2. Len(Indexed(Mapping(e))) = 3
    <2>1. Len(Mapping(e)) = 2
        BY DEF Mapping
    <2>2. Len(<<"[*]">>) = 1
        OBVIOUS
    <2>3. Len(Mapping(e) \o <<"[*]">>) = Len(Mapping(e)) + Len(<<"[*]">>)
        BY <1>1, ConcatProperties
    <2> QED BY <2>1, <2>2, <2>3 DEF Indexed
<1>3. \A d \in Endpoints : Len(Mapping(d)) = 2
    BY DEF Mapping
<1>4. \A name \in ListNames : Len(name) = 1
    BY DEF ListNames, Include, Probed, Locations
<1> QED BY <1>1, <1>2, <1>3, <1>4 DEF Mapping

LEMMA SeqGrows ==
    ASSUME NEW A, NEW B, A \subseteq B, NEW p \in Seq(A)
    PROVE  p \in Seq(B)
OBVIOUS

-----------------------------------------------------------------------------
(* A source that is put in front of the two of the users.                   *)
Prepended(s, first, us) ==
    /\ DOMAIN us = 1..2
    /\ DOMAIN s = 1..3
    /\ s[1] = first /\ s[2] = us[1] /\ s[3] = us[2]

Has(source, name) == {name, Indexed(name)} \cap DOMAIN source # {}

Having(s, name) == {i \in DOMAIN s : Has(s[i], name)}

Value(source, name) == source[IF name \in DOMAIN source THEN name ELSE Indexed(name)]

LEMMA InFront ==
    ASSUME NEW first, NEW us \in UserSources \X UserSources
    PROVE  Prepended(<<first>> \o us, first, us) /\ Tail(<<first>> \o us) = us
<1> DEFINE T == {first} \cup UserSources
           one == <<first>>
           s == one \o us
<1>1. one \in Seq(T) /\ Len(one) = 1 /\ one[1] = first
    OBVIOUS
<1>2. PICK a \in UserSources, b \in UserSources : us = <<a, b>>
    OBVIOUS
<1>3. us \in Seq(T) /\ Len(us) = 2 /\ DOMAIN us = 1..2
    BY <1>2
<1> HIDE DEF T, one
<1>4. /\ s \in Seq(T)
      /\ Len(s) = Len(one) + Len(us)
      /\ \A i \in 1..Len(one) + Len(us) : s[i] = IF i <= Len(one) THEN one[i] ELSE us[i - Len(one)]
    BY <1>1, <1>3, ConcatProperties
<1> HIDE DEF s
<1>5. Len(s) = 3 /\ s[1] = first /\ s[2] = us[1] /\ s[3] = us[2]
    BY <1>1, <1>3, <1>4
<1>6. s # <<>> /\ DOMAIN s = 1..3
    <2>1. DOMAIN s = 1..Len(s)
        BY <1>4, LenProperties
    <2>2. DOMAIN s = 1..3
        BY <1>5, <2>1
    <2> QED BY <2>2
<1>7. Tail(s) \in Seq(T) /\ Len(Tail(s)) = Len(s) - 1 /\ \A i \in 1..Len(Tail(s)) : Tail(s)[i] = s[i + 1]
    BY <1>4, <1>6, HeadTailProperties
<1>8. Len(Tail(s)) = 2 /\ Tail(s)[1] = us[1] /\ Tail(s)[2] = us[2]
    BY <1>5, <1>7
<1>9. \A i \in 1..2 : i = 1 \/ i = 2
    OBVIOUS
<1>10. Tail(s) = us
    BY <1>3, <1>7, <1>8, <1>9, SeqEqual
<1>11. Prepended(s, first, us)
    BY <1>3, <1>5, <1>6 DEF Prepended
<1> QED BY <1>10, <1>11 DEF s, one

LEMMA WrittenIs ==
    ASSUME NEW s, NEW name, NEW i \in Having(s, name), DOMAIN s \subseteq Nat,
           \A j \in Having(s, name) : i <= j
    PROVE  Written(s, name) = {Value(s[i], name)}
<1>1. Having(s, name) \in SUBSET Nat
    BY DEF Having
<1>2. Min(Having(s, name)) = i
    BY <1>1, MinIsFirst
<1> QED BY <1>2 DEF Written, Having, Has, Value

LEMMA WrittenNone ==
    ASSUME NEW s, NEW name, Having(s, name) = {}
    PROVE  Written(s, name) = {}
BY DEF Written, Having, Has

(* A name that the first source has is read from it; any other as before.   *)
LEMMA WrittenInFront ==
    ASSUME NEW first, NEW s, NEW us, Prepended(s, first, us), NEW name, name \in DOMAIN first
    PROVE  Written(s, name) = {first[name]}
<1>1. 1 \in Having(s, name) /\ \A j \in Having(s, name) : 1 <= j
    BY DEF Prepended, Having, Has
<1>2. Written(s, name) = {Value(s[1], name)}
    BY <1>1, WrittenIs DEF Prepended
<1> QED BY <1>2 DEF Prepended, Value

LEMMA WrittenBehind ==
    ASSUME NEW first, NEW s, NEW us, Prepended(s, first, us), NEW name, ~Has(first, name)
    PROVE  Written(s, name) = Written(us, name)
<1>1. \A i \in 1..3 : i \in Having(s, name) <=> i # 1 /\ i - 1 \in Having(us, name)
    BY DEF Prepended, Having
<1>2. CASE Having(us, name) = {}
    <2>1. Having(s, name) = {}
        BY <1>1, <1>2 DEF Having, Prepended
    <2> QED BY <1>2, <2>1, WrittenNone
<1>3. CASE Having(us, name) # {}
    <2>1. Having(us, name) \in SUBSET (1..2) /\ Having(s, name) \in SUBSET (1..3)
        BY DEF Prepended, Having
    <2>2. PICK i \in Having(us, name) : \A j \in Having(us, name) : i <= j
        BY <1>3, <2>1, MinExists
    <2>3. Written(us, name) = {Value(us[i], name)}
        BY <2>2, WrittenIs DEF Prepended
    <2>4. i + 1 \in Having(s, name) /\ \A j \in Having(s, name) : i + 1 <= j
        BY <1>1, <2>1, <2>2
    <2>5. Written(s, name) = {Value(s[i + 1], name)}
        BY <2>4, WrittenIs DEF Prepended
    <2>6. s[i + 1] = us[i]
        BY <2>1 DEF Prepended
    <2> QED BY <2>3, <2>5, <2>6
<1> QED BY <1>2, <1>3

-----------------------------------------------------------------------------
(* What the starter finds of a name, if the first source of the users that  *)
(* sets the name in either form sets it as a text.                          *)
LEMMA FoundWhenText ==
    ASSUME NEW us \in UserSources \X UserSources, sources = us,
           NEW name \in ListNames \cup {Mapping(e) : e \in Endpoints},
           NEW v \in Written(us, name), v.kind = "text"
    PROVE  GetProperty(name) = {v}
<1>1. PICK a \in UserSources, b \in UserSources : us = <<a, b>>
    OBVIOUS
<1>2. DOMAIN us = 1..2 /\ us[1] \in UserSources /\ us[2] \in UserSources
    BY <1>1
<1>3. Having(us, name) \in SUBSET (1..2) /\ Having(us, name) # {}
    BY <1>2, WrittenNone DEF Having
<1>4. PICK i \in Having(us, name) : \A j \in Having(us, name) : i <= j
    BY <1>3, MinExists
<1>5. v = Value(us[i], name)
    BY <1>2, <1>4, WrittenIs
<1>6. us[i] \in UserSources
    BY <1>2, <1>3, <1>4
<1>7. name \in DOMAIN us[i]
    BY <1>4, <1>5, <1>6, SourcesAssumption DEF Value, Having, Has
<1> DEFINE having == {j \in DOMAIN sources : name \in DOMAIN sources[j]}
<1>8. i \in having /\ \A j \in having : i <= j
    BY <1>3, <1>4, <1>7 DEF Having, Has
<1>9. having \in SUBSET Nat
    BY <1>2
<1>10. Min(having) = i
    BY <1>8, <1>9, MinIsFirst
<1> HIDE DEF having
<1>11. GetProperty(name) = {w \in {sources[Min(having)][name]} : w.kind = "text"}
    BY <1>8 DEF GetProperty, having
<1> QED BY <1>5, <1>7, <1>10, <1>11 DEF Value

(* The source of the starter sets each list, and the path of an endpoint    *)
(* only if users have set none.                                             *)
LEMMA VirgilSourceSets ==
    /\ \A name \in ListNames : name \in DOMAIN VirgilSource /\ VirgilSource[name] = Consolidated(name)
    /\ \A e \in Endpoints :
        IF e \in Unmapped
        THEN Mapping(e) \in DOMAIN VirgilSource /\ VirgilSource[Mapping(e)] = Text(DefaultPath(e))
        ELSE ~Has(VirgilSource, Mapping(e))
<1> DEFINE D == {Mapping(e) : e \in Unmapped} \cup ListNames
<1>1. DOMAIN VirgilSource = D
    BY DEF VirgilSource
<1>2. \A name \in D : VirgilSource[name] =
            IF name \in ListNames THEN Consolidated(name) ELSE Text(DefaultPath(name[2]))
    BY DEF VirgilSource
<1>3. Unmapped \subseteq Endpoints
    BY DEF Unmapped
<1>4. ASSUME NEW e \in Endpoints, e \in Unmapped
      PROVE  Mapping(e) \in DOMAIN VirgilSource /\ VirgilSource[Mapping(e)] = Text(DefaultPath(e))
    BY <1>1, <1>2, <1>4, NamesDiffer
<1>5. ASSUME NEW e \in Endpoints, e \notin Unmapped
      PROVE  ~Has(VirgilSource, Mapping(e))
    BY <1>1, <1>3, <1>5, NamesDiffer DEF Has
<1> QED BY <1>1, <1>2, <1>4, <1>5

(* At most one value is written.                                            *)
LEMMA WrittenOnce ==
    ASSUME NEW us \in UserSources \X UserSources, NEW name, NEW v \in Written(us, name)
    PROVE  Written(us, name) = {v}
<1>1. PICK a \in UserSources, b \in UserSources : us = <<a, b>>
    OBVIOUS
<1>2. DOMAIN us = 1..2
    BY <1>1
<1>3. Having(us, name) \in SUBSET (1..2) /\ Having(us, name) # {}
    BY <1>2, WrittenNone DEF Having
<1>4. PICK i \in Having(us, name) : \A j \in Having(us, name) : i <= j
    BY <1>3, MinExists
<1>5. Written(us, name) = {Value(us[i], name)}
    BY <1>2, <1>4, WrittenIs
<1> QED BY <1>5

(* Until the environment is processed, users' settings are the sources.     *)
Unprocessed == ~processed => sources \in UserSources \X UserSources

LEMMA PostProcessPrepends ==
    ASSUME Unprocessed, PostProcessEnvironment,
           NEW first, first = VirgilSource, NEW us, us = sources
    PROVE  /\ us \in UserSources \X UserSources
           /\ Prepended(sources', first, us)
           /\ Users' = us
           /\ processed'
<1>1. us \in UserSources \X UserSources /\ sources' = <<first>> \o us /\ processed'
    BY DEF Unprocessed, PostProcessEnvironment
<1> QED BY <1>1, InFront DEF Users

LEMMA PostProcessKeepsTexts ==
    ASSUME Unprocessed, PostProcessEnvironment
    PROVE  TextSettingsSurvive'
<1>1. PICK first : first = VirgilSource
    OBVIOUS
<1>2. PICK us : us = sources
    OBVIOUS
<1>3. PICK s : s = sources'
    OBVIOUS
<1>4. us \in UserSources \X UserSources /\ Prepended(s, first, us) /\ Users' = us
    BY <1>1, <1>2, <1>3, PostProcessPrepends
<1>5. ASSUME NEW name \in ListNames, \A v \in Written(us, name) : v.kind = "text"
      PROVE  Entries(us, name) \subseteq Entries(s, name)
    <2>1. name \in DOMAIN first /\ first[name] = Consolidated(name)
        BY <1>1, VirgilSourceSets
    <2>2. Written(s, name) = {Consolidated(name)}
        BY <1>4, <2>1, WrittenInFront
    <2>3. Entries(s, name) = Defaults(name) \cup UNION {v.is : v \in GetProperty(name)}
        BY <2>2 DEF Entries, Consolidated, Text
    <2>4. CASE Written(us, name) = {}
        BY <2>4 DEF Entries
    <2>5. ASSUME NEW v \in Written(us, name)
          PROVE  Entries(us, name) \subseteq Entries(s, name)
        <3>1. Written(us, name) = {v} /\ GetProperty(name) = {v}
            BY <1>2, <1>4, <1>5, <2>5, WrittenOnce, FoundWhenText
        <3> QED BY <2>3, <3>1 DEF Entries
    <2> QED BY <2>4, <2>5
<1> QED BY <1>3, <1>4, <1>5 DEF TextSettingsSurvive

LEMMA PostProcessKeepsOverrides ==
    ASSUME Unprocessed, PostProcessEnvironment
    PROVE  OverridesKept'
<1>1. PICK first : first = VirgilSource
    OBVIOUS
<1>2. PICK us : us = sources
    OBVIOUS
<1>3. PICK s : s = sources'
    OBVIOUS
<1>4. us \in UserSources \X UserSources /\ Prepended(s, first, us) /\ Users' = us
    BY <1>1, <1>2, <1>3, PostProcessPrepends
<1>5. ASSUME NEW e \in Endpoints, NEW v \in Written(us, Mapping(e)), v.kind = "text"
      PROVE  (CHOOSE w \in Written(s, Mapping(e)) : TRUE).is = v.is
    <2>1. Written(us, Mapping(e)) = {v} /\ GetProperty(Mapping(e)) = {v}
        BY <1>2, <1>4, <1>5, WrittenOnce, FoundWhenText
    <2>2. e \notin Unmapped
        BY <2>1 DEF Unmapped
    <2>3. ~Has(first, Mapping(e))
        BY <1>1, <2>2, VirgilSourceSets
    <2>4. Written(s, Mapping(e)) = {v}
        BY <1>4, <2>1, <2>3, WrittenBehind
    <2> QED BY <2>4
<1> QED BY <1>3, <1>4, <1>5 DEF OverridesKept, Path

LEMMA SettingsInit == Init => Unprocessed /\ TextSettingsSurvive /\ OverridesKept
<1> SUFFICES ASSUME Init PROVE Unprocessed /\ TextSettingsSurvive /\ OverridesKept
    OBVIOUS
<1>1. sources \in UserSources \X UserSources /\ Users = sources /\ Unprocessed
    BY DEF Init, EnvInit, Users, Unprocessed
<1>2. ASSUME NEW e \in Endpoints, NEW v \in Written(sources, Mapping(e))
      PROVE  Path(e) = v.is
    <2>1. Written(sources, Mapping(e)) = {v}
        BY <1>1, WrittenOnce
    <2> QED BY <2>1 DEF Path
<1> QED BY <1>1, <1>2 DEF TextSettingsSurvive, OverridesKept

LEMMA SettingsStep ==
    ASSUME Unprocessed, TextSettingsSurvive, OverridesKept, [Next]_vars
    PROVE  Unprocessed' /\ TextSettingsSurvive' /\ OverridesKept'
<1>1. CASE PostProcessEnvironment
    BY <1>1, PostProcessKeepsTexts, PostProcessKeepsOverrides DEF Unprocessed, PostProcessEnvironment
<1>2. CASE UNCHANGED envVars
    <2>1. UNCHANGED <<sources, processed>> /\ Users' = Users
        BY <1>2 DEF envVars, Users
    <2> QED BY <2>1 DEF Unprocessed, TextSettingsSurvive, OverridesKept, Path
<1> QED BY <1>1, <1>2 DEF Next, Register, vars

(* Whatever users write in either of their property sources, the entries    *)
(* they wrote as one text stay in force next to those of the starter.       *)
THEOREM StarterKeepsTexts == Spec => []TextSettingsSurvive
BY SettingsInit, SettingsStep, PTL DEF Spec

(* Whatever users write, the path they gave an endpoint is the one it has,  *)
(* before and after the starter has put its own source in front.            *)
THEOREM StarterKeepsOverrides == Spec => []OverridesKept
BY SettingsInit, SettingsStep, PTL DEF Spec

-----------------------------------------------------------------------------
(* A set as a sequence: its elements, each once.                            *)
LEMMA SetToSeqIs ==
    ASSUME NEW S, IsFiniteSet(S)
    PROVE  /\ SetToSeq(S) \in Seq(S)
           /\ \A x \in S : \E i \in DOMAIN SetToSeq(S) : SetToSeq(S)[i] = x
<1> DEFINE n == Cardinality(S)
           f == SetToSeq(S)
<1>1. n \in Nat /\ ExistsBijection(1..n, S)
    BY FS_CardinalityType
<1>2. \E g \in [1..n -> S] : IsInjective(g)
    BY <1>1 DEF ExistsBijection, Bijection, Injection
<1>3. f \in [1..n -> S] /\ IsInjective(f)
    BY <1>2 DEF SetToSeq
<1>4. IsFiniteSet(1..n) /\ Cardinality(1..n) = n
    <2>1. /\ IsFiniteSet(1..n)
          /\ Cardinality(1..n) = IF 1 > n THEN 0 ELSE n - 1 + 1
        BY <1>1, FS_Interval
    <2> QED BY <1>1, <2>1
<1> HIDE DEF f
<1>5. f \in Injection(1..n, S)
    BY <1>3 DEF Injection
<1>6. f \in Surjection(1..n, S)
    BY <1>4, <1>5, FS_Injection
<1>7. f \in Seq(S)
    BY <1>1, <1>3
<1> QED BY <1>3, <1>6, <1>7 DEF Surjection, f

LEMMA LinksAreFinite == IsFiniteSet(Links)
<1>1. IsFiniteSet(Endpoints)
    <2>1. IsFiniteSet({"get-queue-size"})
        BY FS_Singleton
    <2>2. IsFiniteSet({"get-queue-size"} \cup {"get-dlq-messages"})
        BY <2>1, FS_AddElement
    <2>3. IsFiniteSet(({"get-queue-size"} \cup {"get-dlq-messages"}) \cup {"publish-message"})
        BY <2>2, FS_AddElement
    <2>4. IsFiniteSet((({"get-queue-size"} \cup {"get-dlq-messages"}) \cup {"publish-message"})
                        \cup {"drop-message"})
        BY <2>3, FS_AddElement
    <2>5. IsFiniteSet(((({"get-queue-size"} \cup {"get-dlq-messages"}) \cup {"publish-message"})
                        \cup {"drop-message"}) \cup {"drop-all-messages"})
        BY <2>4, FS_AddElement
    <2>6. IsFiniteSet((((({"get-queue-size"} \cup {"get-dlq-messages"}) \cup {"publish-message"})
                        \cup {"drop-message"}) \cup {"drop-all-messages"}) \cup {"get-queues"})
        BY <2>5, FS_AddElement
    <2>7. Endpoints = (((({"get-queue-size"} \cup {"get-dlq-messages"}) \cup {"publish-message"})
                        \cup {"drop-message"}) \cup {"drop-all-messages"}) \cup {"get-queues"}
        BY DEF Endpoints
    <2> QED BY <2>6, <2>7
<1> DEFINE E == Exposed \ {"get-queue-size"}
           f == [e \in E |-> [id |-> e, url |-> Base \o Path(e)]]
<1>2. IsFiniteSet(E)
    <2>1. E \in SUBSET Endpoints
        BY DEF Exposed
    <2> QED BY <1>1, <2>1, FS_Subset
<1>3. f \in Surjection(E, Links)
    BY DEF Links, Surjection
<1> QED BY <1>2, <1>3, FS_Surjection

(* Spring Boot Admin knows the endpoints as they are now, since the sources *)
(* do not change any more.                                                  *)
ListHeld == processed => Endpoints \subseteq Entries(sources, Include)

LinksHeld == registered => processed /\ endpoints = SetToSeq(Links)

TabInv == Unprocessed /\ ListHeld /\ LinksHeld

LEMMA PostProcessIncludes ==
    ASSUME Unprocessed, PostProcessEnvironment
    PROVE  Endpoints \subseteq Entries(sources', Include)
<1>1. PICK first : first = VirgilSource
    OBVIOUS
<1>2. PICK us : us = sources
    OBVIOUS
<1>3. Prepended(sources', first, us)
    BY <1>1, <1>2, PostProcessPrepends
<1>4. Include \in ListNames
    BY DEF ListNames
<1>5. Include \in DOMAIN first /\ first[Include] = Consolidated(Include)
    BY <1>1, <1>4, VirgilSourceSets
<1>6. Written(sources', Include) = {Consolidated(Include)}
    BY <1>3, <1>5, WrittenInFront
<1>7. Defaults(Include) = Endpoints
    BY DEF Defaults, Include, Probed, Locations
<1> QED BY <1>6, <1>7 DEF Entries, Consolidated, Text

LEMMA LinksStay ==
    ASSUME UNCHANGED sources
    PROVE  Links' = Links /\ Exposed' = Exposed /\ \A e : Path(e)' = Path(e)
<1>1. Exposed' = Exposed
    BY DEF Exposed
<1>2. \A e : Path(e)' = Path(e)
    BY DEF Path
<1> QED BY <1>1, <1>2 DEF Links

LEMMA TabInit == Init => TabInv
BY DEF Init, EnvInit, TabInv, Unprocessed, ListHeld, LinksHeld

LEMMA TabStep == TabInv /\ [Next]_vars => TabInv'
<1> SUFFICES ASSUME TabInv, [Next]_vars PROVE TabInv'
    OBVIOUS
<1>1. CASE PostProcessEnvironment /\ UNCHANGED <<registered, endpoints>>
    <2>1. Endpoints \subseteq Entries(sources', Include)
        BY <1>1, PostProcessIncludes DEF TabInv
    <2> QED BY <1>1, <2>1 DEF PostProcessEnvironment, TabInv, Unprocessed, ListHeld, LinksHeld
<1>2. CASE Register
    <2>1. UNCHANGED <<sources, processed>> /\ processed /\ endpoints' = SetToSeq(Links)
        BY <1>2 DEF Register, envVars
    <2>2. Links' = Links
        BY <2>1, LinksStay
    <2> QED BY <2>1, <2>2 DEF TabInv, Unprocessed, ListHeld, LinksHeld
<1>3. CASE UNCHANGED vars
    <2>1. UNCHANGED <<sources, processed, registered, endpoints>>
        BY <1>3 DEF vars, envVars
    <2>2. Links' = Links
        BY <2>1, LinksStay
    <2> QED BY <2>1, <2>2 DEF TabInv, Unprocessed, ListHeld, LinksHeld
<1> QED BY <1>1, <1>2, <1>3 DEF Next

(* What the instance is known to have is what its actuator index links to.  *)
LEMMA EndpointsAreLinks ==
    ASSUME TabInv, registered
    PROVE  /\ endpoints \in Seq(Links)
           /\ \A link \in Links : \E i \in DOMAIN endpoints : endpoints[i] = link
BY LinksAreFinite, SetToSeqIs DEF TabInv, LinksHeld

(* If users exclude nothing, the tab is offered as soon as the instance is  *)
(* registered, whatever else they write.                                    *)
THEOREM StarterOffersTab == Spec => []TabIsOffered
<1>1. TabInv => TabIsOffered
    <2> SUFFICES ASSUME TabInv, registered, Entries(sources, Exclude) = {}
                 PROVE  IsEnabled
        BY DEF TabIsOffered
    <2>1. "get-queues" \in Exposed \ {"get-queue-size"}
        BY DEF TabInv, LinksHeld, ListHeld, Exposed, Endpoints
    <2>2. [id |-> "get-queues", url |-> Base \o Path("get-queues")] \in Links
        BY <2>1 DEF Links
    <2>3. PICK i \in DOMAIN endpoints : endpoints[i].id = "get-queues"
        BY <2>2, EndpointsAreLinks
    <2> QED BY <2>3 DEF IsEnabled
<1> QED BY <1>1, TabInit, TabStep, PTL DEF Spec

-----------------------------------------------------------------------------
(* Paths and URLs: sequences of segments of any kind.                       *)
LEMMA SeqIsPath ==
    ASSUME NEW T, NEW p \in Seq(T)
    PROVE  IsPath(p)
<1>1. DOMAIN p = 1..Len(p) /\ Len(p) \in Nat /\ p \in [1..Len(p) -> T]
    BY LenProperties
<1>2. p \in [1..Len(p) -> Range(p)]
    BY <1>1 DEF Range
<1>3. p \in Seq(Range(p))
    BY <1>1, <1>2
<1> QED BY <1>3 DEF IsPath

LEMMA PathsConcatenate ==
    ASSUME NEW p, NEW r, IsPath(p), IsPath(r)
    PROVE  IsPath(p \o r) /\ Len(p \o r) = Len(p) + Len(r)
<1> DEFINE T == Range(p) \cup Range(r)
<1>1. p \in Seq(T) /\ r \in Seq(T)
    BY SeqGrows DEF IsPath
<1>2. p \o r \in Seq(T) /\ Len(p \o r) = Len(p) + Len(r)
    BY <1>1, ConcatProperties
<1> QED BY <1>2, SeqIsPath

(* URLs under the same base are equal if their paths are.                   *)
LEMMA BaseCancels ==
    ASSUME NEW p, NEW r, IsPath(p), IsPath(r), Base \o p = Base \o r
    PROVE  p = r
<1> DEFINE T == Range(Base) \cup Range(p) \cup Range(r)
<1>1. Base \in Seq(T) /\ p \in Seq(T) /\ r \in Seq(T)
    BY BaseAssumption, SeqGrows DEF IsPath
<1>2. Len(Base) \in Nat /\ Len(p) \in Nat /\ Len(r) \in Nat
    BY <1>1, LenProperties
<1>3. /\ Len(Base \o p) = Len(Base) + Len(p)
      /\ \A i \in 1..Len(Base) + Len(p) :
            (Base \o p)[i] = IF i <= Len(Base) THEN Base[i] ELSE p[i - Len(Base)]
    BY <1>1, ConcatProperties
<1>4. /\ Len(Base \o r) = Len(Base) + Len(r)
      /\ \A i \in 1..Len(Base) + Len(r) :
            (Base \o r)[i] = IF i <= Len(Base) THEN Base[i] ELSE r[i - Len(Base)]
    BY <1>1, ConcatProperties
<1>5. Len(p) = Len(r)
    BY <1>2, <1>3, <1>4
<1>6. ASSUME NEW i \in 1..Len(p) PROVE p[i] = r[i]
    <2>1. /\ Len(Base) + i \in 1..Len(Base) + Len(p)
          /\ ~(Len(Base) + i <= Len(Base))
          /\ (Len(Base) + i) - Len(Base) = i
        BY <1>2
    <2>2. (Base \o p)[Len(Base) + i] = p[i]
        BY <1>3, <2>1
    <2>3. (Base \o r)[Len(Base) + i] = r[i]
        BY <1>4, <1>5, <2>1
    <2> QED BY <2>2, <2>3
<1> QED BY <1>1, <1>5, <1>6, SeqEqual

LEMMA BaseAssociates ==
    ASSUME NEW p, NEW r, IsPath(p), IsPath(r)
    PROVE  (Base \o p) \o r = Base \o (p \o r)
<1> DEFINE T == Range(Base) \cup Range(p) \cup Range(r)
<1>1. Base \in Seq(T) /\ p \in Seq(T) /\ r \in Seq(T)
    BY BaseAssumption, SeqGrows DEF IsPath
<1> QED BY <1>1, ConcatAssociative

LEMMA UrlIsNotEmpty ==
    ASSUME NEW p, IsPath(p)
    PROVE  Base \o p # <<>>
<1> DEFINE T == Range(Base) \cup Range(p)
<1>1. Base \in Seq(T) /\ p \in Seq(T) /\ Base # <<>>
    BY BaseAssumption, SeqGrows DEF IsPath
<1> QED BY <1>1, ConcatEqualIffEmpty

LEMMA KeyCancels ==
    ASSUME NEW p, NEW r, NEW q, IsPath(p), IsPath(r), IsPath(q), p \o q = r \o q
    PROVE  p = r
<1> DEFINE T == Range(p) \cup Range(r) \cup Range(q)
<1>1. p \in Seq(T) /\ r \in Seq(T) /\ q \in Seq(T)
    BY SeqGrows DEF IsPath
<1>2. Len(q) \in Nat /\ Len(p) \in Nat /\ Len(r) \in Nat
    BY <1>1, LenProperties
<1>3. /\ Len(p \o q) = Len(p) + Len(q)
      /\ \A i \in 1..Len(p) + Len(q) :
            (p \o q)[i] = IF i <= Len(p) THEN p[i] ELSE q[i - Len(p)]
    BY <1>1, ConcatProperties
<1>4. /\ Len(r \o q) = Len(r) + Len(q)
      /\ \A i \in 1..Len(r) + Len(q) :
            (r \o q)[i] = IF i <= Len(r) THEN r[i] ELSE q[i - Len(r)]
    BY <1>1, ConcatProperties
<1>5. Len(p) = Len(r)
    BY <1>2, <1>3, <1>4
<1>6. ASSUME NEW i \in 1..Len(p) PROVE p[i] = r[i]
    <2>1. i \in 1..Len(p) + Len(q) /\ i <= Len(p)
        BY <1>2
    <2>2. (p \o q)[i] = p[i]
        BY <1>3, <2>1
    <2>3. (r \o q)[i] = r[i]
        BY <1>4, <1>5, <2>1
    <2> QED BY <2>2, <2>3
<1> QED BY <1>1, <1>5, <1>6, SeqEqual

(* Whatever the path below the management URL, the text is replaced in it.  *)
LEMMA SizeUrlBelowBase ==
    ASSUME NEW p, IsPath(p)
    PROVE  IsPath(SizeUrl(p)) /\ SizeUrl(Base \o p) = Base \o SizeUrl(p)
<1>1. PICK u : u = SizeUrl(p)
    OBVIOUS
<1>2. PICK b : b = Len(Base)
    OBVIOUS
<1>3. PICK n : n = Len(p)
    OBVIOUS
<1> DEFINE T == Range(Base) \cup Range(p) \cup {"get-queue-size"}
<1>4. Base \in Seq(T) /\ p \in Seq(T)
    BY BaseAssumption, SeqGrows DEF IsPath
<1>5. /\ b \in Nat /\ n \in Nat
      /\ DOMAIN Base = 1..b /\ DOMAIN p = 1..n
      /\ \A i \in 1..b : Base[i] # "get-queues"
    <2>1. b \in Nat /\ n \in Nat /\ DOMAIN Base = 1..b /\ DOMAIN p = 1..n
        BY <1>2, <1>3, <1>4, LenProperties
    <2> QED BY <2>1, BaseAssumption DEF Range
<1>6. /\ u \in Seq(T) /\ Len(u) = n
      /\ \A i \in 1..n :
            u[i] = IF p[i] = "get-queues" /\ \A j \in 1..i - 1 : p[j] # "get-queues"
                   THEN "get-queue-size" ELSE p[i]
    <2>1. \A i \in 1..n : p[i] \in T
        BY <1>3, <1>4, ElementOfSeq
    <2>2. u = [i \in 1..n |->
                IF p[i] = "get-queues" /\ \A j \in 1..i - 1 : p[j] # "get-queues"
                THEN "get-queue-size" ELSE p[i]]
        BY <1>1, <1>5 DEF SizeUrl
    <2>3. u \in [1..n -> T]
        BY <2>1, <2>2
    <2>4. u \in Seq(T) /\ Len(u) = n
        BY <1>5, <2>3
    <2> QED BY <2>2, <2>4
<1>7. PICK t : t = Base \o p
    OBVIOUS
<1>8. /\ t \in Seq(T) /\ Len(t) = b + n /\ DOMAIN t = 1..b + n
      /\ \A i \in 1..b + n : t[i] = IF i <= b THEN Base[i] ELSE p[i - b]
    <2>1. t \in Seq(T)
        BY <1>4, <1>7, ConcatProperties
    <2>2. /\ Len(t) = b + n
          /\ \A i \in 1..b + n : t[i] = IF i <= b THEN Base[i] ELSE p[i - b]
        BY <1>2, <1>3, <1>4, <1>7, ConcatProperties
    <2> QED BY <2>1, <2>2, LenProperties
<1>9. PICK w : w = Base \o u
    OBVIOUS
<1>10. /\ w \in Seq(T) /\ Len(w) = b + n
       /\ \A i \in 1..b + n : w[i] = IF i <= b THEN Base[i] ELSE u[i - b]
    <2>1. w \in Seq(T)
        BY <1>4, <1>6, <1>9, ConcatProperties
    <2>2. /\ Len(w) = b + n
          /\ \A i \in 1..b + n : w[i] = IF i <= b THEN Base[i] ELSE u[i - b]
        BY <1>2, <1>4, <1>6, <1>9, ConcatProperties
    <2> QED BY <2>1, <2>2
<1>11. PICK x : x = SizeUrl(t)
    OBVIOUS
<1> HIDE DEF T
<1>12. x = [i \in 1..b + n |->
                IF t[i] = "get-queues" /\ \A j \in 1..i - 1 : t[j] # "get-queues"
                THEN "get-queue-size" ELSE t[i]]
    BY <1>8, <1>11 DEF SizeUrl
<1>13. ASSUME NEW i \in 1..b + n PROVE x[i] = w[i]
    <2>1. CASE i <= b
        <3>1. i \in 1..b /\ t[i] = Base[i] /\ w[i] = Base[i]
            BY <1>5, <1>8, <1>10, <2>1
        <3> QED BY <1>5, <1>12, <3>1
    <2>2. CASE ~(i <= b)
        <3>1. PICK k : k = i - b
            OBVIOUS
        <3>2. k \in 1..n /\ i = b + k /\ t[i] = p[k] /\ w[i] = u[k]
            BY <1>5, <1>8, <1>10, <2>2, <3>1
        <3>3. (\A j \in 1..i - 1 : t[j] # "get-queues")
                <=> \A j \in 1..k - 1 : p[j] # "get-queues"
            <4>1. ASSUME \A j \in 1..i - 1 : t[j] # "get-queues", NEW j \in 1..k - 1
                  PROVE  p[j] # "get-queues"
                <5>1. b + j \in 1..i - 1 /\ b + j \in 1..b + n /\ ~(b + j <= b) /\ (b + j) - b = j
                    BY <1>5, <3>2
                <5>2. t[b + j] = p[j]
                    BY <1>8, <5>1
                <5> QED BY <4>1, <5>1, <5>2
            <4>2. ASSUME \A j \in 1..k - 1 : p[j] # "get-queues", NEW j \in 1..i - 1
                  PROVE  t[j] # "get-queues"
                <5>1. CASE j <= b
                    <6>1. j \in 1..b /\ j \in 1..b + n
                        BY <1>5, <5>1
                    <6> QED BY <1>5, <1>8, <5>1, <6>1
                <5>2. CASE ~(j <= b)
                    <6>1. j - b \in 1..k - 1 /\ j \in 1..b + n
                        BY <1>5, <3>2, <5>2
                    <6> QED BY <1>8, <4>2, <5>2, <6>1
                <5> QED BY <5>1, <5>2
            <4> QED BY <4>1, <4>2
        <3>4. x[i] = IF t[i] = "get-queues" /\ \A j \in 1..i - 1 : t[j] # "get-queues"
                     THEN "get-queue-size" ELSE t[i]
            BY <1>12
        <3>5. u[k] = IF p[k] = "get-queues" /\ \A j \in 1..k - 1 : p[j] # "get-queues"
                     THEN "get-queue-size" ELSE p[k]
            BY <1>6, <3>2
        <3> QED BY <3>2, <3>3, <3>4, <3>5
    <2> QED BY <2>1, <2>2
<1>14. DOMAIN w = 1..b + n /\ w = [i \in 1..b + n |-> w[i]]
    BY <1>10, LenProperties
<1>15. x = w
    BY <1>12, <1>13, <1>14
<1> QED BY <1>1, <1>6, <1>7, <1>9, <1>11, <1>15, SeqIsPath

-----------------------------------------------------------------------------
(* Once the environment is processed each endpoint has one of its paths.    *)
PathHeld == processed => \A e \in Endpoints : Path(e) \in PathsOf(e)

LEMMA DefaultIsPath ==
    ASSUME NEW e
    PROVE  IsPath(DefaultPath(e)) /\ Len(DefaultPath(e)) = 3
<1> DEFINE T == {"private", "virgil", e}
<1>1. <<"private", "virgil", e>> \in Seq(T)
    OBVIOUS
<1>2. Len(<<"private", "virgil", e>>) = 3
    OBVIOUS
<1> QED BY <1>1, <1>2, SeqIsPath DEF DefaultPath

LEMMA PathsArePaths ==
    ASSUME NEW e \in Endpoints, NEW p \in PathsOf(e)
    PROVE  IsPath(p)
BY DefaultIsPath, SourcesAssumption DEF PathsOf, IsPath

LEMMA PostProcessMaps ==
    ASSUME PathsArePlain, Unprocessed, PostProcessEnvironment, NEW e \in Endpoints,
           NEW s, s = sources'
    PROVE  (CHOOSE v \in Written(s, Mapping(e)) : TRUE).is \in PathsOf(e)
<1>1. PICK first : first = VirgilSource
    OBVIOUS
<1>2. PICK us : us = sources
    OBVIOUS
<1>4. us \in UserSources \X UserSources /\ Prepended(s, first, us)
    BY <1>1, <1>2, PostProcessPrepends
<1>5. CASE e \in Unmapped
    <2>1. Mapping(e) \in DOMAIN first /\ first[Mapping(e)] = Text(DefaultPath(e))
        BY <1>1, <1>5, VirgilSourceSets
    <2>2. Written(s, Mapping(e)) = {Text(DefaultPath(e))}
        BY <1>4, <2>1, WrittenInFront
    <2>3. (CHOOSE v \in Written(s, Mapping(e)) : TRUE) = Text(DefaultPath(e))
        BY <2>2
    <2>4. Text(DefaultPath(e)).is = DefaultPath(e)
        BY DEF Text
    <2>5. DefaultPath(e) \in PathsOf(e)
        BY DEF PathsOf
    <2> QED BY <2>3, <2>4, <2>5
<1>6. CASE e \notin Unmapped
    <2>n. PICK name : name = Mapping(e)
        OBVIOUS
    <2> DEFINE having == {i \in DOMAIN us : name \in DOMAIN us[i]}
    <2>1. PICK a \in UserSources, b \in UserSources : us = <<a, b>>
        BY <1>4
    <2>2. DOMAIN us = 1..2 /\ \A i \in 1..2 : us[i] \in UserSources
        BY <2>1
    <2>3. PICK w \in GetProperty(name) : TRUE
        BY <1>6, <2>n DEF Unmapped
    <2>4. having # {} /\ w \in {us[Min(having)][name]} /\ w.kind = "text"
        BY <1>2, <2>3 DEF GetProperty
    <2>5. \A i \in DOMAIN us : Indexed(name) \notin DOMAIN us[i]
        BY <2>n, <2>2 DEF PathsArePlain
    <2>6. Having(us, name) = having
        BY <2>5 DEF Having, Has
    <2>7. having \in SUBSET Nat
        BY <2>2
    <2> HIDE DEF having
    <2>8. PICK i : i = Min(having)
        OBVIOUS
    <2>9. i \in having /\ \A j \in having : i <= j
        BY <2>4, <2>7, <2>8, MinExists
    <2>10. i \in DOMAIN us /\ name \in DOMAIN us[i]
        BY <2>9 DEF having
    <2>11. Written(us, name) = {us[i][name]}
        <3>1. Written(us, name) = {Value(us[i], name)}
            BY <2>2, <2>6, <2>9, WrittenIs
        <3> QED BY <2>10, <3>1 DEF Value
    <2>12. ~Has(first, name)
        BY <1>1, <1>6, <2>n, VirgilSourceSets
    <2>13. Written(s, name) = {us[i][name]}
        BY <1>4, <2>11, <2>12, WrittenBehind
    <2>14. us[i] \in UserSources /\ us[i][name].kind = "text"
        BY <2>2, <2>4, <2>8, <2>10
    <2>15. us[i][name].is \in PathsOf(e)
        BY <2>n, <2>10, <2>14 DEF PathsOf
    <2> QED BY <2>n, <2>13, <2>15
<1> QED BY <1>5, <1>6

-----------------------------------------------------------------------------
(* EndpointService finds the URL of an exposed endpoint, and none of others. *)
LEMMA UrlIs ==
    ASSUME TabInv, registered, NEW e \in Endpoints, e # "get-queue-size"
    PROVE  GetEndpointUrl(endpoints, e) = IF e \in Exposed THEN Base \o Path(e) ELSE <<>>
<1> DEFINE I == {i \in 1..Len(endpoints) : endpoints[i].id = e}
           n == IF I # {} THEN Min(I) ELSE 0
<1>1. /\ endpoints \in Seq(Links) /\ Len(endpoints) \in Nat
      /\ DOMAIN endpoints = 1..Len(endpoints)
      /\ \A link \in Links : \E i \in DOMAIN endpoints : endpoints[i] = link
    BY EndpointsAreLinks, LenProperties
<1>2. GetEndpointUrl(endpoints, e) = IF n = 0 THEN <<>> ELSE endpoints[n].url
    BY DEF GetEndpointUrl, SelectInSeq
<1>3. \A i \in I : /\ endpoints[i] \in Links
                   /\ e \in Exposed /\ endpoints[i].url = Base \o Path(e)
    <2> SUFFICES ASSUME NEW i \in I
                 PROVE  /\ endpoints[i] \in Links
                        /\ e \in Exposed /\ endpoints[i].url = Base \o Path(e)
        OBVIOUS
    <2>1. endpoints[i] \in Links /\ endpoints[i].id = e
        BY <1>1, ElementOfSeq
    <2>2. PICK d \in Exposed : endpoints[i] = [id |-> d, url |-> Base \o Path(d)]
        BY <2>1 DEF Links
    <2>3. d = e
        BY <2>1, <2>2
    <2> QED BY <2>1, <2>2, <2>3
<1>4. CASE e \in Exposed
    <2>1. [id |-> e, url |-> Base \o Path(e)] \in Links
        BY <1>4 DEF Links
    <2>2. PICK i \in DOMAIN endpoints : endpoints[i] = [id |-> e, url |-> Base \o Path(e)]
        BY <1>1, <2>1
    <2>3. I \in SUBSET Nat /\ I # {} /\ 0 \notin I
        BY <1>1, <2>2
    <2> HIDE DEF I
    <2>4. Min(I) \in I
        BY <2>3, MinExists
    <2>5. n = Min(I) /\ n # 0
        BY <2>3, <2>4
    <2> HIDE DEF n
    <2> QED BY <1>2, <1>3, <1>4, <2>4, <2>5
<1>5. CASE e \notin Exposed
    <2>1. I = {}
        BY <1>3, <1>5
    <2> QED BY <1>2, <1>5, <2>1
<1> QED BY <1>4, <1>5

(* Where each endpoint is asked, and where it is served, below the          *)
(* management URL.                                                          *)
Target(e, q) ==
    IF e = "get-queue-size" THEN SizeUrl(Path("get-queues")) \o q ELSE Path(e)
Place(e, q) ==
    IF e = "get-queue-size" THEN Path("get-queue-size") \o q ELSE Path(e)

TargetInv == TabInv /\ PathHeld

LEMMA KeyIsSegment ==
    ASSUME KeysArePlain, NEW q \in QueueKeys
    PROVE  {<<seg>> : seg \in Range(q)} = {q}
<1>1. q \in Seq(Range(q)) /\ Len(q) = 1 /\ DOMAIN q = 1..Len(q)
    BY LenProperties DEF KeysArePlain, IsPath
<1>2. Range(q) = {q[1]}
    BY <1>1 DEF Range
<1>3. PICK one : one = <<q[1]>>
    OBVIOUS
<1>4. one \in Seq(Range(q)) /\ Len(one) = 1 /\ one[1] = q[1]
    BY <1>2, <1>3
<1>5. \A i \in 1..1 : i = 1
    OBVIOUS
<1>6. one = q
    BY <1>1, <1>4, <1>5, SeqEqual
<1> QED BY <1>2, <1>3, <1>6

LEMMA SizeIsEndpoint == "get-queues" \in Endpoints /\ "get-queue-size" \in Endpoints
BY DEF Endpoints

LEMMA TargetsArePaths ==
    ASSUME KeysArePlain, PathHeld, processed, NEW e \in Endpoints, NEW q \in QueueKeys
    PROVE  IsPath(Path(e)) /\ IsPath(Target(e, q)) /\ IsPath(Place(e, q)) /\ IsPath(q)
<1>1. \A d \in Endpoints : IsPath(Path(d))
    BY PathsArePaths DEF PathHeld
<1>2. IsPath(SizeUrl(Path("get-queues"))) /\ IsPath(q)
    BY <1>1, SizeIsEndpoint, SizeUrlBelowBase DEF KeysArePlain
<1>3. IsPath(SizeUrl(Path("get-queues")) \o q) /\ IsPath(Path("get-queue-size") \o q)
    BY <1>1, <1>2, SizeIsEndpoint, PathsConcatenate
<1> QED BY <1>1, <1>2, <1>3 DEF Target, Place

(* A request is sent where it is served, except for a size that is guessed  *)
(* wrongly, which is sent where nothing is.                                 *)
LEMMA TargetIsPlace ==
    ASSUME PathsArePlain, KeysArePlain, PathHeld, processed,
           NEW d \in Endpoints, NEW e \in Endpoints, NEW q \in QueueKeys
    PROVE  Target(e, q) = Place(d, q) <=> d = e /\ (e = "get-queue-size" => GuessIsRight)
<1>1. \A x \in Endpoints : Path(x) \in PathsOf(x)
    BY DEF PathHeld
<1>2. d # e => Path(d) # Path(e)
    BY <1>1 DEF PathsArePlain
<1>3. /\ Path("get-queue-size") \in SizePaths
      /\ SizeUrl(Path("get-queues")) \in SizePaths
    BY <1>1, SizeIsEndpoint DEF SizePaths
<1>4. \A p \in SizePaths, x \in Endpoints : p \o q # Path(x)
    BY <1>1 DEF KeysArePlain
<1>5. /\ IsPath(Path("get-queue-size")) /\ IsPath(q)
      /\ IsPath(SizeUrl(Path("get-queues")))
    BY SizeIsEndpoint, TargetsArePaths, SizeUrlBelowBase
<1>6. SizeUrl(Path("get-queues")) \o q = Path("get-queue-size") \o q <=> GuessIsRight
    BY <1>5, KeyCancels DEF GuessIsRight
<1> QED BY <1>2, <1>3, <1>4, <1>6 DEF Target, Place

LEMMA ServedAtPlace ==
    ASSUME KeysArePlain, PathHeld, processed,
           NEW d \in Endpoints, NEW q \in QueueKeys, NEW url
    PROVE  (\E selected \in Selected(d, q) : url = Base \o Path(d) \o selected)
             <=> url = Base \o Place(d, q)
<1>1. IsPath(Path(d)) /\ IsPath(q)
    BY TargetsArePaths
<1>2. CASE d = "get-queue-size"
    <2>1. Selected(d, q) = {q}
        BY <1>2, KeyIsSegment DEF Selected
    <2>2. Base \o Path(d) \o q = Base \o (Path(d) \o q)
        BY <1>1, BaseAssociates
    <2> QED BY <1>2, <2>1, <2>2 DEF Place
<1>3. CASE d # "get-queue-size"
    <2>1. Selected(d, q) = {<<>>}
        BY <1>3 DEF Selected
    <2>2. IsPath(Base \o Path(d))
        BY <1>1, BaseAssumption, PathsConcatenate DEF IsPath
    <2>3. Base \o Path(d) \o <<>> = Base \o Path(d)
        BY <2>2, ConcatEmptySeq DEF IsPath
    <2> QED BY <1>3, <2>1, <2>3 DEF Place
<1> QED BY <1>2, <1>3

LEMMA RequestIs ==
    ASSUME PathsArePlain, KeysArePlain, TargetInv, IsEnabled,
           NEW e \in Endpoints, NEW q \in QueueKeys
    PROVE  /\ Request(e, q).method = Method(e)
           /\ Request(e, q).url = IF e \in Exposed \/ e = "get-queue-size"
                                  THEN Base \o Target(e, q) ELSE <<>>
<1>1. registered /\ processed
    BY DEF IsEnabled, TargetInv, TabInv, LinksHeld
<1>2. CASE e = "get-queue-size"
    <2>1. PICK i \in DOMAIN endpoints : endpoints[i].id = "get-queues"
        BY DEF IsEnabled
    <2>2. endpoints[i] \in Links
        BY <1>1, EndpointsAreLinks, LenProperties, ElementOfSeq DEF TargetInv
    <2>3. "get-queues" \in Exposed
        BY <2>1, <2>2 DEF Links
    <2>4. "get-queues" \in Endpoints /\ "get-queues" # "get-queue-size"
        BY DEF Endpoints
    <2>5. IsPath(Path("get-queues")) /\ IsPath(q)
        BY <1>1, <2>4, TargetsArePaths DEF TargetInv
    <2>6. GetEndpointUrl(endpoints, "get-queues") = Base \o Path("get-queues")
        BY <1>1, <2>3, <2>4, UrlIs DEF TargetInv
    <2>7. Request(e, q) = [method |-> "GET",
                           url |-> SizeUrl(Base \o Path("get-queues")) \o q,
                           data |-> <<>>]
        BY <1>2, <2>6 DEF Request, GetQueueSize
    <2>8. /\ IsPath(SizeUrl(Path("get-queues")))
          /\ SizeUrl(Base \o Path("get-queues")) = Base \o SizeUrl(Path("get-queues"))
        BY <2>5, SizeUrlBelowBase
    <2>9. /\ Request(e, q).method = "GET"
          /\ Request(e, q).url = SizeUrl(Base \o Path("get-queues")) \o q
        BY <2>7
    <2>10. PICK s : s = SizeUrl(Path("get-queues"))
        OBVIOUS
    <2>11. Base \o s \o q = Base \o (s \o q)
        BY <2>5, <2>8, <2>10, BaseAssociates
    <2>12. Target(e, q) = s \o q
        BY <1>2, <2>10 DEF Target
    <2>13. Request(e, q).url = Base \o Target(e, q)
        BY <2>8, <2>9, <2>10, <2>11, <2>12, Zenon
    <2> QED BY <1>2, <2>9, <2>13 DEF Method
<1>3. CASE e \in {"get-queues", "get-dlq-messages"}
    <2>1. Request(e, q) = Get(endpoints, e, <<>>)
        BY <1>3 DEF Request
    <2>2. /\ Request(e, q).method = "GET"
          /\ Request(e, q).url = GetEndpointUrl(endpoints, e)
        BY <2>1 DEF Get
    <2> QED BY <1>1, <1>3, <2>2, UrlIs DEF Method, Target, TargetInv
<1>4. CASE e \in {"drop-message", "publish-message", "drop-all-messages"}
    <2>1. Request(e, q) = Post(endpoints, e, <<>>)
        BY <1>4 DEF Request
    <2>2. /\ Request(e, q).method = "POST"
          /\ Request(e, q).url = GetEndpointUrl(endpoints, e)
        BY <2>1 DEF Post
    <2> QED BY <1>1, <1>4, <2>2, UrlIs DEF Method, Target, TargetInv
<1> QED BY <1>2, <1>3, <1>4 DEF Endpoints

LEMMA TargetInit == Init => TargetInv
BY TabInit DEF TargetInv, PathHeld, Init, EnvInit

LEMMA TargetStep ==
    ASSUME PathsArePlain
    PROVE  TargetInv /\ [Next]_vars => TargetInv'
<1> SUFFICES ASSUME TargetInv, [Next]_vars PROVE PathHeld'
    BY TabStep DEF TargetInv
<1>1. CASE PostProcessEnvironment
    <2>1. PICK s : s = sources'
        OBVIOUS
    <2>2. \A e \in Endpoints :
            (CHOOSE v \in Written(s, Mapping(e)) : TRUE).is \in PathsOf(e)
        BY <1>1, <2>1, PostProcessMaps DEF TargetInv, TabInv
    <2> QED BY <2>1, <2>2 DEF PathHeld, Path
<1>2. CASE UNCHANGED envVars
    <2>1. UNCHANGED <<sources, processed>>
        BY <1>2 DEF envVars
    <2>2. \A e : Path(e)' = Path(e)
        BY <2>1, LinksStay
    <2> QED BY <2>1, <2>2 DEF PathHeld, TargetInv
<1> QED BY <1>1, <1>2 DEF Next, Register, vars

(* Where the tab is offered, each of its requests reaches the endpoint it   *)
(* is meant for, if that is exposed, and no other, whatever users include,  *)
(* exclude or map; the size of a queue does exactly if the paths of the two *)
(* endpoints differ as their names do, and reaches nothing otherwise.       *)
THEOREM TabRequestsArrive ==
    ASSUME PathsArePlain, KeysArePlain
    PROVE  Spec => []RequestsArrive
<1>1. TargetInv => RequestsArrive
    <2> SUFFICES ASSUME TargetInv, IsEnabled, NEW e \in Endpoints, NEW q \in QueueKeys
                 PROVE  Served(Request(e, q), q) =
                          IF e = "get-queue-size" /\ ~GuessIsRight THEN {} ELSE {e} \cap Exposed
        BY DEF RequestsArrive
    <2>1. processed /\ PathHeld
        BY DEF IsEnabled, TargetInv, TabInv, LinksHeld
    <2>2. /\ Request(e, q).method = Method(e)
          /\ Request(e, q).url = IF e \in Exposed \/ e = "get-queue-size"
                                 THEN Base \o Target(e, q) ELSE <<>>
        BY RequestIs
    <2>3. \A d \in Exposed : d \in Endpoints
        BY DEF Exposed
    <2>4. ASSUME NEW d \in Exposed
          PROVE  d \in Served(Request(e, q), q)
                   <=> d = e /\ (e = "get-queue-size" => GuessIsRight)
        <3>1. d \in Served(Request(e, q), q)
                <=> /\ Method(e) = Method(d)
                    /\ Request(e, q).url = Base \o Place(d, q)
            <4>1. PICK request : request = Request(e, q)
                OBVIOUS
            <4>2. d \in Served(request, q)
                    <=> /\ request.method = Method(d)
                        /\ \E selected \in Selected(d, q) :
                              request.url = Base \o Path(d) \o selected
                BY DEF Served
            <4>3. (\E selected \in Selected(d, q) : request.url = Base \o Path(d) \o selected)
                    <=> request.url = Base \o Place(d, q)
                BY <2>1, <2>3, ServedAtPlace
            <4> QED BY <2>2, <4>1, <4>2, <4>3
        <3>2. IsPath(Place(d, q)) /\ IsPath(Target(e, q))
            BY <2>1, <2>3, TargetsArePaths
        <3>3. Base \o Place(d, q) # <<>>
            BY <3>2, UrlIsNotEmpty
        <3>4. Base \o Target(e, q) = Base \o Place(d, q)
                <=> d = e /\ (e = "get-queue-size" => GuessIsRight)
            BY <2>1, <2>3, <3>2, BaseCancels, TargetIsPlace
        <3> QED BY <2>2, <3>1, <3>3, <3>4
    <2>5. Served(Request(e, q), q) \subseteq Exposed
        BY DEF Served
    <2> QED BY <2>4, <2>5
<1> QED BY <1>1, TargetInit, TargetStep, PTL DEF Spec
=============================================================================
