------------------- MODULE RabbitMqConnectionService_proofs -------------------
(***************************************************************************)
(* Proofs about the connection cache, for any number of threads, binders    *)
(* and factories.                                                           *)
(***************************************************************************)
EXTENDS RabbitMqConnectionService, TLAPS

(* What getConnectionFactory does: it caches f for (t, b), which already    *)
(* was there or was in no map and had no connection, and touches no other   *)
(* entry.                                                                   *)
LEMMA GetConnectionFactoryCaches ==
    ASSUME ConnTypeOK, NEW t \in Threads, NEW b \in Binders, NEW f \in Factories,
           GetConnectionFactory(t, b, f)
    PROVE  /\ cachingConnectionFactoryLookup' =
                [cachingConnectionFactoryLookup EXCEPT ![t][b] = f]
           /\ \/ cachingConnectionFactoryLookup[t][b] = f
              \/ /\ cachingConnectionFactoryLookup[t][b] = NoFactory
                 /\ f \notin Reachable \cup connected
BY DEF GetConnectionFactory, ConnTypeOK, Lookup

(* The conjuncts of the invariant about the admins and the templates are    *)
(* those of SameFactory.                                                    *)
ConnInv == ConnTypeOK /\ SameFactory /\ Confined /\ NoLeak

(* With SameFactory, asking for an admin leaves f cached for (t, b) and     *)
(* behind the admin; everything else is as it was.                          *)
LEMMA GetAmqpAdminCaches ==
    ASSUME ConnTypeOK, SameFactory,
           NEW t \in Threads, NEW b \in Binders, NEW f \in Factories,
           GetAmqpAdmin(t, b, f)
    PROVE  /\ cachingConnectionFactoryLookup' =
                [cachingConnectionFactoryLookup EXCEPT ![t][b] = f]
           /\ amqpAdminLookup' = [amqpAdminLookup EXCEPT ![t][b] = f]
           /\ \/ cachingConnectionFactoryLookup[t][b] = f
              \/ /\ cachingConnectionFactoryLookup[t][b] = NoFactory
                 /\ f \notin Reachable \cup connected
<1>1. CASE amqpAdminLookup[t][b] = NoFactory
    BY <1>1, GetConnectionFactoryCaches, NoFactoryAssumption DEF GetAmqpAdmin
<1>2. CASE amqpAdminLookup[t][b] # NoFactory
    <2>1. f = amqpAdminLookup[t][b] /\ f = cachingConnectionFactoryLookup[t][b]
        BY <1>2, NoFactoryAssumption DEF GetAmqpAdmin, SameFactory
    <2> QED BY <1>2, <2>1 DEF GetAmqpAdmin, ConnTypeOK, Lookup
<1> QED BY <1>1, <1>2

LEMMA GetRabbitTemplateCaches ==
    ASSUME ConnTypeOK, SameFactory,
           NEW t \in Threads, NEW b \in Binders, NEW f \in Factories,
           GetRabbitTemplate(t, b, f)
    PROVE  /\ cachingConnectionFactoryLookup' =
                [cachingConnectionFactoryLookup EXCEPT ![t][b] = f]
           /\ rabbitTemplateLookup' = [rabbitTemplateLookup EXCEPT ![t][b] = f]
           /\ \/ cachingConnectionFactoryLookup[t][b] = f
              \/ /\ cachingConnectionFactoryLookup[t][b] = NoFactory
                 /\ f \notin Reachable \cup connected
<1>1. CASE rabbitTemplateLookup[t][b] = NoFactory
    BY <1>1, GetConnectionFactoryCaches, NoFactoryAssumption DEF GetRabbitTemplate
<1>2. CASE rabbitTemplateLookup[t][b] # NoFactory
    <2>1. f = rabbitTemplateLookup[t][b] /\ f = cachingConnectionFactoryLookup[t][b]
        BY <1>2, NoFactoryAssumption DEF GetRabbitTemplate, SameFactory
    <2> QED BY <1>2, <2>1 DEF GetRabbitTemplate, ConnTypeOK, Lookup
<1> QED BY <1>1, <1>2

-----------------------------------------------------------------------------
(* Putting f into the cache of (t, b), with an admin or a template or both, *)
(* keeps the invariant.                                                     *)
LEMMA CachingKeepsConnInv ==
    ASSUME ConnInv, NEW t \in Threads, NEW b \in Binders, NEW f \in Factories,
           cachingConnectionFactoryLookup' =
               [cachingConnectionFactoryLookup EXCEPT ![t][b] = f],
           \/ cachingConnectionFactoryLookup[t][b] = f
           \/ /\ cachingConnectionFactoryLookup[t][b] = NoFactory
              /\ f \notin Reachable \cup connected,
           amqpAdminLookup' \in {amqpAdminLookup, [amqpAdminLookup EXCEPT ![t][b] = f]},
           rabbitTemplateLookup' \in
               {rabbitTemplateLookup, [rabbitTemplateLookup EXCEPT ![t][b] = f]},
           connected' \in {connected, connected \cup {f}, connected \ {f}}
    PROVE  ConnInv'
<1>1. ConnTypeOK'
    <2>1. cachingConnectionFactoryLookup' \in Lookup
        BY DEF ConnInv, ConnTypeOK, Lookup
    <2>2. amqpAdminLookup' \in Lookup
        <3>1. amqpAdminLookup \in Lookup /\ f \in Factories
            BY DEF ConnInv, ConnTypeOK
        <3>2. [amqpAdminLookup EXCEPT ![t][b] = f] \in Lookup
            BY <3>1 DEF Lookup
        <3> QED BY <3>1, <3>2
    <2>3. rabbitTemplateLookup' \in Lookup
        <3>1. rabbitTemplateLookup \in Lookup /\ f \in Factories
            BY DEF ConnInv, ConnTypeOK
        <3>2. [rabbitTemplateLookup EXCEPT ![t][b] = f] \in Lookup
            BY <3>1 DEF Lookup
        <3> QED BY <3>1, <3>2
    <2>4. connected' \in SUBSET Factories
        BY DEF ConnInv, ConnTypeOK
    <2> QED BY <2>1, <2>2, <2>3, <2>4 DEF ConnTypeOK
<1>2. SameFactory'
    <2> SUFFICES ASSUME NEW u \in Threads, NEW c \in Binders
                 PROVE  /\ amqpAdminLookup'[u][c] \in
                             {NoFactory, cachingConnectionFactoryLookup'[u][c]}
                        /\ rabbitTemplateLookup'[u][c] \in
                             {NoFactory, cachingConnectionFactoryLookup'[u][c]}
        BY DEF SameFactory
    <2>1. /\ amqpAdminLookup[u][c] \in {NoFactory, cachingConnectionFactoryLookup[u][c]}
          /\ rabbitTemplateLookup[u][c] \in {NoFactory, cachingConnectionFactoryLookup[u][c]}
        BY DEF ConnInv, SameFactory
    <2> QED BY <2>1, NoFactoryAssumption DEF ConnInv, ConnTypeOK, Lookup
<1>3. Confined'
    <2> SUFFICES ASSUME NEW u \in Threads, NEW c \in Binders,
                        NEW v \in Threads, NEW d \in Binders,
                        cachingConnectionFactoryLookup'[u][c]
                            = cachingConnectionFactoryLookup'[v][d],
                        cachingConnectionFactoryLookup'[u][c] # NoFactory
                 PROVE  u = v /\ c = d
        BY DEF Confined
    <2>1. CASE cachingConnectionFactoryLookup[t][b] = f
        BY <2>1 DEF ConnInv, Confined, ConnTypeOK, Lookup
    <2>2. CASE f \notin Reachable
        <3>1. \A x \in Threads, y \in Binders : cachingConnectionFactoryLookup[x][y] # f
            BY <2>2 DEF Reachable
        <3> QED BY <3>1 DEF ConnInv, Confined, ConnTypeOK, Lookup
    <2> QED BY <2>1, <2>2
<1>4. NoLeak'
    <2> SUFFICES ASSUME NEW g \in connected'
                 PROVE  \E u \in Threads, c \in Binders :
                            cachingConnectionFactoryLookup'[u][c] = g
        BY DEF NoLeak
    <2>1. cachingConnectionFactoryLookup'[t][b] = f
        BY DEF ConnInv, ConnTypeOK, Lookup
    <2>2. CASE g # f
        <3>1. PICK u \in Threads, c \in Binders : cachingConnectionFactoryLookup[u][c] = g
            BY <2>2 DEF ConnInv, NoLeak
        <3>2. ~(u = t /\ c = b)
            BY <2>2, <3>1, NoFactoryAssumption DEF ConnInv, ConnTypeOK
        <3>3. cachingConnectionFactoryLookup'[u][c] = g
            BY <3>1, <3>2 DEF ConnInv, ConnTypeOK, Lookup
        <3> QED BY <3>3
    <2> QED BY <2>1, <2>2
<1> QED BY <1>1, <1>2, <1>3, <1>4 DEF ConnInv

(* Forgetting every entry of (t, b) and closing its connection keeps it too. *)
LEMMA DestroyKeepsConnInv ==
    ASSUME ConnInv, NEW t \in Threads, NEW b \in Binders,
           DestroyConnectionsByName(t, b)
    PROVE  ConnInv'
<1>1. ConnTypeOK'
    BY DEF ConnInv, ConnTypeOK, Lookup, DestroyConnectionsByName
<1>2. SameFactory'
    BY DEF ConnInv, ConnTypeOK, Lookup, DestroyConnectionsByName, SameFactory
<1>3. Confined'
    BY DEF ConnInv, ConnTypeOK, Lookup, DestroyConnectionsByName, Confined
<1>4. NoLeak'
    <2> SUFFICES ASSUME NEW g \in connected'
                 PROVE  \E u \in Threads, c \in Binders :
                            cachingConnectionFactoryLookup'[u][c] = g
        BY DEF NoLeak
    <2>1. g \in connected /\ g # cachingConnectionFactoryLookup[t][b]
        BY DEF DestroyConnectionsByName
    <2>2. PICK u \in Threads, c \in Binders : cachingConnectionFactoryLookup[u][c] = g
        BY <2>1 DEF ConnInv, NoLeak
    <2>3. cachingConnectionFactoryLookup'[u][c] = g
        BY <2>1, <2>2 DEF ConnInv, ConnTypeOK, Lookup, DestroyConnectionsByName
    <2> QED BY <2>3
<1> QED BY <1>1, <1>2, <1>3, <1>4 DEF ConnInv

-----------------------------------------------------------------------------
(* No step of the service breaks the invariant.                             *)
LEMMA ConnStepKeepsConnInv ==
    ASSUME ConnInv, [ConnNext]_connVars
    PROVE  ConnInv'
<1> USE DEF ConnInv
<1>1. ASSUME NEW t \in Threads, NEW b \in Binders, ServiceCall(t, b)
      PROVE  ConnInv'
    <2>1. ASSUME NEW f \in Factories, NEW up \in BOOLEAN, AdminExecute(t, b, f, up)
          PROVE  ConnInv'
        BY <2>1, GetAmqpAdminCaches, CachingKeepsConnInv DEF AdminExecute, Carry
    <2>2. ASSUME NEW f \in Factories, NEW up \in BOOLEAN, TemplateExecute(t, b, f, up)
          PROVE  ConnInv'
        BY <2>2, GetRabbitTemplateCaches, CachingKeepsConnInv DEF TemplateExecute, Carry
    <2>3. ASSUME NEW f \in Factories, TemplateLookup(t, b, f)
          PROVE  ConnInv'
        BY <2>3, GetRabbitTemplateCaches, CachingKeepsConnInv DEF TemplateLookup
    <2>4. CASE DestroyConnectionsByName(t, b)
        BY <2>4, DestroyKeepsConnInv
    <2>5. CASE DestroyWithoutTemplate(t, b)
        BY <2>5 DEF DestroyWithoutTemplate, ConnTypeOK, Lookup, SameFactory, Confined, NoLeak
    <2> QED BY <1>1, <2>1, <2>2, <2>3, <2>4, <2>5 DEF ServiceCall
<1>2. ASSUME NEW f \in Factories, LoseConnection(f)
      PROVE  ConnInv'
    BY <1>2 DEF LoseConnection, ConnTypeOK, SameFactory, Confined, NoLeak
<1>3. CASE RestartService
    BY <1>3, NoFactoryAssumption
        DEF RestartService, ConnTypeOK, SameFactory, Confined, NoLeak, EmptyLookup, Lookup
<1>4. CASE UNCHANGED connVars
    BY <1>4 DEF connVars, ConnTypeOK, SameFactory, Confined, NoLeak
<1> QED BY <1>1, <1>2, <1>3, <1>4 DEF ConnNext

(* The whole cache: whatever the threads call and the environment breaks,   *)
(* admins and templates wrap the factory their thread has cached, no        *)
(* factory is shared, and no connection is left open that no thread can     *)
(* reach.                                                                   *)
THEOREM ConnectionCache == ConnSpec => []ConnInv
<1>1. ConnInit => ConnInv
    BY NoFactoryAssumption DEF ConnInit, ConnInv, ConnTypeOK, SameFactory, Confined, NoLeak,
        EmptyLookup, Lookup
<1>2. ConnInv /\ [ConnNext]_connVars => ConnInv'
    BY ConnStepKeepsConnInv
<1> QED BY <1>1, <1>2, PTL DEF ConnSpec

(* Type correctness of the three maps.                                      *)
THEOREM ConnTypeCorrect == ConnSpec => []ConnTypeOK
BY ConnectionCache, PTL DEF ConnInv

(* destroyReadConnection closes the very connection the thread fetched      *)
(* through.                                                                 *)
THEOREM TemplatesWrapCachedFactory == ConnSpec => []SameFactory
BY ConnectionCache, PTL DEF ConnInv

(* Thread confinement, on which "view the queue without disturbing it"      *)
(* rests.                                                                   *)
THEOREM FactoriesAreConfined == ConnSpec => []Confined
BY ConnectionCache, PTL DEF ConnInv

(* No connection outlives the last reference to its factory.                *)
THEOREM NoConnectionLeaks == ConnSpec => []NoLeak
BY ConnectionCache, PTL DEF ConnInv
=============================================================================
