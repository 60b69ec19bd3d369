----------------------- MODULE RabbitMqConnectionService -----------------------
(***************************************************************************)
(* The connection cache of the starter, services/RabbitMqConnectionService. *)
(* Every thread has three maps keyed by binder name (ThreadLocal fields):   *)
(* the CachingConnectionFactory, the RabbitAdmin and the RabbitTemplate it  *)
(* made for that binder.  An admin or a template is represented by the      *)
(* factory it wraps, a factory by its identity: getConnectionFactory makes  *)
(* a new one whenever the thread has none cached.                           *)
(*                                                                         *)
(* "connected" is not a field of the class: it is the set of factories that *)
(* hold an open connection.  A CachingConnectionFactory connects on first   *)
(* use, connects again on the next use after a loss, and closes its         *)
(* connection in destroy().                                                 *)
(*                                                                         *)
(* The operators take the thread and the binder and are the steps other     *)
(* modules are built from; ConnSpec is the service called in any order.     *)
(***************************************************************************)
EXTENDS FiniteSets, Connections

CONSTANTS
    Threads,        \* request threads of the servlet container
    Binders,        \* binder names that queues are configured with
    KnownBinders    \* those that virgil.binders really defines

ASSUME BindersAssumption == KnownBinders \subseteq Binders

VARIABLES
    cachingConnectionFactoryLookup,
    amqpAdminLookup,
    rabbitTemplateLookup,
    connected

connVars == <<cachingConnectionFactoryLookup, amqpAdminLookup,
              rabbitTemplateLookup, connected>>

Lookup == [Threads -> [Binders -> Factories \cup {NoFactory}]]

ConnTypeOK ==
    /\ cachingConnectionFactoryLookup \in Lookup
    /\ amqpAdminLookup \in Lookup
    /\ rabbitTemplateLookup \in Lookup
    /\ connected \in SUBSET Factories

EmptyLookup == [t \in Threads |-> [b \in Binders |-> NoFactory]]

ConnInit ==
    /\ cachingConnectionFactoryLookup = EmptyLookup
    /\ amqpAdminLookup = EmptyLookup
    /\ rabbitTemplateLookup = EmptyLookup
    /\ connected = {}

-----------------------------------------------------------------------------
(* The factories some thread can still reach through one of its maps.       *)
Reachable ==
    {f \in Factories : \E t \in Threads, b \in Binders :
        f \in {cachingConnectionFactoryLookup[t][b], amqpAdminLookup[t][b],
               rabbitTemplateLookup[t][b]}}

(* Slip: one static map for all threads.                                    *)
GetSharedConnectionFactory(t, b, f) ==
    \/ /\ f = cachingConnectionFactoryLookup[t][b]
       /\ f # NoFactory
       /\ UNCHANGED cachingConnectionFactoryLookup
    \/ /\ cachingConnectionFactoryLookup[t][b] = NoFactory
       /\ b \in KnownBinders
       /\ f \in Factories \ (Reachable \cup connected)
       /\ cachingConnectionFactoryLookup' =
            [u \in Threads |-> [cachingConnectionFactoryLookup[u] EXCEPT ![b] = f]]

(* getConnectionFactory returns f: the cached one, or a new one that is     *)
(* cached before it is returned.  A binder without properties has none.     *)
GetConnectionFactory(t, b, f) ==
    \/ /\ f = cachingConnectionFactoryLookup[t][b]
       /\ f # NoFactory
       /\ UNCHANGED cachingConnectionFactoryLookup
    \/ /\ cachingConnectionFactoryLookup[t][b] = NoFactory
       /\ b \in KnownBinders
       /\ f \in Factories \ (Reachable \cup connected)
       /\ cachingConnectionFactoryLookup' =
            [cachingConnectionFactoryLookup EXCEPT ![t][b] = f]

(* getAmqpAdmin returns an admin that wraps f.                              *)
GetAmqpAdmin(t, b, f) ==
    \/ /\ f = amqpAdminLookup[t][b]
       /\ f # NoFactory
       /\ UNCHANGED <<cachingConnectionFactoryLookup, amqpAdminLookup>>
    \/ /\ amqpAdminLookup[t][b] = NoFactory
       /\ GetConnectionFactory(t, b, f)
       /\ amqpAdminLookup' = [amqpAdminLookup EXCEPT ![t][b] = f]

(* getRabbitTemplate returns a template that wraps f.                       *)
GetRabbitTemplate(t, b, f) ==
    \/ /\ f = rabbitTemplateLookup[t][b]
       /\ f # NoFactory
       /\ UNCHANGED <<cachingConnectionFactoryLookup, rabbitTemplateLookup>>
    \/ /\ rabbitTemplateLookup[t][b] = NoFactory
       /\ GetConnectionFactory(t, b, f)
       /\ rabbitTemplateLookup' = [rabbitTemplateLookup EXCEPT ![t][b] = f]

-----------------------------------------------------------------------------
(* A broker call through the admin, and one through the template: f is the  *)
(* factory whose connection carries it.  "up" says whether that connection  *)
(* is still there when the call returns.                                    *)
Carry(f, up) == connected' = IF up THEN connected \cup {f} ELSE connected \ {f}

AdminExecute(t, b, f, up) ==
    /\ GetAmqpAdmin(t, b, f)
    /\ Carry(f, up)
    /\ UNCHANGED rabbitTemplateLookup

TemplateExecute(t, b, f, up) ==
    /\ GetRabbitTemplate(t, b, f)
    /\ Carry(f, up)
    /\ UNCHANGED amqpAdminLookup

(* getReadRabbitTemplate on its own: nothing is sent yet.                   *)
TemplateLookup(t, b, f) ==
    /\ GetRabbitTemplate(t, b, f)
    /\ UNCHANGED <<amqpAdminLookup, connected>>

(* Slips: the admin stays cached; the factories are not destroyed.          *)
DestroyButKeepAdmin(t, b) ==
    /\ rabbitTemplateLookup[t][b] # NoFactory
    /\ UNCHANGED amqpAdminLookup
    /\ rabbitTemplateLookup' = [rabbitTemplateLookup EXCEPT ![t][b] = NoFactory]
    /\ cachingConnectionFactoryLookup' =
        [cachingConnectionFactoryLookup EXCEPT ![t][b] = NoFactory]
    /\ connected' = connected \ {rabbitTemplateLookup[t][b],
                                 cachingConnectionFactoryLookup[t][b]}

ForgetConnectionsByName(t, b) ==
    /\ rabbitTemplateLookup[t][b] # NoFactory
    /\ amqpAdminLookup' = [amqpAdminLookup EXCEPT ![t][b] = NoFactory]
    /\ rabbitTemplateLookup' = [rabbitTemplateLookup EXCEPT ![t][b] = NoFactory]
    /\ cachingConnectionFactoryLookup' =
        [cachingConnectionFactoryLookup EXCEPT ![t][b] = NoFactory]
    /\ UNCHANGED connected

(* destroyConnectionsByName: the admin is forgotten, the factory of the     *)
(* template and the cached factory are destroyed, and all three entries are *)
(* removed.                                                                 *)
DestroyConnectionsByName(t, b) ==
    /\ rabbitTemplateLookup[t][b] # NoFactory
    /\ amqpAdminLookup' = [amqpAdminLookup EXCEPT ![t][b] = NoFactory]
    /\ rabbitTemplateLookup' = [rabbitTemplateLookup EXCEPT ![t][b] = NoFactory]
    /\ cachingConnectionFactoryLookup' =
        [cachingConnectionFactoryLookup EXCEPT ![t][b] = NoFactory]
    /\ connected' = connected \ {rabbitTemplateLookup[t][b],
                                 cachingConnectionFactoryLookup[t][b]}

(* ... and when the thread never made a template for the binder:            *)
(* rabbitTemplateLookup.get().get(binderName) is null, the method ends with *)
(* a NullPointerException after forgetting the admin.                       *)
DestroyWithoutTemplate(t, b) ==
    /\ rabbitTemplateLookup[t][b] = NoFactory
    /\ amqpAdminLookup' = [amqpAdminLookup EXCEPT ![t][b] = NoFactory]
    /\ UNCHANGED <<cachingConnectionFactoryLookup, rabbitTemplateLookup, connected>>

(* The environment: a connection is lost; the process restarts with empty   *)
(* maps.                                                                    *)
LoseConnection(f) ==
    /\ f \in connected
    /\ connected' = connected \ {f}
    /\ UNCHANGED <<cachingConnectionFactoryLookup, amqpAdminLookup, rabbitTemplateLookup>>

RestartService ==
    /\ cachingConnectionFactoryLookup' = EmptyLookup
    /\ amqpAdminLookup' = EmptyLookup
    /\ rabbitTemplateLookup' = EmptyLookup
    /\ connected' = {}

-----------------------------------------------------------------------------
ServiceCall(t, b) ==
    \/ \E f \in Factories, up \in BOOLEAN : AdminExecute(t, b, f, up)
    \/ \E f \in Factories, up \in BOOLEAN : TemplateExecute(t, b, f, up)
    \/ \E f \in Factories : TemplateLookup(t, b, f)
    \/ DestroyConnectionsByName(t, b)
    \/ DestroyWithoutTemplate(t, b)

ConnNext ==
    \/ \E t \in Threads, b \in Binders : ServiceCall(t, b)
    \/ \E f \in Factories : LoseConnection(f)
    \/ RestartService

ConnSpec == ConnInit /\ [][ConnNext]_connVars

-----------------------------------------------------------------------------
(* The admin and the template a thread holds for a binder wrap the factory  *)
(* the thread has cached for that binder, never one that was destroyed or   *)
(* replaced: otherwise destroyConnectionsByName would close one connection  *)
(* and leave the messages fetched on another one unacknowledged.            *)
SameFactory ==
    \A t \in Threads, b \in Binders :
        /\ amqpAdminLookup[t][b] \in {NoFactory, cachingConnectionFactoryLookup[t][b]}
        /\ rabbitTemplateLookup[t][b] \in {NoFactory, cachingConnectionFactoryLookup[t][b]}

(* Two threads, or two binders of a thread, never share a factory: a thread *)
(* that destroys its connection cannot close one that another thread is     *)
(* scanning a queue on ("all connections will be destroyed in the same      *)
(* thread that created them").                                              *)
Confined ==
    \A t, u \in Threads, b, c \in Binders :
        /\ cachingConnectionFactoryLookup[t][b] = cachingConnectionFactoryLookup[u][c]
        /\ cachingConnectionFactoryLookup[t][b] # NoFactory
        => t = u /\ b = c

(* No connection is leaked: an open one belongs to a factory that a thread  *)
(* still has cached, so a later call of that thread uses or closes it.      *)
NoLeak ==
    \A f \in connected : \E t \in Threads, b \in Binders :
        cachingConnectionFactoryLookup[t][b] = f
=============================================================================
