-------------------------- MODULE VirgilPropertyConfig --------------------------
(***************************************************************************)
(* config/VirgilPropertyConfig: the configured queues and binders.          *)
(*                                                                         *)
(* getQueueProperties is a lookup that writes: each call stores the binder  *)
(* it finds in the QueueProperties object that all threads share, in two    *)
(* steps, without a lock.  MessageOperator takes from that object the       *)
(* exchange a message is republished to, and RabbitMqConnectionService the  *)
(* binder whose connection the message was read by; both are constants in   *)
(* those modules, and here they are seen to be.                             *)
(***************************************************************************)
EXTENDS Naturals

CONSTANTS
    Threads,
    QueueIds,           \* queue keys a caller may pass
    ConfiguredQueues,   \* keys of virgil.queues
    Binders,            \* names a queue may give for a binder
    ConfiguredBinders,  \* keys of virgil.binders
    Exchanges,          \* BinderProperties.name
    exchange,           \* the name of each configured binder
    readBinderName,
    republishBinderName,    \* read by nothing, as the code is
    Null                \* no binder, no exchange, no queue, no name

ASSUME ConfigAssumption ==
    /\ ConfiguredQueues \subseteq QueueIds
    /\ ConfiguredBinders \subseteq Binders
    /\ Null \notin QueueIds \cup Binders \cup Exchanges
    /\ exchange \in [ConfiguredBinders -> Exchanges]
    /\ readBinderName \in [ConfiguredQueues -> Binders \cup {Null}]
    /\ republishBinderName \in [ConfiguredQueues -> Binders \cup {Null}]

VARIABLES
    readBinderProperties,   \* the field of each shared object, as its binder
    pc,                     \* where the thread is
    queueId,                \* the key its request is about
    sent                    \* what has been republished

vars == <<readBinderProperties, pc, queueId, sent>>

Steps == {"idle", "read", "republish", "found", "failed"}
Copies == [queue : ConfiguredQueues, by : ConfiguredBinders, to : Exchanges]

TypeOK ==
    /\ readBinderProperties \in [ConfiguredQueues -> ConfiguredBinders \cup {Null}]
    /\ pc \in [Threads -> Steps]
    /\ queueId \in [Threads -> QueueIds \cup {Null}]
    /\ sent \subseteq Copies

Init ==
    /\ readBinderProperties = [q \in ConfiguredQueues |-> Null]
    /\ pc = [w \in Threads |-> "idle"]
    /\ queueId = [w \in Threads |-> Null]
    /\ sent = {}

GoTo(w, step) == pc' = [pc EXCEPT ![w] = step]

-----------------------------------------------------------------------------
(* Slip: the map is trusted to have every name.                             *)
GetBinderPropertiesUnchecked(name) == name

(* getBinderProperties, null for a name that is not configured.             *)
GetBinderProperties(name) == IF name \in ConfiguredBinders THEN name ELSE Null

(* getQueueProperties begins; a key that is not configured gets null.       *)
GetQueueProperties(w) ==
    /\ pc[w] \in {"idle", "found"}
    /\ \E q \in QueueIds :
        /\ pc[w] = "found" => q = queueId[w]
        /\ queueId' = [queueId EXCEPT ![w] = q]
        /\ GoTo(w, IF q \in ConfiguredQueues THEN "read" ELSE "failed")
    /\ UNCHANGED <<readBinderProperties, sent>>

(* Both setters assign readBinderProperties, if the binder is there.        *)
Assign(q, binder) ==
    readBinderProperties' =
        IF binder = Null THEN readBinderProperties
        ELSE [readBinderProperties EXCEPT ![q] = binder]

SetReadBinderProperties(w) ==
    /\ pc[w] = "read"
    /\ Assign(queueId[w], GetBinderProperties(readBinderName[queueId[w]]))
    /\ GoTo(w, "republish")
    /\ UNCHANGED <<queueId, sent>>

(* Slip: the republish binder is looked up by its own name, and stored by a *)
(* setter that still assigns the field of the read binder.                  *)
SetOwnRepublishBinder(w) ==
    /\ pc[w] = "republish"
    /\ Assign(queueId[w], GetBinderProperties(republishBinderName[queueId[w]]))
    /\ GoTo(w, "found")
    /\ UNCHANGED <<queueId, sent>>

(* The republish binder is looked up by the name of the read binder.        *)
SetRepublishBinderProperties(w) ==
    /\ pc[w] = "republish"
    /\ Assign(queueId[w], GetBinderProperties(readBinderName[queueId[w]]))
    /\ GoTo(w, "found")
    /\ UNCHANGED <<queueId, sent>>

(* HandleRepublishMessage sends to the exchange of readBinderProperties by  *)
(* the template of the binder named readBinderName; without that binder     *)
(* there is no connection, and the message has not been found.              *)
Republish(w) ==
    /\ pc[w] = "found"
    /\ readBinderName[queueId[w]] \in ConfiguredBinders
    /\ readBinderProperties[queueId[w]] # Null
    /\ sent' = sent \cup {[queue |-> queueId[w], by |-> readBinderName[queueId[w]],
                           to |-> exchange[readBinderProperties[queueId[w]]]]}
    /\ UNCHANGED <<readBinderProperties, pc, queueId>>

(* The request ends, in whatever way.                                       *)
End(w) ==
    /\ pc[w] \in {"found", "failed"}
    /\ GoTo(w, "idle")
    /\ queueId' = [queueId EXCEPT ![w] = Null]
    /\ UNCHANGED <<readBinderProperties, sent>>

Next == \E w \in Threads :
    \/ GetQueueProperties(w)
    \/ SetReadBinderProperties(w)
    \/ SetRepublishBinderProperties(w)
    \/ Republish(w)
    \/ End(w)

Spec == Init /\ [][Next]_vars

-----------------------------------------------------------------------------
(* A copy goes to the exchange of the binder its message was read by:       *)
(* whatever other threads look up between a thread's lookup and its use,    *)
(* the exchange and the connection are of one broker.                       *)
ExchangeIsOfReadBinder == \A copy \in sent : copy.to = exchange[copy.by]
=============================================================================
