---------------------------- MODULE DeadLetterQueue ----------------------------
(***************************************************************************)
(* What the endpoints promise of the messages in the queues they manage,    *)
(* without connections, deliveries or acknowledgements: MessageOperator     *)
(* implements this.  Requests come and go.  A message that is there stays   *)
(* there until a request that is being served, and that names it or purges  *)
(* its queue, removes it.  A message appears because another application    *)
(* dead-letters it, or as a copy of a message that a republishing request   *)
(* names, with the exchange and routing key of that request's queue.        *)
(*                                                                         *)
(* What is not promised is visible too: a removal and its copy are separate *)
(* steps, so either may happen without the other when something fails, and  *)
(* a purge may leave messages behind.                                       *)
(***************************************************************************)
EXTENDS Naturals, Sequences, VirgilMessages

CONSTANTS Threads, ConfiguredQueues, readName, republishTo, Arrivals, Absent

VARIABLES
    msgs,       \* every message there ever was, in order of appearance
    queue,      \* those that are still there
    pending     \* the request each thread serves

dlqVars == <<msgs, queue, pending>>

NoRequest == [op |-> "none", queue |-> Absent, limit |-> Absent, messageId |-> Absent]

DLQInit ==
    /\ msgs = <<>>
    /\ queue = {}
    /\ pending = [w \in Threads |-> NoRequest]

(* The request of w is about the queue m is in; it asks for m itself.       *)
Reads(w, m) ==
    /\ pending[w].queue \in ConfiguredQueues
    /\ msgs[m].queue = readName[pending[w].queue]

Names(w, m) ==
    /\ Reads(w, m)
    /\ pending[w].messageId \in IdsOf(msgs[m].content.payload)

BeginRequest(w) ==
    /\ pending[w] = NoRequest
    /\ pending' = [pending EXCEPT ![w] = pending'[w]]
    /\ UNCHANGED <<msgs, queue>>

EndRequest(w) ==
    /\ pending' = [pending EXCEPT ![w] = NoRequest]
    /\ UNCHANGED <<msgs, queue>>

EndAllRequests ==
    /\ pending' = [w \in Threads |-> NoRequest]
    /\ UNCHANGED <<msgs, queue>>

RemoveNamed(w) ==
    /\ pending[w].op \in {"ackCertainMessage", "republishMessage"}
    /\ \E m \in queue : Names(w, m) /\ queue' = queue \ {m}
    /\ UNCHANGED <<msgs, pending>>

RemoveAll(w) ==
    /\ pending[w].op = "dropMessages"
    /\ queue' \subseteq queue
    /\ \A m \in queue \ queue' : Reads(w, m)
    /\ UNCHANGED <<msgs, pending>>

(* New messages take the next positions; the old ones stay what they were.  *)
Appear ==
    /\ Len(msgs') >= Len(msgs)
    /\ \A m \in 1..Len(msgs) : msgs'[m] = msgs[m]
    /\ queue' = queue \cup (Len(msgs) + 1 .. Len(msgs'))
    /\ UNCHANGED pending

DeadLetter ==
    /\ \E message \in Arrivals : msgs' = Append(msgs, message)
    /\ Appear

Republish(w) ==
    /\ pending[w].op = "republishMessage"
    /\ \E m \in DOMAIN msgs :
        /\ Names(w, m)
        /\ \A n \in Len(msgs) + 1 .. Len(msgs') :
            msgs'[n].content = [payload |-> msgs[m].content.payload,
                                route |-> republishTo[pending[w].queue]]
    /\ Appear

DLQNext ==
    \/ \E w \in Threads : BeginRequest(w)
    \/ \E w \in Threads : EndRequest(w)
    \/ EndAllRequests
    \/ \E w \in Threads : RemoveNamed(w)
    \/ \E w \in Threads : RemoveAll(w)
    \/ DeadLetter
    \/ \E w \in Threads : Republish(w)

DLQSpec == DLQInit /\ [][DLQNext]_dlqVars
=============================================================================
