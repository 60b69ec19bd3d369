-------------------------------- MODULE RabbitMQ --------------------------------
(***************************************************************************)
(* The broker, as far as services/MessageOperator depends on it (external   *)
(* to the repository; modelled from the calls the code makes: a passive     *)
(* queue declaration, basicGet without auto-ack, basicAck, queuePurge,      *)
(* basicPublish without confirms, and closing the connection).              *)
(*                                                                         *)
(* msgs is the history of every message that ever reached a queue, so the   *)
(* position of a message is its identity and its age.  A message that still *)
(* exists is in exactly one of three states: ready in its queue; unacked on *)
(* the connection it was delivered on; or orphaned, unacked on a connection *)
(* that is gone while the broker has not noticed it yet.                    *)
(*                                                                         *)
(* basicAck and basicPublish are frames without an answer.  They wait in    *)
(* wire, in the order they were written to the connection, until the broker *)
(* reads them, and those not yet read are lost with the connection.         *)
(***************************************************************************)
EXTENDS Integers, Sequences, FiniteSets, Connections, VirgilMessages

CONSTANTS
    BrokerQueues,   \* queues declared at the broker
    Bindings,       \* the queues each exchange and routing key leads to
    Arrivals,       \* messages that other applications dead-letter
    MaxMsgs         \* bound on how many of them arrive

Contents == [payload : Payloads, route : Routes]
Message == [queue : BrokerQueues, content : Contents]

ASSUME BrokerAssumption ==
    /\ Bindings \in [Routes -> Seq(BrokerQueues)]
    /\ Arrivals \subseteq Message
    /\ MaxMsgs \in Nat

VARIABLES msgs, ready, redelivered, unacked, orphaned, wire

brokerVars == <<msgs, ready, redelivered, unacked, orphaned, wire>>

Frame == [kind : {"ack"}, msg : Nat] \cup [kind : {"publish"}, copies : Seq(Message)]

BrokerTypeOK ==
    /\ msgs \in Seq(Message)
    /\ ready \subseteq DOMAIN msgs
    /\ redelivered \subseteq DOMAIN msgs
    /\ unacked \in [Factories -> SUBSET DOMAIN msgs]
    /\ orphaned \subseteq DOMAIN msgs
    /\ wire \in [Factories -> Seq(Frame)]

BrokerInit ==
    /\ msgs = <<>>
    /\ ready = {}
    /\ redelivered = {}
    /\ unacked = [f \in Factories |-> {}]
    /\ orphaned = {}
    /\ wire = [f \in Factories |-> <<>>]

-----------------------------------------------------------------------------
Ready(q) == {m \in ready : msgs[m].queue = q}
Present == ready \cup orphaned \cup UNION {unacked[f] : f \in Factories}

(* What queue.declare (passive) reports as the message count: the messages  *)
(* ready for delivery.                                                      *)
MessageCount(q) == Cardinality(Ready(q))

(* m is the message at the head of q: a requeued message goes back to its   *)
(* original position.                                                       *)
AtHead(q, m) == m \in Ready(q) /\ \A n \in Ready(q) : m <= n

BasicGet(f, m) ==
    /\ ready' = ready \ {m}
    /\ unacked' = [unacked EXCEPT ![f] = @ \cup {m}]
    /\ UNCHANGED <<msgs, redelivered, orphaned, wire>>

WriteFrame(f, frame) ==
    /\ wire' = [wire EXCEPT ![f] = Append(@, frame)]
    /\ UNCHANGED <<msgs, ready, redelivered, unacked, orphaned>>

(* queuePurge removes what is ready; unacked messages are not in the queue. *)
QueuePurge(q) ==
    /\ ready' = ready \ Ready(q)
    /\ UNCHANGED <<msgs, redelivered, unacked, orphaned, wire>>

(* An orderly close: the frames were read (see the guard at the call), and  *)
(* what is still unacked returns to its queue marked as redelivered.        *)
CloseConnection(f) ==
    /\ ready' = ready \cup unacked[f]
    /\ redelivered' = redelivered \cup unacked[f]
    /\ unacked' = [unacked EXCEPT ![f] = {}]
    /\ UNCHANGED <<msgs, orphaned, wire>>

(* The connections in F break.  Frames not yet read are lost; "gone" are    *)
(* deliveries that were on their way to the client.                         *)
BreakConnections(F, gone) ==
    /\ ready' = ready \ gone
    /\ orphaned' = orphaned \cup gone \cup UNION {unacked[f] : f \in F}
    /\ unacked' = [f \in Factories |-> IF f \in F THEN {} ELSE unacked[f]]
    /\ wire' = [f \in Factories |-> IF f \in F THEN <<>> ELSE wire[f]]
    /\ UNCHANGED <<msgs, redelivered>>

(* Messages reach queues, each taking the next position.                    *)
Enqueue(new) ==
    /\ msgs' = msgs \o new
    /\ ready' = ready \cup (Len(msgs) + 1 .. Len(msgs) + Len(new))

-----------------------------------------------------------------------------
(* The broker's own steps.                                                  *)
ReadAck(f) ==
    /\ wire[f] # <<>> /\ Head(wire[f]).kind = "ack"
    /\ unacked' = [unacked EXCEPT ![f] = @ \ {Head(wire[f]).msg}]
    /\ wire' = [wire EXCEPT ![f] = Tail(@)]
    /\ UNCHANGED <<msgs, ready, redelivered, orphaned>>

ReadPublish(f) ==
    /\ wire[f] # <<>> /\ Head(wire[f]).kind = "publish"
    /\ Enqueue(Head(wire[f]).copies)
    /\ wire' = [wire EXCEPT ![f] = Tail(@)]
    /\ UNCHANGED <<redelivered, unacked, orphaned>>

(* The broker notices that the connection of an orphaned delivery is gone.  *)
RequeueOrphan(m) ==
    /\ m \in orphaned
    /\ orphaned' = orphaned \ {m}
    /\ ready' = ready \cup {m}
    /\ redelivered' = redelivered \cup {m}
    /\ UNCHANGED <<msgs, unacked, wire>>

(* A message is dead-lettered by an application outside this system.        *)
Arrive ==
    /\ Len(msgs) < MaxMsgs
    /\ \E message \in Arrivals : Enqueue(<<message>>)
    /\ UNCHANGED <<redelivered, unacked, orphaned, wire>>
=============================================================================
