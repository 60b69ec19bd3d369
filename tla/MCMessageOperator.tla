--------------------------- MODULE MCMessageOperator ---------------------------
(* Small instances of MessageOperator for TLC.                              *)
EXTENDS MessageOperator, TLC

CONSTANTS w1, w2, f1, f2, b1, bX, dlq, other, missing, app, p1, p2, p3, id1, dead, again

(* p1 has no AMQP message id; p2 and p3 have the same one.                  *)
MCAmqpMessageId == [p \in Payloads |-> IF p = p1 THEN NoMessageId ELSE id1]

(* One dead letter queue, republished to the application's own queue.       *)
OneReadName == [q \in ConfiguredQueues |-> dlq]
OneBinder == [q \in ConfiguredQueues |-> b1]

(* Three configured keys: a queue, one on a binder nobody defined, and one  *)
(* that is not declared at the broker.                                      *)
ThreeReadNames == [q \in ConfiguredQueues |-> IF q = missing THEN missing ELSE dlq]
TwoBinders == [q \in ConfiguredQueues |-> IF q = other THEN bX ELSE b1]

(* Two queues, under their own names.                                       *)
OwnReadName == [q \in ConfiguredQueues |-> q]

(* Limits that mean nothing, and limits below and above the queue size.      *)
MCLimits == {-1, 0, 1, 3}

MCRepublishTo == [q \in ConfiguredQueues |-> again]
ToApplication == [r \in Routes |-> IF r = again THEN <<app>> ELSE <<dlq>>]

Arriving == {[queue |-> dlq, content |-> [payload |-> p, route |-> dead]] : p \in Payloads}

Symmetry == Permutations(Threads) \cup Permutations(Factories)
=============================================================================
