----------------------------- MODULE MCVirgilConsole -----------------------------
(* Small instances of VirgilConsole for TLC.                                *)
EXTENDS VirgilConsole, TLC

CONSTANTS v1, c1, c2, k1, k2, dlq1, dlq2, p1, id1, dead, again

(* Two keys for two queues; both queues hold messages of the same id.       *)
TwoKeys == <<k1, k2>>
MCReadName == [q \in QueueIds |-> IF q = k1 THEN dlq1 ELSE dlq2]
MCRepublishTo == [q \in QueueIds |-> again]
SameId == [p \in Payloads |-> id1]
Arriving == {[queue |-> r, content |-> [payload |-> p, route |-> dead]] :
                r \in {dlq1, dlq2}, p \in Payloads}
ArrivingInOne == {message \in Arriving : message.queue = dlq1}

Counts == 0..MaxMsgs

Symmetry == Permutations(Calls)
=============================================================================
