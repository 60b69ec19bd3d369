----------------------------- MODULE MessageSearch -----------------------------
(***************************************************************************)
(* What a listing, a drop or a republish is bound to find.  The operator    *)
(* reads the size of the queue once and then fetches that many messages,    *)
(* while other threads take messages away and give them back at their old   *)
(* place.  A history variable remembers, from the moment the size was read, *)
(* which messages the call cannot miss; it takes no part in what happens.   *)
(***************************************************************************)
EXTENDS MessageOperator

VARIABLE owed       \* per thread: messages its running call cannot miss

searchVars == <<vars, owed>>

(* The place of m in its queue, counting what other threads have fetched,   *)
(* for they give it back in front of what was behind it.                    *)
PlaceOf(m) == Cardinality({n \in Present : n <= m /\ msgs[n].queue = msgs[m].queue})

IdNow(m) == MessageId([payload |-> msgs[m].content.payload,
                       route |-> msgs[m].content.route,
                       redelivered |-> m \in redelivered, deliveryTag |-> 1])

(* What the call looks for: by its id, or everything to list.               *)
Sought(w, m) == NeedsId(call[w].op) => IdNow(m) = call[w].messageId

(* When the size has been read: what is ready, and whose place in the queue *)
(* is not beyond the number of fetches to come.                             *)
Owed(w) == {m \in Ready(ReadName(w)) : PlaceOf(m) <= left'[w] /\ Sought(w, m)}

(* From then on: what stays in the queue, or comes to this very thread.     *)
Fetched(w) == IF Template(w) = NoFactory THEN {} ELSE unacked[Template(w)]
StillOwed(w) == owed[w] \cap (ready' \cup Fetched(w)')

Searching == {"template", "loop", "ack", "send", "finally"}

Remember ==
    owed' = [w \in Threads |->
        CASE pc[w] = "size" /\ pc'[w] \in Searching -> Owed(w)
          [] pc[w] \in Searching /\ pc'[w] \in Searching -> StillOwed(w)
          [] OTHER -> {}]

SearchInit == Init /\ owed = [w \in Threads |-> {}]
SearchNext == Next /\ Remember
SearchSpec == SearchInit /\ [][SearchNext]_searchVars

(* While nothing fails, whatever other threads fetch and give back          *)
(* meanwhile, a call finds what it is owed: a plain failure of a drop or a  *)
(* republish means that none of it is in the queue, and a listing shows all *)
(* of it.  What lies further back than the size that was read may be        *)
(* missed, as many places as other threads had messages out just then.      *)
OwedIsFound ==
    [][\A w \in Threads : reply[w].status = "none" =>
        /\ reply'[w].status = "failure" => owed[w] \cap Present' = {}
        /\ reply'[w].status = "messages" =>
            owed[w] \cap Present' \subseteq
                {dlqMessages[w][i].msg : i \in DOMAIN dlqMessages[w]}]_searchVars
=============================================================================
