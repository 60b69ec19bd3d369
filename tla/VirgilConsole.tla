------------------------------ MODULE VirgilConsole ------------------------------
(***************************************************************************)
(* The Virgil tabs (VirgilUI) over the queues they manage: each request of  *)
(* a view is served by a thread of the application, which does to the       *)
(* queues what DeadLetterQueue allows - MessageOperator implements that.    *)
(* The thread that serves a call goes by the name of the call.              *)
(*                                                                         *)
(* A request that failed at the view may still be served, or be served      *)
(* later; the call is not used again before.                                *)
(***************************************************************************)
EXTENDS VirgilUI, VirgilMessages

CONSTANTS
    readName, republishTo, Arrivals, Absent,    \* as in MessageOperator
    MaxMsgs         \* messages there may ever be

ASSUME ConsoleAssumption ==
    /\ RowIds = VirgilIds /\ MaxMsgs \in Nat /\ 0..MaxMsgs \subseteq Sizes
    /\ \A message \in Arrivals : message.content.payload \in Payloads
    /\ Faulty \/ Unconvertible = {}      \* converting may fail the request too

VARIABLES
    msgs, queue, pending,   \* as in DeadLetterQueue
    took,                   \* whether the request removed a message
    clicked,                \* the row whose button the request comes from
    answer                  \* the answer that is on its way to the view

DLQ == INSTANCE DeadLetterQueue WITH Threads <- Calls, ConfiguredQueues <- Range(QueueNames)

queueVars == <<msgs, queue>>
threadVars == <<pending, took, clicked, answer>>
vars == <<uiVars, queueVars, threadVars>>

NoAnswer == [status |-> "none"]
Error == [status |-> "error"]

Init ==
    /\ UIInit
    /\ DLQ!DLQInit
    /\ took = [c \in Calls |-> FALSE]
    /\ clicked = [c \in Calls |-> NoRow]
    /\ answer = [c \in Calls |-> NoAnswer]

-----------------------------------------------------------------------------
(* The operation an endpoint calls.                                         *)
Operation(endpoint) ==
    CASE endpoint = "get-queue-size" -> "getQueueSize"
      [] endpoint = "get-dlq-messages" -> "getMessages"
      [] endpoint = "drop-message" -> "ackCertainMessage"
      [] endpoint = "publish-message" -> "republishMessage"
      [] endpoint = "drop-all-messages" -> "dropMessages"

Serving(c) == pending[c] # DLQ!NoRequest

(* The request reaches its endpoint.  Rows stand only under a queue.        *)
Begin(c) ==
    /\ Busy(c) /\ handler[c].endpoint # "get-queues"
    /\ ~Serving(c) /\ answer[c] = NoAnswer
    /\ pending' = [pending EXCEPT ![c] =
         [op |-> Operation(handler[c].endpoint),
          queue |-> handler[c].queueId,
          limit |-> IF Awaits(c, "get-dlq-messages") THEN Limit ELSE Absent,
          messageId |-> IF handler[c].endpoint \in Mutating THEN handler[c].row.id ELSE Absent]]
    /\ clicked' = [clicked EXCEPT ![c] =
         IF handler[c].endpoint \in Mutating THEN handler[c].row ELSE NoRow]
    /\ UNCHANGED <<uiVars, queueVars, took, answer>>

(* A message of a queue that can be listed; a copy that a republishing      *)
(* request sends anywhere else is out of sight.                             *)
Messages == [queue : {readName[q] : q \in QueueIds},
             content : [payload : Payloads, route : Routes]]

(* The operation at work on the queue.                                      *)
Work(c) ==
    /\ \/ DLQ!RemoveNamed(c)
       \/ (\E rest \in SUBSET queue : queue' = rest) /\ DLQ!RemoveAll(c)
       \/ /\ Len(msgs) < MaxMsgs
          /\ \E copy \in Messages : msgs' = Append(msgs, copy)
          /\ DLQ!Republish(c)
    /\ took' = [took EXCEPT ![c] = @ \/ queue' # queue]
    /\ UNCHANGED <<uiVars, clicked, answer>>

(* What the queue of a request holds, and what a listing can show of it:    *)
(* when its connection is lost on the way, also messages that are gone.     *)
Inside(q) == {m \in queue : q \in Range(QueueNames) /\ msgs[m].queue = readName[q]}
Listable(q) ==
    IF Faulty THEN {m \in DOMAIN msgs : q \in Range(QueueNames) /\ msgs[m].queue = readName[q]}
              ELSE Inside(q)
Showable(q) == UNION {[queue : {q}, id : IdsOf(msgs[m].content.payload)] : m \in Listable(q)}

(* The answers a served request may get.  A size counts what no other       *)
(* request holds; a listing leaves out what others hold.  A drop that       *)
(* removed nothing answers failure, unless its acknowledgement was lost.    *)
(* Error stands for every exception, that of a conversion included.         *)
Answers(c) ==
    LET q == pending[c].queue
        alone == \A d \in Calls \ {c} : ~Serving(d)
    IN
    CASE pending[c].op = "getQueueSize" /\ q \in Range(QueueNames) ->
            {[status |-> "size", data |-> [of |-> q, size |-> n]] :
                n \in IF alone /\ ~Faulty THEN {Cardinality(Inside(q))}
                                          ELSE 0..Cardinality(Inside(q))}
      [] pending[c].op = "getMessages" ->
            {[status |-> "messages", data |-> rows] :
                rows \in {r \in SUBSET Showable(q) : Cardinality(r) <= Limit}}
      [] pending[c].op = "dropMessages" -> {[status |-> "dropped"]}
      [] pending[c].op \in {"ackCertainMessage", "republishMessage"} ->
            {a \in [status : {"success", "failure"}] :
                IF a.status = "success" THEN took[c] \/ Faulty ELSE ~took[c]}
      [] OTHER -> {Error}

(* The endpoint answers; nobody may be waiting for it any more.             *)
Finish(c) ==
    /\ Serving(c)
    /\ \E a \in Answers(c) \cup (IF Faulty THEN {Error} ELSE {}) :
        answer' = [answer EXCEPT ![c] = IF Busy(c) THEN a ELSE NoAnswer]
    /\ DLQ!EndRequest(c)
    /\ took' = [took EXCEPT ![c] = FALSE]
    /\ clicked' = [clicked EXCEPT ![c] = NoRow]
    /\ UNCHANGED uiVars

(* The application stops: every request it is serving fails.                *)
Restart ==
    /\ Faulty
    /\ DLQ!EndAllRequests
    /\ answer' = [c \in Calls |-> IF Busy(c) /\ Serving(c) THEN Error ELSE answer[c]]
    /\ took' = [c \in Calls |-> FALSE]
    /\ clicked' = [c \in Calls |-> NoRow]
    /\ UNCHANGED uiVars

(* The answer does not reach the view: a timeout, or a connection that ends. *)
Lose(c) ==
    /\ Faulty
    /\ answer[c] \notin {NoAnswer, Error}
    /\ answer' = [answer EXCEPT ![c] = Error]
    /\ UNCHANGED <<uiVars, queueVars, pending, took, clicked>>

(* Other applications dead-letter a message.                                *)
DeadLetter ==
    /\ Len(msgs) < MaxMsgs
    /\ DLQ!DeadLetter
    /\ UNCHANGED <<uiVars, took, clicked, answer>>

-----------------------------------------------------------------------------
Click(v) ==
    /\ Event(v)
    /\ \A c \in Calls : Serving(c) /\ ~Busy(c) => ~Busy(c)'
    /\ UNCHANGED <<queueVars, threadVars>>

(* The view goes on with the answer.                                        *)
GoOn(c) ==
    \/ answer[c].status = "success" /\ SuccessArrives(c)
    \/ answer[c].status = "failure" /\ FailureArrives(c)
    \/ answer[c].status = "dropped" /\ DropAllArrives(c)
    \/ answer[c].status = "messages" /\ MessagesArrive(c, answer[c].data)
    \/ answer[c].status = "size" /\ SizeArrives(c, answer[c].data)
    \/ QueuesArrive(c)

(* The request was refused or its answer lost, or the view gives up early.  *)
Failed(c) == answer[c] = Error \/ (Faulty /\ answer[c] = NoAnswer)

(* Slip: for a size that is refused, none is stored.                        *)
ContinueStoringNothing(c) ==
    \/ GoOn(c)
    \/ Failed(c) /\ RejectedStoresNothing(c)

(* The view goes on, or fails in its place.                                 *)
Continue(c) ==
    \/ GoOn(c)
    \/ Failed(c) /\ Rejected(c)

Receive(c) ==
    /\ Continue(c)
    /\ answer' = [answer EXCEPT ![c] = NoAnswer]
    /\ UNCHANGED <<queueVars, pending, took, clicked>>

Next ==
    \/ \E v \in Views : Click(v)
    \/ \E c \in Calls : Begin(c)
    \/ \E c \in Calls : Work(c)
    \/ \E c \in Calls : Finish(c)
    \/ \E c \in Calls : Lose(c)
    \/ \E c \in Calls : Receive(c)
    \/ Restart
    \/ DeadLetter

Spec == Init /\ [][Next]_vars

-----------------------------------------------------------------------------
(* What disappears from a queue was asked for on the screen: it has the id  *)
(* of a row whose button was clicked, and is in the queue that row was      *)
(* listed from, or its queue was dropped as a whole.                        *)
RemovesOnlyClicked ==
    [][\A m \in queue \ queue' : \E c \in Calls :
        \/ pending[c].op = "dropMessages" /\ DLQ!Reads(c, m)
        \/ /\ clicked[c] # NoRow
           /\ msgs[m].queue = readName[clicked[c].queue]
           /\ clicked[c].id \in IdsOf(msgs[m].content.payload)]_vars

(* UISpec is a property of the console too: over its queues, with the       *)
(* answers they give, a view does what VirgilUI allows.                     *)

TrueSize(q) == [of |-> q, size |-> Cardinality(Inside(q))]

(* c is about to bring its view the size of the selected queue.             *)
Refreshes(c) ==
    \/ /\ Awaits(c, "get-queue-size") /\ ~Late(c)
       /\ answer[c] \in {NoAnswer,
            [status |-> "size", data |-> TrueSize(handler[c].queueId)]}
    \/ /\ handler[c].endpoint \in {"get-dlq-messages", "drop-all-messages"}
       /\ answer[c] # Error
    \/ /\ handler[c].endpoint \in Mutating
       /\ took[c] \/ answer[c].status = "success"

(* The size shown is what the selected queue holds, or that is on its way.  *)
SizeIsAccountedFor(v) ==
    \/ currentQueueId[v] = NoQueue
    \/ queueSize[v] = TrueSize(currentQueueId[v])
    \/ \E c \in InFlight(v) : Refreshes(c)

(* What makes the size of a view stale:                                     *)
(*   - somebody else dead-letters a message, or changes a queue;            *)
(*   - a request of the view fails;                                         *)
(*   - its size is counted while messages are held outside the queue;       *)
(*   - a size arrives that has been overtaken.                              *)
GoesStale(v) ==
    \/ DeadLetter
    \/ \E c \in Calls \ InFlight(v) : Work(c)
    \/ \E c \in InFlight(v) :
        \/ Faulty /\ (answer'[c] = Error \/ (answer[c] = NoAnswer /\ Rejected(c)))
        \/ /\ Finish(c) /\ answer'[c].status = "size"
           /\ Faulty \/ \E d \in Calls \ {c} : Serving(d)
        \/ /\ answer[c].status = "size" /\ answer[c].data # TrueSize(currentQueueId[v])
           /\ SizeArrives(c, answer[c].data)

(* Whatever users do and whatever fails, a view is left with a size that is *)
(* not its queue's for one of these reasons, and never by what it does to   *)
(* the queues itself, by a switch or by a listing: those ask again.         *)
StaleSizeHasCause ==
    [][\A v \in Views :
        SizeIsAccountedFor(v) => SizeIsAccountedFor(v)' \/ GoesStale(v)]_vars
=============================================================================
