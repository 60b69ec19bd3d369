-------------------------------- MODULE VirgilUI --------------------------------
(***************************************************************************)
(* src/npm/custom/src/custom.vue: the Virgil tab of Spring Boot Admin.      *)
(*                                                                         *)
(* A view (one mounted component) has four values that its handlers share:  *)
(* the selectable queues, the current one, its size and the listed          *)
(* messages.  A handler is an async function: it sends a request, waits,    *)
(* and goes on with the answer and with whatever the view holds by then.    *)
(* Any number of handlers wait at the same time, and answers come back in   *)
(* any order.  The application's answers are chosen freely here;            *)
(* VirgilConsole takes them from the queues.  A visit that is left is a     *)
(* view nobody acts on any more: the next visit mounts another.             *)
(*                                                                         *)
(* A row of the list and a size carry the queue they were answered for;     *)
(* the program keeps no such thing, only the properties look at it.         *)
(***************************************************************************)
EXTENDS Integers, FiniteSets, Sequences, Functions

CONSTANTS
    Views,
    Calls,          \* handlers that may wait at the same time: a bound
    QueueIds,
    NoQueue,        \* ''
    QueueNames,     \* the answer of get-queues
    RowIds,         \* ids of listed messages
    Sizes,          \* sizes the application may answer
    Limit,          \* 200: limit of a listing
    Patient,        \* whether users wait for the answers before they act again
    Ordered,        \* whether answers come in the order of the requests
    Faulty          \* whether requests can fail

ASSUME QueueNamesAssumption == QueueNames \in Seq(QueueIds) /\ NoQueue \notin QueueIds
ASSUME SizesAssumption == Sizes \subseteq Nat /\ Limit \in Nat
ASSUME ModesAssumption == Patient \in BOOLEAN /\ Ordered \in BOOLEAN /\ Faulty \in BOOLEAN

VARIABLES
    mounted,
    availableQueues,
    currentQueueId,
    queueSize,
    dlqMessages,
    handler,        \* what each call is waiting for
    before          \* the view's requests that were sent earlier and still wait

viewVars == <<mounted, availableQueues, currentQueueId, queueSize, dlqMessages>>
uiVars == <<viewVars, handler, before>>

Queue == QueueIds \cup {NoQueue}
Rows == [queue : Queue, id : RowIds]
NoRow == [queue |-> NoQueue, id |-> NoQueue]
NotRead == [of |-> NoQueue, size |-> -1]

(* The endpoints, each with the handlers that request it.                   *)
Mutating == {"drop-message", "publish-message"}
EndpointIds == Mutating \cup
    {"get-queues", "get-queue-size", "get-dlq-messages", "drop-all-messages"}

Waiting == [view : Views, endpoint : EndpointIds, queueId : Queue, row : Rows \cup {NoRow}]
Idle == [endpoint |-> "none"]

UITypeOK ==
    /\ mounted \in [Views -> BOOLEAN]
    /\ availableQueues \in [Views -> Seq(QueueIds)]
    /\ currentQueueId \in [Views -> Queue]
    /\ queueSize \in [Views -> [of : QueueIds, size : Nat] \cup {NotRead}]
    /\ dlqMessages \in [Views -> SUBSET Rows]
    /\ handler \in [Calls -> Waiting \cup {Idle}]
    /\ before \in [Calls -> SUBSET Calls]

UIInit ==
    /\ mounted = [v \in Views |-> FALSE]
    /\ availableQueues = [v \in Views |-> <<>>]
    /\ currentQueueId = [v \in Views |-> NoQueue]
    /\ queueSize = [v \in Views |-> NotRead]
    /\ dlqMessages = [v \in Views |-> {}]
    /\ handler = [c \in Calls |-> Idle]
    /\ before = [c \in Calls |-> {}]

-----------------------------------------------------------------------------
Busy(c) == handler[c] # Idle
InFlight(v) == {c \in Calls : Busy(c) /\ handler[c].view = v}
Awaits(c, endpoint) == Busy(c) /\ handler[c].endpoint = endpoint

(* EndpointService.get, post and getQueueSize, up to their await.           *)
Send(c, v, endpoint, queueId, row) ==
    /\ handler' = [handler EXCEPT ![c] =
         [view |-> v, endpoint |-> endpoint, queueId |-> queueId, row |-> row]]
    /\ before' = [d \in Calls |-> IF d = c THEN InFlight(v) \ {c} ELSE before[d] \ {c}]

(* A handler returns or throws.                                             *)
End(c) ==
    /\ handler' = [handler EXCEPT ![c] = Idle]
    /\ before' = [d \in Calls |-> IF d = c THEN {} ELSE before[d] \ {c}]

(* An event of the user starts a handler.                                   *)
Start(v, endpoint, queueId, row) ==
    /\ Patient => InFlight(v) = {}
    /\ \E c \in Calls : ~Busy(c) /\ Send(c, v, endpoint, queueId, row)

(* The answer to c's request arrives.                                       *)
Arrives(c) == Busy(c) /\ (Ordered => before[c] = {})

(* this.getQueueSize(): the queue is the one that is current now.           *)
GetQueueSize(c) ==
    Send(c, handler[c].view, "get-queue-size", currentQueueId[handler[c].view], handler[c].row)

-----------------------------------------------------------------------------
(* The queues a user can pick: the change of the selection is an event only *)
(* if it is a change.                                                       *)
Options(v) == Range(availableQueues[v]) \ {currentQueueId[v]}

(* mounted(): the view opens.                                               *)
Mount(v) ==
    /\ ~mounted[v]
    /\ mounted' = [mounted EXCEPT ![v] = TRUE]
    /\ Start(v, "get-queues", NoQueue, NoRow)
    /\ UNCHANGED <<availableQueues, currentQueueId, queueSize, dlqMessages>>

(* Slip: the list is not cleared.                                           *)
SelectWithoutClearing(v, q) ==
    /\ mounted[v] /\ q \in Options(v)
    /\ currentQueueId' = [currentQueueId EXCEPT ![v] = q]
    /\ Start(v, "get-queue-size", q, NoRow)
    /\ UNCHANGED <<mounted, availableQueues, queueSize, dlqMessages>>

(* Slip: the watcher asks for the size of the queue that was left.          *)
SelectAsksOldSize(v, q) ==
    /\ mounted[v] /\ q \in Options(v)
    /\ currentQueueId' = [currentQueueId EXCEPT ![v] = q]
    /\ dlqMessages' = [dlqMessages EXCEPT ![v] = {}]
    /\ Start(v, "get-queue-size", currentQueueId[v], NoRow)
    /\ UNCHANGED <<mounted, availableQueues, queueSize>>

(* The user picks another queue; the watcher runs in the same tick.  The    *)
(* size shown stays until the answer is there.                              *)
Select(v, q) ==
    /\ mounted[v] /\ q \in Options(v)
    /\ currentQueueId' = [currentQueueId EXCEPT ![v] = q]
    /\ dlqMessages' = [dlqMessages EXCEPT ![v] = {}]
    /\ Start(v, "get-queue-size", q, NoRow)
    /\ UNCHANGED <<mounted, availableQueues, queueSize>>

(* The buttons of a row.  The row stays in the list.                        *)
OnDropMessage(v, row) ==
    /\ mounted[v] /\ row \in dlqMessages[v]
    /\ Start(v, "drop-message", currentQueueId[v], row)
    /\ UNCHANGED viewVars

OnRepublishMessage(v, row) ==
    /\ mounted[v] /\ row \in dlqMessages[v]
    /\ Start(v, "publish-message", currentQueueId[v], row)
    /\ UNCHANGED viewVars

(* "Get Items" and "Drop All Items", also while no queue is selected.       *)
OnGetAllDLQMessages(v) ==
    /\ mounted[v]
    /\ Start(v, "get-dlq-messages", currentQueueId[v], NoRow)
    /\ UNCHANGED viewVars

OnDropAllDLQMessages(v) ==
    /\ mounted[v]
    /\ Start(v, "drop-all-messages", currentQueueId[v], NoRow)
    /\ UNCHANGED viewVars

-----------------------------------------------------------------------------
(* mounted() goes on: the queues are stored; the argument currentQueueId    *)
(* of the next $set is no variable in scope, so the function throws.        *)
QueuesArrive(c) ==
    /\ Arrives(c) /\ Awaits(c, "get-queues")
    /\ availableQueues' = [availableQueues EXCEPT ![handler[c].view] = QueueNames]
    /\ End(c)
    /\ UNCHANGED <<mounted, currentQueueId, queueSize, dlqMessages>>

(* Slip: the size is not asked for again.                                   *)
SuccessArrivesSilently(c) ==
    /\ Arrives(c) /\ handler[c].endpoint \in Mutating
    /\ End(c)
    /\ UNCHANGED viewVars

(* onDropMessage and onRepublishMessage go on.                              *)
SuccessArrives(c) ==
    /\ Arrives(c) /\ handler[c].endpoint \in Mutating
    /\ GetQueueSize(c)
    /\ UNCHANGED viewVars

FailureArrives(c) ==
    /\ Arrives(c) /\ handler[c].endpoint \in Mutating
    /\ End(c)
    /\ UNCHANGED viewVars

(* onDropAllDLQMessages goes on; it does not look at the answer, and the    *)
(* list stays.                                                              *)
DropAllArrives(c) ==
    /\ Arrives(c) /\ Awaits(c, "drop-all-messages")
    /\ GetQueueSize(c)
    /\ UNCHANGED viewVars

(* onGetAllDLQMessages goes on.                                             *)
MessagesArrive(c, rows) ==
    /\ Arrives(c) /\ Awaits(c, "get-dlq-messages")
    /\ dlqMessages' = [dlqMessages EXCEPT ![handler[c].view] = rows]
    /\ GetQueueSize(c)
    /\ UNCHANGED <<mounted, availableQueues, currentQueueId, queueSize>>

(* Slip: the size is asked for again and again.                             *)
SizeArrivesAndPolls(c, size) ==
    /\ Arrives(c) /\ Awaits(c, "get-queue-size")
    /\ queueSize' = [queueSize EXCEPT ![handler[c].view] = size]
    /\ GetQueueSize(c)
    /\ UNCHANGED <<mounted, availableQueues, currentQueueId, dlqMessages>>

(* getQueueSize, or the watcher, stores the size and ends.                  *)
SizeArrives(c, size) ==
    /\ Arrives(c) /\ Awaits(c, "get-queue-size")
    /\ queueSize' = [queueSize EXCEPT ![handler[c].view] = size]
    /\ End(c)
    /\ UNCHANGED <<mounted, availableQueues, currentQueueId, dlqMessages>>

(* Slip: the error is caught, and stored as a size that is not there.       *)
RejectedStoresNothing(c) ==
    /\ Arrives(c) /\ Awaits(c, "get-queue-size")
    /\ queueSize' = [queueSize EXCEPT ![handler[c].view] = [of |-> handler[c].queueId, size |-> -1]]
    /\ End(c)
    /\ UNCHANGED <<mounted, availableQueues, currentQueueId, dlqMessages>>

(* axios throws, and so does the handler.  The size of no queue is always   *)
(* refused: its URL ends where the queue should be.                         *)
Rejected(c) ==
    /\ Arrives(c)
    /\ Faulty \/ (Awaits(c, "get-queue-size") /\ handler[c].queueId = NoQueue)
    /\ End(c)
    /\ UNCHANGED viewVars

-----------------------------------------------------------------------------
(* Answers of the right kind: messages and sizes of the queue asked for.    *)
RowsOf(q) == IF q = NoQueue THEN {} ELSE [queue : {q}, id : RowIds]
SizesOf(q) == IF q = NoQueue THEN {} ELSE [of : {q}, size : Sizes]

Event(v) ==
    \/ Mount(v)
    \/ \E q \in QueueIds : Select(v, q)
    \/ \E row \in dlqMessages[v] : OnDropMessage(v, row)
    \/ \E row \in dlqMessages[v] : OnRepublishMessage(v, row)
    \/ OnGetAllDLQMessages(v)
    \/ OnDropAllDLQMessages(v)

Answer(c) ==
    \/ QueuesArrive(c)
    \/ SuccessArrives(c)
    \/ FailureArrives(c)
    \/ DropAllArrives(c)
    \/ Busy(c) /\ \E rows \in SUBSET RowsOf(handler[c].queueId) :
        Cardinality(rows) <= Limit /\ MessagesArrive(c, rows)
    \/ Busy(c) /\ \E size \in SizesOf(handler[c].queueId) : SizeArrives(c, size)
    \/ Rejected(c)

UINext ==
    \/ \E v \in Views : Event(v)
    \/ \E c \in Calls : Answer(c)

UISpec == UIInit /\ [][UINext]_uiVars

(* Every request is answered or fails; users need not do anything.          *)
UIFairSpec == UISpec /\ \A c \in Calls : WF_uiVars(Answer(c))

-----------------------------------------------------------------------------
Settled(v) == InFlight(v) = {}

(* The rows under the name of a queue are messages of that queue, and a     *)
(* request to drop or republish goes to the queue its message was listed    *)
(* from.  Both need users who wait: see WrongListHasCause.                  *)
ListIsRight(v) == \A row \in dlqMessages[v] : row.queue = currentQueueId[v]
RequestIsRight(c) ==
    Busy(c) /\ handler[c].endpoint \in Mutating => handler[c].queueId = handler[c].row.queue

(* c asked about a queue that is no longer the selected one.                *)
Late(c) == handler[c].queueId # currentQueueId[handler[c].view]

(* Whatever users do while they wait, and in whatever order answers come or *)
(* fail: a list gets rows of another queue only from a listing that was     *)
(* asked for before the last switch and arrives after it; until one does,   *)
(* no button of the list acts on another queue than the row was listed      *)
(* from.  The switch itself, and the handlers of the buttons, do no harm.   *)
WrongListHasCause ==
    [][\A v \in Views : ListIsRight(v) =>
        /\ \/ ListIsRight(v)'
           \/ \E c \in InFlight(v) :
                /\ Awaits(c, "get-dlq-messages") /\ Late(c) /\ handler'[c] # handler[c]
                /\ \A row \in dlqMessages'[v] : row.queue = handler[c].queueId
        /\ \A c \in Calls :
             handler'[c] # handler[c] /\ c \in InFlight(v)' => RequestIsRight(c)']_uiVars

(* The size shown is that of the selected queue, or that size is asked for. *)
SizeIsOrComes(v) ==
    \/ currentQueueId[v] \in {NoQueue, queueSize[v].of}
    \/ \E c \in InFlight(v) : Awaits(c, "get-queue-size") /\ ~Late(c)

(* Whatever users do, and in whatever order answers come or fail: a view is *)
(* left with the size of another queue only when the size of a queue that   *)
(* was left arrives after its own, or when the request for its own fails.   *)
WrongSizeHasCause ==
    [][\A v \in Views : SizeIsOrComes(v) =>
        \/ SizeIsOrComes(v)'
        \/ \E c \in InFlight(v) :
            /\ Awaits(c, "get-queue-size") /\ handler'[c] = Idle
            /\ IF Late(c) THEN queueSize'[v].of = handler[c].queueId
                          ELSE Faulty /\ UNCHANGED queueSize]_uiVars

(* When nothing is in flight, the size under the name of a queue is that    *)
(* queue's.  Needs that no request fails, and that users wait or answers    *)
(* come in order.                                                           *)
SizeIsOfCurrentQueue ==
    \A v \in Views :
        Settled(v) /\ currentQueueId[v] # NoQueue => queueSize[v].of = currentQueueId[v]

(* No handler waits, or keeps asking, for ever.                             *)
EveryHandlerEnds == \A c \in Calls : Busy(c) ~> ~Busy(c)

(* A queue that stays selected gets its own size shown, whatever else is    *)
(* clicked meanwhile.  Needs answers in the order of the requests, and none *)
(* that fails.                                                              *)
SelectedSizeIsShown ==
    \A v \in Views, q \in QueueIds :
        currentQueueId[v] = q ~> (queueSize[v].of = q \/ currentQueueId[v] # q)

=============================================================================
