---------------------------- MODULE VirgilUI_proofs ----------------------------
(***************************************************************************)
(* Theorems about the view, for any number of views, handlers and queues.   *)
(***************************************************************************)
EXTENDS VirgilUI, TLAPS

USE DEF Queue, Rows, NoRow

(* What a request that is sent, and a handler that ends, leave behind.      *)
LEMMA SendKeepsType ==
    ASSUME UITypeOK, NEW c \in Calls, NEW v \in Views, NEW endpoint \in EndpointIds,
           NEW q \in Queue, NEW row \in Rows \cup {NoRow}, Send(c, v, endpoint, q, row)
    PROVE  /\ handler' \in [Calls -> Waiting \cup {Idle}]
           /\ before' \in [Calls -> SUBSET Calls]
<1>1. [view |-> v, endpoint |-> endpoint, queueId |-> q, row |-> row] \in Waiting
  BY DEF Waiting
<1>2. handler' \in [Calls -> Waiting \cup {Idle}]
  BY <1>1 DEF UITypeOK, Send
<1>3. before' \in [Calls -> SUBSET Calls]
  BY DEF UITypeOK, Send, InFlight
<1>4. QED
  BY <1>2, <1>3

LEMMA EndKeepsType ==
    ASSUME UITypeOK, NEW c \in Calls, End(c)
    PROVE  /\ handler' \in [Calls -> Waiting \cup {Idle}]
           /\ before' \in [Calls -> SUBSET Calls]
BY DEF UITypeOK, End

LEMMA BusyType ==
    ASSUME UITypeOK, NEW c \in Calls, Busy(c)
    PROVE  /\ handler[c] \in Waiting
           /\ handler[c].view \in Views
           /\ handler[c].endpoint \in EndpointIds
           /\ handler[c].queueId \in Queue
           /\ handler[c].row \in Rows \cup {NoRow}
BY DEF UITypeOK, Busy, Waiting

LEMMA StartKeepsType ==
    ASSUME UITypeOK, NEW v \in Views, NEW endpoint \in EndpointIds,
           NEW q \in Queue, NEW row \in Rows \cup {NoRow}, Start(v, endpoint, q, row)
    PROVE  /\ handler' \in [Calls -> Waiting \cup {Idle}]
           /\ before' \in [Calls -> SUBSET Calls]
BY SendKeepsType DEF Start

LEMMA GetQueueSizeKeepsType ==
    ASSUME UITypeOK, NEW c \in Calls, Busy(c), GetQueueSize(c)
    PROVE  /\ handler' \in [Calls -> Waiting \cup {Idle}]
           /\ before' \in [Calls -> SUBSET Calls]
<1>1. "get-queue-size" \in EndpointIds
  BY DEF EndpointIds
<1>2. currentQueueId[handler[c].view] \in Queue
  BY BusyType DEF UITypeOK
<1>3. QED
  BY <1>1, <1>2, BusyType, SendKeepsType DEF GetQueueSize

LEMMA TypeInit == UIInit => UITypeOK
BY DEF UIInit, UITypeOK, NotRead

LEMMA TypeStep == UITypeOK /\ [UINext]_uiVars => UITypeOK'
<1> SUFFICES ASSUME UITypeOK, [UINext]_uiVars PROVE UITypeOK'
  OBVIOUS
<1> USE QueueNamesAssumption, SizesAssumption
<1>e. EndpointIds = {"drop-message", "publish-message", "get-queues", "get-queue-size",
                     "get-dlq-messages", "drop-all-messages"}
  BY DEF EndpointIds, Mutating
<1>1. ASSUME NEW v \in Views, Mount(v) PROVE UITypeOK'
  <2>1. NoQueue \in Queue /\ NoRow \in Rows \cup {NoRow}
    OBVIOUS
  <2>2. handler' \in [Calls -> Waiting \cup {Idle}] /\ before' \in [Calls -> SUBSET Calls]
    BY <1>1, <1>e, <2>1, StartKeepsType DEF Mount
  <2>3. QED
    BY <1>1, <2>2 DEF Mount, UITypeOK
<1>2. ASSUME NEW v \in Views, NEW q \in QueueIds, Select(v, q) PROVE UITypeOK'
  <2>1. handler' \in [Calls -> Waiting \cup {Idle}] /\ before' \in [Calls -> SUBSET Calls]
    BY <1>2, <1>e, StartKeepsType DEF Select
  <2>2. QED
    BY <1>2, <2>1 DEF Select, UITypeOK
<1>3. ASSUME NEW v \in Views, NEW row \in dlqMessages[v],
             OnDropMessage(v, row) \/ OnRepublishMessage(v, row)
      PROVE UITypeOK'
  <2>1. row \in Rows \cup {NoRow} /\ currentQueueId[v] \in Queue
    BY DEF UITypeOK
  <2>2. handler' \in [Calls -> Waiting \cup {Idle}] /\ before' \in [Calls -> SUBSET Calls]
    BY <1>3, <1>e, <2>1, StartKeepsType DEF OnDropMessage, OnRepublishMessage
  <2>3. QED
    BY <1>3, <2>2 DEF OnDropMessage, OnRepublishMessage, viewVars, UITypeOK
<1>4. ASSUME NEW v \in Views, OnGetAllDLQMessages(v) \/ OnDropAllDLQMessages(v) PROVE UITypeOK'
  <2>1. currentQueueId[v] \in Queue /\ NoRow \in Rows \cup {NoRow}
    BY DEF UITypeOK
  <2>2. handler' \in [Calls -> Waiting \cup {Idle}] /\ before' \in [Calls -> SUBSET Calls]
    BY <1>4, <1>e, <2>1, StartKeepsType DEF OnGetAllDLQMessages, OnDropAllDLQMessages
  <2>3. QED
    BY <1>4, <2>2 DEF OnGetAllDLQMessages, OnDropAllDLQMessages, viewVars, UITypeOK
<1>5. ASSUME NEW c \in Calls, QueuesArrive(c) PROVE UITypeOK'
  BY <1>5, EndKeepsType DEF QueuesArrive, UITypeOK
<1>6. ASSUME NEW c \in Calls, SuccessArrives(c) \/ DropAllArrives(c) PROVE UITypeOK'
  BY <1>6, GetQueueSizeKeepsType DEF SuccessArrives, DropAllArrives, Arrives, viewVars, UITypeOK
<1>7. ASSUME NEW c \in Calls, FailureArrives(c) \/ Rejected(c) PROVE UITypeOK'
  BY <1>7, EndKeepsType DEF FailureArrives, Rejected, viewVars, UITypeOK
<1>8. ASSUME NEW c \in Calls, Busy(c), NEW rows \in SUBSET RowsOf(handler[c].queueId),
             MessagesArrive(c, rows)
      PROVE UITypeOK'
  <2>1. rows \in SUBSET Rows
    BY <1>8, BusyType DEF RowsOf
  <2>2. handler' \in [Calls -> Waiting \cup {Idle}] /\ before' \in [Calls -> SUBSET Calls]
    BY <1>8, GetQueueSizeKeepsType DEF MessagesArrive
  <2>3. QED
    BY <1>8, <2>1, <2>2 DEF MessagesArrive, UITypeOK
<1>9. ASSUME NEW c \in Calls, Busy(c), NEW size \in SizesOf(handler[c].queueId),
             SizeArrives(c, size)
      PROVE UITypeOK'
  <2>1. size \in [of : QueueIds, size : Nat]
    BY <1>9, BusyType DEF SizesOf
  <2>2. QED
    BY <1>9, <2>1, EndKeepsType DEF SizeArrives, UITypeOK
<1>10. CASE UNCHANGED uiVars
  BY <1>10 DEF uiVars, viewVars, UITypeOK
<1>11. QED
  BY <1>1, <1>2, <1>3, <1>4, <1>5, <1>6, <1>7, <1>8, <1>9, <1>10 DEF UINext, Event, Answer

(* The values of a view and of its handlers always have their types.        *)
THEOREM UITypeCorrect == UISpec => []UITypeOK
BY TypeInit, TypeStep, PTL DEF UISpec

-----------------------------------------------------------------------------
(* Patient users.  At most one handler of a view waits, so a handler that   *)
(* goes on finds the queue it has asked about still selected: this is what  *)
(* ListIsOfCurrentQueue and ActsOnListedQueue need to be inductive.         *)
OneAtATime ==
    \A c, d \in Calls :
        Busy(c) /\ Busy(d) /\ handler[c].view = handler[d].view => c = d

AsksForCurrent ==
    \A c \in Calls :
        Busy(c) /\ handler[c].endpoint # "get-queues" =>
            handler[c].queueId = currentQueueId[handler[c].view]

ListIsOfCurrentQueue == \A v \in Views : ListIsRight(v)
ActsOnListedQueue == \A c \in Calls : RequestIsRight(c)

PatientInv ==
    /\ UITypeOK
    /\ OneAtATime
    /\ AsksForCurrent
    /\ ListIsOfCurrentQueue
    /\ ActsOnListedQueue

LEMMA StartWhenPatient ==
    ASSUME PatientInv, Patient, NEW v \in Views, NEW endpoint \in EndpointIds,
           NEW q \in Queue, NEW row \in Rows \cup {NoRow}, Start(v, endpoint, q, row)
    PROVE  /\ \A c \in Calls : Busy(c) => handler[c].view # v
           /\ \E c \in Calls :
                /\ ~Busy(c)
                /\ handler'[c] = [view |-> v, endpoint |-> endpoint, queueId |-> q, row |-> row]
                /\ \A d \in Calls \ {c} : handler'[d] = handler[d]
BY DEF PatientInv, UITypeOK, Start, Send, InFlight

(* A step that starts a handler of v and leaves the other views' selection   *)
(* alone keeps what is said of handlers, if the request is about the queue   *)
(* that is selected then and its row is of that queue.                      *)
LEMMA StartKeepsPatientInv ==
    ASSUME PatientInv, Patient, NEW v \in Views, NEW endpoint \in EndpointIds,
           NEW q \in Queue, NEW row \in Rows \cup {NoRow}, Start(v, endpoint, q, row),
           \A u \in Views \ {v} : currentQueueId'[u] = currentQueueId[u],
           endpoint # "get-queues" => q = currentQueueId'[v],
           endpoint \in Mutating => q = row.queue
    PROVE  OneAtATime' /\ AsksForCurrent' /\ ActsOnListedQueue'
<1>1. /\ \A c \in Calls : Busy(c) => handler[c].view # v
      /\ \E c \in Calls :
            /\ ~Busy(c)
            /\ handler'[c] = [view |-> v, endpoint |-> endpoint, queueId |-> q, row |-> row]
            /\ \A d \in Calls \ {c} : handler'[d] = handler[d]
  BY StartWhenPatient
<1>2. PICK c \in Calls :
        /\ ~Busy(c)
        /\ handler'[c] = [view |-> v, endpoint |-> endpoint, queueId |-> q, row |-> row]
        /\ \A d \in Calls \ {c} : handler'[d] = handler[d]
  BY <1>1
<1>3. \A d \in Calls \ {c} : Busy(d)' => Busy(d) /\ handler'[d] = handler[d] /\ handler[d].view # v
  BY <1>1, <1>2 DEF Busy
<1>4. OneAtATime'
  BY <1>2, <1>3 DEF PatientInv, OneAtATime
<1>5. AsksForCurrent'
  <2>1. \A d \in Calls : Busy(d) => handler[d].view \in Views
    BY BusyType DEF PatientInv
  <2>2. QED
    BY <1>2, <1>3, <2>1 DEF PatientInv, AsksForCurrent
<1>6. ActsOnListedQueue'
  BY <1>2, <1>3 DEF PatientInv, ActsOnListedQueue, RequestIsRight
<1>7. QED
  BY <1>4, <1>5, <1>6

(* A handler that goes on with the size of the selected queue, or ends.     *)
LEMMA GoOnKeepsPatientInv ==
    ASSUME PatientInv, NEW c \in Calls, Busy(c), End(c) \/ GetQueueSize(c),
           UNCHANGED currentQueueId
    PROVE  OneAtATime' /\ AsksForCurrent' /\ ActsOnListedQueue'
<1>1. \A d \in Calls \ {c} : handler'[d] = handler[d]
  BY DEF PatientInv, UITypeOK, End, GetQueueSize, Send
<1>2. \/ handler'[c] = Idle
      \/ /\ handler'[c].view = handler[c].view
         /\ handler'[c].endpoint = "get-queue-size"
         /\ handler'[c].queueId = currentQueueId[handler[c].view]
  BY DEF PatientInv, UITypeOK, End, GetQueueSize, Send
<1>3. \A d \in Calls : Busy(d)' => Busy(d) /\ handler'[d].view = handler[d].view
  BY <1>1, <1>2 DEF Busy
<1>4. OneAtATime'
  BY <1>3 DEF PatientInv, OneAtATime
<1>5. AsksForCurrent'
  BY <1>1, <1>2, <1>3 DEF PatientInv, AsksForCurrent, Busy
<1>6. ActsOnListedQueue'
  BY <1>1, <1>2, <1>3 DEF PatientInv, ActsOnListedQueue, RequestIsRight, Busy, Mutating
<1>7. QED
  BY <1>4, <1>5, <1>6

LEMMA PatientInit == UIInit => PatientInv
<1> SUFFICES ASSUME UIInit PROVE PatientInv
  OBVIOUS
<1>1. \A c \in Calls : ~Busy(c)
  BY DEF UIInit, Busy
<1>2. \A v \in Views : dlqMessages[v] = {}
  BY DEF UIInit
<1>3. QED
  BY <1>1, <1>2, TypeInit
     DEF PatientInv, OneAtATime, AsksForCurrent, ListIsOfCurrentQueue, ListIsRight, ActsOnListedQueue, RequestIsRight

LEMMA PatientStep ==
    ASSUME Patient, PatientInv, [UINext]_uiVars
    PROVE  PatientInv'
<1>t. UITypeOK /\ UITypeOK'
  BY TypeStep DEF PatientInv
<1>e. EndpointIds = {"drop-message", "publish-message", "get-queues", "get-queue-size",
                     "get-dlq-messages", "drop-all-messages"}
  BY DEF EndpointIds, Mutating
<1>1. ASSUME NEW v \in Views, Mount(v) PROVE PatientInv'
  <2>1. Start(v, "get-queues", NoQueue, NoRow) /\ UNCHANGED <<currentQueueId, dlqMessages>>
    BY <1>1 DEF Mount
  <2>2. OneAtATime' /\ AsksForCurrent' /\ ActsOnListedQueue'
    BY <2>1, <1>e, StartKeepsPatientInv DEF Mutating
  <2>3. QED
    BY <1>t, <2>1, <2>2 DEF PatientInv, ListIsOfCurrentQueue, ListIsRight
<1>2. ASSUME NEW v \in Views, NEW q \in QueueIds, Select(v, q) PROVE PatientInv'
  <2>1. /\ Start(v, "get-queue-size", q, NoRow)
        /\ currentQueueId'[v] = q
        /\ \A u \in Views \ {v} : currentQueueId'[u] = currentQueueId[u]
        /\ dlqMessages'[v] = {}
        /\ \A u \in Views \ {v} : dlqMessages'[u] = dlqMessages[u]
    BY <1>2, <1>t DEF Select, UITypeOK
  <2>2. OneAtATime' /\ AsksForCurrent' /\ ActsOnListedQueue'
    BY <2>1, <1>e, StartKeepsPatientInv DEF Mutating
  <2>3. ListIsOfCurrentQueue'
    BY <2>1 DEF PatientInv, ListIsOfCurrentQueue, ListIsRight
  <2>4. QED
    BY <1>t, <2>2, <2>3 DEF PatientInv
<1>3. ASSUME NEW v \in Views, NEW row \in dlqMessages[v],
             OnDropMessage(v, row) \/ OnRepublishMessage(v, row)
      PROVE PatientInv'
  <2>1. \E endpoint \in Mutating : Start(v, endpoint, currentQueueId[v], row)
    BY <1>3 DEF OnDropMessage, OnRepublishMessage, Mutating
  <2>2. UNCHANGED <<currentQueueId, dlqMessages>>
    BY <1>3 DEF OnDropMessage, OnRepublishMessage, viewVars
  <2>3. row \in Rows /\ currentQueueId[v] \in Queue /\ row.queue = currentQueueId[v]
    BY <1>t DEF UITypeOK, PatientInv, ListIsOfCurrentQueue, ListIsRight
  <2>4. OneAtATime' /\ AsksForCurrent' /\ ActsOnListedQueue'
    BY <2>1, <2>2, <2>3, <1>e, StartKeepsPatientInv DEF Mutating
  <2>5. QED
    BY <1>t, <2>2, <2>4 DEF PatientInv, ListIsOfCurrentQueue, ListIsRight
<1>4. ASSUME NEW v \in Views, OnGetAllDLQMessages(v) \/ OnDropAllDLQMessages(v)
      PROVE PatientInv'
  <2>1. \E endpoint \in {"get-dlq-messages", "drop-all-messages"} :
            Start(v, endpoint, currentQueueId[v], NoRow)
    BY <1>4 DEF OnGetAllDLQMessages, OnDropAllDLQMessages
  <2>2. UNCHANGED <<currentQueueId, dlqMessages>>
    BY <1>4 DEF OnGetAllDLQMessages, OnDropAllDLQMessages, viewVars
  <2>3. currentQueueId[v] \in Queue
    BY <1>t DEF UITypeOK
  <2>4. OneAtATime' /\ AsksForCurrent' /\ ActsOnListedQueue'
    BY <2>1, <2>2, <2>3, <1>e, StartKeepsPatientInv DEF Mutating
  <2>5. QED
    BY <1>t, <2>2, <2>4 DEF PatientInv, ListIsOfCurrentQueue, ListIsRight
<1>5. ASSUME NEW c \in Calls,
             \/ QueuesArrive(c) \/ SuccessArrives(c) \/ FailureArrives(c)
             \/ DropAllArrives(c) \/ Rejected(c)
             \/ \E size \in SizesOf(handler[c].queueId) : SizeArrives(c, size)
      PROVE PatientInv'
  <2>1. Busy(c) /\ (End(c) \/ GetQueueSize(c)) /\ UNCHANGED <<currentQueueId, dlqMessages>>
    BY <1>5 DEF QueuesArrive, SuccessArrives, FailureArrives, DropAllArrives, Rejected,
                SizeArrives, Arrives, viewVars
  <2>2. OneAtATime' /\ AsksForCurrent' /\ ActsOnListedQueue'
    BY <2>1, GoOnKeepsPatientInv
  <2>3. QED
    BY <1>t, <2>1, <2>2 DEF PatientInv, ListIsOfCurrentQueue, ListIsRight
<1>6. ASSUME NEW c \in Calls, Busy(c), NEW rows \in SUBSET RowsOf(handler[c].queueId),
             MessagesArrive(c, rows)
      PROVE PatientInv'
  <2>1. GetQueueSize(c) /\ UNCHANGED currentQueueId
    BY <1>6 DEF MessagesArrive
  <2>2. OneAtATime' /\ AsksForCurrent' /\ ActsOnListedQueue'
    BY <1>6, <2>1, GoOnKeepsPatientInv
  <2>3. handler[c].queueId = currentQueueId[handler[c].view]
    BY <1>6 DEF MessagesArrive, Awaits, PatientInv, AsksForCurrent
  <2>4. \A row \in rows : row.queue = handler[c].queueId
    BY <1>6 DEF RowsOf
  <2>5. ListIsOfCurrentQueue'
    BY <1>6, <1>t, <2>1, <2>3, <2>4 DEF MessagesArrive, PatientInv, UITypeOK, ListIsOfCurrentQueue, ListIsRight
  <2>6. QED
    BY <1>t, <2>2, <2>5 DEF PatientInv
<1>7. CASE UNCHANGED uiVars
  BY <1>7, <1>t
     DEF uiVars, viewVars, PatientInv, OneAtATime, AsksForCurrent, ListIsOfCurrentQueue, ListIsRight,
         ActsOnListedQueue, RequestIsRight, Busy
<1>8. QED
  BY <1>1, <1>2, <1>3, <1>4, <1>5, <1>6, <1>7 DEF UINext, Event, Answer

-----------------------------------------------------------------------------
(* Impatient users, answers in any order, requests that fail.  Every step   *)
(* starts one handler, lets one go on with a request for the size of the    *)
(* selected queue, or ends one.                                             *)
LEMMA StartsOne ==
    ASSUME UITypeOK, NEW u \in Views, NEW endpoint, NEW q, NEW row, Start(u, endpoint, q, row)
    PROVE  \E c \in Calls :
            /\ ~Busy(c)
            /\ handler'[c] = [view |-> u, endpoint |-> endpoint, queueId |-> q, row |-> row]
            /\ \A d \in Calls \ {c} : handler'[d] = handler[d]
BY DEF UITypeOK, Start, Send

LEMMA AnswerGoesOn ==
    ASSUME UITypeOK, NEW c \in Calls, Answer(c)
    PROVE  /\ Busy(c) /\ handler[c].view \in Views
           /\ UNCHANGED currentQueueId
           /\ \A d \in Calls \ {c} : handler'[d] = handler[d]
           /\ \/ handler'[c] = Idle
              \/ /\ handler[c].endpoint # "get-queue-size"
                 /\ handler'[c].endpoint = "get-queue-size"
<1>1. Busy(c) /\ UNCHANGED currentQueueId
  BY DEF Answer, QueuesArrive, SuccessArrives, FailureArrives, DropAllArrives, MessagesArrive,
         SizeArrives, Rejected, Arrives, viewVars
<1>2. End(c) \/ (GetQueueSize(c) /\ handler[c].endpoint # "get-queue-size")
  BY DEF Answer, QueuesArrive, SuccessArrives, FailureArrives, DropAllArrives, MessagesArrive,
         SizeArrives, Rejected, Awaits, Mutating
<1>3. \A d \in Calls \ {c} : handler'[d] = handler[d]
  BY <1>2 DEF UITypeOK, End, GetQueueSize, Send
<1>4. handler'[c] = Idle \/ (GetQueueSize(c) /\ handler[c].endpoint # "get-queue-size")
  BY <1>2 DEF UITypeOK, End
<1>5. GetQueueSize(c) => handler'[c].endpoint = "get-queue-size"
  BY DEF UITypeOK, GetQueueSize, Send
<1>6. QED
  BY <1>1, <1>3, <1>4, <1>5, BusyType

(* A request that starts is about a row of the list it starts from, if it   *)
(* is about a row.                                                          *)
LEMMA StartedIsRight ==
    ASSUME UITypeOK, NEW u \in Views, NEW endpoint, NEW q, NEW row, Start(u, endpoint, q, row),
           NEW v \in Views, u = v /\ endpoint \in Mutating => q = row.queue
    PROVE  \A c \in Calls : handler'[c] # handler[c] /\ c \in InFlight(v)' => RequestIsRight(c)'
<1>1. PICK c \in Calls :
        /\ ~Busy(c)
        /\ handler'[c] = [view |-> u, endpoint |-> endpoint, queueId |-> q, row |-> row]
        /\ \A d \in Calls \ {c} : handler'[d] = handler[d]
  BY StartsOne
<1>2. /\ handler'[c].view = u /\ handler'[c].endpoint = endpoint
      /\ handler'[c].queueId = q /\ handler'[c].row = row
  BY <1>1
<1>3. QED
  BY <1>1, <1>2 DEF InFlight, RequestIsRight

LEMMA ListStep ==
    ASSUME UITypeOK, [UINext]_uiVars, NEW v \in Views, ListIsRight(v)
    PROVE  /\ \/ ListIsRight(v)'
              \/ \E c \in InFlight(v) :
                    /\ Awaits(c, "get-dlq-messages") /\ Late(c) /\ handler'[c] # handler[c]
                    /\ \A row \in dlqMessages'[v] : row.queue = handler[c].queueId
           /\ \A c \in Calls :
                handler'[c] # handler[c] /\ c \in InFlight(v)' => RequestIsRight(c)'
<1> DEFINE Excuse == \E c \in InFlight(v) :
                    /\ Awaits(c, "get-dlq-messages") /\ Late(c) /\ handler'[c] # handler[c]
                    /\ \A row \in dlqMessages'[v] : row.queue = handler[c].queueId
           Right == \A c \in Calls :
                handler'[c] # handler[c] /\ c \in InFlight(v)' => RequestIsRight(c)'
<1>1. ASSUME UNCHANGED <<currentQueueId, dlqMessages>> PROVE ListIsRight(v)'
  BY <1>1 DEF ListIsRight
<1>2. ASSUME NEW u \in Views, Mount(u) \/ OnGetAllDLQMessages(u) \/ OnDropAllDLQMessages(u)
      PROVE  ListIsRight(v)' /\ Right
  <2>1. UNCHANGED <<currentQueueId, dlqMessages>>
    BY <1>2 DEF Mount, OnGetAllDLQMessages, OnDropAllDLQMessages, viewVars
  <2>2. \E endpoint, q, row : Start(u, endpoint, q, row) /\ endpoint \notin Mutating
    BY <1>2 DEF Mount, OnGetAllDLQMessages, OnDropAllDLQMessages, Mutating
  <2>3. QED
    BY <1>1, <2>1, <2>2, StartedIsRight
<1>3. ASSUME NEW u \in Views, NEW q \in QueueIds, Select(u, q) PROVE ListIsRight(v)' /\ Right
  <2>1. /\ Start(u, "get-queue-size", q, NoRow)
        /\ u # v => currentQueueId'[v] = currentQueueId[v] /\ dlqMessages'[v] = dlqMessages[v]
        /\ dlqMessages'[u] = {}
    BY <1>3 DEF Select, UITypeOK
  <2>2. Right
    BY <2>1, StartedIsRight DEF Mutating
  <2>3. QED
    BY <2>1, <2>2 DEF ListIsRight
<1>4. ASSUME NEW u \in Views, NEW row \in dlqMessages[u],
             OnDropMessage(u, row) \/ OnRepublishMessage(u, row)
      PROVE  ListIsRight(v)' /\ Right
  <2>1. UNCHANGED <<currentQueueId, dlqMessages>>
    BY <1>4 DEF OnDropMessage, OnRepublishMessage, viewVars
  <2>2. \E endpoint : Start(u, endpoint, currentQueueId[u], row)
    BY <1>4 DEF OnDropMessage, OnRepublishMessage
  <2>3. u = v => row.queue = currentQueueId[u]
    BY DEF ListIsRight
  <2>4. QED
    BY <1>1, <2>1, <2>2, <2>3, StartedIsRight
<1>5. ASSUME NEW c \in Calls, Answer(c) PROVE (ListIsRight(v)' \/ Excuse) /\ Right
  <2>1. /\ Busy(c) /\ handler[c].view \in Views /\ UNCHANGED currentQueueId
        /\ \A d \in Calls \ {c} : handler'[d] = handler[d]
        /\ \/ handler'[c] = Idle
           \/ /\ handler[c].endpoint # "get-queue-size"
              /\ handler'[c].endpoint = "get-queue-size"
    BY <1>5, AnswerGoesOn
  <2>2. Right
    BY <2>1 DEF RequestIsRight, Busy, Mutating
  <2>3. CASE UNCHANGED dlqMessages
    BY <1>1, <2>1, <2>2, <2>3
  <2>4. ASSUME NEW rows \in SUBSET RowsOf(handler[c].queueId), MessagesArrive(c, rows)
        PROVE  ListIsRight(v)' \/ Excuse
    <3>1. /\ Awaits(c, "get-dlq-messages")
          /\ dlqMessages' = [dlqMessages EXCEPT ![handler[c].view] = rows]
      BY <2>4 DEF MessagesArrive
    <3>2. handler'[c] # handler[c]
      BY <2>1, <3>1 DEF Awaits, Idle
    <3>3. \A row \in rows : row.queue = handler[c].queueId
      BY <2>4 DEF RowsOf
    <3>4. CASE handler[c].view # v
      BY <2>1, <3>1, <3>4 DEF ListIsRight, UITypeOK
    <3>5. CASE handler[c].view = v
      <4>1. dlqMessages'[v] = rows /\ c \in InFlight(v)
        BY <2>1, <3>1, <3>5 DEF UITypeOK, InFlight
      <4>2. QED
        BY <2>1, <3>1, <3>2, <3>3, <3>5, <4>1 DEF ListIsRight, Late
    <3>6. QED
      BY <3>4, <3>5
  <2>5. QED
    BY <1>5, <2>2, <2>3, <2>4 DEF Answer, QueuesArrive, SuccessArrives, FailureArrives,
       DropAllArrives, SizeArrives, Rejected, viewVars
<1>6. CASE UNCHANGED uiVars
  BY <1>1, <1>6 DEF uiVars, viewVars
<1>7. QED
  BY <1>2, <1>3, <1>4, <1>5, <1>6 DEF UINext, Event

(* For users who wait and users who do not, in whatever order answers come: *)
(* only a listing that arrives after a switch of queues puts rows of        *)
(* another queue on the screen, and only its rows act on a queue they are   *)
(* not from.                                                                *)
THEOREM WrongListIsExplained == UISpec => WrongListHasCause
<1> DEFINE Explained == \A v \in Views : ListIsRight(v) =>
        /\ \/ ListIsRight(v)'
           \/ \E c \in InFlight(v) :
                /\ Awaits(c, "get-dlq-messages") /\ Late(c) /\ handler'[c] # handler[c]
                /\ \A row \in dlqMessages'[v] : row.queue = handler[c].queueId
        /\ \A c \in Calls :
             handler'[c] # handler[c] /\ c \in InFlight(v)' => RequestIsRight(c)'
<1>1. ASSUME UITypeOK, [UINext]_uiVars PROVE Explained
  BY <1>1, ListStep
<1>2. UITypeOK /\ [UINext]_uiVars => [Explained]_uiVars
  BY <1>1
<1>3. WrongListHasCause <=> [][Explained]_uiVars
  BY DEF WrongListHasCause
<1>4. QED
  BY <1>2, <1>3, UITypeCorrect, PTL DEF UISpec

(* The size of the selected queue that is asked for is there or comes.      *)
LEMMA AskedSizeComes ==
    ASSUME NEW v \in Views, NEW c \in Calls, handler'[c].view = v,
           handler'[c].endpoint = "get-queue-size", handler'[c].queueId = currentQueueId'[v]
    PROVE  SizeIsOrComes(v)'
<1>1. Busy(c)'
  BY DEF Busy, Idle
<1>2. c \in InFlight(v)' /\ Awaits(c, "get-queue-size")' /\ ~Late(c)'
  BY <1>1 DEF InFlight, Awaits, Late
<1>3. QED
  BY <1>2 DEF SizeIsOrComes

(* Nothing is lost while the view's requests for sizes wait.                *)
LEMMA SizeStillComes ==
    ASSUME NEW v \in Views, SizeIsOrComes(v), UNCHANGED queueSize,
           currentQueueId'[v] = currentQueueId[v],
           \A c \in InFlight(v) : Awaits(c, "get-queue-size") /\ ~Late(c) => handler'[c] = handler[c]
    PROVE  SizeIsOrComes(v)'
<1>1. CASE currentQueueId[v] \in {NoQueue, queueSize[v].of}
  BY <1>1 DEF SizeIsOrComes
<1>2. ASSUME NEW c \in InFlight(v), Awaits(c, "get-queue-size"), ~Late(c)
      PROVE  SizeIsOrComes(v)'
  <2>1. c \in Calls /\ handler'[c] = handler[c] /\ handler[c].view = v
    BY <1>2 DEF InFlight
  <2>2. QED
    BY <1>2, <2>1, AskedSizeComes DEF Awaits, Late
<1>3. QED
  BY <1>1, <1>2 DEF SizeIsOrComes

LEMMA SizeStep ==
    ASSUME UITypeOK, [UINext]_uiVars, NEW v \in Views, SizeIsOrComes(v)
    PROVE  \/ SizeIsOrComes(v)'
           \/ \E c \in InFlight(v) :
                /\ Awaits(c, "get-queue-size") /\ handler'[c] = Idle
                /\ IF Late(c) THEN queueSize'[v].of = handler[c].queueId
                              ELSE Faulty /\ UNCHANGED queueSize
<1> DEFINE Excuse == \E c \in InFlight(v) :
                /\ Awaits(c, "get-queue-size") /\ handler'[c] = Idle
                /\ IF Late(c) THEN queueSize'[v].of = handler[c].queueId
                              ELSE Faulty /\ UNCHANGED queueSize
<1>1. ASSUME NEW u \in Views, NEW q \in QueueIds, Select(u, q) PROVE SizeIsOrComes(v)'
  <2>1. /\ Start(u, "get-queue-size", q, NoRow) /\ UNCHANGED queueSize
        /\ currentQueueId' = [currentQueueId EXCEPT ![u] = q]
    BY <1>1 DEF Select
  <2>2. PICK c \in Calls :
            /\ ~Busy(c)
            /\ handler'[c] = [view |-> u, endpoint |-> "get-queue-size", queueId |-> q, row |-> NoRow]
            /\ \A d \in Calls \ {c} : handler'[d] = handler[d]
    BY <2>1, StartsOne
  <2>3. CASE u = v
    <3>1. /\ handler'[c].view = v /\ handler'[c].endpoint = "get-queue-size"
          /\ handler'[c].queueId = currentQueueId'[v]
      BY <2>1, <2>2, <2>3 DEF UITypeOK
    <3>2. QED
      BY <3>1, AskedSizeComes
  <2>4. CASE u # v
    BY <2>1, <2>2, <2>4, SizeStillComes DEF UITypeOK, InFlight
  <2>5. QED
    BY <2>3, <2>4
<1>2. ASSUME NEW u \in Views, Event(u), UNCHANGED <<currentQueueId, queueSize>>
      PROVE  SizeIsOrComes(v)'
  <2>1. \E endpoint, q, row : Start(u, endpoint, q, row)
    BY <1>2 DEF Event, Mount, Select, OnDropMessage, OnRepublishMessage, OnGetAllDLQMessages,
                OnDropAllDLQMessages
  <2>2. \E c \in Calls : ~Busy(c) /\ \A d \in Calls \ {c} : handler'[d] = handler[d]
    BY <2>1, StartsOne
  <2>3. QED
    BY <1>2, <2>2, SizeStillComes DEF InFlight
<1>3. ASSUME NEW c \in Calls, Answer(c) PROVE SizeIsOrComes(v)' \/ Excuse
  <2>1. /\ Busy(c) /\ handler[c].view \in Views /\ UNCHANGED currentQueueId
        /\ \A d \in Calls \ {c} : handler'[d] = handler[d]
        /\ \/ handler'[c] = Idle
           \/ /\ handler[c].endpoint # "get-queue-size"
              /\ handler'[c].endpoint = "get-queue-size"
    BY <1>3, AnswerGoesOn
  <2>2. CASE UNCHANGED queueSize /\ ~Awaits(c, "get-queue-size")
    BY <2>1, <2>2, SizeStillComes DEF InFlight
  <2>3. CASE Rejected(c) /\ Awaits(c, "get-queue-size")
    <3>1. UNCHANGED queueSize /\ handler'[c] = Idle
      BY <2>1, <2>3 DEF Rejected, viewVars, Awaits
    <3>2. CASE c \in InFlight(v) /\ ~Late(c) /\ Faulty
      BY <2>3, <3>1, <3>2
    <3>3. CASE c \notin InFlight(v) \/ Late(c)
      BY <2>1, <3>1, <3>3, SizeStillComes DEF InFlight
    <3>4. CASE c \in InFlight(v) /\ ~Late(c) /\ ~Faulty
      <4>1. currentQueueId[v] = NoQueue
        BY <2>3, <3>4 DEF Rejected, Late, InFlight
      <4>2. QED
        BY <2>1, <4>1 DEF SizeIsOrComes
    <3>5. QED
      BY <3>2, <3>3, <3>4
  <2>4. ASSUME NEW size \in SizesOf(handler[c].queueId), SizeArrives(c, size)
        PROVE  SizeIsOrComes(v)' \/ Excuse
    <3>1. /\ Awaits(c, "get-queue-size") /\ handler'[c] = Idle
          /\ queueSize' = [queueSize EXCEPT ![handler[c].view] = size]
          /\ size.of = handler[c].queueId
      BY <2>1, <2>4 DEF SizeArrives, Awaits, SizesOf
    <3>2. CASE handler[c].view # v
      <4>1. queueSize'[v] = queueSize[v] /\ currentQueueId'[v] = currentQueueId[v]
        BY <2>1, <3>1, <3>2 DEF UITypeOK
      <4>2. CASE currentQueueId[v] \in {NoQueue, queueSize[v].of}
        BY <4>1, <4>2 DEF SizeIsOrComes
      <4>3. ASSUME NEW d \in InFlight(v), Awaits(d, "get-queue-size"), ~Late(d)
            PROVE  SizeIsOrComes(v)'
        <5>1. d \in Calls /\ handler'[d] = handler[d] /\ handler[d].view = v
          BY <2>1, <3>2, <4>3 DEF InFlight
        <5>2. QED
          BY <4>1, <4>3, <5>1, AskedSizeComes DEF Awaits, Late
      <4>4. QED
        BY <4>2, <4>3 DEF SizeIsOrComes
    <3>3. CASE handler[c].view = v
      <4>1. queueSize'[v].of = handler[c].queueId /\ c \in InFlight(v)
        BY <2>1, <3>1, <3>3 DEF UITypeOK, InFlight
      <4>2. CASE Late(c)
        BY <3>1, <4>1, <4>2
      <4>3. CASE ~Late(c)
        BY <2>1, <3>3, <4>1, <4>3 DEF Late, SizeIsOrComes
      <4>4. QED
        BY <4>2, <4>3
    <3>4. QED
      BY <3>2, <3>3
  <2>5. QED
    BY <1>3, <2>2, <2>3, <2>4 DEF Answer, QueuesArrive, SuccessArrives, FailureArrives,
       DropAllArrives, MessagesArrive, Rejected, Awaits, Mutating, viewVars
<1>4. CASE UNCHANGED uiVars
  BY <1>4, SizeStillComes DEF uiVars, viewVars
<1>5. ASSUME NEW u \in Views, Event(u) PROVE SizeIsOrComes(v)'
  BY <1>1, <1>2, <1>5 DEF Event, Mount, OnDropMessage, OnRepublishMessage, OnGetAllDLQMessages,
     OnDropAllDLQMessages, viewVars
<1>6. QED
  BY <1>3, <1>4, <1>5 DEF UINext

(* For users who wait and users who do not, in whatever order answers come: *)
(* only a size that is overtaken, or a request for one that fails, leaves a *)
(* view with the size of another queue.                                     *)
THEOREM WrongSizeIsExplained == UISpec => WrongSizeHasCause
<1> DEFINE Explained == \A v \in Views : SizeIsOrComes(v) =>
        \/ SizeIsOrComes(v)'
        \/ \E c \in InFlight(v) :
            /\ Awaits(c, "get-queue-size") /\ handler'[c] = Idle
            /\ IF Late(c) THEN queueSize'[v].of = handler[c].queueId
                          ELSE Faulty /\ UNCHANGED queueSize
<1>1. ASSUME UITypeOK, [UINext]_uiVars PROVE Explained
  BY <1>1, SizeStep
<1>2. UITypeOK /\ [UINext]_uiVars => [Explained]_uiVars
  BY <1>1
<1>3. WrongSizeHasCause <=> [][Explained]_uiVars
  BY DEF WrongSizeHasCause
<1>4. QED
  BY <1>2, <1>3, UITypeCorrect, PTL DEF UISpec
=============================================================================
