-------------------------- MODULE VirgilConsole_proofs --------------------------
(***************************************************************************)
(* The views over the queues, for any number of views, calls and queues:    *)
(* whatever the application answers, a view does what VirgilUI allows; and  *)
(* while users wait for their answers, only what they clicked disappears;   *)
(* and what makes the size of a queue stale, whether they wait or not.      *)
(***************************************************************************)
EXTENDS VirgilConsole, VirgilUI_proofs, FiniteSetTheorems, SequenceTheorems

USE DEF Queue, Rows, NoRow

Mutations == {"ackCertainMessage", "republishMessage"}
Operations == Mutations \cup {"getQueueSize", "getMessages", "dropMessages"}

Requests ==
    [op : Operations, queue : Queue, limit : {Limit, Absent},
     messageId : RowIds \cup {NoQueue, Absent}] \cup {DLQ!NoRequest}

AnswerType ==
    [status : {"none", "error", "success", "failure", "dropped"}]
      \cup [status : {"messages"}, data : SUBSET Rows]
      \cup [status : {"size"}, data : [of : QueueIds, size : Nat]]

MessagesFit ==
    /\ msgs \in Seq(Arrivals \cup Messages)
    /\ Len(msgs) <= MaxMsgs
    /\ queue \subseteq 1..Len(msgs)

ThreadTypeOK ==
    /\ pending \in [Calls -> Requests]
    /\ clicked \in [Calls -> Rows \cup {NoRow}]
    /\ answer \in [Calls -> AnswerType]

(* A request that is served asks for what its view is waiting for, if the   *)
(* view waits still.                                                        *)
RequestsFit ==
    \A c \in Calls : Serving(c) =>
        /\ pending[c].op \in Mutations => pending[c].messageId = clicked[c].id
        /\ Busy(c) =>
            /\ pending[c].queue = handler[c].queueId
            /\ handler[c].endpoint # "get-queues"

(* An answer on its way is the one that the view is waiting for.            *)
AnswersFit ==
    \A c \in Calls : answer[c] # NoAnswer =>
        /\ Busy(c) /\ ~Serving(c)
        /\ answer[c].status = "messages" =>
            /\ answer[c].data \in SUBSET RowsOf(handler[c].queueId)
            /\ Cardinality(answer[c].data) <= Limit
        /\ answer[c].status = "size" => answer[c].data \in SizesOf(handler[c].queueId)

ConsoleInv ==
    /\ UITypeOK
    /\ MessagesFit
    /\ ThreadTypeOK
    /\ RequestsFit
    /\ AnswersFit

-----------------------------------------------------------------------------
(* What a queue holds has ids that rows may have, and there is no more of   *)
(* it than messages may ever be.                                            *)
LEMMA ShowableAreRows ==
    ASSUME MessagesFit, NEW q \in QueueIds
    PROVE  Showable(q) \subseteq RowsOf(q)
<1>1. q # NoQueue
  BY QueueNamesAssumption
<1>2. ASSUME NEW m \in Listable(q)
      PROVE  IdsOf(msgs[m].content.payload) \subseteq RowIds
  <2>1. m \in 1..Len(msgs)
    BY <1>2, LenProperties DEF MessagesFit, Inside, Listable
  <2>2. msgs[m] \in Arrivals \cup Messages
    BY <2>1 DEF MessagesFit
  <2>3. msgs[m].content.payload \in Payloads
    BY <2>2, ConsoleAssumption DEF Messages
  <2>4. QED
    BY <2>3, ConsoleAssumption DEF VirgilIds
<1>3. ASSUME NEW row \in Showable(q) PROVE row \in RowsOf(q)
  <2>1. PICK m \in Listable(q) : row \in [queue : {q}, id : IdsOf(msgs[m].content.payload)]
    BY <1>3 DEF Showable
  <2>2. row \in [queue : {q}, id : RowIds]
    BY <1>2, <2>1
  <2>3. QED
    BY <1>1, <2>2 DEF RowsOf
<1>4. QED
  BY <1>3

LEMMA InsideIsCounted ==
    ASSUME MessagesFit, NEW q
    PROVE  Cardinality(Inside(q)) \in 0..MaxMsgs
<1>1. Len(msgs) \in Nat /\ Len(msgs) <= MaxMsgs /\ MaxMsgs \in Nat
  BY ConsoleAssumption, LenProperties DEF MessagesFit
<1>2. IsFiniteSet(1..Len(msgs)) /\ Cardinality(1..Len(msgs)) = Len(msgs)
  <2>1. 1 \in Int /\ Len(msgs) \in Int
    BY <1>1
  <2>2. /\ IsFiniteSet(1..Len(msgs))
        /\ Cardinality(1..Len(msgs)) = IF 1 > Len(msgs) THEN 0 ELSE Len(msgs) - 1 + 1
    BY <2>1, FS_Interval
  <2>3. QED
    BY <1>1, <2>2
<1>3. Inside(q) \subseteq 1..Len(msgs)
  BY DEF Inside, MessagesFit
<1>4. IsFiniteSet(Inside(q)) /\ Cardinality(Inside(q)) <= Len(msgs)
  BY <1>2, <1>3, FS_Subset
<1>5. Cardinality(Inside(q)) \in Nat
  BY <1>4, FS_CardinalityType
<1>6. QED
  BY <1>1, <1>4, <1>5

(* The answers of a request whose view is waiting are of the right kind.    *)
LEMMA AnswersAreFit ==
    ASSUME ConsoleInv, NEW c \in Calls, Serving(c), NEW a \in Answers(c) \cup {Error}
    PROVE  /\ a \in AnswerType
           /\ a.status = "messages" =>
                /\ a.data \in SUBSET RowsOf(pending[c].queue)
                /\ Cardinality(a.data) <= Limit
           /\ a.status = "size" => a.data \in SizesOf(pending[c].queue)
<1> DEFINE q == pending[c].queue
<1>1. q \in Queue /\ pending[c].op \in Operations
  BY DEF ConsoleInv, ThreadTypeOK, Requests, Serving
<1>2. Range(QueueNames) \subseteq QueueIds /\ NoQueue \notin QueueIds
  BY QueueNamesAssumption DEF Range
<1>3. CASE a.status \in {"error", "dropped", "success", "failure"} /\ a = [status |-> a.status]
  BY <1>3 DEF AnswerType, Error
<1>e. CASE a = Error
  BY <1>3, <1>e DEF Error
<1>4. CASE pending[c].op = "getQueueSize" /\ q \in Range(QueueNames) /\ a # Error
  <2>1. PICK n \in 0..Cardinality(Inside(q)) :
            a = [status |-> "size", data |-> [of |-> q, size |-> n]]
    <3>1. Cardinality(Inside(q)) \in 0..Cardinality(Inside(q))
      BY InsideIsCounted, ConsoleAssumption DEF ConsoleInv
    <3>2. QED
      BY <1>4, <3>1 DEF Answers
  <2>2. n \in Sizes /\ n \in Nat
    BY <2>1, InsideIsCounted, ConsoleAssumption DEF ConsoleInv
  <2>3. q \in QueueIds /\ q # NoQueue
    BY <1>2, <1>4
  <2>4. QED
    BY <2>1, <2>2, <2>3 DEF AnswerType, SizesOf
<1>5. CASE pending[c].op = "getMessages" /\ a # Error
  <2>1. PICK rows \in SUBSET Showable(q) :
            /\ Cardinality(rows) <= Limit
            /\ a = [status |-> "messages", data |-> rows]
    BY <1>5 DEF Answers
  <2>2. Showable(q) \subseteq RowsOf(q)
    <3>1. CASE q \in QueueIds
      BY <3>1, ShowableAreRows DEF ConsoleInv
    <3>2. CASE q \notin QueueIds
      <4>1. Listable(q) = {}
        BY <1>2, <3>2 DEF Inside, Listable
      <4>2. Showable(q) = {}
        BY <4>1 DEF Showable
      <4>3. QED
        BY <4>2
    <3>3. QED
      BY <3>1, <3>2
  <2>3. RowsOf(q) \subseteq Rows
    BY <1>1 DEF RowsOf
  <2>4. QED
    BY <2>1, <2>2, <2>3 DEF AnswerType
<1>6. CASE /\ a # Error
           /\ ~(pending[c].op = "getQueueSize" /\ q \in Range(QueueNames))
           /\ pending[c].op # "getMessages"
  <2>1. a \in Answers(c)
    BY <1>6
  <2>2. CASE pending[c].op = "dropMessages"
    BY <1>3, <2>1, <2>2 DEF Answers
  <2>3. CASE pending[c].op \in Mutations
    BY <1>3, <2>1, <2>3 DEF Answers, Mutations
  <2>4. CASE pending[c].op = "getQueueSize"
    BY <1>6, <2>1, <2>4 DEF Answers
  <2>5. QED
    BY <1>1, <1>6, <2>2, <2>3, <2>4 DEF Operations, Mutations
<1>7. QED
  BY <1>e, <1>4, <1>5, <1>6, Zenon

-----------------------------------------------------------------------------
LEMMA ConsoleInit == Init => ConsoleInv
<1> SUFFICES ASSUME Init PROVE ConsoleInv
  OBVIOUS
<1>1. UITypeOK
  BY TypeInit DEF Init
<1>2. MessagesFit
  <2>1. msgs = <<>> /\ queue = {}
    BY DEF Init, DLQ!DLQInit
  <2>2. msgs \in Seq(Arrivals \cup Messages) /\ Len(msgs) = 0
    BY <2>1, EmptySeq
  <2>3. QED
    BY <2>1, <2>2, ConsoleAssumption DEF MessagesFit
<1>3. \A c \in Calls : ~Serving(c) /\ answer[c] = NoAnswer
  BY DEF Init, DLQ!DLQInit, Serving
<1>4. ThreadTypeOK
  BY DEF Init, DLQ!DLQInit, ThreadTypeOK, Requests, AnswerType, NoAnswer
<1>5. QED
  BY <1>1, <1>2, <1>3, <1>4 DEF ConsoleInv, RequestsFit, AnswersFit

-----------------------------------------------------------------------------
(* A user's click takes a call that waits for nothing and is not served.    *)
LEMMA EventStarts ==
    ASSUME UITypeOK, NEW v \in Views, Event(v)
    PROVE  \E c \in Calls : ~Busy(c) /\ \A d \in Calls \ {c} : handler'[d] = handler[d]
<1>1. PICK endpoint, q, row : Start(v, endpoint, q, row)
  BY DEF Event, Mount, Select, OnDropMessage, OnRepublishMessage, OnGetAllDLQMessages,
         OnDropAllDLQMessages
<1>2. PICK c \in Calls : ~Busy(c) /\ Send(c, v, endpoint, q, row)
  BY <1>1 DEF Start
<1>3. QED
  BY <1>2 DEF Send, UITypeOK

LEMMA ClickStep ==
    ASSUME ConsoleInv, NEW v \in Views, Click(v)
    PROVE  ConsoleInv' /\ UINext
<1>1. UINext
  BY DEF Click, UINext
<1>2. UITypeOK /\ UITypeOK'
  BY <1>1, TypeStep DEF ConsoleInv
<1>3. UNCHANGED <<msgs, queue, pending, clicked, answer>>
  BY DEF Click, queueVars, threadVars
<1>4. PICK c \in Calls : ~Busy(c) /\ \A d \in Calls \ {c} : handler'[d] = handler[d]
  BY <1>2, EventStarts DEF Click
<1>5. answer[c] = NoAnswer /\ (Serving(c) => ~Busy(c)')
  BY <1>4 DEF Click, ConsoleInv, AnswersFit
<1>6. RequestsFit'
  BY <1>3, <1>4, <1>5 DEF ConsoleInv, RequestsFit, Serving, Busy
<1>7. AnswersFit'
  BY <1>3, <1>4, <1>5 DEF ConsoleInv, AnswersFit, Serving, Busy
<1>8. QED
  BY <1>1, <1>2, <1>3, <1>6, <1>7 DEF ConsoleInv, MessagesFit, ThreadTypeOK

(* The request that reaches its endpoint is that of the view.               *)
LEMMA BeginStep ==
    ASSUME ConsoleInv, NEW c \in Calls, Begin(c)
    PROVE  ConsoleInv' /\ UNCHANGED uiVars
<1> USE DEF Mutations
<1>1. UNCHANGED <<uiVars, mounted, availableQueues, currentQueueId, queueSize, dlqMessages,
                  handler, before, msgs, queue, answer>>
  BY DEF Begin, uiVars, viewVars, queueVars
<1>2. /\ handler[c].endpoint \in EndpointIds \ {"get-queues"}
      /\ handler[c].queueId \in Queue
      /\ handler[c].row \in Rows \cup {NoRow}
      /\ Busy(c) /\ ~Serving(c) /\ answer[c] = NoAnswer
  BY BusyType DEF ConsoleInv, Begin
<1>3. /\ pending'[c].queue = handler[c].queueId
      /\ pending'[c].op \in Mutations => pending'[c].messageId = clicked'[c].id
      /\ pending'[c] \in Requests
      /\ clicked'[c] \in Rows \cup {NoRow}
  <2>1. /\ pending'[c] =
             [op |-> Operation(handler[c].endpoint),
              queue |-> handler[c].queueId,
              limit |-> IF Awaits(c, "get-dlq-messages") THEN Limit ELSE Absent,
              messageId |-> IF handler[c].endpoint \in Mutating THEN handler[c].row.id ELSE Absent]
        /\ clicked'[c] = IF handler[c].endpoint \in Mutating THEN handler[c].row ELSE NoRow
    BY DEF ConsoleInv, ThreadTypeOK, Begin
  <2>2. /\ Operation(handler[c].endpoint) \in Operations
        /\ Operation(handler[c].endpoint) \in Mutations => handler[c].endpoint \in Mutating
    BY <1>2 DEF Operation, Operations, EndpointIds, Mutating
  <2>3. QED
    BY <1>2, <2>1, <2>2 DEF Requests
<1>4. \A d \in Calls \ {c} : pending'[d] = pending[d] /\ clicked'[d] = clicked[d]
  BY DEF ConsoleInv, ThreadTypeOK, Begin
<1>5. ThreadTypeOK'
  BY <1>1, <1>3 DEF ConsoleInv, ThreadTypeOK, Begin
<1>6. RequestsFit'
  BY <1>1, <1>2, <1>3, <1>4 DEF ConsoleInv, RequestsFit, Serving, Busy
<1>7. AnswersFit'
  BY <1>1, <1>2, <1>4 DEF ConsoleInv, AnswersFit, Serving, Busy
<1>8. QED
  BY <1>1, <1>5, <1>6, <1>7 DEF ConsoleInv, UITypeOK, MessagesFit

(* A message that is added is one that queues may hold.                     *)
LEMMA AppendFits ==
    ASSUME MessagesFit, NEW message \in Arrivals \cup Messages, Len(msgs) < MaxMsgs,
           msgs' = Append(msgs, message), DLQ!Appear
    PROVE  MessagesFit'
<1>1. msgs' \in Seq(Arrivals \cup Messages) /\ Len(msgs') = Len(msgs) + 1
  BY AppendProperties DEF MessagesFit
<1>2. queue' = queue \cup (Len(msgs) + 1 .. Len(msgs'))
  BY DEF DLQ!Appear
<1>3. Len(msgs) \in Nat /\ MaxMsgs \in Nat
  BY ConsoleAssumption, LenProperties DEF MessagesFit
<1>4. Len(msgs') <= MaxMsgs
  BY <1>1, <1>3
<1>5. queue' \subseteq 1..Len(msgs')
  <2>1. queue \subseteq 1..Len(msgs)
    BY DEF MessagesFit
  <2>2. ASSUME NEW m \in queue' PROVE m \in 1..Len(msgs) + 1
    BY <1>1, <1>2, <1>3, <2>1
  <2>3. QED
    BY <1>1, <2>2
<1>6. QED
  BY <1>1, <1>4, <1>5 DEF MessagesFit

LEMMA WorkStep ==
    ASSUME ConsoleInv, NEW c \in Calls, Work(c)
    PROVE  ConsoleInv' /\ UNCHANGED uiVars
<1>1. UNCHANGED <<uiVars, mounted, availableQueues, currentQueueId, queueSize, dlqMessages,
                  handler, before, pending, clicked, answer>>
  BY DEF Work, uiVars, viewVars, DLQ!RemoveNamed, DLQ!RemoveAll, DLQ!Republish, DLQ!Appear
<1>2. MessagesFit'
  <2>1. CASE queue' \subseteq queue /\ msgs' = msgs
    BY <2>1 DEF ConsoleInv, MessagesFit
  <2>2. CASE /\ Len(msgs) < MaxMsgs
             /\ \E copy \in Messages : msgs' = Append(msgs, copy)
             /\ DLQ!Republish(c)
    BY <2>2, AppendFits DEF ConsoleInv, DLQ!Republish
  <2>3. QED
    BY <2>1, <2>2 DEF Work, DLQ!RemoveNamed, DLQ!RemoveAll
<1>3. QED
  BY <1>1, <1>2
     DEF ConsoleInv, UITypeOK, ThreadTypeOK, RequestsFit, AnswersFit, Serving, Busy

(* A request that ends leaves an answer only for a view that waits for it.  *)
LEMMA FinishStep ==
    ASSUME ConsoleInv, NEW c \in Calls, Finish(c)
    PROVE  ConsoleInv' /\ UNCHANGED uiVars
<1>1. UNCHANGED <<uiVars, mounted, availableQueues, currentQueueId, queueSize, dlqMessages,
                  handler, before, msgs, queue>>
  BY DEF Finish, uiVars, viewVars, DLQ!EndRequest
<1>2. /\ Serving(c)
      /\ pending' = [pending EXCEPT ![c] = DLQ!NoRequest]
      /\ clicked' = [clicked EXCEPT ![c] = NoRow]
  BY DEF Finish, DLQ!EndRequest
<1>3. PICK a \in Answers(c) \cup {Error} :
        answer' = [answer EXCEPT ![c] = IF Busy(c) THEN a ELSE NoAnswer]
  BY DEF Finish
<1>4. /\ a \in AnswerType
      /\ a.status = "messages" =>
            /\ a.data \in SUBSET RowsOf(pending[c].queue)
            /\ Cardinality(a.data) <= Limit
      /\ a.status = "size" => a.data \in SizesOf(pending[c].queue)
  BY <1>2, AnswersAreFit
<1>5. Busy(c) => pending[c].queue = handler[c].queueId
  BY <1>2 DEF ConsoleInv, RequestsFit
<1>6. /\ pending'[c] = DLQ!NoRequest
      /\ answer'[c] = IF Busy(c) THEN a ELSE NoAnswer
      /\ \A d \in Calls \ {c} :
            pending'[d] = pending[d] /\ clicked'[d] = clicked[d] /\ answer'[d] = answer[d]
  BY <1>2, <1>3 DEF ConsoleInv, ThreadTypeOK
<1>7. ThreadTypeOK'
  <2>1. NoAnswer \in AnswerType /\ DLQ!NoRequest \in Requests
    BY DEF AnswerType, NoAnswer, Requests
  <2>2. QED
    BY <1>2, <1>3, <1>4, <2>1 DEF ConsoleInv, ThreadTypeOK
<1>8. RequestsFit'
  BY <1>1, <1>6 DEF ConsoleInv, RequestsFit, Serving, Busy
<1>9. AnswersFit'
  <2>1. ASSUME NEW d \in Calls \ {c}, answer'[d] # NoAnswer
        PROVE  answer[d] # NoAnswer /\ ~Serving(d)' /\ answer'[d] = answer[d]
    BY <1>6, <2>1 DEF ConsoleInv, AnswersFit, Serving
  <2>2. ~Serving(c)'
    BY <1>6 DEF Serving
  <2>3. QED
    BY <1>1, <1>4, <1>5, <1>6, <2>1, <2>2 DEF ConsoleInv, AnswersFit, Busy
<1>10. QED
  BY <1>1, <1>7, <1>8, <1>9 DEF ConsoleInv, UITypeOK, MessagesFit

LEMMA RestartStep ==
    ASSUME ConsoleInv, Restart
    PROVE  ConsoleInv' /\ UNCHANGED uiVars
<1>1. UNCHANGED <<uiVars, mounted, availableQueues, currentQueueId, queueSize, dlqMessages,
                  handler, before, msgs, queue>>
  BY DEF Restart, uiVars, viewVars, DLQ!EndAllRequests
<1>2. \A c \in Calls : pending'[c] = DLQ!NoRequest /\ clicked'[c] = NoRow
  BY DEF Restart, DLQ!EndAllRequests
<1>3. \A c \in Calls :
        answer'[c] # NoAnswer => Busy(c) /\ (answer'[c] = Error \/ answer'[c] = answer[c])
  BY DEF Restart, ConsoleInv, AnswersFit
<1>4. ThreadTypeOK'
  <2>1. Error \in AnswerType /\ DLQ!NoRequest \in Requests
    BY DEF AnswerType, Error, Requests
  <2>2. QED
    BY <2>1 DEF Restart, DLQ!EndAllRequests, ConsoleInv, ThreadTypeOK
<1>5. RequestsFit' /\ \A c \in Calls : ~Serving(c)'
  BY <1>2 DEF RequestsFit, Serving
<1>6. AnswersFit'
  BY <1>1, <1>3, <1>5 DEF ConsoleInv, AnswersFit, Busy, Error
<1>7. QED
  BY <1>1, <1>4, <1>5, <1>6 DEF ConsoleInv, UITypeOK, MessagesFit

LEMMA DeadLetterStep ==
    ASSUME ConsoleInv, DeadLetter
    PROVE  ConsoleInv' /\ UNCHANGED uiVars
<1>1. UNCHANGED <<uiVars, mounted, availableQueues, currentQueueId, queueSize, dlqMessages,
                  handler, before, pending, clicked, answer>>
  BY DEF DeadLetter, uiVars, viewVars, DLQ!DeadLetter, DLQ!Appear
<1>2. MessagesFit'
  BY AppendFits DEF ConsoleInv, DeadLetter, DLQ!DeadLetter
<1>3. QED
  BY <1>1, <1>2
     DEF ConsoleInv, UITypeOK, ThreadTypeOK, RequestsFit, AnswersFit, Serving, Busy

LEMMA LoseStep ==
    ASSUME ConsoleInv, NEW c \in Calls, Lose(c)
    PROVE  ConsoleInv' /\ UNCHANGED uiVars
<1>1. UNCHANGED <<uiVars, mounted, availableQueues, currentQueueId, queueSize, dlqMessages,
                  handler, before, msgs, queue, pending, clicked>>
  BY DEF Lose, uiVars, viewVars, queueVars
<1>2. Busy(c) /\ ~Serving(c) /\ answer'[c] = Error /\ \A d \in Calls \ {c} : answer'[d] = answer[d]
  BY DEF Lose, ConsoleInv, ThreadTypeOK, AnswersFit
<1>3. Error \in AnswerType
  BY DEF AnswerType, Error
<1>4. ThreadTypeOK'
  BY <1>1, <1>3 DEF Lose, ConsoleInv, ThreadTypeOK
<1>5. AnswersFit'
  BY <1>1, <1>2 DEF ConsoleInv, AnswersFit, Serving, Busy, Error
<1>6. QED
  BY <1>1, <1>4, <1>5 DEF ConsoleInv, UITypeOK, MessagesFit, RequestsFit, Serving, Busy

(* A view that goes on does so with an answer VirgilUI allows; its call may *)
(* wait for a size next, and no answer is on its way to it.                 *)
LEMMA ReceiveStep ==
    ASSUME ConsoleInv, NEW c \in Calls, Receive(c)
    PROVE  ConsoleInv' /\ UINext
<1>1. UNCHANGED <<msgs, queue, pending, clicked>>
  BY DEF Receive, queueVars
<1>2. answer[c] # NoAnswer => Busy(c) /\ ~Serving(c)
  BY DEF ConsoleInv, AnswersFit
<1>3. Answer(c)
  <2>1. answer[c].status = "messages" =>
            /\ Busy(c)
            /\ answer[c].data \in SUBSET RowsOf(handler[c].queueId)
            /\ Cardinality(answer[c].data) <= Limit
    BY DEF ConsoleInv, AnswersFit, NoAnswer
  <2>2. answer[c].status = "size" =>
            Busy(c) /\ answer[c].data \in SizesOf(handler[c].queueId)
    BY DEF ConsoleInv, AnswersFit, NoAnswer
  <2>3. QED
    BY <2>1, <2>2 DEF Receive, Continue, GoOn, Answer
<1>4. UINext
  BY <1>3 DEF UINext
<1>5. UITypeOK /\ UITypeOK'
  BY <1>4, TypeStep DEF ConsoleInv
<1>6. \/ End(c)
      \/ GetQueueSize(c) /\ ~Serving(c)
  BY <1>2 DEF Receive, Continue, GoOn, SuccessArrives, FailureArrives, DropAllArrives,
              MessagesArrive, SizeArrives, Rejected, QueuesArrive, NoAnswer
<1>7. /\ \A d \in Calls \ {c} : handler'[d] = handler[d] /\ answer'[d] = answer[d]
      /\ answer'[c] = NoAnswer
      /\ Serving(c) => ~Busy(c)'
  BY <1>5, <1>6 DEF UITypeOK, ConsoleInv, ThreadTypeOK, Receive, End, GetQueueSize, Send, Busy
<1>8. ThreadTypeOK'
  <2>1. NoAnswer \in AnswerType
    BY DEF AnswerType, NoAnswer
  <2>2. QED
    BY <1>1, <2>1 DEF ConsoleInv, ThreadTypeOK, Receive
<1>9. RequestsFit'
  BY <1>1, <1>7 DEF ConsoleInv, RequestsFit, Serving, Busy
<1>10. AnswersFit'
  BY <1>1, <1>7 DEF ConsoleInv, AnswersFit, Serving, Busy
<1>11. QED
  BY <1>1, <1>4, <1>5, <1>8, <1>9, <1>10 DEF ConsoleInv, MessagesFit

LEMMA ConsoleStep ==
    ConsoleInv /\ [Next]_vars => ConsoleInv' /\ [UINext]_uiVars
<1> SUFFICES ASSUME ConsoleInv, [Next]_vars PROVE ConsoleInv' /\ [UINext]_uiVars
  OBVIOUS
<1>1. CASE UNCHANGED vars
  BY <1>1 DEF vars, uiVars, viewVars, queueVars, threadVars, ConsoleInv, UITypeOK, MessagesFit,
              ThreadTypeOK, RequestsFit, AnswersFit, Serving, Busy
<1>2. CASE Next
  BY <1>2, ClickStep, BeginStep, WorkStep, FinishStep, LoseStep, ReceiveStep, RestartStep,
     DeadLetterStep
     DEF Next
<1>3. QED
  BY <1>1, <1>2

(* Whatever the application answers and when, and whether it is restarted   *)
(* or not, the views do what VirgilUI allows: so they have every safety     *)
(* property that VirgilUI has.                                              *)
THEOREM ConsoleImplementsUI == Spec => UISpec
<1>1. Init => UIInit
  BY DEF Init
<1>2. QED
  BY <1>1, ConsoleInit, ConsoleStep, PTL DEF Spec, UISpec

-----------------------------------------------------------------------------
(* Patient users: a request that is served names the queue that the row     *)
(* whose button was clicked was listed from.                                *)
ClickedFit ==
    \A c \in Calls : Serving(c) /\ pending[c].op \in Mutations =>
        pending[c].queue = clicked[c].queue

ClickedInv == ConsoleInv /\ PatientInv /\ ClickedFit

LEMMA ClickedInit == Init => ClickedInv
<1> SUFFICES ASSUME Init PROVE ClickedInv
  OBVIOUS
<1>1. \A c \in Calls : ~Serving(c)
  BY DEF Init, DLQ!DLQInit, Serving
<1>2. QED
  BY <1>1, ConsoleInit, PatientInit DEF Init, ClickedInv, ClickedFit

LEMMA ClickedStep ==
    ASSUME Patient, ClickedInv, [Next]_vars
    PROVE  ClickedInv'
<1>1. ConsoleInv' /\ PatientInv'
  BY ConsoleStep, PatientStep DEF ClickedInv
<1>2. ASSUME NEW c \in Calls, Begin(c) PROVE ClickedFit'
  <2>1. \A d \in Calls \ {c} : pending'[d] = pending[d] /\ clicked'[d] = clicked[d]
    BY <1>2 DEF ClickedInv, ConsoleInv, ThreadTypeOK, Begin
  <2>2. /\ Busy(c)
        /\ handler[c].endpoint \in EndpointIds \ {"get-queues"}
        /\ pending'[c].op = Operation(handler[c].endpoint)
        /\ pending'[c].queue = handler[c].queueId
        /\ handler[c].endpoint \in Mutating => clicked'[c] = handler[c].row
    BY <1>2, BusyType DEF ClickedInv, ConsoleInv, ThreadTypeOK, Begin
  <2>3. pending'[c].op \in Mutations => handler[c].endpoint \in Mutating
    BY <2>2 DEF Operation, EndpointIds, Mutating, Mutations
  <2>4. handler[c].endpoint \in Mutating => handler[c].queueId = handler[c].row.queue
    BY <2>2 DEF ClickedInv, PatientInv, ActsOnListedQueue, RequestIsRight
  <2>5. QED
    BY <2>1, <2>2, <2>3, <2>4 DEF ClickedInv, ClickedFit, Serving
<1>3. ASSUME NEW c \in Calls, Finish(c) PROVE ClickedFit'
  <2>1. /\ \A d \in Calls \ {c} : pending'[d] = pending[d] /\ clicked'[d] = clicked[d]
        /\ pending'[c] = DLQ!NoRequest
    BY <1>3 DEF ClickedInv, ConsoleInv, ThreadTypeOK, Finish, DLQ!EndRequest
  <2>2. QED
    BY <2>1 DEF ClickedInv, ClickedFit, Serving
<1>4. ASSUME UNCHANGED <<pending, clicked>> PROVE ClickedFit'
  BY <1>4 DEF ClickedInv, ClickedFit, Serving
<1>5. ClickedFit'
  <2>1. CASE \/ \E v \in Views : Click(v)
             \/ \E c \in Calls : Work(c) \/ Lose(c) \/ Receive(c)
             \/ DeadLetter
             \/ UNCHANGED vars
    BY <1>4, <2>1 DEF Click, Work, Lose, Receive, DeadLetter, vars, threadVars, DLQ!RemoveNamed,
         DLQ!RemoveAll, DLQ!Republish, DLQ!DeadLetter, DLQ!Appear
  <2>2. CASE Restart
    BY <2>2 DEF Restart, DLQ!EndAllRequests, ClickedFit, Serving
  <2>3. QED
    BY <1>2, <1>3, <2>1, <2>2 DEF Next
<1>6. QED
  BY <1>1, <1>5 DEF ClickedInv

(* DeadLetterQueue names messages as the console does.                      *)
LEMMA SameIds == \A p : DLQ!IdsOf(p) = IdsOf(p)
BY DEF IdsOf, DLQ!IdsOf, MessageId, DLQ!MessageId, Fingerprint, DLQ!Fingerprint

(* While users wait for their answers, a message disappears from a queue    *)
(* only because its id is that of a row of that queue whose button was      *)
(* clicked, or because its queue was dropped as a whole.                    *)
THEOREM PatientRemovesOnlyClicked == Patient => (Spec => RemovesOnlyClicked)
<1> SUFFICES ASSUME Patient PROVE Spec => RemovesOnlyClicked
  OBVIOUS
<1> DEFINE Explained(m) ==
        \E c \in Calls :
            \/ pending[c].op = "dropMessages" /\ DLQ!Reads(c, m)
            \/ /\ clicked[c] # NoRow
               /\ msgs[m].queue = readName[clicked[c].queue]
               /\ clicked[c].id \in IdsOf(msgs[m].content.payload)
           Removal == \A m \in queue \ queue' : Explained(m)
<1>1. ClickedInv /\ [Next]_vars => ClickedInv'
  BY ClickedStep
<1>2. ASSUME ClickedInv, [Next]_vars PROVE Removal
  <2>1. ASSUME NEW c \in Calls, Work(c) PROVE Removal
    <3>1. ASSUME NEW m \in queue, DLQ!Names(c, m), pending[c].op \in Mutations
          PROVE  Explained(m)
      <4>1. Serving(c) /\ pending[c].queue \in QueueIds
        <5>1. Range(QueueNames) \subseteq QueueIds
          BY QueueNamesAssumption DEF Range
        <5>2. QED
          BY <3>1, <5>1 DEF DLQ!Names, DLQ!Reads, Serving, DLQ!NoRequest, Mutations
      <4>2. pending[c].queue = clicked[c].queue /\ pending[c].messageId = clicked[c].id
        BY <1>2, <3>1, <4>1 DEF ClickedInv, ClickedFit, ConsoleInv, RequestsFit
      <4>3. clicked[c] # NoRow
        BY <4>1, <4>2, QueueNamesAssumption
      <4>4. clicked[c].id \in IdsOf(msgs[m].content.payload)
        BY <3>1, <4>2, SameIds DEF DLQ!Names
      <4>5. QED
        BY <3>1, <4>2, <4>3, <4>4 DEF DLQ!Names, DLQ!Reads
    <3>2. CASE DLQ!RemoveNamed(c)
      BY <3>1, <3>2 DEF DLQ!RemoveNamed, Mutations
    <3>3. CASE DLQ!RemoveAll(c)
      BY <3>3 DEF DLQ!RemoveAll
    <3>4. CASE DLQ!Republish(c)
      BY <3>4 DEF DLQ!Republish, DLQ!Appear
    <3>5. QED
      BY <2>1, <3>2, <3>3, <3>4 DEF Work
  <2>2. CASE queue \subseteq queue'
    BY <2>2
  <2>3. QED
    <3>1. CASE \E c \in Calls : Work(c)
      BY <2>1, <3>1
    <3>2. CASE ~ \E c \in Calls : Work(c)
      <4>1. queue \subseteq queue'
        BY <1>2, <3>2 DEF Next, Click, Begin, Finish, Lose, Receive, Restart, DeadLetter, vars,
             queueVars, DLQ!EndRequest, DLQ!EndAllRequests, DLQ!DeadLetter, DLQ!Appear
      <4>2. QED
        BY <2>2, <4>1
    <3>3. QED
      BY <3>1, <3>2
<1>3. ClickedInv /\ [Next]_vars => [Removal]_vars
  BY <1>2
<1>4. RemovesOnlyClicked <=> [][Removal]_vars
  BY DEF RemovesOnlyClicked
<1>5. QED
  BY <1>1, <1>3, <1>4, ClickedInit, PTL DEF Spec

-----------------------------------------------------------------------------
(* Impatient users, failures, any number of views.  What StaleSizeHasCause  *)
(* rests on: the operation that is served is the one the view waits for, a  *)
(* view selects among the queues it was told of.                            *)
ServedFit ==
    /\ took \in [Calls -> BOOLEAN]
    /\ \A c \in Calls :
        /\ Serving(c) /\ Busy(c) => pending[c].op = Operation(handler[c].endpoint)
        /\ ~Serving(c) => ~took[c]

SelectedFit ==
    \A v \in Views :
        /\ availableQueues[v] \in {<<>>, QueueNames}
        /\ currentQueueId[v] \in Range(QueueNames) \cup {NoQueue}

StaleInv == ConsoleInv /\ ServedFit /\ SelectedFit

LEMMA StaleInit == Init => StaleInv
<1> SUFFICES ASSUME Init PROVE StaleInv
  OBVIOUS
<1>1. ConsoleInv
  BY ConsoleInit
<1>2. ServedFit
  BY DEF Init, DLQ!DLQInit, Serving, ServedFit
<1>3. SelectedFit
  BY DEF Init, UIInit, SelectedFit
<1>4. QED
  BY <1>1, <1>2, <1>3 DEF StaleInv

(* What is served is a call whose handler did not start just now.           *)
LEMMA ServedStep ==
    ASSUME ConsoleInv, ServedFit, [Next]_vars
    PROVE  ServedFit'
<1>1. ASSUME NEW v \in Views, Click(v) PROVE ServedFit'
  <2>1. UITypeOK /\ Event(v) /\ UNCHANGED <<pending, took>>
    BY <1>1 DEF ConsoleInv, Click, threadVars
  <2>2. PICK c \in Calls : ~Busy(c) /\ \A d \in Calls \ {c} : handler'[d] = handler[d]
    BY <2>1, EventStarts
  <2>3. Serving(c) => ~Busy(c)'
    BY <1>1, <2>2 DEF Click
  <2>4. QED
    BY <2>1, <2>2, <2>3 DEF ServedFit, Serving, Busy
<1>2. ASSUME NEW c \in Calls, Begin(c) PROVE ServedFit'
  <2>1. UNCHANGED <<handler, took>>
    BY <1>2 DEF Begin, uiVars
  <2>2. /\ ~Serving(c)
        /\ pending'[c].op = Operation(handler[c].endpoint)
        /\ \A d \in Calls \ {c} : pending'[d] = pending[d]
    BY <1>2 DEF ConsoleInv, ThreadTypeOK, Begin
  <2>3. QED
    BY <2>1, <2>2 DEF ServedFit, Serving, Busy
<1>3. ASSUME NEW c \in Calls, Work(c) PROVE ServedFit'
  <2>1. UNCHANGED <<handler, pending>> /\ Serving(c)
    BY <1>3 DEF Work, uiVars, DLQ!RemoveNamed, DLQ!RemoveAll, DLQ!Republish, DLQ!Appear,
                Serving, DLQ!NoRequest
  <2>2. took' \in [Calls -> BOOLEAN] /\ \A d \in Calls \ {c} : took'[d] = took[d]
    BY <1>3 DEF Work, ServedFit
  <2>3. QED
    BY <2>1, <2>2 DEF ServedFit, Serving, Busy
<1>4. ASSUME NEW c \in Calls, Finish(c) PROVE ServedFit'
  <2>1. /\ UNCHANGED handler
        /\ pending'[c] = DLQ!NoRequest /\ \A d \in Calls \ {c} : pending'[d] = pending[d]
        /\ took' = [took EXCEPT ![c] = FALSE]
    BY <1>4 DEF Finish, uiVars, DLQ!EndRequest, ConsoleInv, ThreadTypeOK
  <2>2. QED
    BY <2>1 DEF ServedFit, Serving, Busy
<1>5. ASSUME NEW c \in Calls, Receive(c) PROVE ServedFit'
  <2>1. UNCHANGED <<pending, took>>
    BY <1>5 DEF Receive
  <2>2. Busy(c) /\ (End(c) \/ (GetQueueSize(c) /\ answer[c] # NoAnswer))
    BY <1>5 DEF Receive, Continue, GoOn, SuccessArrives, FailureArrives, DropAllArrives,
                MessagesArrive, SizeArrives, Rejected, QueuesArrive, NoAnswer, Arrives
  <2>3. /\ \A d \in Calls \ {c} : handler'[d] = handler[d]
        /\ Serving(c) => ~Busy(c)'
    BY <2>2 DEF ConsoleInv, AnswersFit, UITypeOK, End, GetQueueSize, Send, Busy
  <2>4. QED
    BY <2>1, <2>3 DEF ServedFit, Serving, Busy
<1>6. CASE Restart
  BY <1>6 DEF Restart, DLQ!EndAllRequests, ServedFit, Serving
<1>7. CASE DeadLetter \/ (\E c \in Calls : Lose(c)) \/ UNCHANGED vars
  <2>1. UNCHANGED <<handler, pending, took>>
    BY <1>7 DEF DeadLetter, Lose, DLQ!DeadLetter, DLQ!Appear, vars, uiVars, threadVars
  <2>2. QED
    BY <2>1 DEF ServedFit, Serving, Busy
<1>8. QED
  BY <1>1, <1>2, <1>3, <1>4, <1>5, <1>6, <1>7 DEF Next

LEMMA SelectedStep ==
    ASSUME UITypeOK, SelectedFit, [UINext]_uiVars
    PROVE  SelectedFit'
<1>1. ASSUME NEW v \in Views, NEW q \in QueueIds, Select(v, q) PROVE SelectedFit'
  <2>1. /\ currentQueueId' = [currentQueueId EXCEPT ![v] = q] /\ UNCHANGED availableQueues
        /\ q \in Range(availableQueues[v])
    BY <1>1 DEF Select, Options
  <2>2. q \in Range(QueueNames)
    BY <2>1 DEF SelectedFit, Range
  <2>3. QED
    BY <2>1, <2>2 DEF UITypeOK, SelectedFit
<1>2. ASSUME NEW c \in Calls, QueuesArrive(c) PROVE SelectedFit'
  BY <1>2 DEF QueuesArrive, UITypeOK, SelectedFit
<1>3. CASE UNCHANGED <<availableQueues, currentQueueId>>
  BY <1>3 DEF SelectedFit
<1>4. QED
  BY <1>1, <1>2, <1>3 DEF UINext, Event, Answer, Mount, OnDropMessage, OnRepublishMessage,
     OnGetAllDLQMessages, OnDropAllDLQMessages, SuccessArrives, FailureArrives, DropAllArrives,
     MessagesArrive, SizeArrives, Rejected, viewVars, uiVars

LEMMA StaleStep ==
    ASSUME StaleInv, [Next]_vars
    PROVE  StaleInv'
<1>1. ConsoleInv' /\ [UINext]_uiVars
  BY ConsoleStep DEF StaleInv
<1>2. ServedFit'
  BY ServedStep DEF StaleInv
<1>3. SelectedFit'
  BY <1>1, SelectedStep DEF StaleInv, ConsoleInv
<1>4. QED
  BY <1>1, <1>2, <1>3 DEF StaleInv

-----------------------------------------------------------------------------
(* The size stays accounted for when the queues, the selection and the size *)
(* shown stay, and each handler that is about to refresh still is.          *)
LEMMA StillAccounted ==
    ASSUME NEW v \in Views, SizeIsAccountedFor(v),
           currentQueueId'[v] = currentQueueId[v], queueSize'[v] = queueSize[v],
           UNCHANGED <<msgs, queue>>,
           \A c \in InFlight(v) : Refreshes(c) => c \in InFlight(v)' /\ Refreshes(c)'
    PROVE  SizeIsAccountedFor(v)'
<1>1. TrueSize(currentQueueId[v])' = TrueSize(currentQueueId[v])
  BY DEF TrueSize, Inside
<1>2. QED
  BY <1>1 DEF SizeIsAccountedFor

(* A handler that nothing happens to is about to refresh as before.         *)
LEMMA StillRefreshes ==
    ASSUME NEW v \in Views, NEW c \in InFlight(v), Refreshes(c),
           handler'[c] = handler[c], answer'[c] = answer[c], took'[c] = took[c],
           currentQueueId'[v] = currentQueueId[v], UNCHANGED <<msgs, queue>>
    PROVE  c \in InFlight(v)' /\ Refreshes(c)'
<1>1. TrueSize(handler[c].queueId)' = TrueSize(handler[c].queueId)
  BY DEF TrueSize, Inside
<1>2. c \in Calls /\ handler[c].view = v /\ Busy(c)' /\ handler'[c].view = v
  BY DEF InFlight, Busy
<1>3. Awaits(c, "get-queue-size")' <=> Awaits(c, "get-queue-size")
  BY DEF Awaits, Busy
<1>4. Late(c)' <=> Late(c)
  BY <1>2 DEF Late
<1>5. Refreshes(c)'
  BY <1>1, <1>2, <1>3, <1>4 DEF Refreshes
<1>6. QED
  BY <1>2, <1>5 DEF InFlight

(* A request for the size of the selected queue, just sent, will refresh.   *)
LEMMA AskingRefreshes ==
    ASSUME NEW v \in Views, NEW c \in Calls,
           handler'[c].view = v, handler'[c].endpoint = "get-queue-size",
           handler'[c].queueId = currentQueueId'[v], Busy(c)', answer'[c] = NoAnswer
    PROVE  SizeIsAccountedFor(v)'
<1>1. Awaits(c, "get-queue-size")' /\ ~Late(c)'
  BY DEF Awaits, Late
<1>2. Refreshes(c)'
  BY <1>1 DEF Refreshes
<1>3. QED
  BY <1>2 DEF SizeIsAccountedFor, InFlight

LEMMA ClickAccounts ==
    ASSUME StaleInv, NEW u \in Views, Click(u), NEW v \in Views, SizeIsAccountedFor(v)
    PROVE  SizeIsAccountedFor(v)'
<1>t. UITypeOK
  BY DEF StaleInv, ConsoleInv
<1>1. Event(u) /\ UNCHANGED <<msgs, queue, took, answer>>
  BY DEF Click, queueVars, threadVars
<1>2. CASE \E q \in QueueIds : Select(u, q) /\ u = v
  <2>1. PICK q \in QueueIds : Select(v, q)
    BY <1>2
  <2>2. PICK c \in Calls : ~Busy(c) /\ Send(c, v, "get-queue-size", q, NoRow)
    BY <2>1 DEF Select, Start
  <2>3. answer'[c] = NoAnswer
    BY <1>1, <2>2 DEF StaleInv, ConsoleInv, AnswersFit
  <2>4. /\ handler'[c] = [view |-> v, endpoint |-> "get-queue-size", queueId |-> q, row |-> NoRow]
        /\ currentQueueId'[v] = q
    BY <1>t, <2>1, <2>2 DEF UITypeOK, Send, Select
  <2>5. Busy(c)'
    BY <2>4 DEF Busy, Idle
  <2>6. QED
    BY <2>3, <2>4, <2>5, AskingRefreshes
<1>3. CASE currentQueueId'[v] = currentQueueId[v] /\ queueSize'[v] = queueSize[v]
  <2>1. PICK c \in Calls : ~Busy(c) /\ \A d \in Calls \ {c} : handler'[d] = handler[d]
    BY <1>1, <1>t, EventStarts
  <2>2. ASSUME NEW d \in InFlight(v), Refreshes(d) PROVE d \in InFlight(v)' /\ Refreshes(d)'
    <3>1. handler'[d] = handler[d] /\ d \in Calls
      BY <2>1 DEF InFlight
    <3>2. answer'[d] = answer[d] /\ took'[d] = took[d]
      BY <1>1
    <3>3. QED
      BY <1>1, <1>3, <2>2, <3>1, <3>2, StillRefreshes
  <2>3. QED
    BY <1>1, <1>3, <2>2, StillAccounted
<1>4. QED
  BY <1>1, <1>2, <1>3, <1>t DEF Event, Select, Mount, OnDropMessage, OnRepublishMessage,
     OnGetAllDLQMessages, OnDropAllDLQMessages, viewVars, UITypeOK

LEMMA BeginAccounts ==
    ASSUME StaleInv, NEW c \in Calls, Begin(c), NEW v \in Views, SizeIsAccountedFor(v)
    PROVE  SizeIsAccountedFor(v)'
<1>1. UNCHANGED <<handler, currentQueueId, queueSize, msgs, queue, took, answer>>
  BY DEF Begin, uiVars, viewVars, queueVars
<1>2. QED
  BY <1>1, StillAccounted, StillRefreshes

(* A view that changes the queues itself asks for the size afterwards.      *)
LEMMA WorkAccounts ==
    ASSUME StaleInv, NEW c \in Calls, Work(c), NEW v \in Views, SizeIsAccountedFor(v)
    PROVE  SizeIsAccountedFor(v)' \/ GoesStale(v)
<1> SUFFICES ASSUME c \in InFlight(v) PROVE SizeIsAccountedFor(v)'
  BY DEF GoesStale
<1>1. /\ UNCHANGED <<handler, currentQueueId, queueSize, pending, answer>>
      /\ pending[c].op \in Mutations \cup {"dropMessages"}
  BY DEF Work, uiVars, viewVars, DLQ!RemoveNamed, DLQ!RemoveAll, DLQ!Republish, DLQ!Appear, Mutations
<1>2. Serving(c) /\ Busy(c) /\ answer[c] = NoAnswer
  BY <1>1 DEF Serving, DLQ!NoRequest, Mutations, InFlight, StaleInv, ConsoleInv, AnswersFit
<1>3. queue' # queue => took'[c]
  BY DEF StaleInv, ServedFit, Work
<1>4. pending[c].op \in Mutations => queue' # queue
  <2>1. CASE DLQ!RemoveNamed(c)
    BY <2>1 DEF DLQ!RemoveNamed
  <2>2. CASE (\E copy \in Messages : msgs' = Append(msgs, copy)) /\ DLQ!Republish(c)
    <3>1. /\ Len(msgs') = Len(msgs) + 1
          /\ queue' = queue \cup (Len(msgs) + 1 .. Len(msgs'))
          /\ queue \subseteq 1..Len(msgs)
          /\ Len(msgs) \in Nat
      BY <2>2, AppendProperties, LenProperties
         DEF DLQ!Republish, DLQ!Appear, StaleInv, ConsoleInv, MessagesFit
    <3>2. Len(msgs) + 1 \in queue' /\ Len(msgs) + 1 \notin queue
      BY <3>1
    <3>3. QED
      BY <3>2
  <2>3. QED
    BY <2>1, <2>2 DEF Work, DLQ!RemoveAll, Mutations
<1>5. pending[c].op = Operation(handler[c].endpoint)
  BY <1>2 DEF StaleInv, ServedFit
<1>6. handler[c].endpoint \in EndpointIds \ {"get-queues"}
  BY <1>2, BusyType DEF StaleInv, ConsoleInv, RequestsFit
<1>7. \/ handler[c].endpoint = "drop-all-messages"
      \/ handler[c].endpoint \in Mutating /\ took'[c]
  BY <1>1, <1>3, <1>4, <1>5, <1>6 DEF Operation, EndpointIds, Mutating, Mutations
<1>8. Refreshes(c)'
  BY <1>1, <1>2, <1>7 DEF Refreshes, Awaits, Mutating, NoAnswer, Error
<1>9. c \in InFlight(v)'
  BY <1>1 DEF InFlight, Busy
<1>10. QED
  BY <1>8, <1>9 DEF SizeIsAccountedFor

(* A request that ends without a failure leaves an answer that refreshes as *)
(* it was going to.                                                         *)
LEMMA FinishAccounts ==
    ASSUME StaleInv, NEW c \in Calls, Finish(c), NEW v \in Views, SizeIsAccountedFor(v)
    PROVE  SizeIsAccountedFor(v)' \/ GoesStale(v)
<1> SUFFICES ASSUME ~GoesStale(v), currentQueueId[v] # NoQueue PROVE SizeIsAccountedFor(v)'
  BY DEF SizeIsAccountedFor, Finish, uiVars, viewVars
<1>1. UNCHANGED <<handler, currentQueueId, queueSize, msgs, queue>> /\ Serving(c)
  BY DEF Finish, uiVars, viewVars, DLQ!EndRequest
<1>2. \A d \in Calls \ {c} : answer'[d] = answer[d] /\ took'[d] = took[d]
  BY DEF StaleInv, ConsoleInv, ThreadTypeOK, ServedFit, Finish
<1>3. ASSUME c \in InFlight(v), Refreshes(c) PROVE c \in InFlight(v)' /\ Refreshes(c)'
  <2>1. /\ Busy(c) /\ handler[c].view = v
        /\ pending[c].queue = handler[c].queueId
        /\ pending[c].op = Operation(handler[c].endpoint)
        /\ handler[c].endpoint \in EndpointIds \ {"get-queues"}
        /\ answer[c] = NoAnswer
    BY <1>1, <1>3, BusyType DEF InFlight, StaleInv, ConsoleInv, RequestsFit, ServedFit, AnswersFit
  <2>2. PICK a \in Answers(c) \cup (IF Faulty THEN {Error} ELSE {}) :
            answer' = [answer EXCEPT ![c] = a]
    BY <2>1 DEF Finish
  <2>3. answer'[c] = a
    BY <2>2 DEF StaleInv, ConsoleInv, ThreadTypeOK
  <2>4. (Faulty => a # Error) /\ a \in Answers(c)
    BY <1>3, <2>2, <2>3 DEF GoesStale
  <2>5. CASE handler[c].endpoint = "get-queue-size"
    <3>1. pending[c].op = "getQueueSize" /\ ~Late(c)
      BY <1>3, <2>1, <2>5 DEF Operation, Refreshes, Awaits, Mutating
    <3>2. pending[c].queue = currentQueueId[v] /\ currentQueueId[v] \in Range(QueueNames)
      BY <2>1, <3>1 DEF Late, StaleInv, SelectedFit
    <3>3. a.status = "size"
      BY <2>4, <3>1, <3>2 DEF Answers
    <3>4. ~Faulty /\ \A d \in Calls \ {c} : ~Serving(d)
      BY <1>3, <2>3, <3>3 DEF GoesStale
    <3>5. a = [status |-> "size", data |-> TrueSize(handler[c].queueId)]
      BY <2>1, <2>4, <3>1, <3>2, <3>4 DEF Answers, TrueSize
    <3>6. TrueSize(handler[c].queueId)' = TrueSize(handler[c].queueId)
      BY <1>1 DEF TrueSize, Inside
    <3>7. Awaits(c, "get-queue-size")' /\ ~Late(c)'
      BY <1>1, <2>1, <2>5, <3>1 DEF Awaits, Busy, Late
    <3>8. Refreshes(c)'
      BY <2>3, <3>5, <3>6, <3>7 DEF Refreshes
    <3>9. QED
      BY <1>1, <1>3, <3>8 DEF InFlight, Busy
  <2>6. CASE handler[c].endpoint \in {"get-dlq-messages", "drop-all-messages"}
    <3>1. a # Error
      BY <2>1, <2>4, <2>6 DEF Operation, Answers, Error
    <3>2. Refreshes(c)'
      BY <1>1, <2>3, <2>6, <3>1 DEF Refreshes, Awaits
    <3>3. QED
      BY <1>1, <1>3, <3>2 DEF InFlight, Busy
  <2>7. CASE handler[c].endpoint \in Mutating
    <3>1. pending[c].op \in Mutations /\ took[c]
      BY <1>3, <2>1, <2>7 DEF Operation, Refreshes, Awaits, Mutating, Mutations, NoAnswer
    <3>2. a.status = "success"
      BY <2>4, <3>1 DEF Answers, Mutations
    <3>3. Refreshes(c)'
      BY <1>1, <2>3, <2>7, <3>2 DEF Refreshes, Awaits, Mutating
    <3>4. QED
      BY <1>1, <1>3, <3>3 DEF InFlight, Busy
  <2>8. QED
    BY <2>1, <2>5, <2>6, <2>7 DEF EndpointIds
<1>4. ASSUME NEW d \in InFlight(v), Refreshes(d) PROVE d \in InFlight(v)' /\ Refreshes(d)'
  <2>1. CASE d = c
    BY <1>3, <1>4, <2>1
  <2>2. CASE d # c
    <3>1. /\ handler'[d] = handler[d] /\ answer'[d] = answer[d] /\ took'[d] = took[d]
          /\ currentQueueId'[v] = currentQueueId[v]
      BY <1>1, <1>2, <2>2 DEF InFlight
    <3>2. QED
      BY <1>1, <1>4, <3>1, StillRefreshes
  <2>3. QED
    BY <2>1, <2>2
<1>5. QED
  BY <1>1, <1>4, StillAccounted

LEMMA RestartAccounts ==
    ASSUME StaleInv, Restart, NEW v \in Views, SizeIsAccountedFor(v)
    PROVE  SizeIsAccountedFor(v)' \/ GoesStale(v)
<1> SUFFICES ASSUME ~GoesStale(v) PROVE SizeIsAccountedFor(v)'
  OBVIOUS
<1>1. /\ UNCHANGED <<handler, currentQueueId, queueSize, msgs, queue>> /\ Faulty
      /\ \A c \in Calls :
            answer'[c] = IF Busy(c) /\ Serving(c) THEN Error ELSE answer[c]
      /\ \A c \in Calls : took'[c] = FALSE
  BY DEF Restart, uiVars, viewVars, DLQ!EndAllRequests
<1>2. ASSUME NEW c \in InFlight(v), Refreshes(c) PROVE c \in InFlight(v)' /\ Refreshes(c)'
  <2>1. c \in Calls /\ ~Serving(c)
    BY <1>1, <1>2 DEF GoesStale, InFlight
  <2>2. /\ answer'[c] = answer[c] /\ took'[c] = took[c] /\ handler'[c] = handler[c]
        /\ currentQueueId'[v] = currentQueueId[v]
    BY <1>1, <2>1 DEF StaleInv, ServedFit
  <2>3. QED
    BY <1>1, <1>2, <2>2, StillRefreshes
<1>3. QED
  BY <1>1, <1>2, StillAccounted

(* An answer lost is a failure of the view that waits for it, no other.     *)
LEMMA LoseAccounts ==
    ASSUME StaleInv, NEW c \in Calls, Lose(c), NEW v \in Views, SizeIsAccountedFor(v)
    PROVE  SizeIsAccountedFor(v)' \/ GoesStale(v)
<1> SUFFICES ASSUME ~GoesStale(v) PROVE SizeIsAccountedFor(v)'
  OBVIOUS
<1>1. /\ UNCHANGED <<handler, currentQueueId, queueSize, msgs, queue, took>> /\ Faulty
      /\ answer'[c] = Error /\ \A d \in Calls \ {c} : answer'[d] = answer[d]
  BY DEF Lose, uiVars, viewVars, queueVars, StaleInv, ConsoleInv, ThreadTypeOK
<1>2. ASSUME NEW d \in InFlight(v), Refreshes(d) PROVE d \in InFlight(v)' /\ Refreshes(d)'
  <2>1. d \in Calls \ {c}
    BY <1>1, <1>2 DEF GoesStale, InFlight
  <2>2. /\ answer'[d] = answer[d] /\ took'[d] = took[d] /\ handler'[d] = handler[d]
        /\ currentQueueId'[v] = currentQueueId[v]
    BY <1>1, <2>1
  <2>3. QED
    BY <1>1, <1>2, <2>2, StillRefreshes
<1>3. QED
  BY <1>1, <1>2, StillAccounted

(* A handler that goes on asks for the size, unless it stores one or there  *)
(* was nothing to refresh.                                                  *)
LEMMA ReceiveAccounts ==
    ASSUME StaleInv, NEW c \in Calls, Receive(c), NEW v \in Views, SizeIsAccountedFor(v)
    PROVE  SizeIsAccountedFor(v)' \/ GoesStale(v)
<1> SUFFICES ASSUME ~GoesStale(v), currentQueueId[v] # NoQueue PROVE SizeIsAccountedFor(v)'
  BY DEF SizeIsAccountedFor, Receive, Continue, GoOn, SuccessArrives, FailureArrives,
         DropAllArrives, MessagesArrive, SizeArrives, QueuesArrive, Rejected, viewVars
<1>t. UITypeOK /\ Busy(c) /\ UNCHANGED <<currentQueueId, msgs, queue, took>>
  BY DEF StaleInv, ConsoleInv, Receive, Continue, GoOn, SuccessArrives, FailureArrives,
         DropAllArrives, MessagesArrive, SizeArrives, QueuesArrive, Rejected, Arrives, viewVars,
         queueVars
<1>1. answer'[c] = NoAnswer /\ \A d \in Calls \ {c} : answer'[d] = answer[d]
  BY DEF StaleInv, ConsoleInv, ThreadTypeOK, Receive
<1>2. End(c) \/ GetQueueSize(c)
  BY DEF Receive, Continue, GoOn, SuccessArrives, FailureArrives, DropAllArrives,
         MessagesArrive, SizeArrives, QueuesArrive, Rejected
<1>3. \A d \in Calls \ {c} : handler'[d] = handler[d]
  BY <1>2, <1>t DEF UITypeOK, End, GetQueueSize, Send
<1>4. ASSUME NEW d \in InFlight(v), Refreshes(d), d # c PROVE d \in InFlight(v)' /\ Refreshes(d)'
  <2>1. /\ handler'[d] = handler[d] /\ answer'[d] = answer[d] /\ took'[d] = took[d]
        /\ currentQueueId'[v] = currentQueueId[v]
    BY <1>t, <1>1, <1>3, <1>4 DEF InFlight
  <2>2. QED
    BY <1>t, <1>4, <2>1, StillRefreshes
<1>5. TrueSize(currentQueueId[v])' = TrueSize(currentQueueId[v])
  BY <1>t DEF TrueSize, Inside
<1>6. CASE c \in InFlight(v) /\ GetQueueSize(c)
  <2>1. /\ handler'[c].view = v /\ handler'[c].endpoint = "get-queue-size"
        /\ handler'[c].queueId = currentQueueId[v]
        /\ Busy(c)'
    BY <1>6, <1>t DEF UITypeOK, GetQueueSize, Send, Busy, Idle, InFlight
  <2>2. QED
    BY <1>1, <1>t, <2>1, AskingRefreshes
<1>7. CASE c \in InFlight(v) /\ answer[c].status = "size" /\ SizeArrives(c, answer[c].data)
  <2>1. answer[c].data = TrueSize(currentQueueId[v])
    BY <1>7 DEF GoesStale
  <2>2. queueSize'[v] = TrueSize(currentQueueId[v])
    BY <1>7, <1>t, <2>1 DEF UITypeOK, SizeArrives, InFlight
  <2>3. QED
    BY <1>5, <1>t, <2>2 DEF SizeIsAccountedFor
<1>8. ASSUME c \notin InFlight(v) \/ ~Refreshes(c), queueSize'[v] = queueSize[v]
      PROVE SizeIsAccountedFor(v)'
  BY <1>t, <1>4, <1>8, StillAccounted
<1>9. CASE c \notin InFlight(v)
  <2>1. handler[c].view # v
    BY <1>9, <1>t DEF InFlight
  <2>2. queueSize'[v] = queueSize[v]
    BY <2>1, <1>t DEF UITypeOK, Receive, Continue, GoOn, SuccessArrives, FailureArrives,
         DropAllArrives, MessagesArrive, SizeArrives, QueuesArrive, Rejected, viewVars
  <2>3. QED
    BY <1>8, <1>9, <2>2
<1>10. CASE c \in InFlight(v) /\ QueuesArrive(c)
  BY <1>8, <1>10 DEF QueuesArrive, Refreshes, Awaits, Mutating
<1>11. CASE c \in InFlight(v) /\ answer[c].status = "failure" /\ FailureArrives(c)
  <2>1. ~took[c]
    BY <1>11 DEF NoAnswer, StaleInv, ConsoleInv, AnswersFit, ServedFit
  <2>2. ~Refreshes(c)
    BY <1>11, <2>1 DEF FailureArrives, Refreshes, Awaits, Mutating
  <2>3. QED
    BY <1>8, <1>11, <2>2 DEF FailureArrives, viewVars
<1>12. CASE c \in InFlight(v) /\ Failed(c) /\ Rejected(c)
  <2>1. answer[c] = Error
    BY <1>12 DEF GoesStale, Failed
  <2>2. ~took[c]
    BY <2>1 DEF NoAnswer, Error, StaleInv, ConsoleInv, AnswersFit, ServedFit
  <2>3. ~Refreshes(c)
    BY <1>12, <2>1, <2>2 DEF Refreshes, Mutating, NoAnswer, Error
  <2>4. QED
    BY <1>8, <1>12, <2>3 DEF Rejected, viewVars
<1>13. QED
  BY <1>6, <1>7, <1>9, <1>10, <1>11, <1>12 DEF Receive, Continue, GoOn, SuccessArrives,
     DropAllArrives, MessagesArrive

(* Any number of views and users, who need not wait, and requests that may  *)
(* fail: a view never makes the size it shows stale by its own clicks.      *)
THEOREM StaleSizeIsExplained == Spec => StaleSizeHasCause
<1> DEFINE Explained == \A v \in Views :
                SizeIsAccountedFor(v) => SizeIsAccountedFor(v)' \/ GoesStale(v)
<1>1. StaleInv /\ [Next]_vars => StaleInv'
  BY StaleStep
<1>2. ASSUME StaleInv, [Next]_vars PROVE [Explained]_vars
  <2> SUFFICES ASSUME Next, NEW v \in Views, SizeIsAccountedFor(v)
               PROVE  SizeIsAccountedFor(v)' \/ GoesStale(v)
    BY <1>2
  <2>1. CASE DeadLetter
    BY <2>1 DEF GoesStale
  <2>2. QED
    BY <1>2, <2>1, ClickAccounts, BeginAccounts, WorkAccounts, FinishAccounts, LoseAccounts,
       RestartAccounts, ReceiveAccounts DEF Next
<1>3. StaleInv /\ [Next]_vars => [Explained]_vars
  BY <1>2
<1>4. StaleSizeHasCause <=> [][Explained]_vars
  BY DEF StaleSizeHasCause
<1>5. QED
  BY <1>1, <1>3, <1>4, StaleInit, PTL DEF Spec
=============================================================================
