---------------------------- MODULE MessageOperator ----------------------------
(***************************************************************************)
(* services/MessageOperator: the five operations behind the actuator        *)
(* endpoints, run by the request threads of the application over the        *)
(* connection cache (RabbitMqConnectionService) against the broker          *)
(* (RabbitMQ).                                                              *)
(*                                                                         *)
(* A thread runs one call at a time.  A call reads the queue size (pc       *)
(* "size"), then fetches that many messages, one basicGet per iteration     *)
(* ("loop"), acknowledging and publishing the one that was asked for        *)
(* ("ack", "send"), and in its finally block closes the thread's connection *)
(* so that everything else it fetched goes back to the queue ("finally";    *)
(* "unwind" when an exception is propagating).                              *)
(***************************************************************************)
EXTENDS Integers, Sequences, FiniteSets, RabbitMqConnectionService, RabbitMQ

CONSTANTS
    QueueIds,           \* queue keys a caller may pass
    ConfiguredQueues,   \* keys of virgil.queues
    QueueNames,         \* names the configuration may give as readName
    readName,           \* QueueProperties.readName
    readBinderName,     \* QueueProperties.readBinderName
    republishTo,        \* exchange and routing key republishMessage sends to
    Limits,             \* limits a caller of getMessages may pass
    Absent,             \* null limit; null or empty message id
    Ops,                \* operations the callers use, a subset of Operations
    Failures            \* whether broker calls fail and connections are lost

ASSUME QueuesAssumption ==
    /\ ConfiguredQueues \subseteq QueueIds
    /\ BrokerQueues \subseteq QueueNames
    /\ readName \in [ConfiguredQueues -> QueueNames]
    /\ readBinderName \in [ConfiguredQueues -> Binders]
    /\ republishTo \in [ConfiguredQueues -> Routes]
ASSUME CallsAssumption ==
    /\ Limits \subseteq Int
    /\ Absent \notin Int \cup VirgilIds
    /\ Ops \subseteq {"getQueueSize", "getMessages", "dropMessages",
                      "ackCertainMessage", "republishMessage"}
    /\ Failures \in BOOLEAN

VARIABLES
    pc,             \* where the thread is
    call,           \* the request it serves, or served last
    left,           \* iterations left in its loop
    held,           \* the fetched message whose id matched
    acked,          \* the messages this call acknowledged
    done,           \* messageFound / messageRepublished
    dlqMessages,    \* what this listing has collected
    reply           \* what the call returned

callVars == <<pc, call, left, held, acked, done, dlqMessages, reply>>
vars == <<connVars, brokerVars, callVars>>

NeedsId(op) == op \in {"ackCertainMessage", "republishMessage"}

Calls == [op : Ops, queue : QueueIds,
          limit : Limits \cup {Absent}, messageId : VirgilIds \cup {Absent}]
Listed == [msg : Nat, id : VirgilIds, redelivered : BOOLEAN]
Status == {"none", "null", "size", "messages", "success", "failure", "error"}
Replies == [status : Status, size : Nat]

Scanning == {"loop", "ack", "send", "finally", "unwind"}
Steps == {"idle", "size", "template", "purge", "returned"} \cup Scanning

NoReply == [status |-> "none", size |-> 0]
NoCall == [op |-> "none", queue |-> Absent, limit |-> Absent, messageId |-> Absent]

CallTypeOK ==
    /\ pc \in [Threads -> Steps]
    /\ call \in [Threads -> Calls \cup {NoCall}]
    /\ left \in [Threads -> Nat]
    /\ held \in [Threads -> Nat]
    /\ acked \in [Threads -> SUBSET DOMAIN msgs]
    /\ done \in [Threads -> BOOLEAN]
    /\ dlqMessages \in [Threads -> Seq(Listed)]
    /\ reply \in [Threads -> Replies]

TypeOK == ConnTypeOK /\ BrokerTypeOK /\ CallTypeOK

Init ==
    /\ ConnInit
    /\ BrokerInit
    /\ pc = [w \in Threads |-> "idle"]
    /\ call = [w \in Threads |-> NoCall]
    /\ left = [w \in Threads |-> 0]
    /\ held = [w \in Threads |-> 0]
    /\ acked = [w \in Threads |-> {}]
    /\ done = [w \in Threads |-> FALSE]
    /\ dlqMessages = [w \in Threads |-> <<>>]
    /\ reply = [w \in Threads |-> NoReply]

-----------------------------------------------------------------------------
Configured(w) == call[w].queue \in ConfiguredQueues
ReadName(w) == readName[call[w].queue]
Binder(w) == readBinderName[call[w].queue]

(* The factory of the template a scanning thread fetches with.              *)
Template(w) == rabbitTemplateLookup[w][Binder(w)]

GoTo(w, step) == pc' = [pc EXCEPT ![w] = step]

(* The call ends: its answer goes to the endpoint.                          *)
Return(w, status, size) ==
    /\ GoTo(w, "returned")
    /\ reply' = [reply EXCEPT ![w] = [status |-> status, size |-> size]]
    /\ left' = [left EXCEPT ![w] = 0]
    /\ held' = [held EXCEPT ![w] = 0]
    /\ UNCHANGED <<call, acked, done, dlqMessages>>

(* What each operation answers when the queue size is null: a null, an      *)
(* empty list, or no success.                                               *)
NullSizeStatus(op) ==
    CASE op = "getQueueSize" -> "null"
      [] op = "getMessages" -> "messages"
      [] OTHER -> "failure"

(* Ids a caller may name: those some message has had.                       *)
IdsSeen ==
    {MessageId([payload |-> msgs[m].content.payload, route |-> msgs[m].content.route,
                redelivered |-> r, deliveryTag |-> 1]) :
        m \in DOMAIN msgs, r \in BOOLEAN}

(* A request reaches an idle thread, with the parameters its operation has. *)
(* Calls that republish are bounded by the number of messages ever sent.    *)
Request(w) ==
    /\ pc[w] = "idle"
    /\ \E op \in Ops, q \in QueueIds,
          limit \in Limits \cup {Absent}, id \in IdsSeen \cup {Absent} :
        /\ op = "republishMessage" => Len(msgs) < MaxMsgs
        /\ op # "getMessages" => limit = Absent
        /\ ~NeedsId(op) => id = Absent
        /\ call' = [call EXCEPT ![w] = [op |-> op, queue |-> q,
                                        limit |-> limit, messageId |-> id]]
    /\ GoTo(w, "size")
    /\ UNCHANGED <<connVars, brokerVars, left, held, acked, done, dlqMessages, reply>>

(* The endpoint writes its response and the thread is free again.           *)
Respond(w) ==
    /\ pc[w] = "returned"
    /\ GoTo(w, "idle")
    /\ call' = [call EXCEPT ![w] = NoCall]
    /\ acked' = [acked EXCEPT ![w] = {}]
    /\ done' = [done EXCEPT ![w] = FALSE]
    /\ dlqMessages' = [dlqMessages EXCEPT ![w] = <<>>]
    /\ reply' = [reply EXCEPT ![w] = NoReply]
    /\ UNCHANGED <<connVars, brokerVars, left, held>>

-----------------------------------------------------------------------------
(* getQueueSize, which every operation starts with.                         *)
AsksSize(w) ==
    /\ pc[w] = "size"
    /\ NeedsId(call[w].op) => call[w].messageId # Absent

(* StringUtils.isEmpty(messageId)                                           *)
RejectEmptyId(w) ==
    /\ pc[w] = "size"
    /\ NeedsId(call[w].op) /\ call[w].messageId = Absent
    /\ Return(w, "failure", 0)
    /\ UNCHANGED <<connVars, brokerVars>>

(* The key is not configured.                                               *)
SizeOfUnknownQueue(w) ==
    /\ AsksSize(w)
    /\ ~Configured(w)
    /\ Return(w, NullSizeStatus(call[w].op), 0)
    /\ UNCHANGED <<connVars, brokerVars>>

(* The queue names a binder that is not configured: RabbitAdmin refuses the *)
(* null connection factory, before any finally block is entered.            *)
SizeOfUnknownBinder(w) ==
    /\ AsksSize(w)
    /\ Configured(w) /\ Binder(w) \notin KnownBinders
    /\ Return(w, "error", 0)
    /\ UNCHANGED <<connVars, brokerVars>>

(* The broker has no queue of that name.                                    *)
SizeOfUndeclaredQueue(w) ==
    /\ AsksSize(w)
    /\ Configured(w) /\ ReadName(w) \notin BrokerQueues
    /\ \E f \in Factories : AdminExecute(w, Binder(w), f, TRUE)
    /\ Return(w, NullSizeStatus(call[w].op), 0)
    /\ UNCHANGED brokerVars

NumToRetrieve(limit, queueSize) ==
    IF limit # Absent /\ limit > 0 THEN limit ELSE queueSize

(* The size is known.  getQueueSize returns it; the others go on with it,   *)
(* in the same call and without looking at the queue again.                 *)
SizeRead(w) ==
    LET size == MessageCount(ReadName(w))
        op   == call[w].op
        todo == IF op = "getMessages" THEN NumToRetrieve(call[w].limit, size) ELSE size
    IN
    /\ AsksSize(w)
    /\ Configured(w) /\ ReadName(w) \in BrokerQueues
    /\ \E f \in Factories : AdminExecute(w, Binder(w), f, TRUE)
    /\ UNCHANGED brokerVars
    /\ \/ /\ op = "getQueueSize"
          /\ Return(w, "size", size)
       \/ /\ op # "getQueueSize"
          /\ GoTo(w, CASE op = "dropMessages" -> "purge"
                       [] op = "getMessages" -> IF todo = 0 THEN "finally" ELSE "loop"
                       [] OTHER -> "template")
          /\ left' = [left EXCEPT ![w] = IF op = "dropMessages" THEN 0 ELSE todo]
          /\ UNCHANGED <<call, held, acked, done, dlqMessages, reply>>

(* dropMessages: one purge, and the connection stays open.                  *)
Purge(w) ==
    /\ pc[w] = "purge"
    /\ \E f \in Factories : TemplateExecute(w, Binder(w), f, TRUE)
    /\ QueuePurge(ReadName(w))
    /\ Return(w, "success", 0)

(* ackCertainMessage and republishMessage get the template once, before the *)
(* loop and even when the loop has nothing to do.                           *)
GetTemplate(w) ==
    /\ pc[w] = "template"
    /\ \E f \in Factories : TemplateLookup(w, Binder(w), f)
    /\ GoTo(w, IF left[w] = 0 THEN "finally" ELSE "loop")
    /\ UNCHANGED <<brokerVars, call, left, held, acked, done, dlqMessages, reply>>

-----------------------------------------------------------------------------
(* Slips of the loop that the properties must notice: it never stops at its *)
(* bound, never gets closer to it, or stops one short of it.                *)
EndIterationUnbounded(w) ==
    /\ left' = [left EXCEPT ![w] = @ - 1]
    /\ GoTo(w, "loop")

EndIterationUncounted(w) ==
    /\ UNCHANGED left
    /\ GoTo(w, "loop")

EndIterationShort(w) ==
    /\ left' = [left EXCEPT ![w] = @ - 1]
    /\ GoTo(w, IF left[w] > 2 THEN "loop" ELSE "finally")

(* One iteration: doInRabbit of the three handlers.                         *)
EndIteration(w) ==
    /\ left' = [left EXCEPT ![w] = @ - 1]
    /\ GoTo(w, IF left[w] > 1 THEN "loop" ELSE "finally")

(* The delivery of m as f receives it.                                      *)
Delivery(f, m) == [payload |-> msgs[m].content.payload, route |-> msgs[m].content.route,
                   redelivered |-> m \in redelivered,
                   deliveryTag |-> Cardinality(unacked[f]) + 1]

(* Slip: basicGet(queue, true).                                             *)
FetchAutoAck(w, f, m) ==
    /\ pc[w] = "loop"
    /\ AtHead(ReadName(w), m)
    /\ TemplateExecute(w, Binder(w), f, TRUE)
    /\ ready' = ready \ {m}
    /\ UNCHANGED <<msgs, redelivered, unacked, orphaned, wire>>

(* basicGet hands m, the head of the queue, to the thread over f.           *)
Fetch(w, f, m) ==
    /\ pc[w] = "loop"
    /\ AtHead(ReadName(w), m)
    /\ TemplateExecute(w, Binder(w), f, TRUE)
    /\ BasicGet(f, m)

(* The queue has nothing ready: the loop goes on regardless.                *)
GetNothing(w) ==
    /\ pc[w] = "loop"
    /\ Ready(ReadName(w)) = {}
    /\ \E f \in Factories : TemplateExecute(w, Binder(w), f, TRUE)
    /\ EndIteration(w)
    /\ UNCHANGED <<brokerVars, call, held, acked, done, dlqMessages, reply>>

(* Slip: messages added at the front of the list.                           *)
ListMessageInFront(w) ==
    /\ call[w].op = "getMessages"
    /\ \E f \in Factories, m \in ready :
        /\ Fetch(w, f, m)
        /\ Convertible(Delivery(f, m))
        /\ dlqMessages' = [dlqMessages EXCEPT ![w] =
             <<[msg |-> m, id |-> MessageId(Delivery(f, m)),
                redelivered |-> m \in redelivered]>> \o @]
    /\ EndIteration(w)
    /\ UNCHANGED <<call, held, acked, done, reply>>

ListMessage(w) ==
    /\ call[w].op = "getMessages"
    /\ \E f \in Factories, m \in ready :
        /\ Fetch(w, f, m)
        /\ Convertible(Delivery(f, m))
        /\ dlqMessages' = [dlqMessages EXCEPT ![w] =
             Append(@, [msg |-> m, id |-> MessageId(Delivery(f, m)),
                        redelivered |-> m \in redelivered])]
    /\ EndIteration(w)
    /\ UNCHANGED <<call, held, acked, done, reply>>

(* Another message than the one asked for: it is kept, unacknowledged.      *)
SkipMessage(w) ==
    /\ NeedsId(call[w].op)
    /\ \E f \in Factories, m \in ready :
        /\ Fetch(w, f, m)
        /\ Convertible(Delivery(f, m))
        /\ MessageId(Delivery(f, m)) # call[w].messageId
    /\ EndIteration(w)
    /\ UNCHANGED <<call, held, acked, done, dlqMessages, reply>>

(* Slip: the ids are not compared.                                          *)
MatchAnyMessage(w) ==
    /\ NeedsId(call[w].op)
    /\ \E f \in Factories, m \in ready :
        /\ Fetch(w, f, m)
        /\ Convertible(Delivery(f, m))
        /\ held' = [held EXCEPT ![w] = m]
    /\ GoTo(w, "ack")
    /\ UNCHANGED <<call, left, acked, done, dlqMessages, reply>>

MatchMessage(w) ==
    /\ NeedsId(call[w].op)
    /\ \E f \in Factories, m \in ready :
        /\ Fetch(w, f, m)
        /\ Convertible(Delivery(f, m))
        /\ MessageId(Delivery(f, m)) = call[w].messageId
        /\ held' = [held EXCEPT ![w] = m]
    /\ GoTo(w, "ack")
    /\ UNCHANGED <<call, left, acked, done, dlqMessages, reply>>

(* Slip: the exception is caught before the finally block is entered.       *)
ConversionFailsAtOnce(w) ==
    /\ \E f \in Factories, m \in ready :
        /\ Fetch(w, f, m)
        /\ ~Convertible(Delivery(f, m))
    /\ Return(w, "error", 0)

(* mapMessage throws: the call is over, with an exception.                  *)
ConversionFails(w) ==
    /\ \E f \in Factories, m \in ready :
        /\ Fetch(w, f, m)
        /\ ~Convertible(Delivery(f, m))
    /\ GoTo(w, "unwind")
    /\ UNCHANGED <<call, left, held, acked, done, dlqMessages, reply>>

(* Slips: no break after the acknowledgement; no copy after it.             *)
AckAndGoOn(w) ==
    /\ pc[w] = "ack"
    /\ held[w] \in unacked[Template(w)]
    /\ WriteFrame(Template(w), [kind |-> "ack", msg |-> held[w]])
    /\ acked' = [acked EXCEPT ![w] = @ \cup {held[w]}]
    /\ done' = [done EXCEPT ![w] = TRUE]
    /\ EndIteration(w)
    /\ UNCHANGED <<connVars, call, held, dlqMessages, reply>>

AckWithoutCopy(w) ==
    /\ pc[w] = "ack"
    /\ held[w] \in unacked[Template(w)]
    /\ WriteFrame(Template(w), [kind |-> "ack", msg |-> held[w]])
    /\ acked' = [acked EXCEPT ![w] = @ \cup {held[w]}]
    /\ done' = [done EXCEPT ![w] = TRUE]
    /\ GoTo(w, "finally")
    /\ UNCHANGED <<connVars, call, left, held, dlqMessages, reply>>

(* basicAck: a frame on the channel the message came by.  Dropping ends the *)
(* loop here; republishing sends a copy first.                              *)
Ack(w) ==
    /\ pc[w] = "ack"
    /\ held[w] \in unacked[Template(w)]
    /\ WriteFrame(Template(w), [kind |-> "ack", msg |-> held[w]])
    /\ acked' = [acked EXCEPT ![w] = @ \cup {held[w]}]
    /\ IF call[w].op = "ackCertainMessage"
       THEN /\ done' = [done EXCEPT ![w] = TRUE]
            /\ GoTo(w, "finally")
       ELSE /\ GoTo(w, "send")
            /\ UNCHANGED done
    /\ UNCHANGED <<connVars, call, left, held, dlqMessages, reply>>

(* Slip: what basicAck throws is ignored.                                   *)
AckFailureIgnored(w) ==
    /\ pc[w] = "ack"
    /\ held[w] \notin unacked[Template(w)]
    /\ done' = [done EXCEPT ![w] = TRUE]
    /\ GoTo(w, "finally")
    /\ UNCHANGED <<connVars, brokerVars, call, left, held, acked, dlqMessages, reply>>

(* The channel died after the message was fetched: basicAck throws.         *)
AckOnClosedChannel(w) ==
    /\ pc[w] = "ack"
    /\ held[w] \notin unacked[Template(w)]
    /\ GoTo(w, "unwind")
    /\ UNCHANGED <<connVars, brokerVars, call, left, held, acked, done, dlqMessages, reply>>

(* Slip: the copy is sent by the route the message came by.                 *)
CopiesByOldRoute(w) ==
    LET route == republishTo[call[w].queue] IN
    [i \in DOMAIN Bindings[route] |->
        [queue |-> Bindings[route][i], content |-> msgs[held[w]].content]]

(* convertAndSend, through the same template, on another channel and if     *)
(* need be on a new connection; neither confirmed nor mandatory.  The loop  *)
(* goes on afterwards.                                                      *)
Copies(w) ==
    LET route == republishTo[call[w].queue] IN
    [i \in DOMAIN Bindings[route] |->
        [queue |-> Bindings[route][i],
         content |-> [payload |-> msgs[held[w]].content.payload, route |-> route]]]

Send(w) ==
    /\ pc[w] = "send"
    /\ \E f \in Factories :
        /\ TemplateExecute(w, Binder(w), f, TRUE)
        /\ WriteFrame(f, [kind |-> "publish", copies |-> Copies(w)])
    /\ done' = [done EXCEPT ![w] = TRUE]
    /\ held' = [held EXCEPT ![w] = 0]
    /\ EndIteration(w)
    /\ UNCHANGED <<call, acked, dlqMessages, reply>>

-----------------------------------------------------------------------------
(* The finally block: destroyReadConnection.                                *)
Outcome(w) ==
    IF pc[w] = "unwind" THEN "error"
    ELSE IF call[w].op = "getMessages" THEN "messages"
    ELSE IF done[w] THEN "success" ELSE "failure"

(* Slips: the cache forgets the connection without closing it; the          *)
(* connection is aborted, before the broker has read what was written.      *)
FinallyKeepsOpen(w) ==
    /\ pc[w] \in {"finally", "unwind"}
    /\ Template(w) # NoFactory
    /\ DestroyConnectionsByName(w, Binder(w))
    /\ Return(w, Outcome(w), 0)
    /\ UNCHANGED brokerVars

FinallyAborts(w) ==
    /\ pc[w] \in {"finally", "unwind"}
    /\ Template(w) # NoFactory
    /\ DestroyConnectionsByName(w, Binder(w))
    /\ BreakConnections({Template(w)}, {})
    /\ Return(w, Outcome(w), 0)

Finally(w) ==
    /\ pc[w] \in {"finally", "unwind"}
    /\ Template(w) # NoFactory
    /\ wire[Template(w)] = <<>>
    /\ DestroyConnectionsByName(w, Binder(w))
    /\ CloseConnection(Template(w))
    /\ Return(w, Outcome(w), 0)

(* A listing that fetched nothing never made a template: the finally block  *)
(* throws and the list is not returned.                                     *)
FinallyWithoutTemplate(w) ==
    /\ pc[w] \in {"finally", "unwind"}
    /\ DestroyWithoutTemplate(w, Binder(w))
    /\ Return(w, "error", 0)
    /\ UNCHANGED brokerVars

-----------------------------------------------------------------------------
(* A broker call of the thread throws, and its connection is gone.  A size  *)
(* that cannot be read may also come back as null (RabbitAdmin catches what *)
(* the passive declaration throws).  A request that the broker already      *)
(* carried out has had its effect: the purge, or the delivery of a message  *)
(* that the client never received.                                          *)
SizeFails(w) ==
    /\ Failures
    /\ AsksSize(w)
    /\ Configured(w)
    /\ \E f \in Factories :
        /\ AdminExecute(w, Binder(w), f, FALSE)
        /\ BreakConnections({f}, {})
    /\ \E status \in {"error", NullSizeStatus(call[w].op)} : Return(w, status, 0)

PurgeFails(w) ==
    /\ Failures
    /\ pc[w] = "purge"
    /\ \E f \in Factories : TemplateExecute(w, Binder(w), f, FALSE)
    /\ \/ QueuePurge(ReadName(w))
       \/ UNCHANGED brokerVars
    /\ Return(w, "error", 0)

ExecuteFails(w) ==
    /\ Failures
    /\ pc[w] \in {"loop", "send"}
    /\ \E f \in Factories :
        /\ TemplateExecute(w, Binder(w), f, FALSE)
        /\ \E gone \in {{}} \cup {{m} : m \in ready} :
            /\ gone # {} => pc[w] = "loop" /\ \A m \in gone : AtHead(ReadName(w), m)
            /\ BreakConnections({f}, gone)
    /\ GoTo(w, "unwind")
    /\ UNCHANGED <<call, left, held, acked, done, dlqMessages, reply>>

(* A connection is lost while no call is using it.                          *)
ConnectionLost ==
    /\ Failures
    /\ \E f \in Factories : LoseConnection(f) /\ BreakConnections({f}, {})
    /\ UNCHANGED callVars

(* The application stops and starts again.                                  *)
Restart ==
    /\ Failures
    /\ RestartService
    /\ BreakConnections(Factories, {})
    /\ pc' = [w \in Threads |-> "idle"]
    /\ call' = [w \in Threads |-> NoCall]
    /\ left' = [w \in Threads |-> 0]
    /\ held' = [w \in Threads |-> 0]
    /\ acked' = [w \in Threads |-> {}]
    /\ done' = [w \in Threads |-> FALSE]
    /\ dlqMessages' = [w \in Threads |-> <<>>]
    /\ reply' = [w \in Threads |-> NoReply]

-----------------------------------------------------------------------------
Operator(w) ==
    \/ RejectEmptyId(w)
    \/ SizeOfUnknownQueue(w)
    \/ SizeOfUnknownBinder(w)
    \/ SizeOfUndeclaredQueue(w)
    \/ SizeRead(w)
    \/ Purge(w)
    \/ GetTemplate(w)
    \/ GetNothing(w)
    \/ ListMessage(w)
    \/ SkipMessage(w)
    \/ MatchMessage(w)
    \/ ConversionFails(w)
    \/ Ack(w)
    \/ AckOnClosedChannel(w)
    \/ Send(w)
    \/ Finally(w)
    \/ FinallyWithoutTemplate(w)
    \/ Respond(w)

Failure(w) ==
    \/ SizeFails(w)
    \/ PurgeFails(w)
    \/ ExecuteFails(w)

Broker ==
    \/ \E f \in Factories : ReadAck(f)
    \/ \E f \in Factories : ReadPublish(f)
    \/ \E m \in orphaned : RequeueOrphan(m)

Next ==
    \/ \E w \in Threads : Request(w)
    \/ \E w \in Threads : Operator(w)
    \/ \E w \in Threads : Failure(w)
    \/ Broker /\ UNCHANGED <<connVars, callVars>>
    \/ Arrive /\ UNCHANGED <<connVars, callVars>>
    \/ ConnectionLost
    \/ Restart

Spec == Init /\ [][Next]_vars

(* Threads keep running their call, and the broker keeps reading what it    *)
(* was sent and notices broken connections; requests need not come and      *)
(* nothing need fail.                                                       *)
FairSpec ==
    /\ Spec
    /\ \A w \in Threads : WF_vars(Operator(w))
    /\ \A f \in Factories : WF_vars((ReadAck(f) \/ ReadPublish(f)) /\ UNCHANGED <<connVars, callVars>>)
    /\ \A m \in 1..MaxMsgs : WF_vars(RequeueOrphan(m) /\ UNCHANGED <<connVars, callVars>>)

-----------------------------------------------------------------------------
(* Messages are kept from the queue only while some thread is scanning that *)
(* queue, and only on that thread's own template: whichever way a call      *)
(* ended, what it fetched and did not acknowledge has been given back.      *)
IdleHoldsNothing ==
    \A f \in Factories : \A m \in unacked[f] :
        \E w \in Threads : /\ pc[w] \in Scanning
                           /\ Configured(w)
                           /\ Template(w) = f
                           /\ msgs[m].queue = ReadName(w)

(* Nothing is acknowledged but what was asked for: the id of the message,   *)
(* in the queue of the request, is the id in the request.                   *)
AckedWereNamed ==
    \A w \in Threads : \A m \in acked[w] :
        /\ NeedsId(call[w].op)
        /\ call[w].messageId \in IdsOf(msgs[m].content.payload)
        /\ msgs[m].queue = ReadName(w)

(* What an answer says about the acknowledgements: dropping acknowledges at *)
(* most one message; success means that some message was acknowledged; a    *)
(* plain failure means that none was.                                       *)
CallAccounting ==
    \A w \in Threads :
        /\ call[w].op = "ackCertainMessage" => Cardinality(acked[w]) <= 1
        /\ NeedsId(call[w].op) /\ reply[w].status = "success" => acked[w] # {}
        /\ reply[w].status \in {"failure", "null"} => acked[w] = {}

(* The operator implements DeadLetterQueue: none of what it does with       *)
(* deliveries, whatever fails, makes a message disappear that no pending    *)
(* call names or purges, or appear that no pending call republishes.        *)
DLQ == INSTANCE DeadLetterQueue WITH queue <- Present, pending <- call
ImplementsDeadLetterQueue == DLQ!DLQSpec

(* While nothing fails, a successful drop or republish has removed what it  *)
(* acknowledged by the time it answers (the close waits for the broker).    *)
SuccessMeansGone ==
    \A w \in Threads :
        pc[w] = "returned" /\ NeedsId(call[w].op) /\ reply[w].status = "success"
            => acked[w] \cap Present = {}

(* Where messages leave only by republishing to one queue, by a route that  *)
(* tells the copies from what is dead-lettered.                             *)
RepublishOnly ==
    /\ ~Failures
    /\ Ops \cap {"dropMessages", "ackCertainMessage"} = {}
    /\ \A q \in ConfiguredQueues :
        /\ Len(Bindings[republishTo[q]]) = 1
        /\ \A message \in Arrivals : message.content.route # republishTo[q]

(* There, every removed message has exactly one copy: none is lost between  *)
(* the acknowledgement and the publication, none is sent twice.  Needs      *)
(* RepublishOnly.                                                           *)
Settled == /\ \A f \in Factories : wire[f] = <<>>
           /\ \A w \in Threads : pc[w] # "send"
Copied(m) == \E q \in ConfiguredQueues : msgs[m].content.route = republishTo[q]
CopyPerRemoval ==
    Settled => \A p \in Payloads :
        LET all == {m \in DOMAIN msgs : msgs[m].content.payload = p} IN
        Cardinality(all \ Present) = Cardinality({m \in all : Copied(m)})

(* With one operator at a time and a broker that stays up, a listing is the *)
(* head of the queue, oldest first, without a gap and within the limit: what *)
(* it shows and what it leaves out are both as they are in the queue.       *)
ListingIsPrefix ==
    \A w \in Threads : reply[w].status = "messages" /\ dlqMessages[w] # <<>> =>
        LET shown == {dlqMessages[w][i].msg : i \in DOMAIN dlqMessages[w]} IN
        /\ \A i, j \in DOMAIN dlqMessages[w] :
            i < j => dlqMessages[w][i].msg < dlqMessages[w][j].msg
        /\ \A m \in Present, n \in shown :
            msgs[m].queue = ReadName(w) /\ m < n => m \in shown
        /\ call[w].limit # Absent /\ call[w].limit > 0
            => Len(dlqMessages[w]) <= call[w].limit

(* Every call comes to an end, and every message a call took from its queue *)
(* is given back or removed, whatever fails on the way.                     *)
EveryCallReturns == \A w \in Threads : pc[w] # "idle" ~> pc[w] = "idle"

HeldMessagesComeBack ==
    \A m \in 1..MaxMsgs :
        m \in Present \ ready ~> m \in ready \/ m \notin Present

(* Nobody else is scanning the queue of w.                                  *)
Alone(w) ==
    \A v \in Threads \ {w} : pc[v] \in Scanning => ReadName(v) # ReadName(w)

(* "Drop all messages in the queue": a purge that succeeds leaves none.     *)
(* Needs that nobody else scans the queue at that moment, for it leaves     *)
(* what another thread has fetched; and that every earlier call, however it *)
(* ended, gave back what it took, which a broken connection does late.      *)
DropAllEmptiesQueue ==
    [][\A w \in Threads :
        pc[w] = "purge" /\ pc'[w] = "returned" /\ reply'[w].status = "success" /\ Alone(w)
            => \A m \in Present' : msgs'[m].queue # ReadName(w)]_vars

(* "Display total count of messages in queue": the size told is that of all *)
(* that is in the queue.  Needs the same: the broker counts only what       *)
(* nobody has fetched.                                                      *)
SizeIsTotal ==
    [][\A w \in Threads :
        reply[w].status = "none" /\ reply'[w].status = "size" /\ Alone(w) =>
            reply'[w].size = Cardinality({m \in Present : msgs[m].queue = ReadName(w)})]_vars

(* While nothing fails, a listing shows, when it is answered, messages that *)
(* are in the queue, each once and by an id that finds it, whatever other   *)
(* threads drop, purge or list meanwhile.                                   *)
ListedIsThere ==
    [][\A w \in Threads : reply[w].status = "none" /\ reply'[w].status = "messages" =>
        \A i \in DOMAIN dlqMessages[w] :
            LET m == dlqMessages[w][i].msg IN
            /\ m \in Present' /\ msgs[m].queue = ReadName(w)
            /\ dlqMessages[w][i].id \in IdsOf(msgs[m].content.payload)
            /\ \A j \in DOMAIN dlqMessages[w] : dlqMessages[w][j].msg = m => i = j]_vars

-----------------------------------------------------------------------------
(* What the documentation says and the code does not do.                    *)

(* DefaultMessageConverter: the id lets a caller "reference the same        *)
(* message in the queue" later; so listing a message again shows the same   *)
(* id.  The fingerprint covers the redelivered flag, which the first        *)
(* listing itself raises.                                                   *)
ListedIdsStable ==
    \A w, v \in Threads :
        \A i \in DOMAIN dlqMessages[w], j \in DOMAIN dlqMessages[v] :
            dlqMessages[w][i].msg = dlqMessages[v][j].msg
                => dlqMessages[w][i].id = dlqMessages[v][j].id

(* README: "Republish 1 message at a time from queue".  The loop does not   *)
(* stop at the first match.                                                 *)
RepublishesOne ==
    \A w \in Threads :
        call[w].op = "republishMessage" => Cardinality(acked[w]) <= 1
=============================================================================
