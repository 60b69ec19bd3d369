---------------------- MODULE MessageOperatorAnswers_proofs ----------------------
(***************************************************************************)
(* What an answer says, and what the queue is like when it says so: its     *)
(* acknowledgements, and, while nothing fails, that what it acknowledged is *)
(* gone, that the size it tells is the whole queue's, that a purge leaves   *)
(* nothing, that a listing is the head of the queue, that republishing      *)
(* copies what it removes, that what is listed is there, and that a search  *)
(* finds what it cannot miss (MessageSearch).                               *)
(***************************************************************************)
EXTENDS MessageOperatorDelivery_proofs, MessageSearch

-----------------------------------------------------------------------------
(* Between the acknowledgement and the flag that reports it lie other steps *)
(* (the copy of a republished message), so CallAccounting is not inductive: *)
(* Accounts says at which steps of a call the two agree.                    *)

Accounts(w) ==
    /\ pc[w] \in {"size", "template", "purge"} => acked[w] = {} /\ ~done[w]
    /\ pc[w] \in {"loop", "ack", "finally"} /\ ~done[w] => acked[w] = {}
    /\ done[w] \/ pc[w] = "send" => acked[w] # {}
    /\ call[w].op = "ackCertainMessage" =>
        /\ Cardinality(acked[w]) <= 1
        /\ pc[w] \in {"loop", "ack"} => acked[w] = {}
    /\ pc[w] # "returned" => reply[w].status = "none"
    /\ reply[w].status = "success" /\ NeedsId(call[w].op) => acked[w] # {}
    /\ reply[w].status \in {"failure", "null"} => acked[w] = {}

AccountInv == \A w \in Threads : Accounts(w)

(* A call answers with a status that its acknowledgements bear out.         *)
LEMMA ReturnAccounts ==
    ASSUME IInv, NEW w \in Threads, Accounts(w),
           NEW status \in Status, NEW size \in Nat, Return(w, status, size),
           status = "success" /\ NeedsId(call[w].op) => acked[w] # {},
           status \in {"failure", "null"} => acked[w] = {}
    PROVE  Accounts(w)'
<1>1. /\ pc'[w] = "returned" /\ reply'[w].status = status
      /\ call' = call /\ acked' = acked /\ done' = done
    BY DEF Return, GoTo, IInv, CallTypeOK
<1> QED BY <1>1 DEF Accounts

(* A step of the scan that acknowledges nothing and reports nothing.        *)
LEMMA ScanAccounts ==
    ASSUME IInv, NEW w \in Threads, Accounts(w), UNCHANGED <<call, acked, done, reply>>,
           NEW step \in {"loop", "ack", "finally", "unwind"}, GoTo(w, step),
           \/ pc[w] \in {"loop", "ack", "template"}
           \/ step = "unwind" /\ pc[w] = "send"
    PROVE  Accounts(w)'
<1>1. pc'[w] = step
    BY DEF GoTo, IInv, CallTypeOK
<1> QED BY <1>1 DEF Accounts

LEMMA AckAccounts ==
    ASSUME IInv, NEW w \in Threads, Accounts(w), Ack(w)
    PROVE  Accounts(w)'
<1>1. /\ pc[w] = "ack" /\ call' = call /\ reply' = reply
      /\ acked'[w] = acked[w] \cup {held[w]}
    BY DEF Ack, IInv, CallTypeOK
<1>2. CASE call[w].op = "ackCertainMessage"
    <2>1. pc'[w] = "finally" /\ done'[w]
        BY <1>2 DEF Ack, GoTo, IInv, CallTypeOK
    <2>2. acked'[w] = {held[w]}
        BY <1>1, <1>2 DEF Accounts
    <2>3. Cardinality(acked'[w]) = 1
        BY <2>2, FS_Singleton
    <2> QED BY <1>1, <2>1, <2>2, <2>3 DEF Accounts
<1>3. CASE call[w].op # "ackCertainMessage"
    <2>1. pc'[w] = "send" /\ done' = done
        BY <1>3 DEF Ack, GoTo, IInv, CallTypeOK
    <2> QED BY <1>1, <1>3, <2>1 DEF Accounts
<1> QED BY <1>2, <1>3

LEMMA SendAccounts ==
    ASSUME IInv, NEW w \in Threads, Accounts(w), Send(w)
    PROVE  Accounts(w)'
<1>1. /\ pc[w] = "send" /\ UNCHANGED <<call, acked, reply>>
      /\ pc'[w] \in {"loop", "finally"} /\ done'[w]
    BY DEF Send, EndIteration, GoTo, IInv, CallTypeOK
<1>2. call[w].op = "republishMessage"
    BY <1>1 DEF IInv, ThreadOK
<1> QED BY <1>1, <1>2 DEF Accounts

(* Every step of the thread.                                                *)
LEMMA EndAccounts ==
    ASSUME IInv, NEW w \in Threads, Accounts(w),
           \/ RejectEmptyId(w) \/ SizeOfUnknownQueue(w) \/ SizeOfUnknownBinder(w)
           \/ SizeOfUndeclaredQueue(w) \/ Purge(w) \/ SizeFails(w) \/ PurgeFails(w)
           \/ Finally(w) \/ FinallyWithoutTemplate(w)
    PROVE  Accounts(w)'
<1>1. CASE \/ RejectEmptyId(w) \/ SizeOfUnknownQueue(w) \/ SizeOfUnknownBinder(w)
           \/ SizeOfUndeclaredQueue(w) \/ SizeFails(w)
    <2>1. acked[w] = {} /\ pc[w] = "size"
        BY <1>1 DEF RejectEmptyId, SizeOfUnknownQueue, SizeOfUnknownBinder,
            SizeOfUndeclaredQueue, SizeFails, AsksSize, Accounts
    <2>2. PICK status \in {"failure", "error", NullSizeStatus(call[w].op)} : Return(w, status, 0)
        BY <1>1 DEF RejectEmptyId, SizeOfUnknownQueue, SizeOfUnknownBinder,
            SizeOfUndeclaredQueue, SizeFails
    <2>3. status \in Status /\ status # "success"
        BY StatusOfNullSize DEF Status, NullSizeStatus
    <2> QED BY <2>1, <2>2, <2>3, ReturnAccounts
<1>2. CASE Purge(w) \/ PurgeFails(w)
    <2>1. acked[w] = {} /\ ~NeedsId(call[w].op)
        BY <1>2 DEF Purge, PurgeFails, Accounts, IInv, ThreadOK, NeedsId
    <2>2. PICK status \in {"success", "error"} : Return(w, status, 0)
        BY <1>2 DEF Purge, PurgeFails
    <2> QED BY <2>1, <2>2, ReturnAccounts DEF Status
<1>3. CASE FinallyWithoutTemplate(w)
    BY <1>3, ReturnAccounts DEF FinallyWithoutTemplate, Status
<1>4. CASE Finally(w)
    <2>1. Return(w, Outcome(w), 0) /\ Outcome(w) \in Status
        BY <1>4 DEF Finally, Outcome, Status
    <2>2. Outcome(w) = "success" => acked[w] # {}
        BY DEF Outcome, Accounts
    <2>3. Outcome(w) \in {"failure", "null"} => acked[w] = {}
        BY <1>4 DEF Finally, Outcome, Accounts
    <2> QED BY <2>1, <2>2, <2>3, ReturnAccounts
<1> QED BY <1>1, <1>2, <1>3, <1>4

LEMMA ThreadStepAccounts ==
    ASSUME IInv, NEW w \in Threads, Accounts(w), Request(w) \/ Operator(w) \/ Failure(w)
    PROVE  Accounts(w)'
<1>1. CASE Request(w)
    <2>1. /\ pc'[w] = "size" /\ acked' = acked /\ done' = done /\ reply' = reply
          /\ pc[w] = "idle" /\ acked[w] = {}
        BY <1>1 DEF Request, GoTo, IInv, CallTypeOK, ThreadOK
    <2>2. Cardinality({}) = 0
        BY FS_EmptySet
    <2> QED BY <2>1, <2>2 DEF Accounts
<1>2. CASE Respond(w)
    <2>1. /\ pc'[w] = "idle" /\ acked'[w] = {} /\ ~done'[w] /\ reply'[w] = NoReply
          /\ call'[w] = NoCall
        BY <1>2 DEF Respond, GoTo, IInv, CallTypeOK
    <2> QED BY <2>1 DEF Accounts, NoCall, NoReply
<1>3. CASE SizeRead(w)
    <2>1. pc[w] = "size" /\ acked[w] = {} /\ ~done[w]
        BY <1>3 DEF SizeRead, AsksSize, Accounts
    <2>2. CASE Return(w, "size", MessageCount(ReadName(w)))
        <3>1. MessageCount(ReadName(w)) \in Nat
            BY MessageCountIsNat DEF MessageCount, Ready, IInv, BrokerTypeOK
        <3> QED BY <2>1, <2>2, <3>1, ReturnAccounts DEF Status
    <2>3. CASE /\ UNCHANGED <<call, acked, done, reply>>
               /\ pc'[w] \in {"purge", "finally", "loop", "template"}
        BY <2>1, <2>3 DEF Accounts
    <2> QED BY <1>3, <2>2, <2>3 DEF SizeRead, GoTo, IInv, CallTypeOK
<1>4. CASE Ack(w) \/ Send(w)
    BY <1>4, AckAccounts, SendAccounts
<1>5. CASE \/ GetTemplate(w) \/ GetNothing(w) \/ ListMessage(w) \/ SkipMessage(w)
           \/ MatchMessage(w) \/ ConversionFails(w) \/ AckOnClosedChannel(w) \/ ExecuteFails(w)
    <2>1. UNCHANGED <<call, acked, done, reply>>
        BY <1>5 DEF GetTemplate, GetNothing, ListMessage, SkipMessage, MatchMessage,
            ConversionFails, AckOnClosedChannel, ExecuteFails
    <2>2. PICK step \in {"loop", "ack", "finally", "unwind"} :
            GoTo(w, step) /\ (pc[w] = "send" => step = "unwind")
        BY <1>5 DEF GetTemplate, GetNothing, ListMessage, SkipMessage, MatchMessage,
            ConversionFails, AckOnClosedChannel, ExecuteFails, EndIteration, Fetch
    <2>3. pc[w] \in {"loop", "ack", "template", "send"}
        BY <1>5 DEF GetTemplate, GetNothing, ListMessage, SkipMessage, MatchMessage,
            ConversionFails, AckOnClosedChannel, ExecuteFails, Fetch
    <2> QED BY <2>1, <2>2, <2>3, ScanAccounts
<1> QED BY <1>1, <1>2, <1>3, <1>4, <1>5, EndAccounts DEF Operator, Failure

LEMMA NextKeepsAccounts ==
    ASSUME IInv, AccountInv, [Next]_vars
    PROVE  AccountInv'
<1>1. ASSUME NEW w \in Threads, Request(w) \/ Operator(w) \/ Failure(w)
      PROVE  AccountInv'
    <2>1. Accounts(w)'
        BY <1>1, ThreadStepAccounts DEF AccountInv
    <2>2. ASSUME NEW v \in Threads, v # w
          PROVE  Accounts(v)'
        BY <1>1, <2>2, ThreadStepKept DEF Kept, Others, AccountInv, Accounts
    <2> QED BY <2>1, <2>2 DEF AccountInv
<1>2. CASE UNCHANGED callVars
    BY <1>2 DEF callVars, AccountInv, Accounts
<1>3. CASE Restart
    BY <1>3 DEF Restart, NoCall, NoReply, AccountInv, Accounts
<1> QED BY <1>1, <1>2, <1>3 DEF Next, ConnectionLost, vars

(* Dropping acknowledges at most one message; a success means that          *)
(* something was acknowledged, a plain failure that nothing was, whatever   *)
(* failed on the way.                                                       *)
THEOREM AnswersAccountForAcks == Spec => []CallAccounting
<1>1. Init => AccountInv
    BY DEF Init, NoCall, NoReply, AccountInv, Accounts
<1>2. IInv /\ AccountInv /\ [Next]_vars => AccountInv'
    BY NextKeepsAccounts
<1>3. AccountInv => CallAccounting
    BY DEF AccountInv, Accounts, CallAccounting
<1> QED BY <1>1, <1>2, <1>3, Invariance, PTL DEF Spec

-----------------------------------------------------------------------------
(* Every entry of a listing carries the id that the delivery it was made    *)
(* from leads to, whatever its delivery tag.                                *)
IdOf(m, seen) ==
    MessageId([payload |-> msgs[m].content.payload, route |-> msgs[m].content.route,
               redelivered |-> seen, deliveryTag |-> 1])

ListedRight(w) ==
    \A i \in DOMAIN dlqMessages[w] :
        /\ dlqMessages[w][i].msg \in DOMAIN msgs
        /\ dlqMessages[w][i].id = IdOf(dlqMessages[w][i].msg, dlqMessages[w][i].redelivered)

ListedInv == \A w \in Threads : ListedRight(w)

LEMMA ListedStays ==
    ASSUME NEW v \in Threads, ListedRight(v), dlqMessages'[v] = dlqMessages[v], MsgsGrow
    PROVE  ListedRight(v)'
BY DEF ListedRight, IdOf, MsgsGrow

LEMMA ListMessageListsRight ==
    ASSUME IInv, NEW w \in Threads, ListedRight(w), ListMessage(w)
    PROVE  ListedRight(w)'
<1>1. PICK f \in Factories, m \in ready :
        /\ Fetch(w, f, m)
        /\ dlqMessages' = [dlqMessages EXCEPT ![w] =
             Append(@, [msg |-> m, id |-> MessageId(Delivery(f, m)),
                        redelivered |-> m \in redelivered])]
    BY DEF ListMessage
<1> DEFINE entry == [msg |-> m, id |-> MessageId(Delivery(f, m)),
                     redelivered |-> m \in redelivered]
<1>2. msgs' = msgs /\ m \in DOMAIN msgs
    BY <1>1, FetchFacts DEF Fetch, BasicGet
<1>3. entry.id = IdOf(entry.msg, entry.redelivered)
    BY DEF IdOf, Delivery, MessageId, Fingerprint
<1>4. dlqMessages[w] \in Seq(Listed) /\ dlqMessages'[w] = Append(dlqMessages[w], entry)
    BY <1>1 DEF IInv, CallTypeOK
<1> HIDE DEF entry
<1>5. /\ DOMAIN dlqMessages[w] = 1 .. Len(dlqMessages[w]) /\ Len(dlqMessages[w]) \in Nat
      /\ DOMAIN dlqMessages'[w] = 1 .. Len(dlqMessages[w]) + 1
      /\ \A i \in 1 .. Len(dlqMessages[w]) : dlqMessages'[w][i] = dlqMessages[w][i]
      /\ dlqMessages'[w][Len(dlqMessages[w]) + 1] = entry
    BY <1>4, LenProperties
<1>6. ASSUME NEW i \in DOMAIN dlqMessages'[w]
      PROVE  \/ i \in DOMAIN dlqMessages[w] /\ dlqMessages'[w][i] = dlqMessages[w][i]
             \/ dlqMessages'[w][i] = entry
    BY <1>5
<1>7. entry.msg \in DOMAIN msgs
    BY <1>2 DEF entry
<1> QED BY <1>2, <1>3, <1>6, <1>7 DEF ListedRight, IdOf

LEMMA NextKeepsListed ==
    ASSUME IInv, ListedInv, [Next]_vars
    PROVE  ListedInv'
<1>1. ASSUME NEW w \in Threads, Request(w) \/ Operator(w) \/ Failure(w)
      PROVE  ListedInv'
    <2>1. MsgsGrow /\ Others(w)
        BY <1>1, ThreadStepKept DEF Kept, BrokerKept
    <2>2. ListedRight(w)'
        <3>1. CASE ListMessage(w)
            BY <3>1, ListMessageListsRight DEF ListedInv
        <3>2. CASE Respond(w)
            <4>1. dlqMessages'[w] = <<>>
                BY <3>2 DEF Respond, IInv, CallTypeOK
            <4> QED BY <4>1 DEF ListedRight
        <3>3. CASE dlqMessages' = dlqMessages
            BY <2>1, <3>3, ListedStays DEF ListedInv
        <3> QED BY <1>1, <3>1, <3>2, <3>3 DEF Operator, Failure, Request, RejectEmptyId,
            SizeOfUnknownQueue, SizeOfUnknownBinder, SizeOfUndeclaredQueue, SizeRead, Purge,
            GetTemplate, GetNothing, SkipMessage, MatchMessage, ConversionFails, Ack,
            AckOnClosedChannel, Send, Finally, FinallyWithoutTemplate, SizeFails, PurgeFails,
            ExecuteFails, Return
    <2>3. ASSUME NEW v \in Threads, v # w
          PROVE  ListedRight(v)'
        BY <2>1, <2>3, ListedStays DEF Others, ListedInv
    <2> QED BY <2>2, <2>3 DEF ListedInv
<1>2. CASE (Broker \/ Arrive) /\ UNCHANGED <<connVars, callVars>>
    BY <1>2, BrokerStepKept, ListedStays DEF ListedInv, IInv, BrokerKept, callVars
<1>3. CASE ConnectionLost
    BY <1>3, ListedStays, BreakConnectionsKeepsBroker
        DEF ConnectionLost, ListedInv, IInv, BrokerKept, callVars
<1>4. CASE Restart
    BY <1>4 DEF Restart, ListedInv, ListedRight
<1>5. CASE UNCHANGED vars
    BY <1>5, ListedStays, UnchangedKeepsBroker DEF vars, callVars, ListedInv, IInv, BrokerKept
<1> QED BY <1>1, <1>2, <1>3, <1>4, <1>5 DEF Next

-----------------------------------------------------------------------------
(* While nothing fails.  An acknowledged message is gone, or the broker     *)
(* still has it on the connection over which its acknowledgement is on the  *)
(* way, and that connection is not closed before the frame has been read.   *)
Apart ==
    /\ orphaned = {}
    /\ \A f \in Factories : ready \cap unacked[f] = {}
    /\ \A f, g \in Factories : f # g => unacked[f] \cap unacked[g] = {}

AckFrame(m) == [kind |-> "ack", msg |-> m]

AckOnTheWay(w, m) ==
    \E f \in Factories : Owns(w, f) /\ m \in unacked[f] /\ AckFrame(m) \in Frames(f)

AckedGoes(w) == \A m \in acked[w] : m \notin Present \/ AckOnTheWay(w, m)

GoneInv == Apart /\ \A w \in Threads : AckedGoes(w)

(* What a thread does to the broker while nothing fails.                    *)
Handles ==
    /\ Apart'
    /\ Present' \subseteq Present
    /\ \A f \in Factories :
        /\ Frames(f) \subseteq Frames(f)'
        /\ Frames(f) # {} => unacked[f] \subseteq unacked'[f]

LEMMA WriteAppends ==
    ASSUME BrokerTypeOK, NEW f \in Factories, NEW frame \in Frame, WriteFrame(f, frame)
    PROVE  frame \in Frames(f)' /\ \A g \in Factories : Frames(g) \subseteq Frames(g)'
<1>1. /\ wire'[f] = Append(wire[f], frame) /\ wire[f] \in Seq(Frame)
      /\ \A g \in Factories : g # f => wire'[g] = wire[g]
    BY DEF WriteFrame, BrokerTypeOK
<1>2. /\ DOMAIN wire[f] = 1 .. Len(wire[f]) /\ Len(wire[f]) \in Nat
      /\ DOMAIN wire'[f] = 1 .. Len(wire[f]) + 1
      /\ \A i \in 1 .. Len(wire[f]) : wire'[f][i] = wire[f][i]
      /\ wire'[f][Len(wire[f]) + 1] = frame
    BY <1>1, LenProperties, AppendProperties
<1>3. Len(wire[f]) + 1 \in DOMAIN wire'[f] /\ DOMAIN wire[f] \subseteq DOMAIN wire'[f]
    BY <1>2
<1> QED BY <1>1, <1>2, <1>3 DEF Frames

LEMMA HandlesBroker ==
    ASSUME BrokerTypeOK, Apart,
           \/ UNCHANGED brokerVars
           \/ \E f \in Factories, m \in ready : BasicGet(f, m)
           \/ \E f \in Factories, frame \in Frame : WriteFrame(f, frame)
           \/ \E q \in QueueNames : QueuePurge(q)
           \/ \E f \in Factories : wire[f] = <<>> /\ CloseConnection(f)
    PROVE  Handles
<1>1. CASE UNCHANGED brokerVars
    BY <1>1 DEF brokerVars, Handles, Apart, Present, Frames
<1>2. ASSUME NEW f \in Factories, NEW m \in ready, BasicGet(f, m)
      PROVE  Handles
    <2>1. /\ unacked'[f] = unacked[f] \cup {m}
          /\ \A g \in Factories : g # f => unacked'[g] = unacked[g]
          /\ ready' = ready \ {m} /\ orphaned' = orphaned /\ wire' = wire
        BY <1>2 DEF BasicGet, BrokerTypeOK
    <2>2. Apart'
        BY <2>1 DEF Apart
    <2>3. Present' \subseteq Present
        BY <2>1 DEF Present
    <2> QED BY <2>1, <2>2, <2>3 DEF Handles, Frames
<1>3. ASSUME NEW f \in Factories, NEW frame \in Frame, WriteFrame(f, frame)
      PROVE  Handles
    BY <1>3, WriteAppends DEF WriteFrame, Handles, Apart, Present
<1>4. ASSUME NEW q \in QueueNames, QueuePurge(q)
      PROVE  Handles
    BY <1>4 DEF QueuePurge, Handles, Apart, Present, Frames
<1>5. ASSUME NEW f \in Factories, wire[f] = <<>>, CloseConnection(f)
      PROVE  Handles
    <2>1. /\ unacked'[f] = {}
          /\ \A g \in Factories : g # f => unacked'[g] = unacked[g]
          /\ ready' = ready \cup unacked[f] /\ orphaned' = orphaned /\ wire' = wire
        BY <1>5 DEF CloseConnection, BrokerTypeOK
    <2>2. Apart'
        BY <2>1 DEF Apart
    <2>3. Present' \subseteq Present
        BY <2>1 DEF Present
    <2>4. Frames(f) = {}
        BY <1>5 DEF Frames
    <2> QED BY <2>1, <2>2, <2>3, <2>4 DEF Handles, Frames
<1> QED BY <1>1, <1>2, <1>3, <1>4, <1>5

LEMMA ThreadStepHandles ==
    ASSUME ~Failures, IInv, Apart, NEW w \in Threads, Request(w) \/ Operator(w) \/ Failure(w)
    PROVE  Handles
<1>1. BrokerTypeOK
    BY DEF IInv
<1>2. CASE Failure(w)
    BY <1>2, HandlesBroker, QueuesAssumption
        DEF Failure, SizeFails, PurgeFails, ExecuteFails
<1>3. CASE Ack(w)
    <2>1. PICK frame \in Frame : frame = AckFrame(held[w])
        BY LocalTypes DEF Frame, AckFrame
    <2>2. Template(w) \in Factories /\ WriteFrame(Template(w), frame)
        BY <1>3, <2>1 DEF Ack, AckFrame, IInv, ThreadOK
    <2> QED BY <1>1, <2>2, HandlesBroker
<1>4. CASE Send(w)
    <2>1. PICK frame \in Frame : frame = [kind |-> "publish", copies |-> Copies(w)]
        BY <1>4, CopiesType DEF Frame, Send
    <2> QED BY <1>1, <1>4, <2>1, HandlesBroker DEF Send
<1>5. CASE Purge(w)
    <2>1. ReadName(w) \in QueueNames
        BY <1>5, QueuesAssumption DEF Purge, IInv, ThreadOK
    <2> QED BY <1>1, <1>5, <2>1, HandlesBroker DEF Purge
<1>6. CASE Finally(w)
    <2>1. Template(w) \in Factories
        BY <1>6, ScanningBinder DEF Finally, IInv, ThreadOK, Scanning, Template,
            ConnInv, ConnTypeOK, Lookup
    <2> QED BY <1>1, <1>6, <2>1, HandlesBroker DEF Finally
<1>7. CASE ListMessage(w) \/ SkipMessage(w) \/ MatchMessage(w) \/ ConversionFails(w)
    BY <1>1, <1>7, HandlesBroker DEF ListMessage, SkipMessage, MatchMessage, ConversionFails, Fetch
<1>8. CASE UNCHANGED brokerVars
    BY <1>1, <1>8, HandlesBroker
<1> QED BY <1>2, <1>3, <1>4, <1>5, <1>6, <1>7, <1>8 DEF Operator, Request, RejectEmptyId,
        SizeOfUnknownQueue, SizeOfUnknownBinder, SizeOfUndeclaredQueue, SizeRead, GetTemplate,
        GetNothing, AckOnClosedChannel, FinallyWithoutTemplate, Respond

(* What was acknowledged before a step of some thread, after it.            *)
LEMMA AckOnTheWayStays ==
    ASSUME NEW v \in Threads, NEW m, Handles, m \notin Present \/ AckOnTheWay(v, m),
           \A f \in Factories : Owns(v, f) /\ Frames(f)' # {} => Owns(v, f)'
    PROVE  m \notin Present' \/ AckOnTheWay(v, m)'
BY DEF Handles, AckOnTheWay

LEMMA ThreadStepGoes ==
    ASSUME ~Failures, IInv, HoldInv, GoneInv, NEW w \in Threads,
           Request(w) \/ Operator(w) \/ Failure(w)
    PROVE  GoneInv'
<1>1. Handles /\ Others(w)
    BY ThreadStepHandles, ThreadStepKept DEF GoneInv, Kept
<1>2. ASSUME NEW v \in Threads, v # w
      PROVE  AckedGoes(v)'
    <2>1. acked'[v] = acked[v]
        BY <1>1, <1>2 DEF Others
    <2>2. \A f \in Factories : Owns(v, f) => Owns(v, f)'
        BY <1>1, <1>2, OwnersStay
    <2> QED BY <1>1, <2>1, <2>2, AckOnTheWayStays DEF GoneInv, AckedGoes
<1>3. AckedGoes(w)'
    <2>1. Keeps(w)
        <3>1. CASE pc[w] \notin Scanning
            BY <3>1, OutsideScan
        <3>2. CASE pc[w] \in Scanning
            BY <3>2, InsideScan DEF Request, Scanning
        <3> QED BY <3>1, <3>2
    <2>2. \A f \in Factories : Owns(w, f) /\ Frames(f)' # {} => Owns(w, f)'
        BY <2>1 DEF Keeps
    <2>3. \A m \in acked[w] : m \notin Present' \/ AckOnTheWay(w, m)'
        BY <1>1, <2>2, AckOnTheWayStays DEF GoneInv, AckedGoes
    <2>4. CASE Ack(w)
        <3>1. /\ acked'[w] = acked[w] \cup {held[w]} /\ call' = call /\ connVars' = connVars
              /\ pc'[w] \in Scanning /\ pc[w] \in Scanning
              /\ unacked' = unacked /\ held[w] \in unacked[Template(w)]
            BY <2>4 DEF Ack, WriteFrame, GoTo, Scanning, IInv, CallTypeOK
        <3>2. Template(w) \in Factories /\ Configured(w)
            BY <2>4 DEF Ack, IInv, ThreadOK, Scanning
        <3>3. Owns(w, Template(w))
            BY <3>1, <3>2 DEF Owns
        <3>4. PICK f \in Factories : f = Template(w)
            BY <3>2
        <3>5. Owns(w, f)'
            BY <3>1, <3>3, <3>4 DEF Owns, Configured, Template, Binder, connVars
        <3>m. PICK m : m = held[w]
            OBVIOUS
        <3>6. PICK frame \in Frame : frame = AckFrame(m)
            BY <3>m, LocalTypes DEF Frame, AckFrame
        <3>7. WriteFrame(f, frame)
            BY <2>4, <3>4, <3>6, <3>m DEF Ack, AckFrame
        <3>8. frame \in Frames(f)'
            BY <3>7, WriteAppends DEF IInv
        <3>9. AckOnTheWay(w, m)'
            BY <3>1, <3>m, <3>4, <3>5, <3>6, <3>8 DEF AckOnTheWay, AckFrame
        <3> QED BY <2>3, <3>1, <3>m, <3>9 DEF AckedGoes
    <2>5. CASE acked'[w] \subseteq acked[w]
        BY <2>3, <2>5 DEF AckedGoes
    <2> QED BY <2>4, <2>5 DEF Operator, Failure, Request, RejectEmptyId,
            SizeOfUnknownQueue, SizeOfUnknownBinder, SizeOfUndeclaredQueue, SizeRead, Purge,
            GetTemplate, GetNothing, ListMessage, SkipMessage, MatchMessage, ConversionFails,
            AckOnClosedChannel, Send, Finally, FinallyWithoutTemplate, Respond, SizeFails,
            PurgeFails, ExecuteFails, Return, IInv, CallTypeOK
<1> QED BY <1>1, <1>2, <1>3 DEF GoneInv, Handles

(* The broker's steps.  Only reading its acknowledgement takes a message    *)
(* off the connection it was delivered on, and then it is nowhere else.     *)
LEMMA FrameIsNotHead ==
    ASSUME BrokerTypeOK, NEW f \in Factories, wire[f] # <<>>, wire'[f] = Tail(wire[f]),
           NEW frame \in Frames(f), frame # Head(wire[f])
    PROVE  frame \in Frames(f)'
<1>1. PICK i \in DOMAIN wire[f] : frame = wire[f][i]
    BY DEF Frames
<1>2. wire[f] \in Seq(Frame) /\ Len(wire[f]) \in Nat /\ DOMAIN wire[f] = 1 .. Len(wire[f])
    BY LenProperties DEF BrokerTypeOK
<1>3. /\ Tail(wire[f]) \in Seq(Frame) /\ Len(Tail(wire[f])) = Len(wire[f]) - 1
      /\ \A j \in 1 .. Len(wire[f]) - 1 : Tail(wire[f])[j] = wire[f][j + 1]
      /\ i # 1
    BY <1>1, WireTail
<1>4. DOMAIN wire'[f] = 1 .. Len(wire[f]) - 1
    BY <1>3, LenProperties
<1>5. i - 1 \in 1 .. Len(wire[f]) - 1 /\ (i - 1) + 1 = i
    BY <1>1, <1>2, <1>3
<1>6. wire'[f][i - 1] = frame
    BY <1>1, <1>3, <1>5
<1> QED BY <1>4, <1>5, <1>6 DEF Frames

LEMMA OwnersSame ==
    ASSUME UNCHANGED <<connVars, callVars>>, NEW w \in Threads, NEW f \in Factories, Owns(w, f)
    PROVE  Owns(w, f)'
BY DEF Owns, Configured, Template, Binder, connVars, callVars

LEMMA ReadAckGoes ==
    ASSUME IInv, GoneInv, NEW f \in Factories, ReadAck(f), UNCHANGED <<connVars, callVars>>
    PROVE  GoneInv'
<1>1. PICK a : a = Head(wire[f]).msg
    OBVIOUS
<1>2. /\ unacked'[f] = unacked[f] \ {a} /\ wire'[f] = Tail(wire[f]) /\ wire[f] # <<>>
      /\ \A g \in Factories : g # f => unacked'[g] = unacked[g] /\ wire'[g] = wire[g]
      /\ ready' = ready /\ orphaned' = orphaned
    BY <1>1 DEF ReadAck, IInv, BrokerTypeOK
<1>3. Apart' /\ Present' \subseteq Present
    BY <1>2 DEF GoneInv, Apart, Present
<1>4. ASSUME NEW w \in Threads, NEW m \in acked[w]
      PROVE  m \notin Present' \/ AckOnTheWay(w, m)'
    <2>1. CASE m \notin Present
        BY <1>3, <2>1
    <2>2. ASSUME NEW g \in Factories, Owns(w, g), m \in unacked[g], AckFrame(m) \in Frames(g)
          PROVE  m \notin Present' \/ AckOnTheWay(w, m)'
        <3>1. Owns(w, g)'
            BY <2>2, OwnersSame
        <3>2. CASE g # f
            BY <1>2, <2>2, <3>1, <3>2 DEF AckOnTheWay, AckFrame, Frames
        <3>3. CASE g = f /\ m = a
            BY <1>2, <2>2, <3>3 DEF GoneInv, Apart, Present
        <3>4. CASE g = f /\ m # a
            <4>1. AckFrame(m) # Head(wire[f])
                BY <1>1, <3>4 DEF AckFrame
            <4>2. PICK frame \in Frames(f) : frame = AckFrame(m)
                BY <2>2, <3>4
            <4>3. frame \in Frames(f)'
                BY <1>2, <4>1, <4>2, FrameIsNotHead DEF IInv
            <4>4. m \in unacked'[f]
                BY <1>2, <2>2, <3>4
            <4> QED BY <3>1, <3>4, <4>2, <4>3, <4>4 DEF AckOnTheWay, AckFrame
        <3> QED BY <3>2, <3>3, <3>4
    <2> QED BY <2>1, <2>2 DEF GoneInv, AckedGoes, AckOnTheWay
<1>5. acked' = acked
    BY DEF callVars
<1> QED BY <1>3, <1>4, <1>5 DEF GoneInv, AckedGoes

(* New messages are not among those that were acknowledged.                 *)
LEMMA EnqueueGoes ==
    ASSUME IInv, GoneInv, NEW new \in Seq(Message), Enqueue(new),
           UNCHANGED <<unacked, orphaned, connVars, callVars>>,
           \A g \in Factories, m \in Nat :
                AckFrame(m) \in Frames(g) => AckFrame(m) \in Frames(g)'
    PROVE  GoneInv'
<1>1. /\ ready' = ready \cup (Len(msgs) + 1 .. Len(msgs'))
      /\ DOMAIN msgs = 1 .. Len(msgs) /\ Len(msgs) \in Nat
    BY EnqueueGrows, LenProperties DEF IInv, BrokerTypeOK
<1>2. \A m \in DOMAIN msgs : m \notin Len(msgs) + 1 .. Len(msgs')
    BY <1>1
<1>3. Apart'
    BY <1>1, <1>2 DEF GoneInv, Apart, IInv, BrokerTypeOK
<1>4. \A m \in DOMAIN msgs : m \in Present' => m \in Present
    BY <1>1, <1>2 DEF Present
<1>5. ASSUME NEW w \in Threads, NEW m \in acked[w]
      PROVE  m \notin Present' \/ AckOnTheWay(w, m)'
    <2>1. m \in DOMAIN msgs /\ m \in Nat
        BY <1>1 DEF IInv, CallTypeOK
    <2>2. CASE m \notin Present
        BY <1>4, <2>1, <2>2
    <2>3. ASSUME NEW g \in Factories, Owns(w, g), m \in unacked[g], AckFrame(m) \in Frames(g)
          PROVE  AckOnTheWay(w, m)'
        <3>1. Owns(w, g)'
            BY <2>3, OwnersSame
        <3>2. AckFrame(m) \in Frames(g)'
            BY <2>1, <2>3
        <3> QED BY <2>3, <3>1, <3>2 DEF AckOnTheWay, AckFrame
    <2> QED BY <2>2, <2>3 DEF GoneInv, AckedGoes, AckOnTheWay
<1>6. acked' = acked
    BY DEF callVars
<1> QED BY <1>3, <1>5, <1>6 DEF GoneInv, AckedGoes

LEMMA ReadPublishGoes ==
    ASSUME IInv, GoneInv, NEW f \in Factories, ReadPublish(f), UNCHANGED <<connVars, callVars>>
    PROVE  GoneInv'
<1>1. /\ wire'[f] = Tail(wire[f]) /\ wire[f] # <<>> /\ Head(wire[f]).kind = "publish"
      /\ \A g \in Factories : g # f => wire'[g] = wire[g]
    BY DEF ReadPublish, IInv, BrokerTypeOK
<1>2. PICK new \in Seq(Message) : new = Head(wire[f]).copies
    BY <1>1, WireTail DEF Frame, IInv
<1>3. ASSUME NEW g \in Factories, NEW m \in Nat, AckFrame(m) \in Frames(g)
      PROVE  AckFrame(m) \in Frames(g)'
    <2>1. CASE g # f
        BY <1>1, <1>3, <2>1 DEF Frames, AckFrame
    <2>2. CASE g = f
        <3>1. AckFrame(m) # Head(wire[f])
            BY <1>1 DEF AckFrame
        <3>2. PICK frame \in Frames(f) : frame = AckFrame(m)
            BY <1>3, <2>2
        <3>3. frame \in Frames(f)'
            BY <1>1, <3>1, <3>2, FrameIsNotHead DEF IInv
        <3> QED BY <2>2, <3>2, <3>3 DEF AckFrame
    <2> QED BY <2>1, <2>2
<1>4. Enqueue(new) /\ UNCHANGED <<unacked, orphaned>>
    BY <1>2 DEF ReadPublish
<1> QED BY <1>2, <1>3, <1>4, EnqueueGoes

LEMMA ArriveGoes ==
    ASSUME IInv, GoneInv, Arrive, UNCHANGED <<connVars, callVars>>
    PROVE  GoneInv'
<1>1. PICK message \in Arrivals : Enqueue(<<message>>)
    BY DEF Arrive
<1>2. <<message>> \in Seq(Message) /\ UNCHANGED <<unacked, orphaned, wire>>
    BY BrokerAssumption DEF Arrive
<1>3. \A g \in Factories, m \in Nat : AckFrame(m) \in Frames(g) => AckFrame(m) \in Frames(g)'
    BY <1>2 DEF Frames, AckFrame
<1> QED BY <1>1, <1>2, <1>3, EnqueueGoes

LEMMA NextKeepsGone ==
    ASSUME ~Failures, IInv, HoldInv, GoneInv, [Next]_vars
    PROVE  GoneInv'
<1>1. CASE \E w \in Threads : Request(w) \/ Operator(w) \/ Failure(w)
    BY <1>1, ThreadStepGoes
<1>2. CASE Broker /\ UNCHANGED <<connVars, callVars>>
    BY <1>2, ReadAckGoes, ReadPublishGoes DEF Broker, GoneInv, Apart
<1>3. CASE Arrive /\ UNCHANGED <<connVars, callVars>>
    BY <1>3, ArriveGoes
<1>4. CASE UNCHANGED vars
    BY <1>4 DEF vars, connVars, brokerVars, callVars, GoneInv, Apart, AckedGoes, AckOnTheWay,
        AckFrame, Present, Owns, Configured, Template, Binder, Frames
<1> QED BY <1>1, <1>2, <1>3, <1>4 DEF Next, ConnectionLost, Restart

LEMMA WithoutFailures ==
    ASSUME ~Failures
    PROVE  Spec => [](IInv /\ HoldInv /\ GoneInv)
<1>1. Init => GoneInv
    BY DEF Init, BrokerInit, GoneInv, Apart, AckedGoes
<1>2. IInv /\ HoldInv /\ GoneInv /\ [Next]_vars => GoneInv'
    BY NextKeepsGone
<1> QED BY <1>1, <1>2, Holders, PTL DEF Spec

(* While nothing fails, a drop or a republish that reports success has      *)
(* removed what it acknowledged by the time it answers: the operator who    *)
(* then looks at the queue does not find it there.                          *)
THEOREM SuccessIsGone ==
    ASSUME ~Failures
    PROVE  Spec => []SuccessMeansGone
<1>1. GoneInv => SuccessMeansGone
    BY DEF GoneInv, AckedGoes, AckOnTheWay, Owns, Scanning, SuccessMeansGone
<1> QED BY <1>1, WithoutFailures, PTL

-----------------------------------------------------------------------------
(* Nothing fails.  What is not ready has been fetched by a thread that is   *)
(* scanning its queue; so a thread that is alone with a queue, outside its  *)
(* own scan, finds all of it ready: what the broker counts is the queue.    *)
LEMMA AloneSeesAll ==
    ASSUME HoldInv, GoneInv, NEW w \in Threads, pc[w] \notin Scanning, Alone(w)
    PROVE  /\ {m \in Present : msgs[m].queue = ReadName(w)} = Ready(ReadName(w))
           /\ \A f \in Factories : \A m \in unacked[f] : msgs[m].queue # ReadName(w)
<1>1. ASSUME NEW f \in Factories, NEW m \in unacked[f]
      PROVE  msgs[m].queue # ReadName(w)
    <2>1. PICK v \in Threads : Owns(v, f) /\ msgs[m].queue = ReadName(v)
        BY DEF HoldInv
    <2>2. pc[v] \in Scanning /\ v \in Threads \ {w}
        BY <2>1 DEF Owns
    <2> QED BY <2>1, <2>2 DEF Alone
<1> QED BY <1>1 DEF GoneInv, Apart, Present, Ready

(* An answer is given in a step of the thread that gives it.                *)
LEMMA OwnStep ==
    ASSUME ~Failures, IInv, [Next]_vars, NEW w \in Threads,
           pc'[w] # pc[w] \/ reply'[w] # reply[w]
    PROVE  Request(w) \/ Operator(w)
<1>1. PICK v \in Threads : Request(v) \/ Operator(v) \/ Failure(v)
    BY DEF Next, vars, callVars, ConnectionLost, Restart
<1>2. Others(v)
    BY <1>1, ThreadStepKept DEF Kept
<1>3. v = w
    BY <1>2 DEF Others
<1> QED BY <1>1, <1>3 DEF Failure, SizeFails, PurgeFails, ExecuteFails

(* What an answer is, is what the step that gave it returned.               *)
LEMMA AnswerIsReturned ==
    ASSUME IInv, NEW w \in Threads, NEW status, NEW size, Return(w, status, size)
    PROVE  reply'[w].status = status /\ reply'[w].size = size
BY DEF Return, IInv, CallTypeOK

(* A call that answers with a size has just read it.                        *)
LEMMA SizeComesFromSizeRead ==
    ASSUME ~Failures, IInv, [Next]_vars, NEW w \in Threads,
           reply[w].status = "none", reply'[w].status = "size"
    PROVE  SizeRead(w) /\ Return(w, "size", MessageCount(ReadName(w)))
<1>1. reply' # reply /\ reply'[w] # reply[w]
    OBVIOUS
<1>2. Request(w) \/ Operator(w)
    BY <1>1, OwnStep
<1>3. CASE SizeRead(w)
    BY <1>1, <1>3 DEF SizeRead
<1>4. CASE Respond(w)
    BY <1>4 DEF Respond, NoReply, IInv, CallTypeOK
<1>5. CASE Operator(w) /\ ~SizeRead(w) /\ ~Respond(w)
    <2>1. PICK status \in {"success", "error", "failure", Outcome(w), NullSizeStatus(call[w].op)} :
            Return(w, status, 0)
        BY <1>1, <1>5 DEF Operator, RejectEmptyId, SizeOfUnknownQueue,
            SizeOfUnknownBinder, SizeOfUndeclaredQueue, Purge, GetTemplate, GetNothing,
            ListMessage, SkipMessage, MatchMessage, ConversionFails, Ack, AckOnClosedChannel,
            Send, Finally, FinallyWithoutTemplate
    <2>2. Outcome(w) # "size"
        BY DEF Outcome
    <2> QED BY <2>1, <2>2, AnswerIsReturned DEF NullSizeStatus
<1> QED BY <1>1, <1>2, <1>3, <1>4, <1>5 DEF Request

LEMMA PurgeComesFromPurge ==
    ASSUME ~Failures, IInv, [Next]_vars, NEW w \in Threads, pc[w] = "purge", pc'[w] # "purge"
    PROVE  Purge(w)
BY OwnStep DEF Request, Operator, RejectEmptyId, SizeOfUnknownQueue,
    SizeOfUnknownBinder, SizeOfUndeclaredQueue, SizeRead, GetTemplate, GetNothing,
    ListMessage, SkipMessage, MatchMessage, ConversionFails, Fetch, Ack, AckOnClosedChannel,
    Send, Finally, FinallyWithoutTemplate, Respond, AsksSize

(* The size an operator is told is that of all that is in the queue, unless *)
(* somebody else is scanning it just then.                                  *)
THEOREM SizeToldIsTotal ==
    ASSUME ~Failures
    PROVE  Spec => SizeIsTotal
<1>1. ASSUME IInv, HoldInv, GoneInv, [Next]_vars, NEW w \in Threads, Alone(w),
             reply[w].status = "none", reply'[w].status = "size"
      PROVE  reply'[w].size = Cardinality({m \in Present : msgs[m].queue = ReadName(w)})
    <2>1. SizeRead(w) /\ Return(w, "size", MessageCount(ReadName(w)))
        BY <1>1, SizeComesFromSizeRead
    <2>2. {m \in Present : msgs[m].queue = ReadName(w)} = Ready(ReadName(w))
        BY <1>1, <2>1, AloneSeesAll DEF SizeRead, AsksSize, Scanning
    <2>3. reply'[w].size = MessageCount(ReadName(w))
        BY <1>1, <2>1, AnswerIsReturned
    <2> QED BY <2>2, <2>3 DEF MessageCount
<1>2. IInv /\ HoldInv /\ GoneInv /\ [Next]_vars =>
        [\A w \in Threads :
            reply[w].status = "none" /\ reply'[w].status = "size" /\ Alone(w) =>
                reply'[w].size = Cardinality({m \in Present : msgs[m].queue = ReadName(w)})]_vars
    BY <1>1
<1> QED BY <1>2, WithoutFailures, PTL DEF Spec, SizeIsTotal

(* A purge that reports success has left nothing in the queue, unless       *)
(* somebody else is scanning it just then.                                  *)
THEOREM PurgeEmptiesQueue ==
    ASSUME ~Failures
    PROVE  Spec => DropAllEmptiesQueue
<1>1. ASSUME IInv, HoldInv, GoneInv, [Next]_vars, NEW w \in Threads, Alone(w),
             pc[w] = "purge", pc'[w] = "returned"
      PROVE  \A m \in Present' : msgs'[m].queue # ReadName(w)
    <2>1. Purge(w)
        BY <1>1, PurgeComesFromPurge
    <2>2. \A f \in Factories : \A m \in unacked[f] : msgs[m].queue # ReadName(w)
        BY <1>1, AloneSeesAll DEF Scanning
    <2>3. /\ ready' = ready \ Ready(ReadName(w)) /\ msgs' = msgs
          /\ unacked' = unacked /\ orphaned' = {}
        BY <1>1, <2>1 DEF Purge, QueuePurge, GoneInv, Apart
    <2> QED BY <2>2, <2>3 DEF Ready, Present
<1>2. IInv /\ HoldInv /\ GoneInv /\ [Next]_vars =>
        [\A w \in Threads :
            pc[w] = "purge" /\ pc'[w] = "returned" /\ reply'[w].status = "success" /\ Alone(w)
                => \A m \in Present' : msgs'[m].queue # ReadName(w)]_vars
    BY <1>1
<1> QED BY <1>2, WithoutFailures, PTL DEF Spec, DropAllEmptiesQueue

(* One operator at a time: between two scans the broker has all it has      *)
(* ready.                                                                   *)
OneThread == \A v, w \in Threads : v = w

LEMMA AllReady ==
    ASSUME OneThread, IInv, HoldInv, GoneInv, NEW w \in Threads, pc[w] \notin Scanning
    PROVE  Present = ready /\ \A f \in Factories : unacked[f] = {}
<1>1. \A f \in Factories : unacked[f] = {}
    BY DEF HoldInv, Owns, OneThread
<1> QED BY <1>1 DEF GoneInv, Apart, Present

-----------------------------------------------------------------------------
(* A listing in the making holds what the thread has fetched, in the order  *)
(* of the queue, and everything still ready comes after it; so when the     *)
(* thread gives back what it fetched, the list is the head of the queue.    *)
Shown(w) == {dlqMessages[w][i].msg : i \in DOMAIN dlqMessages[w]}

Ordered(w) ==
    \A i, j \in DOMAIN dlqMessages[w] :
        i < j => dlqMessages[w][i].msg < dlqMessages[w][j].msg

Limited(w) == call[w].limit # Absent /\ call[w].limit > 0

AtFront(w) ==
    /\ \A f \in Factories : unacked[f] \subseteq Shown(w)
    /\ \A m \in ready, n \in Shown(w) : msgs[m].queue = ReadName(w) => n < m
    /\ Limited(w) => Len(dlqMessages[w]) + left[w] <= call[w].limit

Headed(w) ==
    /\ \A m \in Present, n \in Shown(w) :
        msgs[m].queue = ReadName(w) /\ m < n => m \in Shown(w)
    /\ Limited(w) => Len(dlqMessages[w]) <= call[w].limit

Listing(w) ==
    /\ Ordered(w)
    /\ pc[w] \in {"idle", "size", "template", "purge"} => dlqMessages[w] = <<>>
    /\ call[w].op = "getMessages" /\ pc[w] \in {"loop", "finally"} => AtFront(w)
    /\ reply[w].status = "messages" => Headed(w)

ListingInv == \A w \in Threads : Listing(w)

(* A request at work has a limit only if it is a number.                    *)
LEMMA LimitIsInt ==
    ASSUME IInv, NEW w \in Threads, pc[w] # "idle", Limited(w)
    PROVE  call[w].limit \in Int
BY CallsAssumption DEF IInv, ThreadOK, CallTypeOK, Calls, Limited

LEMMA EmptyListing ==
    ASSUME IInv, NEW w \in Threads, pc[w] # "idle",
           dlqMessages'[w] = <<>>, call'[w] = call[w]
    PROVE  Ordered(w)' /\ Shown(w)' = {} /\ Len(dlqMessages'[w]) = 0 /\ Headed(w)'
<1>1. Len(dlqMessages'[w]) = 0 /\ DOMAIN dlqMessages'[w] = {}
    BY EmptySeq, LenProperties
<1>2. Shown(w)' = {} /\ Ordered(w)'
    BY <1>1 DEF Shown, Ordered
<1>3. Limited(w)' => Limited(w) /\ call[w].limit \in Int
    BY LimitIsInt DEF Limited
<1> QED BY <1>1, <1>2, <1>3 DEF Headed, Limited

LEMMA NumbersShown ==
    ASSUME IInv, NEW w \in Threads
    PROVE  Shown(w) \subseteq Nat /\ Present \subseteq Nat /\ Present \subseteq DOMAIN msgs
<1>1. ASSUME NEW i \in DOMAIN dlqMessages[w]
      PROVE  dlqMessages[w][i].msg \in Nat
    <2>1. dlqMessages[w] \in Seq(Listed)
        BY DEF IInv, CallTypeOK
    <2>2. dlqMessages[w][i] \in Listed
        BY <2>1, ElementOfSeq, LenProperties
    <2> QED BY <2>2 DEF Listed
<1>2. Present \subseteq DOMAIN msgs /\ DOMAIN msgs \subseteq Nat
    BY LenProperties DEF Present, IInv, BrokerTypeOK
<1> QED BY <1>1, <1>2 DEF Shown

LEMMA ListLen ==
    ASSUME IInv, NEW w \in Threads
    PROVE  /\ Len(dlqMessages[w]) \in Nat /\ DOMAIN dlqMessages[w] = 1 .. Len(dlqMessages[w])
           /\ left[w] \in Nat
BY LenProperties DEF IInv, CallTypeOK

(* The thread's own steps.                                                  *)
LEMMA SizeReadLists ==
    ASSUME ~Failures, OneThread, IInv, HoldInv, GoneInv, AccountInv, ListingInv,
           NEW w \in Threads, SizeRead(w)
    PROVE  Listing(w)'
<1>1. /\ dlqMessages' = dlqMessages /\ dlqMessages[w] = <<>> /\ dlqMessages'[w] = <<>>
      /\ call' = call /\ pc[w] = "size" /\ unacked' = unacked
    BY DEF SizeRead, Return, AsksSize, ListingInv, Listing, brokerVars
<1>2. Ordered(w)' /\ Shown(w)' = {} /\ Len(dlqMessages'[w]) = 0 /\ Headed(w)'
    BY <1>1, EmptyListing
<1>3. \A f \in Factories : unacked'[f] = {}
    BY <1>1, AllReady DEF Scanning
<1>4. ASSUME call[w].op = "getMessages", pc'[w] \in {"loop", "finally"}, Limited(w)
      PROVE  left'[w] = call[w].limit /\ call[w].limit \in Int
    <2>1. pc'[w] # "returned"
        BY <1>4
    <2>2. left' = [left EXCEPT ![w] = NumToRetrieve(call[w].limit, MessageCount(ReadName(w)))]
        BY <1>4, <2>1 DEF SizeRead, Return, GoTo, IInv, CallTypeOK
    <2>3. left'[w] = call[w].limit
        BY <1>4, <2>2 DEF NumToRetrieve, Limited, IInv, CallTypeOK
    <2> QED BY <1>1, <1>4, <2>3, LimitIsInt
<1>5. call[w].op = "getMessages" /\ pc'[w] \in {"loop", "finally"} => AtFront(w)'
    BY <1>1, <1>2, <1>3, <1>4 DEF AtFront, Limited
<1> QED BY <1>1, <1>2, <1>5 DEF Listing

LEMMA ListMessageLists ==
    ASSUME IInv, ListedInv, ListingInv, NEW w \in Threads, reply[w].status = "none", ListMessage(w)
    PROVE  Listing(w)'
<1>1. PICK f \in Factories, m \in ready :
        /\ Fetch(w, f, m)
        /\ dlqMessages' = [dlqMessages EXCEPT ![w] =
             Append(@, [msg |-> m, id |-> MessageId(Delivery(f, m)),
                        redelivered |-> m \in redelivered])]
    BY DEF ListMessage
<1> DEFINE entry == [msg |-> m, id |-> MessageId(Delivery(f, m)),
                     redelivered |-> m \in redelivered]
           len == Len(dlqMessages[w])
<1>2. /\ msgs' = msgs /\ call' = call /\ reply' = reply /\ ready' = ready \ {m}
      /\ unacked' = [unacked EXCEPT ![f] = @ \cup {m}]
      /\ pc[w] = "loop" /\ call[w].op = "getMessages"
    BY <1>1 DEF ListMessage, Fetch, BasicGet
<1>3. /\ pc'[w] \in {"loop", "finally"} /\ left'[w] = left[w] - 1
    BY DEF ListMessage, EndIteration, GoTo, IInv, CallTypeOK
<1>4. /\ dlqMessages[w] \in Seq(Listed) /\ dlqMessages'[w] = Append(dlqMessages[w], entry)
      /\ entry.msg = m
    BY <1>1 DEF IInv, CallTypeOK
<1> HIDE DEF entry
<1>5. /\ len \in Nat /\ Len(dlqMessages'[w]) = len + 1
      /\ DOMAIN dlqMessages[w] = 1 .. len /\ DOMAIN dlqMessages'[w] = 1 .. len + 1
      /\ \A i \in 1 .. len : dlqMessages'[w][i] = dlqMessages[w][i]
      /\ dlqMessages'[w][len + 1] = entry
    BY <1>4, LenProperties
<1> HIDE DEF len
<1>6. Shown(w)' = Shown(w) \cup {m}
    <2>1. Shown(w)' = {dlqMessages'[w][i].msg : i \in 1 .. len + 1}
        BY <1>5 DEF Shown
    <2>2. Shown(w) = {dlqMessages[w][i].msg : i \in 1 .. len}
        BY <1>5 DEF Shown
    <2>3. 1 .. len + 1 = (1 .. len) \cup {len + 1}
        BY <1>5
    <2> QED BY <1>4, <1>5, <2>1, <2>2, <2>3
<1>7. AtFront(w)
    BY <1>2 DEF ListingInv, Listing
<1>8. msgs[m].queue = ReadName(w) /\ \A n \in ready \ {m} : msgs[n].queue = ReadName(w) => m < n
    <2>1. ready \subseteq Nat
        BY LenProperties DEF IInv, BrokerTypeOK
    <2> QED BY <1>1, <2>1 DEF Fetch, AtHead, Ready
<1>9. \A n \in Shown(w) : n < m
    BY <1>7, <1>8 DEF AtFront
<1>10. Ordered(w)'
    <2> SUFFICES ASSUME NEW i \in 1 .. len + 1, NEW j \in 1 .. len + 1, i < j
                 PROVE  dlqMessages'[w][i].msg < dlqMessages'[w][j].msg
        BY <1>5 DEF Ordered
    <2>1. i \in 1 .. len /\ dlqMessages[w][i].msg \in Shown(w)
        BY <1>5 DEF Shown
    <2>2. CASE j = len + 1
        BY <1>4, <1>5, <1>9, <2>1, <2>2
    <2>3. CASE j # len + 1
        <3>1. j \in 1 .. len
            BY <1>5, <2>3
        <3>2. dlqMessages[w][i].msg < dlqMessages[w][j].msg
            BY <1>5, <2>1, <3>1 DEF ListingInv, Listing, Ordered
        <3> QED BY <1>5, <2>1, <3>1, <3>2
    <2> QED BY <2>2, <2>3
<1>11. AtFront(w)'
    <2>1. \A g \in Factories : unacked'[g] \subseteq Shown(w)'
        BY <1>2, <1>6, <1>7 DEF AtFront, IInv, BrokerTypeOK
    <2>2. ReadName(w)' = ReadName(w)
        BY <1>2 DEF ReadName
    <2>3. \A n \in ready', k \in Shown(w)' : msgs'[n].queue = ReadName(w)' => k < n
        BY <1>2, <1>6, <1>7, <1>8, <2>2 DEF AtFront
    <2>4. Limited(w)' => Len(dlqMessages'[w]) + left'[w] <= call'[w].limit
        <3>1. Limited(w)' => Limited(w) /\ call[w].limit \in Int
            BY <1>2, LimitIsInt DEF Limited
        <3>2. left[w] \in Nat
            BY ListLen
        <3>3. len + left[w] = (len + 1) + (left[w] - 1)
            BY <1>5, <3>2
        <3> QED BY <1>2, <1>3, <1>5, <1>7, <3>1, <3>3 DEF AtFront, len
    <2> QED BY <2>1, <2>3, <2>4 DEF AtFront
<1>12. reply'[w].status # "messages"
    BY <1>2
<1> QED BY <1>3, <1>10, <1>11, <1>12 DEF Listing

LEMMA GetNothingLists ==
    ASSUME IInv, ListingInv, NEW w \in Threads, reply[w].status = "none", GetNothing(w)
    PROVE  Listing(w)'
<1>1. /\ UNCHANGED brokerVars /\ UNCHANGED <<call, dlqMessages, reply>> /\ pc[w] = "loop"
      /\ pc'[w] \in {"loop", "finally"} /\ left'[w] = left[w] - 1
    BY DEF GetNothing, EndIteration, GoTo, IInv, CallTypeOK
<1>2. Ordered(w)' /\ Shown(w)' = Shown(w) /\ ReadName(w)' = ReadName(w)
      /\ (Limited(w)' <=> Limited(w))
    BY <1>1 DEF Ordered, Shown, ListingInv, Listing, ReadName, Limited
<1>3. ASSUME AtFront(w)
      PROVE  AtFront(w)'
    <2>1. Limited(w) => Len(dlqMessages[w]) + (left[w] - 1) <= call[w].limit
        BY <1>1, <1>3, ListLen, LimitIsInt DEF AtFront
    <2> QED BY <1>1, <1>2, <1>3, <2>1 DEF AtFront, brokerVars
<1> QED BY <1>1, <1>2, <1>3 DEF ListingInv, Listing

LEMMA FinallyLists ==
    ASSUME ~Failures, IInv, GoneInv, ListingInv, NEW w \in Threads, Finally(w)
    PROVE  Listing(w)'
<1>1. /\ UNCHANGED <<call, dlqMessages>> /\ pc'[w] = "returned"
      /\ reply'[w].status = Outcome(w) /\ msgs' = msgs
    BY DEF Finally, Return, GoTo, CloseConnection, IInv, CallTypeOK
<1>2. Ordered(w)' /\ Shown(w)' = Shown(w) /\ ReadName(w)' = ReadName(w)
      /\ (Limited(w)' <=> Limited(w))
    BY <1>1 DEF Ordered, Shown, ListingInv, Listing, ReadName, Limited
<1>3. ASSUME Outcome(w) = "messages"
      PROVE  Headed(w)'
    <2>1. pc[w] = "finally" /\ call[w].op = "getMessages"
        BY <1>3 DEF Outcome, Finally
    <2>2. AtFront(w)
        BY <2>1 DEF ListingInv, Listing
    <2>3. Present' \subseteq Present
        <3>1. Template(w) \in Factories
            BY ScanningBinder DEF Finally, IInv, ThreadOK, Scanning, Template, ConnInv,
                ConnTypeOK, Lookup
        <3>2. CloseConnection(Template(w))
            BY DEF Finally
        <3>3. Stays
            BY <3>1, <3>2, MovesStay DEF IInv
        <3> QED BY <3>3 DEF Stays
    <2>4. ASSUME NEW m \in Present, NEW n \in Shown(w), msgs[m].queue = ReadName(w), m < n
          PROVE  m \in Shown(w)
        <3>1. m \in Nat /\ n \in Nat
            BY NumbersShown
        <3>2. m \notin ready
            BY <2>2, <2>4, <3>1 DEF AtFront
        <3> QED BY <2>2, <3>2 DEF AtFront, Present, GoneInv, Apart
    <2>5. Limited(w) => Len(dlqMessages[w]) <= call[w].limit
        BY <2>1, <2>2, ListLen, LimitIsInt DEF AtFront
    <2> QED BY <1>1, <1>2, <2>3, <2>4, <2>5 DEF Headed
<1> QED BY <1>1, <1>2, <1>3 DEF Listing

(* The other steps of the thread: before the scan, after it, and those that *)
(* take no part in a listing.                                               *)
LEMMA ThreadStepLists ==
    ASSUME ~Failures, OneThread, IInv, HoldInv, GoneInv, AccountInv, ListedInv, ListingInv,
           NEW w \in Threads, Request(w) \/ Operator(w) \/ Failure(w)
    PROVE  Listing(w)'
<1>1. Accounts(w) /\ Listing(w) /\ ThreadOK(w)
    BY DEF AccountInv, ListingInv, IInv
<1>2. CASE SizeRead(w)
    BY <1>2, SizeReadLists
<1>3. CASE ListMessage(w)
    BY <1>1, <1>3, ListMessageLists DEF Accounts, ListMessage, Fetch
<1>4. CASE GetNothing(w)
    BY <1>1, <1>4, GetNothingLists DEF Accounts, GetNothing
<1>5. CASE Finally(w)
    BY <1>5, FinallyLists
<1>6. CASE Respond(w)
    <2>1. dlqMessages'[w] = <<>> /\ pc'[w] = "idle" /\ reply'[w].status = "none"
        BY <1>6 DEF Respond, GoTo, NoReply, IInv, CallTypeOK
    <2>2. Ordered(w)'
        BY <2>1 DEF Ordered
    <2> QED BY <2>1, <2>2 DEF Listing
<1>7. CASE Request(w)
    <2>1. /\ dlqMessages' = dlqMessages /\ reply' = reply /\ pc'[w] = "size"
          /\ pc[w] = "idle" /\ reply[w].status = "none"
        BY <1>1, <1>7 DEF Request, GoTo, Accounts, IInv, CallTypeOK
    <2> QED BY <1>1, <2>1 DEF Listing, Ordered
<1>8. CASE \/ RejectEmptyId(w) \/ SizeOfUnknownQueue(w) \/ SizeOfUnknownBinder(w)
           \/ SizeOfUndeclaredQueue(w) \/ Purge(w)
    <2>1. /\ pc[w] \in {"size", "purge"} /\ dlqMessages[w] = <<>>
          /\ call' = call /\ dlqMessages' = dlqMessages /\ pc'[w] = "returned"
        BY <1>1, <1>8 DEF RejectEmptyId, SizeOfUnknownQueue, SizeOfUnknownBinder,
            SizeOfUndeclaredQueue, Purge, AsksSize, Return, GoTo, Listing, IInv, CallTypeOK
    <2> QED BY <2>1, EmptyListing DEF Listing
<1>9. CASE FinallyWithoutTemplate(w)
    <2>1. dlqMessages' = dlqMessages /\ pc'[w] = "returned" /\ reply'[w].status = "error"
        BY <1>9 DEF FinallyWithoutTemplate, Return, GoTo, IInv, CallTypeOK
    <2> QED BY <1>1, <2>1 DEF Listing, Ordered
<1>10. CASE \/ GetTemplate(w) \/ SkipMessage(w) \/ MatchMessage(w) \/ ConversionFails(w)
            \/ Ack(w) \/ AckOnClosedChannel(w) \/ Send(w)
    <2>1. UNCHANGED <<call, dlqMessages, reply>>
        BY <1>10 DEF GetTemplate, SkipMessage, MatchMessage, ConversionFails, Ack,
            AckOnClosedChannel, Send
    <2>2. pc[w] \in {"template", "loop", "ack", "send"} /\ reply[w].status = "none"
        BY <1>1, <1>10 DEF GetTemplate, SkipMessage, MatchMessage, ConversionFails, Fetch, Ack,
            AckOnClosedChannel, Send, Accounts
    <2>3. /\ pc'[w] \in {"loop", "ack", "send", "finally", "unwind"}
          /\ call[w].op = "getMessages" => pc'[w] = "unwind"
        BY <1>1, <1>10 DEF GetTemplate, SkipMessage, MatchMessage, ConversionFails, Ack,
            AckOnClosedChannel, Send, EndIteration, GoTo, NeedsId, ThreadOK, Named, IInv,
            CallTypeOK
    <2> QED BY <1>1, <2>1, <2>2, <2>3 DEF Listing, Ordered
<1>11. ~Failure(w)
    BY DEF Failure, SizeFails, PurgeFails, ExecuteFails
<1> QED BY <1>2, <1>3, <1>4, <1>5, <1>6, <1>7, <1>8, <1>9, <1>10, <1>11 DEF Operator

(* Steps of the broker: what is new comes after everything shown.           *)
LEMMA BackgroundLists ==
    ASSUME IInv, ListedInv, ListingInv, NEW w \in Threads,
           UNCHANGED <<connVars, callVars>>, MsgsGrow,
           \A m \in ready' : m \in ready \/ (m \in Nat /\ m > Len(msgs)),
           \A m \in Present' : m \in Present \/ (m \in Nat /\ m > Len(msgs)),
           \A f \in Factories : unacked'[f] \subseteq unacked[f]
    PROVE  Listing(w)'
<1>1. /\ Ordered(w)' <=> Ordered(w)
      /\ Shown(w)' = Shown(w) /\ ReadName(w)' = ReadName(w)
      /\ Limited(w)' <=> Limited(w)
    BY DEF Ordered, Shown, ReadName, Limited, callVars
<1>2. \A n \in Shown(w) : n \in Nat /\ n <= Len(msgs) /\ Len(msgs) \in Nat
    BY LenProperties DEF Shown, ListedInv, ListedRight, IInv, BrokerTypeOK
<1>3. /\ \A m \in ready : msgs'[m] = msgs[m]
      /\ \A m \in Present : msgs'[m] = msgs[m]
    BY NumbersShown DEF MsgsGrow, IInv, BrokerTypeOK
<1>4. ASSUME AtFront(w)
      PROVE  AtFront(w)'
    <2>1. \A m \in ready', n \in Shown(w) : msgs'[m].queue = ReadName(w) => n < m
        BY <1>2, <1>3, <1>4 DEF AtFront
    <2> QED BY <1>1, <1>4, <2>1 DEF AtFront, callVars
<1>5. ASSUME Headed(w)
      PROVE  Headed(w)'
    <2>1. \A m \in Present', n \in Shown(w) :
            msgs'[m].queue = ReadName(w) /\ m < n => m \in Shown(w)
        BY <1>2, <1>3, <1>5 DEF Headed
    <2> QED BY <1>1, <1>5, <2>1 DEF Headed, callVars
<1> QED BY <1>1, <1>4, <1>5 DEF Listing, ListingInv, callVars

(* What a step of the broker puts in a queue takes the next positions.      *)
LEMMA BrokerAppends ==
    ASSUME BrokerTypeOK, orphaned = {}, Broker \/ Arrive \/ UNCHANGED brokerVars
    PROVE  /\ MsgsGrow
           /\ \A m \in ready' : m \in ready \/ (m \in Nat /\ m > Len(msgs))
           /\ \A m \in Present' : m \in Present \/ (m \in Nat /\ m > Len(msgs))
           /\ \A f \in Factories : unacked'[f] \subseteq unacked[f]
<1>1. MsgsGrow
    BY BrokerStepKept, UnchangedKeepsBroker DEF BrokerKept
<1>2. CASE \E new \in Seq(Message) : Enqueue(new) /\ UNCHANGED <<unacked, orphaned>>
    <2>1. PICK new \in Seq(Message) : Enqueue(new)
        BY <1>2
    <2>2. ready' = ready \cup (Len(msgs) + 1 .. Len(msgs')) /\ Len(msgs) \in Nat
        BY <2>1, EnqueueGrows, LenProperties DEF BrokerTypeOK
    <2>3. \A m \in Len(msgs) + 1 .. Len(msgs') : m \in Nat /\ m > Len(msgs)
        BY <2>2
    <2> QED BY <1>1, <1>2, <2>2, <2>3 DEF Present
<1>3. ASSUME NEW f \in Factories, ReadPublish(f)
      PROVE  \E new \in Seq(Message) : Enqueue(new) /\ UNCHANGED <<unacked, orphaned>>
    <2>1. Head(wire[f]).copies \in Seq(Message)
        BY <1>3, WireTail DEF ReadPublish, Frame
    <2> QED BY <1>3, <2>1 DEF ReadPublish
<1>4. ASSUME Arrive
      PROVE  \E new \in Seq(Message) : Enqueue(new) /\ UNCHANGED <<unacked, orphaned>>
    <2>1. PICK message \in Arrivals : Enqueue(<<message>>)
        BY <1>4 DEF Arrive
    <2>2. <<message>> \in Seq(Message)
        BY BrokerAssumption
    <2> QED BY <1>4, <2>1, <2>2 DEF Arrive
<1>5. ASSUME NEW f \in Factories, ReadAck(f)
      PROVE  /\ ready' = ready /\ Present' \subseteq Present
             /\ \A g \in Factories : unacked'[g] \subseteq unacked[g]
    BY <1>5 DEF ReadAck, Present, BrokerTypeOK
<1>6. CASE UNCHANGED brokerVars
    BY <1>1, <1>6 DEF brokerVars, Present
<1> QED BY <1>1, <1>2, <1>3, <1>4, <1>5, <1>6 DEF Broker

LEMMA NextKeepsListing ==
    ASSUME ~Failures, OneThread, IInv, HoldInv, GoneInv, AccountInv, ListedInv, ListingInv,
           [Next]_vars
    PROVE  ListingInv'
<1>1. ASSUME NEW w \in Threads, Request(w) \/ Operator(w) \/ Failure(w)
      PROVE  ListingInv'
    <2>1. Listing(w)'
        BY <1>1, ThreadStepLists
    <2> QED BY <2>1 DEF OneThread, ListingInv
<1>2. CASE (Broker \/ Arrive \/ UNCHANGED brokerVars) /\ UNCHANGED <<connVars, callVars>>
    <2>1. BrokerTypeOK /\ orphaned = {}
        BY DEF IInv, GoneInv, Apart
    <2> QED BY <1>2, <2>1, BrokerAppends, BackgroundLists DEF ListingInv
<1> QED BY <1>1, <1>2 DEF Next, ConnectionLost, Restart, vars

(* With one operator at a time, and while nothing fails, what a listing     *)
(* shows is the head of the queue: oldest first, nothing left out in        *)
(* between, and no more than the limit, whatever arrives meanwhile and      *)
(* whatever was dropped, purged or republished before.                      *)
THEOREM ListingIsHead ==
    ASSUME ~Failures, OneThread
    PROVE  Spec => []ListingIsPrefix
<1>1. Init => AccountInv /\ ListedInv /\ ListingInv
    BY DEF Init, NoCall, NoReply, AccountInv, Accounts, ListedInv, ListedRight, ListingInv,
        Listing, Ordered
<1>2. /\ IInv /\ AccountInv /\ [Next]_vars => AccountInv'
      /\ IInv /\ ListedInv /\ [Next]_vars => ListedInv'
      /\ IInv /\ HoldInv /\ GoneInv /\ AccountInv /\ ListedInv /\ ListingInv /\ [Next]_vars
            => ListingInv'
    BY NextKeepsAccounts, NextKeepsListed, NextKeepsListing
<1>3. IInv /\ ListingInv => ListingIsPrefix
    BY DEF ListingInv, Listing, Headed, Ordered, Shown, Limited, ListingIsPrefix
<1> QED BY <1>1, <1>2, <1>3, WithoutFailures, PTL DEF Spec

-----------------------------------------------------------------------------
(* Messages that leave only by republishing to one queue.  What has been    *)
(* acknowledged for each payload is copied, or its copy is on the wire, or  *)
(* its thread is about to send it (Balance).                                *)
Of(p) == {m \in DOMAIN msgs : msgs[m].content.payload = p}

OnTheWay(m) == \E f \in Factories : m \in unacked[f] /\ AckFrame(m) \in Frames(f)

IsGone(m) == m \notin Present \/ OnTheWay(m)

Publishes(frame, p) == frame.kind = "publish" /\ frame.copies[1].content.payload = p

Removed(p) == {m \in Of(p) : IsGone(m)}
Made(p) == {m \in Of(p) : Copied(m)}
Publishing(p) ==
    {fi \in Factories \X Nat :
        fi[2] \in DOMAIN wire[fi[1]] /\ Publishes(wire[fi[1]][fi[2]], p)}
Sending(p) == {w \in Threads : pc[w] = "send" /\ msgs[held[w]].content.payload = p}

Balance(p) ==
    /\ IsFiniteSet(Publishing(p))
    /\ IsFiniteSet(Sending(p))
    /\ Cardinality(Removed(p)) =
         Cardinality(Made(p)) + Cardinality(Publishing(p)) + Cardinality(Sending(p))

OneCopy ==
    \A f \in Factories : \A frame \in Frames(f) : frame.kind = "publish" =>
        /\ Len(frame.copies) = 1
        /\ \E q \in ConfiguredQueues : frame.copies[1].content.route = republishTo[q]

HeldIsNew == \A w \in Threads : pc[w] = "ack" => held[w] \notin acked[w]

CopyInv == OneCopy /\ HeldIsNew /\ \A p \in Payloads : Balance(p)

LEMMA OfFinite ==
    ASSUME BrokerTypeOK, NEW S \in SUBSET DOMAIN msgs
    PROVE  IsFiniteSet(S) /\ Cardinality(S) \in Nat
<1>1. IsFiniteSet(1 .. Len(msgs)) /\ DOMAIN msgs = 1 .. Len(msgs)
    BY LenProperties, FS_Interval DEF BrokerTypeOK
<1> QED BY <1>1, FS_Subset, FS_CardinalityType

(* A frame on the wire adds one to what is being published, if it is a copy *)
(* of the payload.                                                          *)
LEMMA WritePublishing ==
    ASSUME BrokerTypeOK, NEW f \in Factories, NEW frame \in Frame, WriteFrame(f, frame),
           NEW p, IsFiniteSet(Publishing(p))
    PROVE  /\ IsFiniteSet(Publishing(p)')
           /\ Publishes(frame, p) =>
                Cardinality(Publishing(p)') = Cardinality(Publishing(p)) + 1
           /\ ~Publishes(frame, p) => Publishing(p)' = Publishing(p)
<1>1. /\ wire'[f] = Append(wire[f], frame) /\ wire[f] \in Seq(Frame)
      /\ \A g \in Factories : g # f => wire'[g] = wire[g]
    BY DEF WriteFrame, BrokerTypeOK
<1>2. PICK n \in Nat : n = Len(wire[f])
    BY <1>1, LenProperties
<1>3. /\ DOMAIN wire[f] = 1 .. n
      /\ DOMAIN wire'[f] = 1 .. n + 1
      /\ \A i \in 1 .. n : wire'[f][i] = wire[f][i]
      /\ wire'[f][n + 1] = frame
    BY <1>1, <1>2, LenProperties, AppendProperties
<1>4. ASSUME NEW g \in Factories, NEW i \in Nat
      PROVE  <<g, i>> \in Publishing(p)' <=>
                <<g, i>> \in Publishing(p) \/ (g = f /\ i = n + 1 /\ Publishes(frame, p))
    <2>1. CASE g # f
        BY <1>1, <2>1 DEF Publishing, Publishes
    <2>2. CASE g = f /\ i = n + 1
        <3>1. i \notin DOMAIN wire[f] /\ i \in DOMAIN wire'[f]
            BY <1>2, <1>3, <2>2
        <3> QED BY <1>3, <2>2, <3>1 DEF Publishing, Publishes
    <2>3. CASE g = f /\ i # n + 1
        <3>1. i \in DOMAIN wire'[f] <=> i \in DOMAIN wire[f]
            BY <1>2, <1>3, <2>3
        <3>2. i \in DOMAIN wire[f] => wire'[f][i] = wire[f][i]
            BY <1>3
        <3> QED BY <2>3, <3>1, <3>2 DEF Publishing, Publishes
    <2> QED BY <2>1, <2>2, <2>3
<1>5. Publishing(p) \subseteq Factories \X Nat /\ Publishing(p)' \subseteq Factories \X Nat
    BY DEF Publishing
<1>6. PICK new : new = <<f, n + 1>>
    OBVIOUS
<1>7. new \in Factories \X Nat /\ new \notin Publishing(p)
    <2>1. n + 1 \notin DOMAIN wire[f] /\ n + 1 \in Nat
        BY <1>2, <1>3
    <2> QED BY <1>6, <2>1 DEF Publishing
<1>8. CASE Publishes(frame, p)
    <2>1. ASSUME NEW g \in Factories, NEW i \in Nat
          PROVE  <<g, i>> \in Publishing(p)' <=> <<g, i>> \in Publishing(p) \cup {new}
        BY <1>4, <1>6, <1>8
    <2>2. Publishing(p)' = Publishing(p) \cup {new}
        BY <1>5, <1>7, <2>1
    <2> QED BY <1>7, <1>8, <2>2, FS_AddElement
<1>9. CASE ~Publishes(frame, p)
    <2>1. Publishing(p)' = Publishing(p)
        BY <1>4, <1>5, <1>9
    <2> QED BY <1>9, <2>1
<1> QED BY <1>8, <1>9

(* Reading the head of the wire takes off one, if it is a copy of the       *)
(* payload; the others move up.                                             *)
LEMMA ReadPublishing ==
    ASSUME BrokerTypeOK, NEW f \in Factories, wire[f] # <<>>,
           wire' = [wire EXCEPT ![f] = Tail(@)],
           NEW p, IsFiniteSet(Publishing(p))
    PROVE  /\ IsFiniteSet(Publishing(p)')
           /\ Publishes(Head(wire[f]), p) =>
                Cardinality(Publishing(p)') = Cardinality(Publishing(p)) - 1
           /\ ~Publishes(Head(wire[f]), p) =>
                Cardinality(Publishing(p)') = Cardinality(Publishing(p))
<1>1. /\ wire'[f] = Tail(wire[f]) /\ wire[f] \in Seq(Frame)
      /\ \A g \in Factories : g # f => wire'[g] = wire[g]
    BY DEF BrokerTypeOK
<1>2. PICK n \in Nat : n = Len(wire[f]) - 1
    <2>1. Len(wire[f]) \in Nat \ {0}
        BY <1>1, EmptySeq
    <2>2. Len(wire[f]) - 1 \in Nat
        BY <2>1
    <2> QED BY <2>2
<1>3. /\ DOMAIN wire[f] = 1 .. n + 1
      /\ DOMAIN wire'[f] = 1 .. n
      /\ \A i \in 1 .. n : wire'[f][i] = wire[f][i + 1]
      /\ wire[f][1] = Head(wire[f])
    <2>1. Len(wire[f]) = n + 1 /\ Len(Tail(wire[f])) = n /\ Tail(wire[f]) \in Seq(Frame)
        BY <1>1, <1>2, WireTail, LenProperties
    <2>2. \A i \in 1 .. n : Tail(wire[f])[i] = wire[f][i + 1]
        BY <1>2, WireTail
    <2>3. Head(wire[f]) = wire[f][1]
        BY WireTail
    <2> QED BY <1>1, <2>1, <2>2, <2>3, LenProperties
<1> DEFINE first == <<f, 1>>
           rest == Publishing(p) \ {first}
           up(x) == IF x[1] = f THEN <<f, x[2] - 1>> ELSE x
<1>4. first \in Publishing(p) <=> Publishes(Head(wire[f]), p)
    <2>1. 1 \in DOMAIN wire[f] /\ 1 \in Nat
        BY <1>2, <1>3
    <2> QED BY <1>3, <2>1 DEF Publishing
<1>5. ASSUME NEW i \in Nat
      PROVE  <<f, i + 1>> \in rest <=> <<f, i>> \in Publishing(p)'
    <2>1. CASE i = 0
        BY <1>3, <2>1 DEF Publishing
    <2>2. CASE i # 0
        <3>1. i + 1 \in DOMAIN wire[f] <=> i \in DOMAIN wire'[f]
            BY <1>2, <1>3, <2>2
        <3>2. i \in DOMAIN wire'[f] => wire'[f][i] = wire[f][i + 1]
            BY <1>3
        <3>3. i + 1 # 1 /\ i + 1 \in Nat
            BY <2>2
        <3> QED BY <3>1, <3>2, <3>3 DEF Publishing, Publishes
    <2> QED BY <2>1, <2>2
<1>6. ASSUME NEW g \in Factories, NEW i \in Nat, g # f
      PROVE  <<g, i>> \in rest <=> <<g, i>> \in Publishing(p)'
    BY <1>1, <1>6 DEF Publishing, Publishes
<1>7. rest \subseteq Factories \X Nat /\ Publishing(p)' \subseteq Factories \X Nat
    BY DEF Publishing
<1>8. ASSUME NEW x \in rest
      PROVE  \/ \E i \in Nat : x = <<f, i + 1>> /\ up(x) = <<f, i>>
             \/ \E g \in Factories, i \in Nat : g # f /\ x = <<g, i>> /\ up(x) = x
    <2>1. PICK g \in Factories, i \in Nat : x = <<g, i>>
        BY <1>7
    <2>2. CASE g = f
        <3>1. i \in 1 .. n + 1
            BY <1>3, <1>8, <2>1, <2>2 DEF Publishing
        <3>2. i - 1 \in Nat /\ (i - 1) + 1 = i
            BY <3>1
        <3>3. up(x) = <<f, i - 1>> /\ x = <<f, (i - 1) + 1>>
            BY <2>1, <2>2, <3>2
        <3> QED BY <3>2, <3>3
    <2>3. CASE g # f
        BY <2>1, <2>3
    <2> QED BY <2>2, <2>3
<1> HIDE DEF first, rest, up
<1>9. PICK move : move = [x \in rest |-> up(x)]
    OBVIOUS
<1>10. move \in [rest -> Publishing(p)']
    <2>1. \A x \in rest : up(x) \in Publishing(p)'
        BY <1>5, <1>6, <1>8
    <2> QED BY <1>9, <2>1
<1>11. ASSUME NEW x \in rest, NEW y \in rest, move[x] = move[y]
       PROVE  x = y
    <2>1. up(x) = up(y)
        BY <1>9, <1>11
    <2>2. CASE \E i \in Nat : x = <<f, i + 1>> /\ up(x) = <<f, i>>
        BY <1>8, <2>1, <2>2
    <2>3. CASE \E g \in Factories, i \in Nat : g # f /\ x = <<g, i>> /\ up(x) = x
        BY <1>8, <2>1, <2>3
    <2> QED BY <1>8, <2>2, <2>3
<1>12. ASSUME NEW y \in Publishing(p)'
       PROVE  \E x \in rest : move[x] = y
    <2>1. PICK g \in Factories, i \in Nat : y = <<g, i>>
        BY <1>7
    <2>2. CASE g = f
        <3>1. <<f, i + 1>> \in rest
            BY <1>5, <1>12, <2>1, <2>2
        <3>2. up(<<f, i + 1>>) = <<f, i>>
            BY DEF up
        <3> QED BY <1>9, <2>1, <2>2, <3>1, <3>2
    <2>3. CASE g # f
        <3>1. y \in rest /\ up(y) = y
            BY <1>6, <1>12, <2>1, <2>3 DEF up
        <3> QED BY <1>9, <3>1
    <2> QED BY <2>2, <2>3
<1>13. ExistsBijection(rest, Publishing(p)')
    <2>1. move \in Bijection(rest, Publishing(p)')
        BY <1>10, <1>11, <1>12 DEF Bijection, Injection, Surjection, IsInjective
    <2> QED BY <2>1 DEF ExistsBijection
<1>14. IsFiniteSet(rest) /\ Cardinality(rest) =
          IF first \in Publishing(p) THEN Cardinality(Publishing(p)) - 1
                                     ELSE Cardinality(Publishing(p))
    BY FS_RemoveElement DEF rest
<1>15. IsFiniteSet(Publishing(p)') /\ Cardinality(Publishing(p)') = Cardinality(rest)
    BY <1>13, <1>14, FS_Bijection
<1> QED BY <1>4, <1>14, <1>15

(* Who is behind a frame on the wire, and what has become of its message.   *)
LEMMA FrameBehind ==
    ASSUME HoldInv, GoneInv, NEW f \in Factories, NEW m, AckFrame(m) \in Frames(f)
    PROVE  \E w \in Threads : /\ Owns(w, f) /\ m \in acked[w]
                              /\ m \notin Present \/ m \in unacked[f]
<1>1. PICK frame \in Frames(f) : frame = AckFrame(m)
    OBVIOUS
<1>2. PICK w \in Threads : Owns(w, f) /\ FrameOf(w, frame)
    BY DEF HoldInv
<1>3. m \in acked[w]
    BY <1>1, <1>2 DEF FrameOf, AckFrame
<1>4. m \notin Present \/ AckOnTheWay(w, m)
    BY <1>3 DEF GoneInv, AckedGoes
<1> QED BY <1>2, <1>3, <1>4 DEF AckOnTheWay, Owns

LEMMA OneOwner ==
    ASSUME IInv, NEW v \in Threads, NEW w \in Threads, NEW f \in Factories,
           Owns(v, f), Owns(w, f)
    PROVE  v = w
<1>1. Binder(v) \in Binders /\ Binder(w) \in Binders
    BY ScanningBinder DEF Owns
<1>2. /\ cachingConnectionFactoryLookup[v][Binder(v)] = f
      /\ cachingConnectionFactoryLookup[w][Binder(w)] = f
    BY <1>1, NoFactoryAssumption DEF Owns, Template, IInv, ConnInv, SameFactory
<1> QED BY <1>1, <1>2, NoFactoryAssumption DEF IInv, ConnInv, Confined

(* A ready message is not on its way out.                                   *)
LEMMA ReadyHasNoFrame ==
    ASSUME HoldInv, GoneInv, NEW m \in ready
    PROVE  /\ \A f \in Factories : AckFrame(m) \notin Frames(f)
           /\ \A w \in Threads : m \notin acked[w]
<1>1. m \in Present /\ \A g \in Factories : m \notin unacked[g]
    BY DEF GoneInv, Apart, Present
<1>2. \A w \in Threads : m \notin acked[w]
    BY <1>1 DEF GoneInv, AckedGoes, AckOnTheWay
<1> QED BY <1>2, FrameBehind

(* What a write leaves on the wires.                                        *)
LEMMA FramesWritten ==
    ASSUME BrokerTypeOK, NEW f \in Factories, NEW frame \in Frame, WriteFrame(f, frame)
    PROVE  /\ Frames(f)' = Frames(f) \cup {frame}
           /\ \A g \in Factories : g # f => Frames(g)' = Frames(g)
<1>1. /\ wire'[f] = Append(wire[f], frame) /\ wire[f] \in Seq(Frame)
      /\ \A g \in Factories : g # f => wire'[g] = wire[g]
    BY DEF WriteFrame, BrokerTypeOK
<1>2. /\ DOMAIN wire[f] = 1 .. Len(wire[f]) /\ Len(wire[f]) \in Nat
      /\ DOMAIN wire'[f] = 1 .. Len(wire[f]) + 1
      /\ \A i \in 1 .. Len(wire[f]) : wire'[f][i] = wire[f][i]
      /\ wire'[f][Len(wire[f]) + 1] = frame
    BY <1>1, LenProperties, AppendProperties
<1>3. Frames(f)' \subseteq Frames(f) \cup {frame}
    <2>1. ASSUME NEW i \in DOMAIN wire'[f]
          PROVE  wire'[f][i] \in Frames(f) \cup {frame}
        <3>1. i \in DOMAIN wire[f] \/ i = Len(wire[f]) + 1
            BY <1>2
        <3> QED BY <1>2, <3>1 DEF Frames
    <2> QED BY <2>1 DEF Frames
<1>4. Frames(f) \cup {frame} \subseteq Frames(f)' /\ \A g \in Factories : g # f => Frames(g)' = Frames(g)
    BY <1>1, WriteAppends DEF Frames
<1> QED BY <1>3, <1>4

(* What a read leaves.                                                      *)
LEMMA FramesRead ==
    ASSUME BrokerTypeOK, NEW f \in Factories, wire[f] # <<>>,
           wire' = [wire EXCEPT ![f] = Tail(@)]
    PROVE  /\ \A g \in Factories : Frames(g)' \subseteq Frames(g)
           /\ \A g \in Factories : g # f => Frames(g)' = Frames(g)
           /\ Frames(f) \subseteq Frames(f)' \cup {Head(wire[f])}
           /\ Head(wire[f]) \in Frames(f)
<1>1. /\ wire'[f] = Tail(wire[f]) /\ wire[f] \in Seq(Frame)
      /\ \A g \in Factories : g # f => wire'[g] = wire[g]
    BY DEF BrokerTypeOK
<1>2. PICK n \in Nat : n = Len(wire[f])
    BY <1>1, LenProperties
<1>3. DOMAIN wire[f] = 1 .. n /\ n # 0
    BY <1>1, <1>2, LenProperties, EmptySeq
<1>4. DOMAIN wire'[f] = 1 .. n - 1 /\ \A i \in 1 .. n - 1 : wire'[f][i] = wire[f][i + 1]
    BY <1>1, <1>2, WireTail, LenProperties
<1>5. ASSUME NEW i \in DOMAIN wire'[f]
      PROVE  wire'[f][i] \in Frames(f)
    <2>1. i + 1 \in DOMAIN wire[f]
        BY <1>2, <1>3, <1>4, <1>5
    <2> QED BY <1>4, <2>1 DEF Frames
<1>6. Head(wire[f]) \in Frames(f)
    <2>1. 1 \in DOMAIN wire[f] /\ wire[f][1] = Head(wire[f])
        BY <1>2, <1>3, WireTail
    <2> QED BY <2>1 DEF Frames
<1>7. \A g \in Factories : g # f => Frames(g)' = Frames(g)
    BY <1>1 DEF Frames
<1>8. Frames(f)' \subseteq Frames(f)
    BY <1>5 DEF Frames
<1>9. Frames(f) \subseteq Frames(f)' \cup {Head(wire[f])}
    BY <1>1, FrameIsNotHead
<1> QED BY <1>6, <1>7, <1>8, <1>9

-----------------------------------------------------------------------------
(* Steps that leave the balance as it is.                                   *)
LEMMA RemovedSame ==
    ASSUME msgs' = msgs, \A m \in DOMAIN msgs : IsGone(m)' <=> IsGone(m), NEW p
    PROVE  Removed(p)' = Removed(p) /\ Made(p)' = Made(p)
BY DEF Removed, Made, Of, Copied

LEMMA SendingSame ==
    ASSUME NEW w \in Threads, Others(w), msgs' = msgs, pc[w] # "send", pc'[w] # "send", NEW p
    PROVE  Sending(p)' = Sending(p)
BY DEF Others, Sending

LEMMA PublishingSame ==
    ASSUME wire' = wire, NEW p
    PROVE  Publishing(p)' = Publishing(p)
BY DEF Publishing

LEMMA BalanceSame ==
    ASSUME NEW p, Balance(p), Removed(p)' = Removed(p), Made(p)' = Made(p),
           Publishing(p)' = Publishing(p), Sending(p)' = Sending(p)
    PROVE  Balance(p)'
BY DEF Balance

(* What a thread does to the broker, but acknowledging and sending, sets no *)
(* message on its way and makes none disappear.                             *)
LEMMA QuietBroker ==
    ASSUME BrokerTypeOK, HoldInv, GoneInv,
           \/ UNCHANGED brokerVars
           \/ \E f \in Factories, m \in ready : BasicGet(f, m)
           \/ \E f \in Factories : wire[f] = <<>> /\ CloseConnection(f)
    PROVE  /\ msgs' = msgs /\ wire' = wire
           /\ \A m \in DOMAIN msgs : IsGone(m)' <=> IsGone(m)
<1>1. CASE UNCHANGED brokerVars
    BY <1>1 DEF brokerVars, IsGone, OnTheWay, Present, Frames
<1>2. ASSUME NEW f \in Factories, NEW n \in ready, BasicGet(f, n), NEW m
      PROVE  IsGone(m)' <=> IsGone(m)
    <2>1. /\ unacked'[f] = unacked[f] \cup {n}
          /\ \A g \in Factories : g # f => unacked'[g] = unacked[g]
          /\ ready' = ready \ {n} /\ orphaned' = orphaned /\ wire' = wire
        BY <1>2 DEF BasicGet, BrokerTypeOK
    <2>2. Present' = Present
        BY <2>1 DEF Present
    <2>3. \A g \in Factories : Frames(g)' = Frames(g) /\ AckFrame(n) \notin Frames(g)
        BY <1>2, <2>1, ReadyHasNoFrame DEF Frames
    <2>4. OnTheWay(m)' <=> OnTheWay(m)
        BY <2>1, <2>3 DEF OnTheWay, AckFrame
    <2> QED BY <2>2, <2>4 DEF IsGone
<1>3. ASSUME NEW f \in Factories, wire[f] = <<>>, CloseConnection(f), NEW m
      PROVE  IsGone(m)' <=> IsGone(m)
    <2>1. /\ unacked'[f] = {}
          /\ \A g \in Factories : g # f => unacked'[g] = unacked[g]
          /\ ready' = ready \cup unacked[f] /\ orphaned' = orphaned /\ wire' = wire
        BY <1>3 DEF CloseConnection, BrokerTypeOK
    <2>2. Present' = Present
        BY <2>1 DEF Present
    <2>3. Frames(f) = {} /\ \A g \in Factories : Frames(g)' = Frames(g)
        BY <1>3, <2>1 DEF Frames
    <2>4. OnTheWay(m)' <=> OnTheWay(m)
        BY <2>1, <2>3 DEF OnTheWay, AckFrame
    <2> QED BY <2>2, <2>4 DEF IsGone
<1> QED BY <1>1, <1>2, <1>3 DEF BasicGet, CloseConnection

LEMMA NoPurges ==
    ASSUME RepublishOnly, IInv, NEW w \in Threads
    PROVE  pc[w] # "purge" /\ call[w].op # "ackCertainMessage"
<1>1. call[w].op \in Ops \cup {"none"}
    BY DEF IInv, CallTypeOK, Calls, NoCall
<1>2. pc[w] = "purge" => call[w].op = "dropMessages"
    BY DEF IInv, ThreadOK
<1> QED BY <1>1, <1>2 DEF RepublishOnly

LEMMA QuietStep ==
    ASSUME RepublishOnly, IInv, HoldInv, GoneInv, CopyInv, NEW w \in Threads,
           Request(w) \/ Operator(w) \/ Failure(w), ~Ack(w), ~Send(w)
    PROVE  CopyInv'
<1>1. ~Failures /\ ~Purge(w) /\ ~Failure(w)
    BY NoPurges DEF RepublishOnly, Purge, Failure, SizeFails, PurgeFails, ExecuteFails
<1>2. BrokerTypeOK /\ Others(w)
    BY ThreadStepKept DEF IInv, Kept
<1>3. \/ UNCHANGED brokerVars
      \/ \E f \in Factories, m \in ready : BasicGet(f, m)
      \/ \E f \in Factories : wire[f] = <<>> /\ CloseConnection(f)
    <2>1. CASE Finally(w)
        <3>1. Template(w) \in Factories
            BY <2>1, ScanningBinder DEF Finally, IInv, ThreadOK, Scanning, Template,
                ConnInv, ConnTypeOK, Lookup
        <3> QED BY <2>1, <3>1 DEF Finally
    <2>2. CASE ListMessage(w) \/ SkipMessage(w) \/ MatchMessage(w) \/ ConversionFails(w)
        BY <2>2 DEF ListMessage, SkipMessage, MatchMessage, ConversionFails, Fetch
    <2>3. CASE ~Finally(w)
        BY <1>1, <2>2, <2>3 DEF Operator, Request, RejectEmptyId, SizeOfUnknownQueue,
            SizeOfUnknownBinder, SizeOfUndeclaredQueue, SizeRead, GetTemplate, GetNothing,
            AckOnClosedChannel, FinallyWithoutTemplate, Respond
    <2> QED BY <2>1, <2>3
<1>4. msgs' = msgs /\ wire' = wire /\ \A m \in DOMAIN msgs : IsGone(m)' <=> IsGone(m)
    BY <1>2, <1>3, QuietBroker
<1>5. pc[w] # "send" /\ pc'[w] # "send"
    BY <1>1 DEF Operator, Request, RejectEmptyId, SizeOfUnknownQueue, SizeOfUnknownBinder,
        SizeOfUndeclaredQueue, SizeRead, GetTemplate, GetNothing, ListMessage, SkipMessage,
        MatchMessage, ConversionFails, Fetch, AckOnClosedChannel, Finally,
        FinallyWithoutTemplate, Respond, AsksSize, Return, EndIteration, GoTo, IInv, CallTypeOK
<1>6. \A p \in Payloads : Balance(p)'
    BY <1>2, <1>4, <1>5, RemovedSame, SendingSame, PublishingSame, BalanceSame DEF CopyInv
<1>7. OneCopy'
    BY <1>4 DEF CopyInv, OneCopy, Frames
<1>8. ASSUME NEW v \in Threads, pc'[v] = "ack"
      PROVE  held'[v] \notin acked'[v]
    <2>1. CASE v # w
        BY <1>2, <1>8, <2>1 DEF Others, CopyInv, HeldIsNew
    <2>2. CASE MatchMessage(w)
        <3>1. PICK m \in ready : held' = [held EXCEPT ![w] = m]
            BY <2>2 DEF MatchMessage
        <3>2. acked' = acked /\ held'[w] = m
            BY <2>2, <3>1, LocalTypes DEF MatchMessage
        <3> QED BY <2>1, <3>1, <3>2, ReadyHasNoFrame
    <2>3. CASE ~MatchMessage(w) /\ v = w
        <3>1. pc'[w] # "ack"
            BY <1>1, <2>3 DEF Operator, Request, RejectEmptyId, SizeOfUnknownQueue,
                SizeOfUnknownBinder, SizeOfUndeclaredQueue, SizeRead, GetTemplate, GetNothing,
                ListMessage, SkipMessage, ConversionFails, AckOnClosedChannel, Finally,
                FinallyWithoutTemplate, Respond, AsksSize, Return, EndIteration, GoTo,
                IInv, CallTypeOK
        <3> QED BY <1>8, <2>3, <3>1
    <2> QED BY <2>1, <2>2, <2>3
<1> QED BY <1>6, <1>7, <1>8 DEF CopyInv, HeldIsNew

-----------------------------------------------------------------------------
(* An acknowledgement: one more on its way, one more to send.               *)
LEMMA AckRemoves ==
    ASSUME IInv, HoldInv, GoneInv, CopyInv, NEW w \in Threads, Ack(w), NEW h, h = held[w], NEW p
    PROVE  /\ msgs[h].content.payload = p =>
                Removed(p)' = Removed(p) \cup {h} /\ h \notin Removed(p) /\ h \in DOMAIN msgs
           /\ msgs[h].content.payload # p => Removed(p)' = Removed(p)
           /\ Made(p)' = Made(p)
<1>1. PICK f \in Factories : f = Template(w)
    BY DEF Ack, IInv, ThreadOK
<1>2. PICK frame \in Frame : frame = AckFrame(h)
    BY LocalTypes DEF Frame, AckFrame
<1>3. WriteFrame(f, frame) /\ h \in unacked[f] /\ h \in DOMAIN msgs
    BY <1>1, <1>2 DEF Ack, AckFrame, IInv, BrokerTypeOK
<1>4. /\ Frames(f)' = Frames(f) \cup {frame}
      /\ \A g \in Factories : g # f => Frames(g)' = Frames(g)
    BY <1>3, FramesWritten DEF IInv
<1>5. /\ msgs' = msgs /\ unacked' = unacked /\ Present' = Present
    BY <1>3 DEF WriteFrame, Present
<1>6. Owns(w, f)
    BY <1>1 DEF Owns, Ack, Scanning, IInv, ThreadOK
<1>7. ~IsGone(h)
    <2>1. ASSUME NEW g \in Factories, h \in unacked[g], AckFrame(h) \in Frames(g)
          PROVE  FALSE
        <3>1. g = f
            BY <1>3, <2>1 DEF GoneInv, Apart
        <3>2. PICK v \in Threads : Owns(v, f) /\ h \in acked[v]
            BY <2>1, <3>1, FrameBehind
        <3>3. v = w
            BY <1>6, <3>2, OneOwner
        <3> QED BY <3>2, <3>3 DEF CopyInv, HeldIsNew, Ack
    <2>2. h \in Present
        BY <1>3 DEF Present
    <2> QED BY <2>1, <2>2 DEF IsGone, OnTheWay
<1>8. IsGone(h)'
    BY <1>2, <1>3, <1>4, <1>5 DEF IsGone, OnTheWay, AckFrame
<1>9. ASSUME NEW m, m # h
      PROVE  IsGone(m)' <=> IsGone(m)
    <2>1. AckFrame(m) # frame
        BY <1>2, <1>9 DEF AckFrame
    <2>2. OnTheWay(m)' <=> OnTheWay(m)
        BY <1>4, <1>5, <2>1 DEF OnTheWay, AckFrame
    <2> QED BY <1>5, <2>2 DEF IsGone
<1>10. Of(p)' = Of(p) /\ Made(p)' = Made(p)
    BY <1>5 DEF Of, Made, Copied
<1>11. CASE msgs[h].content.payload = p
    BY <1>3, <1>7, <1>8, <1>9, <1>10, <1>11 DEF Removed, Of
<1>12. CASE msgs[h].content.payload # p
    BY <1>9, <1>10, <1>12 DEF Removed, Of
<1> QED BY <1>10, <1>11, <1>12

LEMMA AckCopies ==
    ASSUME RepublishOnly, IInv, HoldInv, GoneInv, CopyInv, NEW w \in Threads, Ack(w)
    PROVE  CopyInv'
<1>1. Others(w) /\ BrokerTypeOK
    BY ThreadStepKept DEF Operator, Kept, IInv
<1>2. PICK h : h = held[w]
    OBVIOUS
<1>3. /\ pc[w] = "ack" /\ pc'[w] = "send" /\ held' = held /\ msgs' = msgs
    BY NoPurges DEF Ack, GoTo, WriteFrame, IInv, CallTypeOK
<1>4. PICK frame \in Frame : frame = AckFrame(h)
    BY <1>2, LocalTypes DEF Frame, AckFrame
<1>5. PICK f \in Factories : f = Template(w)
    BY DEF Ack, IInv, ThreadOK
<1>6. WriteFrame(f, frame)
    BY <1>2, <1>4, <1>5 DEF Ack, AckFrame
<1>7. frame.kind # "publish"
    BY <1>4 DEF AckFrame
<1>8. ASSUME NEW p \in Payloads
      PROVE  Balance(p)'
    <2>1. Balance(p)
        BY DEF CopyInv
    <2>2. Publishing(p)' = Publishing(p)
        BY <1>1, <1>6, <1>7, <2>1, WritePublishing DEF Balance, Publishes
    <2>3. /\ Made(p)' = Made(p)
          /\ msgs[h].content.payload = p =>
                Removed(p)' = Removed(p) \cup {h} /\ h \notin Removed(p)
          /\ msgs[h].content.payload # p => Removed(p)' = Removed(p)
        BY <1>2, AckRemoves
    <2>4. w \notin Sending(p) /\ Sending(p)' \subseteq Sending(p) \cup {w}
          /\ Sending(p) \subseteq Sending(p)'
          /\ (w \in Sending(p)' <=> msgs[h].content.payload = p)
        BY <1>1, <1>2, <1>3 DEF Others, Sending
    <2>5. Removed(p) \in SUBSET DOMAIN msgs /\ Made(p) \in SUBSET DOMAIN msgs
        BY DEF Removed, Made, Of
    <2>6. IsFiniteSet(Removed(p)) /\ Cardinality(Removed(p)) \in Nat /\ Cardinality(Made(p)) \in Nat
        BY <1>1, <2>5, OfFinite
    <2>7. Cardinality(Publishing(p)) \in Nat /\ Cardinality(Sending(p)) \in Nat
        BY <2>1, FS_CardinalityType DEF Balance
    <2>8. CASE msgs[h].content.payload = p
        <3>1. Sending(p)' = Sending(p) \cup {w}
            BY <2>4, <2>8
        <3>2. IsFiniteSet(Sending(p)') /\ Cardinality(Sending(p)') = Cardinality(Sending(p)) + 1
            BY <2>1, <2>4, <3>1, FS_AddElement DEF Balance
        <3>3. Cardinality(Removed(p)') = Cardinality(Removed(p)) + 1
            BY <2>3, <2>6, <2>8, FS_AddElement
        <3> QED BY <2>1, <2>2, <2>3, <2>6, <2>7, <3>2, <3>3 DEF Balance
    <2>9. CASE msgs[h].content.payload # p
        BY <2>1, <2>2, <2>3, <2>4, <2>9, BalanceSame
    <2> QED BY <2>8, <2>9
<1>9. OneCopy'
    BY <1>1, <1>6, <1>7, FramesWritten DEF CopyInv, OneCopy
<1>10. HeldIsNew'
    BY <1>1, <1>3 DEF Others, CopyInv, HeldIsNew
<1> QED BY <1>8, <1>9, <1>10 DEF CopyInv

(* A publication: one less to send, one more on the wire.                   *)
LEMMA SendCopies ==
    ASSUME RepublishOnly, IInv, HoldInv, GoneInv, CopyInv, NEW w \in Threads, Send(w)
    PROVE  CopyInv'
<1>1. Others(w) /\ BrokerTypeOK
    BY ThreadStepKept DEF Operator, Kept, IInv
<1>2. PICK h : h = held[w]
    OBVIOUS
<1>3. /\ pc[w] = "send" /\ pc'[w] \notin {"send", "ack"} /\ Configured(w)
    BY DEF Send, EndIteration, GoTo, IInv, CallTypeOK, ThreadOK, Scanning
<1>4. PICK q \in ConfiguredQueues : q = call[w].queue
    BY <1>3 DEF Configured
<1>5. PICK frame \in Frame : frame = [kind |-> "publish", copies |-> Copies(w)]
    BY <1>3, CopiesType DEF Frame
<1>6. PICK f \in Factories : WriteFrame(f, frame)
    BY <1>5 DEF Send
<1>7. /\ frame.kind = "publish" /\ Len(frame.copies) = 1
      /\ frame.copies[1].content = [payload |-> msgs[h].content.payload, route |-> republishTo[q]]
    <2>1. PICK n \in Nat : n = Len(Bindings[republishTo[q]]) /\ n = 1
        BY DEF RepublishOnly
    <2>2. Bindings[republishTo[q]] \in Seq(BrokerQueues)
        BY QueuesAssumption, BrokerAssumption
    <2>3. DOMAIN Bindings[republishTo[q]] = 1 .. 1
        BY <2>1, <2>2, LenProperties
    <2>4. DOMAIN Copies(w) = 1 .. 1 /\ Copies(w) \in Seq(Message)
        BY <1>3, <1>4, <2>3, CopiesType DEF Copies
    <2>5. Len(Copies(w)) = 1 /\ 1 \in DOMAIN Copies(w)
        BY <2>4, LenProperties
    <2>6. Copies(w)[1].content = [payload |-> msgs[h].content.payload, route |-> republishTo[q]]
        BY <1>2, <1>3, <1>4, <2>5, CopiesType
    <2> QED BY <1>5, <2>5, <2>6
<1>8. /\ msgs' = msgs /\ unacked' = unacked /\ Present' = Present
    BY <1>6 DEF WriteFrame, Present
<1>9. /\ Frames(f)' = Frames(f) \cup {frame}
      /\ \A g \in Factories : g # f => Frames(g)' = Frames(g)
    BY <1>1, <1>6, FramesWritten
<1>10. ASSUME NEW m
       PROVE  IsGone(m)' <=> IsGone(m)
    <2>1. AckFrame(m) # frame
        BY <1>7 DEF AckFrame
    <2>2. OnTheWay(m)' <=> OnTheWay(m)
        BY <1>8, <1>9, <2>1 DEF OnTheWay, AckFrame
    <2> QED BY <1>8, <2>2 DEF IsGone
<1>11. ASSUME NEW p \in Payloads
       PROVE  Balance(p)'
    <2>1. Balance(p)
        BY DEF CopyInv
    <2>2. Removed(p)' = Removed(p) /\ Made(p)' = Made(p)
        BY <1>8, <1>10, RemovedSame
    <2>3. Publishes(frame, p) <=> msgs[h].content.payload = p
        BY <1>7 DEF Publishes
    <2>4. /\ IsFiniteSet(Publishing(p)')
          /\ msgs[h].content.payload = p =>
                Cardinality(Publishing(p)') = Cardinality(Publishing(p)) + 1
          /\ msgs[h].content.payload # p => Publishing(p)' = Publishing(p)
        BY <1>1, <1>6, <2>1, <2>3, WritePublishing DEF Balance
    <2>5. Sending(p)' = Sending(p) \ {w} /\ (w \in Sending(p) <=> msgs[h].content.payload = p)
        BY <1>1, <1>2, <1>3, <1>8 DEF Others, Sending
    <2>6. /\ IsFiniteSet(Sending(p)')
          /\ msgs[h].content.payload = p => Cardinality(Sending(p)') = Cardinality(Sending(p)) - 1
          /\ msgs[h].content.payload # p => Sending(p)' = Sending(p)
        BY <2>1, <2>5, FS_RemoveElement DEF Balance
    <2>7. /\ Cardinality(Publishing(p)) \in Nat /\ Cardinality(Sending(p)) \in Nat
        BY <2>1, FS_CardinalityType DEF Balance
    <2>8. Made(p) \in SUBSET DOMAIN msgs
        BY DEF Made, Of
    <2>9. Cardinality(Made(p)) \in Nat
        BY <1>1, <2>8, OfFinite
    <2>10. CASE msgs[h].content.payload = p
        BY <2>1, <2>2, <2>4, <2>6, <2>7, <2>9, <2>10 DEF Balance
    <2>11. CASE msgs[h].content.payload # p
        BY <2>1, <2>2, <2>4, <2>6, <2>11, BalanceSame
    <2> QED BY <2>10, <2>11
<1>12. OneCopy'
    BY <1>7, <1>9 DEF CopyInv, OneCopy
<1>13. HeldIsNew'
    BY <1>1, <1>3 DEF Others, CopyInv, HeldIsNew
<1> QED BY <1>11, <1>12, <1>13 DEF CopyInv

-----------------------------------------------------------------------------
(* The broker reads an acknowledgement: its message was on its way, and now *)
(* it is nowhere.                                                           *)
LEMMA ReadAckCopies ==
    ASSUME IInv, HoldInv, GoneInv, CopyInv, NEW f \in Factories, ReadAck(f),
           UNCHANGED <<connVars, callVars>>
    PROVE  CopyInv'
<1>1. BrokerTypeOK /\ wire[f] # <<>> /\ wire' = [wire EXCEPT ![f] = Tail(@)] /\ msgs' = msgs
    BY DEF IInv, ReadAck
<1>2. PICK a : a = Head(wire[f]).msg
    OBVIOUS
<1>3. Head(wire[f]) = AckFrame(a)
    BY <1>1, <1>2, WireTail DEF ReadAck, Frame, AckFrame
<1>4. /\ \A g \in Factories : Frames(g)' \subseteq Frames(g)
      /\ \A g \in Factories : g # f => Frames(g)' = Frames(g)
      /\ Frames(f) \subseteq Frames(f)' \cup {AckFrame(a)}
      /\ AckFrame(a) \in Frames(f)
    BY <1>1, <1>3, FramesRead
<1>5. /\ unacked'[f] = unacked[f] \ {a} /\ \A g \in Factories : g # f => unacked'[g] = unacked[g]
      /\ ready' = ready /\ orphaned' = orphaned
    BY <1>2 DEF ReadAck, IInv, BrokerTypeOK
<1>6. IsGone(a) /\ IsGone(a)'
    <2>1. a \notin Present \/ a \in unacked[f]
        BY <1>4, FrameBehind
    <2>2. CASE a \notin Present
        <3>1. Present' \subseteq Present
            BY <1>5 DEF Present
        <3> QED BY <2>2, <3>1 DEF IsGone
    <2>3. CASE a \in unacked[f]
        <3>1. a \notin ready /\ a \notin orphaned /\ \A g \in Factories : g # f => a \notin unacked[g]
            BY <2>3 DEF GoneInv, Apart
        <3>2. a \notin Present'
            BY <1>5, <3>1 DEF Present
        <3> QED BY <1>4, <2>3, <3>2 DEF IsGone, OnTheWay
    <2> QED BY <2>1, <2>2, <2>3
<1>7. ASSUME NEW m, m # a
      PROVE  IsGone(m)' <=> IsGone(m)
    <2>1. \A g \in Factories : m \in unacked'[g] <=> m \in unacked[g]
        BY <1>5, <1>7
    <2>2. m \in Present' <=> m \in Present
        BY <1>5, <2>1 DEF Present
    <2>3. AckFrame(m) # AckFrame(a)
        BY <1>7 DEF AckFrame
    <2>4. \A g \in Factories : AckFrame(m) \in Frames(g)' <=> AckFrame(m) \in Frames(g)
        BY <1>4, <2>3
    <2>5. OnTheWay(m)' <=> OnTheWay(m)
        BY <2>1, <2>4 DEF OnTheWay, AckFrame
    <2> QED BY <2>2, <2>5 DEF IsGone
<1>8. ASSUME NEW p \in Payloads
      PROVE  Balance(p)'
    <2>1. Balance(p) /\ ~Publishes(Head(wire[f]), p)
        BY DEF CopyInv, ReadAck, Publishes
    <2>2. Removed(p)' = Removed(p) /\ Made(p)' = Made(p)
        BY <1>1, <1>6, <1>7, RemovedSame
    <2>3. IsFiniteSet(Publishing(p)') /\ Cardinality(Publishing(p)') = Cardinality(Publishing(p))
        BY <1>1, <2>1, ReadPublishing DEF Balance
    <2>4. Sending(p)' = Sending(p)
        BY <1>1 DEF Sending, callVars
    <2> QED BY <2>1, <2>2, <2>3, <2>4 DEF Balance
<1>9. OneCopy'
    BY <1>4 DEF CopyInv, OneCopy
<1>10. HeldIsNew'
    BY DEF CopyInv, HeldIsNew, callVars
<1> QED BY <1>8, <1>9, <1>10 DEF CopyInv

(* A new message is there, and is a copy if its route says so.              *)
LEMMA EnqueueOne ==
    ASSUME IInv, NEW message \in Message, Enqueue(<<message>>),
           UNCHANGED <<unacked, orphaned, callVars>>,
           \A g \in Factories, m \in Nat : AckFrame(m) \in Frames(g)' <=> AckFrame(m) \in Frames(g),
           NEW p
    PROVE  /\ Removed(p)' = Removed(p)
           /\ Sending(p)' = Sending(p)
           /\ \E n : n \notin Made(p) /\
                Made(p)' = IF /\ message.content.payload = p
                              /\ \E q \in ConfiguredQueues : message.content.route = republishTo[q]
                           THEN Made(p) \cup {n} ELSE Made(p)
<1>a. <<message>> \in Seq(Message)
    OBVIOUS
<1>1. PICK new \in Seq(Message) : new = <<message>>
    BY <1>a
<1>2. Len(new) = 1 /\ DOMAIN new = 1 .. 1 /\ new[1] = message
    BY <1>1, LenProperties
<1>3. msgs \in Seq(Message) /\ Len(msgs) \in Nat /\ DOMAIN msgs = 1 .. Len(msgs)
    BY LenProperties DEF IInv, BrokerTypeOK
<1>4. /\ msgs' \in Seq(Message) /\ Len(msgs') = Len(msgs) + Len(new)
      /\ \A m \in DOMAIN msgs : msgs'[m] = msgs[m]
      /\ \A i \in DOMAIN new : msgs'[Len(msgs) + i] = new[i]
      /\ ready' = ready \cup (Len(msgs) + 1 .. Len(msgs'))
    BY <1>1, <1>3, EnqueueGrows
<1>5. PICK n \in Nat : n = Len(msgs) + 1
    BY <1>3
<1>6. DOMAIN msgs' = 1 .. n /\ msgs'[n] = message /\ Len(msgs') = n
    <2>1. Len(msgs') = n /\ 1 \in DOMAIN new
        BY <1>2, <1>3, <1>4, <1>5
    <2> QED BY <1>2, <1>4, <1>5, <2>1, LenProperties
<1>7. n \notin DOMAIN msgs /\ DOMAIN msgs' = DOMAIN msgs \cup {n}
    BY <1>3, <1>5, <1>6
<1>8. ready' = ready \cup {n}
    BY <1>4, <1>5, <1>6
<1>9. ASSUME NEW m \in DOMAIN msgs
      PROVE  IsGone(m)' <=> IsGone(m)
    <2>1. m \in Present' <=> m \in Present
        BY <1>7, <1>8, <1>9 DEF Present
    <2>2. \A g \in Factories : AckFrame(m) \in Frames(g)' <=> AckFrame(m) \in Frames(g)
        BY <1>3
    <2>3. OnTheWay(m)' <=> OnTheWay(m)
        BY <2>2 DEF OnTheWay, AckFrame
    <2> QED BY <2>1, <2>3 DEF IsGone
<1>10. ~IsGone(n)'
    <2>1. n \in Present' /\ \A g \in Factories : n \notin unacked'[g]
        BY <1>7, <1>8 DEF Present, IInv, BrokerTypeOK
    <2> QED BY <2>1 DEF IsGone, OnTheWay
<1>11. Removed(p)' = Removed(p)
    BY <1>4, <1>7, <1>9, <1>10 DEF Removed, Of
<1>12. Sending(p)' = Sending(p)
    <2>1. \A w \in Threads : pc[w] = "send" => held[w] \in DOMAIN msgs
        BY DEF IInv, ThreadOK, Named
    <2> QED BY <1>4, <2>1 DEF Sending, callVars
<1>13. n \notin Made(p)
    BY <1>7 DEF Made, Of
<1>14. Made(p)' = IF /\ message.content.payload = p
                     /\ \E q \in ConfiguredQueues : message.content.route = republishTo[q]
                  THEN Made(p) \cup {n} ELSE Made(p)
    <2>1. ASSUME NEW m \in DOMAIN msgs
          PROVE  m \in Made(p)' <=> m \in Made(p)
        BY <1>4, <1>7 DEF Made, Of, Copied
    <2>2. n \in Made(p)' <=> /\ message.content.payload = p
                             /\ \E q \in ConfiguredQueues : message.content.route = republishTo[q]
        BY <1>6, <1>7 DEF Made, Of, Copied
    <2>3. Made(p)' \subseteq DOMAIN msgs \cup {n} /\ Made(p) \subseteq DOMAIN msgs
        BY <1>7 DEF Made, Of
    <2>4. CASE n \in Made(p)'
        <3>1. Made(p)' = Made(p) \cup {n}
            BY <2>1, <2>3, <2>4
        <3> QED BY <2>2, <2>4, <3>1
    <2>5. CASE n \notin Made(p)'
        <3>1. Made(p)' = Made(p)
            BY <1>13, <2>1, <2>3, <2>5
        <3> QED BY <2>2, <2>5, <3>1
    <2> QED BY <2>4, <2>5
<1> QED BY <1>11, <1>12, <1>13, <1>14

(* The broker reads a publication: one less on the wire, one more copy.     *)
LEMMA ReadPublishCopies ==
    ASSUME IInv, HoldInv, GoneInv, CopyInv, NEW f \in Factories, ReadPublish(f),
           UNCHANGED <<connVars, callVars>>
    PROVE  CopyInv'
<1>1. /\ BrokerTypeOK /\ wire[f] # <<>> /\ wire' = [wire EXCEPT ![f] = Tail(@)]
      /\ Head(wire[f]).kind = "publish"
    BY DEF IInv, ReadPublish
<1>2. /\ \A g \in Factories : Frames(g)' \subseteq Frames(g)
      /\ \A g \in Factories : g # f => Frames(g)' = Frames(g)
      /\ Frames(f) \subseteq Frames(f)' \cup {Head(wire[f])}
      /\ Head(wire[f]) \in Frames(f)
    BY <1>1, FramesRead
<1>3. PICK copies \in Seq(Message) : copies = Head(wire[f]).copies
    BY <1>1, WireTail DEF Frame
<1>4. /\ Len(copies) = 1
      /\ \E q \in ConfiguredQueues : copies[1].content.route = republishTo[q]
    BY <1>1, <1>2, <1>3 DEF CopyInv, OneCopy
<1>5. PICK message \in Message : message = copies[1]
    BY <1>3, <1>4, ElementOfSeq
<1>6. copies = <<message>>
    BY <1>3, <1>4, <1>5, LenProperties
<1>7. Enqueue(<<message>>) /\ UNCHANGED <<unacked, orphaned>>
    BY <1>3, <1>6 DEF ReadPublish
<1>8. \A g \in Factories, m \in Nat : AckFrame(m) \in Frames(g)' <=> AckFrame(m) \in Frames(g)
    <2>1. \A m \in Nat : AckFrame(m) # Head(wire[f])
        BY <1>1 DEF AckFrame
    <2> QED BY <1>2, <2>1
<1>9. ASSUME NEW p \in Payloads
      PROVE  Balance(p)'
    <2>1. Balance(p)
        BY DEF CopyInv
    <2>2. Publishes(Head(wire[f]), p) <=> message.content.payload = p
        BY <1>1, <1>3, <1>5 DEF Publishes
    <2>3. /\ IsFiniteSet(Publishing(p)')
          /\ message.content.payload = p =>
                Cardinality(Publishing(p)') = Cardinality(Publishing(p)) - 1
          /\ message.content.payload # p =>
                Cardinality(Publishing(p)') = Cardinality(Publishing(p))
        BY <1>1, <2>1, <2>2, ReadPublishing DEF Balance
    <2>4. /\ Removed(p)' = Removed(p) /\ Sending(p)' = Sending(p)
          /\ \E n : n \notin Made(p) /\
                Made(p)' = IF message.content.payload = p THEN Made(p) \cup {n} ELSE Made(p)
        BY <1>4, <1>5, <1>7, <1>8, EnqueueOne
    <2>5. Made(p) \in SUBSET DOMAIN msgs
        BY DEF Made, Of
    <2>6. IsFiniteSet(Made(p)) /\ Cardinality(Made(p)) \in Nat
        BY <1>1, <2>5, OfFinite
    <2>7. /\ message.content.payload = p => Cardinality(Made(p)') = Cardinality(Made(p)) + 1
          /\ message.content.payload # p => Made(p)' = Made(p)
        BY <2>4, <2>6, FS_AddElement
    <2>8. Cardinality(Publishing(p)) \in Nat /\ Cardinality(Sending(p)) \in Nat
        BY <2>1, FS_CardinalityType DEF Balance
    <2> QED BY <2>1, <2>3, <2>4, <2>6, <2>7, <2>8 DEF Balance
<1>10. OneCopy'
    BY <1>2 DEF CopyInv, OneCopy
<1>11. HeldIsNew'
    BY DEF CopyInv, HeldIsNew, callVars
<1> QED BY <1>9, <1>10, <1>11 DEF CopyInv

(* A dead-lettered message is no copy.                                      *)
LEMMA ArriveCopies ==
    ASSUME RepublishOnly, IInv, CopyInv, Arrive, UNCHANGED <<connVars, callVars>>
    PROVE  CopyInv'
<1>1. PICK message \in Arrivals : Enqueue(<<message>>)
    BY DEF Arrive
<1>2. message \in Message /\ \A q \in ConfiguredQueues : message.content.route # republishTo[q]
    BY BrokerAssumption DEF RepublishOnly
<1>3. wire' = wire /\ UNCHANGED <<unacked, orphaned>>
    BY DEF Arrive
<1>4. \A g \in Factories : Frames(g)' = Frames(g)
    BY <1>3 DEF Frames
<1>5. ASSUME NEW p \in Payloads
      PROVE  Balance(p)'
    <2>1. Removed(p)' = Removed(p) /\ Sending(p)' = Sending(p) /\ Made(p)' = Made(p)
        BY <1>1, <1>2, <1>3, <1>4, EnqueueOne
    <2>2. Publishing(p)' = Publishing(p)
        BY <1>3, PublishingSame
    <2> QED BY <2>1, <2>2, BalanceSame DEF CopyInv
<1>6. OneCopy' /\ HeldIsNew'
    BY <1>4 DEF CopyInv, OneCopy, HeldIsNew, callVars
<1> QED BY <1>5, <1>6 DEF CopyInv

LEMMA NextKeepsCopies ==
    ASSUME RepublishOnly, IInv, HoldInv, GoneInv, CopyInv, [Next]_vars
    PROVE  CopyInv'
<1>1. CASE \E w \in Threads : Request(w) \/ Operator(w) \/ Failure(w)
    BY <1>1, QuietStep, AckCopies, SendCopies
<1>2. CASE Broker /\ UNCHANGED <<connVars, callVars>>
    BY <1>2, ReadAckCopies, ReadPublishCopies DEF Broker, GoneInv, Apart
<1>3. CASE Arrive /\ UNCHANGED <<connVars, callVars>>
    BY <1>3, ArriveCopies
<1>4. CASE UNCHANGED vars
    <2>1. msgs' = msgs /\ \A m \in DOMAIN msgs : IsGone(m)' <=> IsGone(m)
        BY <1>4, QuietBroker DEF vars, IInv
    <2>2. \A p \in Payloads : Sending(p)' = Sending(p)
        BY <1>4 DEF vars, brokerVars, callVars, Sending
    <2>3. \A p \in Payloads : Balance(p)'
        BY <1>4, <2>1, <2>2, RemovedSame, PublishingSame, BalanceSame DEF CopyInv, vars, brokerVars
    <2> QED BY <1>4, <2>3 DEF CopyInv, OneCopy, HeldIsNew, Frames, vars, brokerVars, callVars
<1> QED BY <1>1, <1>2, <1>3, <1>4 DEF Next, RepublishOnly, ConnectionLost, Restart

LEMMA InitCopies ==
    ASSUME Init
    PROVE  CopyInv
<1>1. msgs = <<>> /\ \A f \in Factories : wire[f] = <<>>
    BY DEF Init, BrokerInit
<1>2. ASSUME NEW p \in Payloads
      PROVE  Balance(p)
    <2>1. Removed(p) = {} /\ Made(p) = {} /\ Publishing(p) = {} /\ Sending(p) = {}
        BY <1>1 DEF Removed, Made, Of, Publishing, Sending, Init
    <2> QED BY <2>1, FS_EmptySet DEF Balance
<1> QED BY <1>1, <1>2 DEF CopyInv, OneCopy, HeldIsNew, Frames, Init

(* Where messages leave only by republishing to one queue and nothing       *)
(* fails, as many copies of a payload have been made as messages with it    *)
(* have been removed, whenever no thread is between acknowledging and       *)
(* sending and the broker has read everything: however the scans of any     *)
(* number of threads interleave, none is lost and none is sent twice.       *)
THEOREM CopiesMatchRemovals ==
    ASSUME RepublishOnly
    PROVE  Spec => []CopyPerRemoval
<1>1. ~Failures
    BY DEF RepublishOnly
<1>2. Init => CopyInv
    BY InitCopies
<1>3. IInv /\ HoldInv /\ GoneInv /\ CopyInv /\ [Next]_vars => CopyInv'
    BY NextKeepsCopies
<1>4. ASSUME IInv, CopyInv
      PROVE  CopyPerRemoval
    <2> SUFFICES ASSUME Settled, NEW p \in Payloads
                 PROVE  Cardinality(Of(p) \ Present) = Cardinality({m \in Of(p) : Copied(m)})
        BY DEF CopyPerRemoval, Of
    <2>1. \A f \in Factories : wire[f] = <<>> /\ Frames(f) = {}
        BY DEF Settled, Frames
    <2>2. Publishing(p) = {} /\ Sending(p) = {}
        BY <2>1 DEF Settled, Publishing, Sending
    <2>3. Removed(p) = Of(p) \ Present
        BY <2>1 DEF Removed, IsGone, OnTheWay
    <2>4. Made(p) \in SUBSET DOMAIN msgs
        BY DEF Made, Of
    <2>5. Cardinality(Made(p)) \in Nat
        BY <1>4, <2>4, OfFinite DEF IInv
    <2>6. Cardinality(Removed(p)) = Cardinality(Made(p))
        BY <1>4, <2>2, <2>5, FS_EmptySet DEF CopyInv, Balance
    <2> QED BY <2>3, <2>6 DEF Made
<1> QED BY <1>1, <1>2, <1>3, <1>4, WithoutFailures, PTL DEF Spec

-----------------------------------------------------------------------------
(* While nothing fails, every message a listing has collected stays on the  *)
(* connection of its thread until the finally block gives it back: nobody   *)
(* else has that connection, and what the broker takes off it was           *)
(* acknowledged by its owner, whose call then names an id and lists nothing.*)
KeepsListed(w) ==
    \A i \in DOMAIN dlqMessages[w] :
        /\ Template(w) \in Factories
        /\ dlqMessages[w][i].msg \in unacked[Template(w)]
        /\ \A j \in DOMAIN dlqMessages[w] :
            dlqMessages[w][j].msg = dlqMessages[w][i].msg => i = j

Collecting(w) ==
    /\ pc[w] \in {"idle", "size", "template", "purge"} => dlqMessages[w] = <<>>
    /\ call[w].op = "getMessages" /\ pc[w] \in {"loop", "finally", "unwind"} => KeepsListed(w)

CollectInv == \A w \in Threads : Collecting(w)

LEMMA NothingListed ==
    ASSUME NEW w \in Threads, dlqMessages[w] = <<>>
    PROVE  KeepsListed(w)
BY DEF KeepsListed

LEMMA ListedStaysHeld ==
    ASSUME NEW w \in Threads, KeepsListed(w), dlqMessages'[w] = dlqMessages[w],
           Template(w) \in Factories =>
                Template(w)' = Template(w) /\ unacked[Template(w)] \subseteq unacked'[Template(w)]
    PROVE  KeepsListed(w)'
<1>1. ASSUME NEW i \in DOMAIN dlqMessages[w]
      PROVE  Template(w)' \in Factories /\ dlqMessages[w][i].msg \in unacked'[Template(w)']
    BY <1>1 DEF KeepsListed
<1> QED BY <1>1 DEF KeepsListed

(* A step of a thread takes nothing off the connections of the others.      *)
LEMMA OthersDeliveriesStay ==
    ASSUME ~Failures, IInv, NEW v \in Threads, Request(v) \/ Operator(v) \/ Failure(v),
           NEW f \in Factories, ~Owns(v, f)
    PROVE  unacked[f] \subseteq unacked'[f]
<1>1. ~Failure(v)
    BY DEF Failure, SizeFails, PurgeFails, ExecuteFails
<1>2. CASE Finally(v)
    <2>1. Template(v) # f
        BY <1>2 DEF Finally, Owns, Scanning, IInv, ThreadOK
    <2> QED BY <1>2, <2>1 DEF Finally, CloseConnection, IInv, BrokerTypeOK
<1>3. CASE ListMessage(v) \/ SkipMessage(v) \/ MatchMessage(v) \/ ConversionFails(v)
    BY <1>3 DEF ListMessage, SkipMessage, MatchMessage, ConversionFails, Fetch, BasicGet,
        IInv, BrokerTypeOK
<1> QED BY <1>1, <1>2, <1>3 DEF Operator, Request, RejectEmptyId, SizeOfUnknownQueue,
        SizeOfUnknownBinder, SizeOfUndeclaredQueue, SizeRead, Purge, QueuePurge, GetTemplate,
        GetNothing, Ack, AckOnClosedChannel, Send, WriteFrame, FinallyWithoutTemplate, Respond,
        brokerVars

LEMMA ListMessageCollects ==
    ASSUME IInv, GoneInv, NEW w \in Threads, Collecting(w), ListMessage(w)
    PROVE  Collecting(w)'
<1>1. PICK f \in Factories, m \in ready :
        /\ Fetch(w, f, m)
        /\ dlqMessages' = [dlqMessages EXCEPT ![w] =
             Append(@, [msg |-> m, id |-> MessageId(Delivery(f, m)),
                        redelivered |-> m \in redelivered])]
    BY DEF ListMessage
<1> DEFINE entry == [msg |-> m, id |-> MessageId(Delivery(f, m)),
                     redelivered |-> m \in redelivered]
           len == Len(dlqMessages[w])
<1>2. /\ pc'[w] \in {"loop", "finally"} /\ call' = call /\ pc[w] = "loop"
      /\ call[w].op = "getMessages"
    BY <1>1 DEF ListMessage, Fetch, EndIteration, GoTo, IInv, CallTypeOK
<1>3. Template(w)' = f /\ Template(w) \in {NoFactory, f}
    BY <1>1, <1>2, FetchFacts DEF Template, Binder
<1>4. unacked'[f] = unacked[f] \cup {m}
    BY <1>1 DEF Fetch, BasicGet, IInv, BrokerTypeOK
<1>5. dlqMessages[w] \in Seq(Listed) /\ dlqMessages'[w] = Append(dlqMessages[w], entry)
      /\ entry.msg = m
    BY <1>1 DEF IInv, CallTypeOK
<1> HIDE DEF entry
<1>6. /\ len \in Nat
      /\ DOMAIN dlqMessages[w] = 1 .. len /\ DOMAIN dlqMessages'[w] = 1 .. len + 1
      /\ \A i \in 1 .. len : dlqMessages'[w][i] = dlqMessages[w][i]
      /\ dlqMessages'[w][len + 1] = entry
    BY <1>5, LenProperties
<1> HIDE DEF len
<1>7. KeepsListed(w)
    BY <1>2 DEF Collecting
<1>8. \A i \in 1 .. len : dlqMessages[w][i].msg \in unacked[f]
    BY <1>3, <1>6, <1>7, NoFactoryAssumption DEF KeepsListed
<1>9. m \notin unacked[f]
    BY DEF GoneInv, Apart
<1>10. ASSUME NEW i \in 1 .. len + 1
       PROVE  /\ dlqMessages'[w][i].msg \in unacked'[f]
              /\ \A j \in 1 .. len + 1 :
                    dlqMessages'[w][j].msg = dlqMessages'[w][i].msg => i = j
    <2>1. i \in 1 .. len \/ i = len + 1
        BY <1>6
    <2>2. dlqMessages'[w][i].msg \in unacked'[f]
        BY <1>4, <1>5, <1>6, <1>8, <2>1
    <2>3. ASSUME NEW j \in 1 .. len + 1, dlqMessages'[w][j].msg = dlqMessages'[w][i].msg
          PROVE  i = j
        <3>1. j \in 1 .. len \/ j = len + 1
            BY <1>6
        <3>2. CASE i \in 1 .. len /\ j \in 1 .. len
            BY <1>6, <1>7, <2>3, <3>2 DEF KeepsListed
        <3>3. CASE i = len + 1 /\ j \in 1 .. len
            BY <1>5, <1>6, <1>8, <1>9, <2>3, <3>3
        <3>4. CASE i \in 1 .. len /\ j = len + 1
            BY <1>5, <1>6, <1>8, <1>9, <2>3, <3>4
        <3> QED BY <2>1, <3>1, <3>2, <3>3, <3>4
    <2> QED BY <2>2, <2>3
<1>11. KeepsListed(w)'
    BY <1>3, <1>6, <1>10 DEF KeepsListed
<1> QED BY <1>2, <1>11 DEF Collecting

(* The other steps of the thread itself.                                    *)
LEMMA ThreadStepCollects ==
    ASSUME ~Failures, IInv, GoneInv, NEW w \in Threads, Collecting(w),
           Request(w) \/ Operator(w)
    PROVE  Collecting(w)'
<1>1. ThreadOK(w)
    BY DEF IInv
<1>2. CASE ListMessage(w)
    BY <1>2, ListMessageCollects
<1>3. CASE Respond(w)
    <2>1. dlqMessages'[w] = <<>>
        BY <1>3 DEF Respond, IInv, CallTypeOK
    <2> QED BY <2>1 DEF Collecting, KeepsListed
<1>4. CASE Request(w) \/ SizeRead(w) \/ GetTemplate(w)
    <2>1. /\ dlqMessages' = dlqMessages /\ pc[w] \in {"idle", "size", "template"}
        BY <1>4 DEF Request, SizeRead, AsksSize, Return, GetTemplate
    <2>2. dlqMessages'[w] = <<>>
        BY <2>1 DEF Collecting
    <2> QED BY <2>2 DEF Collecting, KeepsListed
<1>5. CASE GetNothing(w)
    <2>1. PICK f \in Factories : TemplateExecute(w, Binder(w), f, TRUE)
        BY <1>5 DEF GetNothing
    <2>2. /\ pc'[w] \in {"loop", "finally"} /\ pc[w] = "loop"
          /\ call' = call /\ dlqMessages' = dlqMessages /\ unacked' = unacked
        BY <1>5 DEF GetNothing, EndIteration, GoTo, IInv, CallTypeOK, brokerVars
    <2>3. Template(w)' = f /\ Template(w) \in {NoFactory, f}
        <3>1. Binder(w) \in Binders
            BY <2>2, ScanningBinder DEF IInv, ThreadOK, Scanning
        <3>2. /\ rabbitTemplateLookup'[w][Binder(w)] = f
              /\ rabbitTemplateLookup[w][Binder(w)] \in {NoFactory, f}
            BY <2>1, <3>1, UseTemplate DEF IInv
        <3> QED BY <2>2, <3>2 DEF Template, Binder
    <2>4. ASSUME KeepsListed(w)
          PROVE  KeepsListed(w)'
        BY <2>2, <2>3, <2>4, ListedStaysHeld, NoFactoryAssumption
    <2> QED BY <2>2, <2>4 DEF Collecting
<1>6. CASE ConversionFails(w)
    <2>1. PICK f \in Factories, m \in ready : Fetch(w, f, m)
        BY <1>6 DEF ConversionFails
    <2>2. /\ pc'[w] = "unwind" /\ pc[w] = "loop" /\ call' = call /\ dlqMessages' = dlqMessages
        BY <1>6, <2>1 DEF ConversionFails, Fetch, GoTo, IInv, CallTypeOK
    <2>3. Template(w)' = f /\ Template(w) \in {NoFactory, f}
        BY <2>1, <2>2, FetchFacts DEF Template, Binder
    <2>4. unacked[f] \subseteq unacked'[f]
        BY <2>1 DEF Fetch, BasicGet, IInv, BrokerTypeOK
    <2>5. ASSUME KeepsListed(w)
          PROVE  KeepsListed(w)'
        BY <2>2, <2>3, <2>4, <2>5, ListedStaysHeld, NoFactoryAssumption
    <2> QED BY <2>2, <2>5 DEF Collecting
<1>7. CASE \/ SkipMessage(w) \/ MatchMessage(w) \/ Ack(w) \/ AckOnClosedChannel(w) \/ Send(w)
    <2>1. /\ call' = call /\ NeedsId(call[w].op)
          /\ pc'[w] \in {"loop", "ack", "send", "finally", "unwind"}
        BY <1>1, <1>7 DEF SkipMessage, MatchMessage, Ack, AckOnClosedChannel, Send,
            EndIteration, GoTo, ThreadOK, Named, IInv, CallTypeOK
    <2> QED BY <2>1 DEF Collecting, NeedsId
<1>8. CASE \/ RejectEmptyId(w) \/ SizeOfUnknownQueue(w) \/ SizeOfUnknownBinder(w)
           \/ SizeOfUndeclaredQueue(w) \/ Purge(w) \/ Finally(w) \/ FinallyWithoutTemplate(w)
    <2>1. pc'[w] = "returned"
        BY <1>8 DEF RejectEmptyId, SizeOfUnknownQueue, SizeOfUnknownBinder,
            SizeOfUndeclaredQueue, Purge, Finally, FinallyWithoutTemplate, Return, GoTo,
            IInv, CallTypeOK
    <2> QED BY <2>1 DEF Collecting
<1> QED BY <1>2, <1>3, <1>4, <1>5, <1>6, <1>7, <1>8 DEF Operator

(* A thread that is listing is the only owner of its connection.            *)
LEMMA ListerOwns ==
    ASSUME IInv, NEW w \in Threads, pc[w] \in Scanning, Template(w) \in Factories
    PROVE  Owns(w, Template(w))
BY DEF Owns, IInv, ThreadOK

LEMMA OtherStepCollects ==
    ASSUME ~Failures, IInv, NEW v \in Threads, Request(v) \/ Operator(v) \/ Failure(v),
           NEW w \in Threads \ {v}, Collecting(w)
    PROVE  Collecting(w)'
<1>1. /\ pc'[w] = pc[w] /\ call'[w] = call[w] /\ dlqMessages'[w] = dlqMessages[w]
      /\ Template(w)' = Template(w)
    BY ThreadStepKept DEF Kept, Others, Template, Binder
<1>2. ASSUME pc[w] \in {"loop", "finally", "unwind"}, KeepsListed(w), Template(w) \in Factories
      PROVE  unacked[Template(w)] \subseteq unacked'[Template(w)]
    <2>1. PICK f \in Factories : f = Template(w)
        BY <1>2
    <2>2. Owns(w, f)
        BY <1>2, <2>1, ListerOwns DEF Scanning
    <2>3. ~Owns(v, f)
        BY <2>2, OneOwner
    <2> QED BY <2>1, <2>3, OthersDeliveriesStay
<1> QED BY <1>1, <1>2, ListedStaysHeld DEF Collecting

LEMMA BrokerStepCollects ==
    ASSUME IInv, HoldInv, GoneInv, NEW w \in Threads, Collecting(w),
           Broker \/ Arrive \/ UNCHANGED brokerVars, UNCHANGED <<connVars, callVars>>
    PROVE  Collecting(w)'
<1>1. /\ pc'[w] = pc[w] /\ call'[w] = call[w] /\ dlqMessages'[w] = dlqMessages[w]
      /\ Template(w)' = Template(w)
    BY DEF callVars, connVars, Template, Binder
<1>2. ASSUME pc[w] \in {"loop", "finally", "unwind"}, call[w].op = "getMessages",
             Template(w) \in Factories
      PROVE  unacked[Template(w)] \subseteq unacked'[Template(w)]
    <2>1. PICK f \in Factories : f = Template(w)
        BY <1>2
    <2>2. Owns(w, f)
        BY <1>2, <2>1, ListerOwns DEF Scanning
    <2>3. ASSUME NEW g \in Factories, ReadAck(g)
          PROVE  unacked[f] \subseteq unacked'[f]
        <3>1. CASE g # f
            BY <2>3, <3>1 DEF ReadAck, IInv, BrokerTypeOK
        <3>2. CASE g = f
            <4>1. PICK frame \in Frames(f) : frame = Head(wire[f]) /\ frame.kind = "ack"
                BY <2>3, <3>2, WireTail DEF ReadAck, IInv, Frames
            <4>2. PICK v \in Threads : Owns(v, f) /\ FrameOf(v, frame)
                BY <4>1 DEF HoldInv
            <4>3. v = w
                BY <2>2, <4>2, OneOwner
            <4>4. frame.msg \in acked[w]
                BY <4>1, <4>2, <4>3 DEF FrameOf
            <4>5. NeedsId(call[w].op)
                BY <4>4, LocalTypes DEF Named
            <4> QED BY <1>2, <4>5 DEF NeedsId
        <3> QED BY <3>1, <3>2
    <2>4. CASE UNCHANGED unacked
        BY <2>1, <2>4
    <2> QED BY <2>1, <2>3, <2>4 DEF Broker, ReadPublish, RequeueOrphan, Arrive, brokerVars
<1> QED BY <1>1, <1>2, ListedStaysHeld DEF Collecting

LEMMA NextKeepsCollect ==
    ASSUME ~Failures, IInv, HoldInv, GoneInv, CollectInv, [Next]_vars
    PROVE  CollectInv'
<1>1. ASSUME NEW v \in Threads, Request(v) \/ Operator(v) \/ Failure(v)
      PROVE  CollectInv'
    <2>1. ~Failure(v)
        BY DEF Failure, SizeFails, PurgeFails, ExecuteFails
    <2>2. Collecting(v)'
        BY <1>1, <2>1, ThreadStepCollects DEF CollectInv
    <2>3. \A w \in Threads \ {v} : Collecting(w)'
        BY <1>1, OtherStepCollects DEF CollectInv
    <2> QED BY <2>2, <2>3 DEF CollectInv
<1>2. CASE (Broker \/ Arrive \/ UNCHANGED brokerVars) /\ UNCHANGED <<connVars, callVars>>
    BY <1>2, BrokerStepCollects DEF CollectInv
<1> QED BY <1>1, <1>2 DEF Next, ConnectionLost, Restart, vars

(* While nothing fails, everything a listing shows is in the queue when it  *)
(* is answered, once and by an id that finds it, however many threads list, *)
(* drop, purge and republish at the same time.                              *)
THEOREM WhatIsListedIsThere ==
    ASSUME ~Failures
    PROVE  Spec => ListedIsThere
<1> DEFINE There(w, i) ==
      LET m == dlqMessages[w][i].msg IN
      /\ m \in Present' /\ msgs[m].queue = ReadName(w)
      /\ dlqMessages[w][i].id \in IdsOf(msgs[m].content.payload)
      /\ \A j \in DOMAIN dlqMessages[w] : dlqMessages[w][j].msg = m => i = j
<1>1. Init => CollectInv /\ ListedInv
    BY DEF Init, NoCall, CollectInv, Collecting, KeepsListed, ListedInv, ListedRight
<1>2. /\ IInv /\ HoldInv /\ GoneInv /\ CollectInv /\ [Next]_vars => CollectInv'
      /\ IInv /\ ListedInv /\ [Next]_vars => ListedInv'
    BY NextKeepsCollect, NextKeepsListed
<1>3. ASSUME IInv, HoldInv, GoneInv, CollectInv, ListedInv, [Next]_vars, NEW w \in Threads,
             reply[w].status = "none", reply'[w].status = "messages",
             NEW i \in DOMAIN dlqMessages[w]
      PROVE  There(w, i)
    <2> DEFINE m == dlqMessages[w][i].msg
    <2>1. reply'[w] # reply[w]
        BY <1>3
    <2>2. Request(w) \/ Operator(w)
        BY <1>3, <2>1, OwnStep
    <2>3. pc[w] # "size"
        BY <1>3 DEF CollectInv, Collecting
    <2>4. Finally(w) /\ Outcome(w) = "messages"
        <3>1. CASE Respond(w)
            BY <1>3, <3>1 DEF Respond, NoReply, IInv, CallTypeOK
        <3>2. CASE Finally(w)
            BY <1>3, <3>2, AnswerIsReturned DEF Finally
        <3>3. CASE Purge(w) \/ FinallyWithoutTemplate(w)
            <4>1. PICK status \in {"success", "error"} : Return(w, status, 0)
                BY <3>3 DEF Purge, FinallyWithoutTemplate
            <4> QED BY <1>3, <4>1, AnswerIsReturned
        <3> QED BY <2>1, <2>2, <2>3, <3>1, <3>2, <3>3 DEF Request, Operator, RejectEmptyId,
            SizeOfUnknownQueue, SizeOfUnknownBinder, SizeOfUndeclaredQueue, SizeRead, AsksSize,
            GetTemplate, GetNothing, ListMessage, SkipMessage, MatchMessage, ConversionFails,
            Ack, AckOnClosedChannel, Send
    <2>5. pc[w] = "finally" /\ call[w].op = "getMessages"
        BY <2>4 DEF Finally, Outcome
    <2>6. KeepsListed(w)
        BY <1>3, <2>5 DEF CollectInv, Collecting
    <2>7. PICK f \in Factories : f = Template(w) /\ m \in unacked[f]
        BY <2>6 DEF KeepsListed
    <2>8. m \in Present'
        BY <2>4, <2>7 DEF Finally, CloseConnection, Present
    <2>9. msgs[m].queue = ReadName(w)
        <3>1. PICK v \in Threads : Owns(v, f) /\ msgs[m].queue = ReadName(v)
            BY <1>3, <2>7 DEF HoldInv
        <3>2. Owns(w, f)
            BY <1>3, <2>5, <2>7, ListerOwns DEF Scanning
        <3>3. v = w
            BY <1>3, <3>1, <3>2, OneOwner
        <3> QED BY <3>1, <3>3
    <2>10. dlqMessages[w][i].id \in IdsOf(msgs[m].content.payload)
        <3>1. /\ m \in DOMAIN msgs
              /\ dlqMessages[w][i].id = IdOf(m, dlqMessages[w][i].redelivered)
            BY <1>3 DEF ListedInv, ListedRight
        <3>2. dlqMessages[w][i] \in Listed /\ msgs[m] \in Message
            BY <1>3, <3>1, ElementOfSeq, LenProperties DEF IInv, CallTypeOK, BrokerTypeOK
        <3>3. PICK d : d = [payload |-> msgs[m].content.payload,
                            route |-> msgs[m].content.route,
                            redelivered |-> dlqMessages[w][i].redelivered, deliveryTag |-> 1]
            OBVIOUS
        <3>4. d \in Deliveries /\ d.payload = msgs[m].content.payload
            BY <3>2, <3>3 DEF Listed, Message, Contents, Deliveries
        <3> QED BY <3>1, <3>3, <3>4, IdIsAmongIds DEF IdOf
    <2> QED BY <2>6, <2>8, <2>9, <2>10 DEF KeepsListed
<1>4. IInv /\ HoldInv /\ GoneInv /\ CollectInv /\ ListedInv /\ [Next]_vars =>
        [\A w \in Threads : reply[w].status = "none" /\ reply'[w].status = "messages" =>
            \A i \in DOMAIN dlqMessages[w] : There(w, i)]_vars
    BY <1>3
<1> QED BY <1>1, <1>2, <1>4, WithoutFailures, PTL DEF Spec, ListedIsThere

-----------------------------------------------------------------------------
(* What a search is owed it finds.  Of the messages ready when the size was *)
(* read, one that nobody else fetches has before it, still to be fetched by *)
(* this thread, at most as many messages as the thread has fetches left:    *)
(* others can take some of these away or give them back, but never add one. *)
Ahead(w, m) == {n \in Present \ Fetched(w) : n <= m /\ msgs[n].queue = msgs[m].queue}

Reach(w) == IF pc[w] \in {"ack", "send"} THEN left[w] - 1 ELSE left[w]

Hit(w) == done[w] \/ pc[w] \in {"ack", "send"}

OwedMessage(w, m) ==
    /\ m \in DOMAIN msgs /\ msgs[m].queue = ReadName(w)
    /\ m \in ready \cup Fetched(w)
    /\ m \in ready => Sought(w, m) /\ Cardinality(Ahead(w, m)) <= Reach(w)
    /\ m \in Fetched(w) =>
        IF call[w].op = "getMessages" THEN m \in Shown(w) ELSE Hit(w)

OwedOK(w) ==
    /\ pc[w] \notin Searching => owed[w] = {}
    /\ pc[w] = "finally" /\ (call[w].op = "getMessages" \/ ~done[w]) => left[w] = 0
    /\ \A m \in owed[w] : OwedMessage(w, m)

OwedInv == \A w \in Threads : OwedOK(w)

LEMMA Remembered ==
    ASSUME Remember, NEW w \in Threads
    PROVE  /\ pc'[w] \notin Searching => owed'[w] = {}
           /\ pc[w] \in Searching /\ pc'[w] \in Searching => owed'[w] = StillOwed(w)
           /\ pc[w] = "size" /\ pc'[w] \in Searching => owed'[w] = Owed(w)
           /\ pc[w] \notin Searching \cup {"size"} => owed'[w] = {}
BY DEF Remember, Searching

LEMMA SearcherTemplate ==
    ASSUME IInv, NEW w \in Threads, pc[w] \in Searching
    PROVE  Binder(w) \in Binders /\ Template(w) \in Factories \cup {NoFactory}
<1>1. Configured(w)
    BY DEF IInv, ThreadOK, Searching, Scanning
<1>2. Binder(w) \in Binders
    BY <1>1, ScanningBinder
<1> QED BY <1>2 DEF Template, IInv, ConnInv, ConnTypeOK, Lookup

(* Before its scan a thread has nothing on its connection.                  *)
LEMMA NothingFetched ==
    ASSUME IInv, HoldInv, NEW w \in Threads, pc[w] = "template"
    PROVE  Fetched(w) = {}
<1> SUFFICES ASSUME Template(w) # NoFactory, NEW m \in unacked[Template(w)]
             PROVE  FALSE
    BY DEF Fetched
<1>1. PICK f \in Factories : f = Template(w)
    BY SearcherTemplate DEF Searching
<1>2. PICK v \in Threads : Owns(v, f)
    BY <1>1 DEF HoldInv
<1>3. Binder(v) \in Binders /\ Binder(w) \in Binders
    BY <1>2, ScanningBinder, SearcherTemplate DEF Owns, Searching
<1>4. /\ cachingConnectionFactoryLookup[v][Binder(v)] = f
      /\ cachingConnectionFactoryLookup[w][Binder(w)] = f
    BY <1>1, <1>2, <1>3, NoFactoryAssumption DEF Owns, Template, IInv, ConnInv, SameFactory
<1>5. v = w
    BY <1>3, <1>4, NoFactoryAssumption DEF IInv, ConnInv, Confined
<1> QED BY <1>2, <1>5 DEF Owns, Scanning

FetchedApart ==
    \A w \in Threads : pc[w] \in Searching =>
        ready \cap Fetched(w) = {} /\ Fetched(w) \subseteq Present

LEMMA FetchedIsApart == IInv /\ Apart => FetchedApart
BY SearcherTemplate DEF FetchedApart, Fetched, Apart, Present

LEMMA CountsAreNat ==
    ASSUME BrokerTypeOK, NEW S \in SUBSET Present
    PROVE  IsFiniteSet(S) /\ Cardinality(S) \in Nat
<1>1. Present \subseteq 1 .. Len(msgs) /\ Len(msgs) \in Nat
    BY LenProperties DEF BrokerTypeOK, Present
<1>2. IsFiniteSet(1 .. Len(msgs))
    BY <1>1, FS_Interval
<1> QED BY <1>1, <1>2, FS_Subset, FS_CardinalityType

(* A step in which m stays where it is, and nothing gets in front of it.    *)
LEMMA StaysOwed ==
    ASSUME IInv, IInv', NEW w \in Threads, NEW m, OwedMessage(w, m),
           m \in (ready \cup Fetched(w))',
           m \in ready' => m \in ready,
           m \in Fetched(w)' => m \in Fetched(w),
           MsgsGrow, call'[w] = call[w],
           Fetched(w) \cap Present' \subseteq Fetched(w)',
           \A n \in Present' : n \in Present \/ (n \in Nat /\ n > Len(msgs)),
           m \in ready /\ m \in ready' =>
                (m \in redelivered' <=> m \in redelivered) /\ Reach(w) <= Reach(w)',
           Shown(w) \subseteq Shown(w)',
           Hit(w) => Hit(w)'
    PROVE  OwedMessage(w, m)'
<1>1. m \in DOMAIN msgs' /\ msgs'[m] = msgs[m] /\ ReadName(w)' = ReadName(w)
    BY DEF OwedMessage, MsgsGrow, ReadName
<1>2. ASSUME m \in ready'
      PROVE  Sought(w, m)' /\ Cardinality(Ahead(w, m)') <= Reach(w)'
    <2>1. Sought(w, m)'
        BY <1>1, <1>2 DEF OwedMessage, Sought, IdNow
    <2>2. m \in Nat /\ m <= Len(msgs) /\ Len(msgs) \in Nat
        BY LenProperties DEF OwedMessage, IInv, BrokerTypeOK
    <2>3. ASSUME NEW n \in Ahead(w, m)'
          PROVE  n \in Ahead(w, m)
        <3>1. n \in Present' /\ n \notin Fetched(w)' /\ n <= m /\ msgs'[n].queue = msgs'[m].queue
            BY <2>3 DEF Ahead
        <3>2. n \in Present
            BY <2>2, <3>1
        <3>3. msgs'[n] = msgs[n]
            BY <3>2 DEF MsgsGrow, Present, IInv, BrokerTypeOK
        <3> QED BY <1>1, <3>1, <3>2, <3>3 DEF Ahead
    <2>4. Ahead(w, m) \in SUBSET Present
        BY DEF Ahead
    <2>5. /\ Cardinality(Ahead(w, m)') <= Cardinality(Ahead(w, m))
          /\ Cardinality(Ahead(w, m)) \in Nat /\ Cardinality(Ahead(w, m)') \in Nat
        BY <2>3, <2>4, CountsAreNat, FS_Subset, FS_CardinalityType DEF IInv
    <2>6. Cardinality(Ahead(w, m)) <= Reach(w) /\ Reach(w) <= Reach(w)'
        BY <1>2 DEF OwedMessage
    <2>7. Reach(w) \in Int /\ Reach(w)' \in Int
        BY DEF Reach, IInv, CallTypeOK
    <2> QED BY <2>1, <2>5, <2>6, <2>7
<1>3. m \in Fetched(w)' => IF call'[w].op = "getMessages" THEN m \in Shown(w)' ELSE Hit(w)'
    BY DEF OwedMessage
<1> QED BY <1>1, <1>2, <1>3 DEF OwedMessage

(* basicGet: what is fetched lies before everything that is still ready.    *)
LEMMA FetchOwes ==
    ASSUME IInv, Apart, NEW w \in Threads, NEW f \in Factories, NEW h \in ready, Fetch(w, f, h),
           call' = call, OwedOK(w)
    PROVE  /\ Fetched(w) \cup {h} \subseteq Fetched(w)'
           /\ \A m \in owed[w] :
                /\ m \in ready' \/ m \in Fetched(w) \/ m = h
                /\ m \in DOMAIN msgs' /\ msgs'[m].queue = ReadName(w)'
                /\ m \in ready' =>
                    /\ m \in ready /\ m # h /\ Sought(w, m)'
                    /\ Cardinality(Ahead(w, m)') <= left[w] - 1
<1>1. /\ pc[w] = "loop" /\ AtHead(ReadName(w), h)
      /\ ready' = ready \ {h} /\ unacked' = [unacked EXCEPT ![f] = @ \cup {h}]
      /\ UNCHANGED <<msgs, redelivered, orphaned>>
    BY DEF Fetch, BasicGet
<1>2. Template(w)' = f /\ Template(w) \in {NoFactory, f} /\ ReadName(w)' = ReadName(w)
    BY FetchFacts DEF Template, Binder, ReadName
<1>3. Fetched(w) \cup {h} \subseteq Fetched(w)'
    <2>1. unacked'[f] = unacked[f] \cup {h}
        BY <1>1 DEF IInv, BrokerTypeOK
    <2>2. CASE Template(w) = f
        BY <1>2, <2>1, <2>2, NoFactoryAssumption DEF Fetched
    <2>3. CASE Template(w) = NoFactory
        BY <1>2, <2>1, <2>3, NoFactoryAssumption DEF Fetched
    <2> QED BY <1>2, <2>2, <2>3
<1>4. ASSUME NEW m \in owed[w], m \in ready'
      PROVE  /\ m \in ready /\ m # h /\ Sought(w, m)'
             /\ Cardinality(Ahead(w, m)') <= left[w] - 1
    <2>1. m \in ready /\ m # h /\ OwedMessage(w, m)
        BY <1>1, <1>4 DEF OwedOK
    <2>2. Sought(w, m)'
        BY <1>1, <2>1 DEF OwedMessage, Sought, IdNow
    <2>3. h \in Ahead(w, m)
        <3>1. h <= m /\ msgs[h].queue = msgs[m].queue
            BY <1>1, <2>1 DEF AtHead, Ready, OwedMessage
        <3>2. h \in Present /\ h \notin Fetched(w)
            BY <1>1, FetchedIsApart DEF FetchedApart, Present, Searching
        <3> QED BY <3>1, <3>2 DEF Ahead
    <2>4. Ahead(w, m)' \subseteq Ahead(w, m) \ {h}
        <3>1. Present' \subseteq Present
            BY <1>1 DEF Present, IInv, BrokerTypeOK
        <3> QED BY <1>1, <1>3, <3>1 DEF Ahead
    <2>5. IsFiniteSet(Ahead(w, m)) /\ Cardinality(Ahead(w, m)) \in Nat
        BY CountsAreNat DEF Ahead, IInv
    <2>6. /\ IsFiniteSet(Ahead(w, m) \ {h})
          /\ Cardinality(Ahead(w, m) \ {h}) = Cardinality(Ahead(w, m)) - 1
        BY <2>3, <2>5, FS_RemoveElement
    <2>7. Cardinality(Ahead(w, m)') <= Cardinality(Ahead(w, m)) - 1
        BY <2>4, <2>6, FS_Subset
    <2>8. Cardinality(Ahead(w, m)) <= left[w] /\ left[w] \in Nat
        BY <1>1, <2>1 DEF OwedMessage, Reach, IInv, CallTypeOK
    <2>9. Cardinality(Ahead(w, m)') \in Nat
        BY <2>4, <2>6, FS_Subset, FS_CardinalityType
    <2> QED BY <2>1, <2>2, <2>5, <2>7, <2>8, <2>9
<1>5. \A m \in owed[w] :
        /\ m \in ready' \/ m \in Fetched(w) \/ m = h
        /\ m \in DOMAIN msgs' /\ msgs'[m].queue = ReadName(w)'
    BY <1>1, <1>2 DEF OwedOK, OwedMessage
<1> QED BY <1>3, <1>4, <1>5

LEMMA ListMessageShows ==
    ASSUME IInv, NEW w \in Threads, NEW entry, NEW m, entry.msg = m,
           dlqMessages' = [dlqMessages EXCEPT ![w] = Append(@, entry)]
    PROVE  Shown(w)' = Shown(w) \cup {m}
<1> DEFINE len == Len(dlqMessages[w])
<1>1. /\ dlqMessages[w] \in Seq(Listed) /\ dlqMessages'[w] = Append(dlqMessages[w], entry)
    BY DEF IInv, CallTypeOK
<1>2. /\ len \in Nat
      /\ DOMAIN dlqMessages[w] = 1 .. len /\ DOMAIN dlqMessages'[w] = 1 .. len + 1
      /\ \A i \in 1 .. len : dlqMessages'[w][i] = dlqMessages[w][i]
      /\ dlqMessages'[w][len + 1] = entry
    BY <1>1, LenProperties
<1> HIDE DEF len
<1>3. Shown(w)' = {dlqMessages'[w][i].msg : i \in 1 .. len + 1}
    BY <1>2 DEF Shown
<1>4. Shown(w) = {dlqMessages[w][i].msg : i \in 1 .. len}
    BY <1>2 DEF Shown
<1>5. 1 .. len + 1 = (1 .. len) \cup {len + 1}
    BY <1>2
<1> QED BY <1>2, <1>3, <1>4, <1>5

(* The three outcomes of a fetch after which the search goes on.            *)
LEMMA FetchStepOwes ==
    ASSUME IInv, IInv', Apart, Apart', NEW w \in Threads, OwedOK(w), Remember,
           ListMessage(w) \/ SkipMessage(w) \/ MatchMessage(w)
    PROVE  OwedOK(w)'
<1>1. PICK f \in Factories, h \in ready :
        /\ Fetch(w, f, h)
        /\ \/ /\ ListMessage(w) /\ call[w].op = "getMessages"
              /\ dlqMessages' = [dlqMessages EXCEPT ![w] =
                   Append(@, [msg |-> h, id |-> MessageId(Delivery(f, h)),
                              redelivered |-> h \in redelivered])]
           \/ /\ SkipMessage(w) /\ NeedsId(call[w].op)
              /\ MessageId(Delivery(f, h)) # call[w].messageId
           \/ MatchMessage(w) /\ NeedsId(call[w].op)
    BY DEF ListMessage, SkipMessage, MatchMessage
<1> DEFINE Lists == /\ call[w].op = "getMessages"
                    /\ dlqMessages' = [dlqMessages EXCEPT ![w] =
                         Append(@, [msg |-> h, id |-> MessageId(Delivery(f, h)),
                                    redelivered |-> h \in redelivered])]
           Skips == /\ NeedsId(call[w].op)
                    /\ MessageId(Delivery(f, h)) # call[w].messageId
<1>2. /\ call' = call /\ done' = done /\ pc[w] = "loop" /\ left[w] \in Nat /\ left[w] > 0
      /\ \/ /\ ~MatchMessage(w) /\ pc'[w] \in {"loop", "finally"} /\ left'[w] = left[w] - 1
            /\ pc'[w] = "finally" => left'[w] = 0
         \/ MatchMessage(w) /\ pc'[w] = "ack" /\ left'[w] = left[w]
    <2>1. pc[w] = "loop" /\ left[w] \in Nat /\ left[w] > 0 /\ pc \in [Threads -> Steps]
          /\ left \in [Threads -> Nat]
        BY <1>1 DEF Fetch, IInv, CallTypeOK, ThreadOK
    <2>2. CASE MatchMessage(w)
        BY <2>1, <2>2 DEF MatchMessage, GoTo
    <2>3. CASE ~MatchMessage(w)
        <3>1. EndIteration(w) /\ UNCHANGED <<call, done>>
            BY <2>3 DEF ListMessage, SkipMessage
        <3>2. left'[w] = left[w] - 1 /\ pc'[w] = (IF left[w] > 1 THEN "loop" ELSE "finally")
            BY <2>1, <3>1 DEF EndIteration, GoTo
        <3> QED BY <2>1, <2>3, <3>1, <3>2
    <2> QED BY <2>1, <2>2, <2>3
<1>3. pc[w] \in Searching /\ pc'[w] \in Searching
    BY <1>2 DEF Searching
<1>4. owed'[w] = StillOwed(w)
    BY <1>3, Remembered
<1>5. Reach(w)' = left[w] - 1
    BY <1>2 DEF Reach
<1>6. ready' \cap Fetched(w)' = {}
    <2>1. FetchedApart'
        BY FetchedIsApart, PTL
    <2> QED BY <1>3, <2>1 DEF FetchedApart
<1>7. ASSUME NEW m \in owed'[w]
      PROVE  OwedMessage(w, m)'
    <2>1. m \in owed[w] /\ m \in (ready \cup Fetched(w))'
        BY <1>4, <1>7 DEF StillOwed
    <2>2. /\ m \in ready' \/ m \in Fetched(w) \/ m = h
          /\ m \in DOMAIN msgs' /\ msgs'[m].queue = ReadName(w)'
          /\ m \in ready' => Sought(w, m)' /\ Cardinality(Ahead(w, m)') <= left[w] - 1
        BY <1>1, <1>2, <2>1, FetchOwes
    <2>3. ASSUME m \in Fetched(w)'
          PROVE  IF call'[w].op = "getMessages" THEN m \in Shown(w)' ELSE Hit(w)'
        <3>1. m \in Fetched(w) \/ m = h
            BY <1>6, <2>2, <2>3
        <3>2. OwedMessage(w, m)
            BY <2>1 DEF OwedOK
        <3>3. CASE ListMessage(w) /\ Lists
            <4>1. Shown(w)' = Shown(w) \cup {h}
                BY <3>3, ListMessageShows
            <4> QED BY <1>2, <3>1, <3>2, <3>3, <4>1 DEF OwedMessage
        <3>4. CASE SkipMessage(w) /\ Skips
            <4>1. NeedsId(call[w].op) /\ MessageId(Delivery(f, h)) # call[w].messageId
                BY <3>4
            <4>2. ~Sought(w, h)
                BY <4>1 DEF Sought, IdNow, Delivery, MessageId, Fingerprint
            <4>3. m # h
                BY <3>2, <4>2 DEF OwedMessage
            <4> QED BY <1>2, <3>1, <3>2, <4>1, <4>3 DEF OwedMessage, Hit, NeedsId
        <3>5. CASE MatchMessage(w)
            <4>1. call[w].op # "getMessages" /\ pc'[w] = "ack"
                BY <1>1, <1>2, <3>5 DEF MatchMessage, NeedsId
            <4> QED BY <1>2, <4>1 DEF Hit
        <3> QED BY <1>1, <3>3, <3>4, <3>5
    <2> QED BY <1>5, <2>1, <2>2, <2>3 DEF OwedMessage
<1>8. pc'[w] = "finally" => left'[w] = 0
    BY <1>2
<1> QED BY <1>3, <1>7, <1>8 DEF OwedOK

(* The size is read: what the call is owed is all ready, and no further     *)
(* back than it is going to fetch.                                          *)
LEMMA SizeReadOwes ==
    ASSUME IInv, IInv', Apart, Apart', NEW w \in Threads, Remember,
           SizeRead(w), pc'[w] \in {"template", "loop", "finally"}
    PROVE  OwedOK(w)'
<1>1. /\ pc[w] = "size" /\ call' = call /\ UNCHANGED brokerVars
      /\ left'[w] \in Nat
      /\ pc'[w] = "finally" => left'[w] = 0
    <2>1. pc[w] = "size" /\ UNCHANGED brokerVars /\ left'[w] \in Nat
        BY DEF SizeRead, AsksSize, IInv, CallTypeOK
    <2>2. ~Return(w, "size", MessageCount(ReadName(w)))
        BY DEF Return, GoTo, IInv, CallTypeOK
    <2> QED BY <2>1, <2>2 DEF SizeRead, GoTo, IInv, CallTypeOK
<1>2. owed'[w] = Owed(w) /\ pc'[w] \in Searching
    BY <1>1, Remembered DEF Searching
<1>3. FetchedApart'
    BY FetchedIsApart, PTL
<1>4. ASSUME NEW m \in owed'[w]
      PROVE  OwedMessage(w, m)'
    <2>1. /\ m \in ready /\ msgs[m].queue = ReadName(w)
          /\ PlaceOf(m) <= left'[w] /\ Sought(w, m)
        BY <1>2, <1>4 DEF Owed, Ready
    <2>2. m \in ready' /\ m \notin Fetched(w)'
        BY <1>1, <1>2, <1>3, <2>1 DEF FetchedApart, brokerVars
    <2>3. m \in DOMAIN msgs' /\ msgs'[m].queue = ReadName(w)'
        BY <1>1, <2>1 DEF brokerVars, ReadName, IInv, BrokerTypeOK
    <2>4. Sought(w, m)'
        BY <1>1, <2>1 DEF Sought, IdNow, brokerVars
    <2>5. PICK S : S = {n \in Present : n <= m /\ msgs[n].queue = msgs[m].queue}
        OBVIOUS
    <2>6. IsFiniteSet(S) /\ Cardinality(S) \in Nat
        BY <2>5, CountsAreNat DEF IInv
    <2>7. Ahead(w, m)' \subseteq S
        BY <1>1, <2>5 DEF Ahead, Present, brokerVars
    <2>8. Cardinality(Ahead(w, m)') <= Cardinality(S) /\ Cardinality(Ahead(w, m)') \in Nat
        BY <2>6, <2>7, FS_Subset, FS_CardinalityType
    <2>9. Cardinality(S) <= left'[w]
        BY <2>1, <2>5 DEF PlaceOf
    <2>10. Reach(w)' = left'[w]
        BY DEF Reach
    <2> QED BY <1>1, <2>2, <2>3, <2>4, <2>6, <2>8, <2>9, <2>10 DEF OwedMessage
<1> QED BY <1>1, <1>2, <1>4 DEF OwedOK

(* Steps of a search that leave every message where it is.                  *)
LEMMA MoveOnOwes ==
    ASSUME IInv, IInv', Apart, Apart', NEW w \in Threads, OwedOK(w), Remember,
           GetTemplate(w) \/ GetNothing(w) \/ Ack(w) \/ Send(w)
    PROVE  OwedOK(w)'
<1>1. /\ UNCHANGED <<msgs, ready, redelivered, unacked, orphaned, call, dlqMessages>>
      /\ left \in [Threads -> Nat] /\ pc \in [Threads -> Steps] /\ done \in [Threads -> BOOLEAN]
      /\ pc[w] \in Searching /\ left[w] \in Nat
    BY DEF GetTemplate, GetNothing, Ack, Send, WriteFrame, brokerVars, IInv, CallTypeOK, Searching
<1>2. /\ pc'[w] \in Searching
      /\ GetNothing(w) \/ Reach(w) <= Reach(w)'
      /\ Hit(w) => Hit(w)'
      /\ pc'[w] = "finally" /\ (call[w].op = "getMessages" \/ ~done'[w]) => left'[w] = 0
    <2>1. CASE GetTemplate(w)
        <3>1. /\ pc[w] = "template" /\ left' = left /\ done' = done
              /\ pc'[w] = (IF left[w] = 0 THEN "finally" ELSE "loop")
            BY <1>1, <2>1 DEF GetTemplate, GoTo
        <3> QED BY <1>1, <3>1 DEF Reach, Hit, Searching
    <2>2. CASE GetNothing(w)
        <3>1. /\ pc[w] = "loop" /\ done' = done /\ left'[w] = left[w] - 1 /\ left[w] > 0
              /\ pc'[w] = (IF left[w] > 1 THEN "loop" ELSE "finally")
            BY <1>1, <2>2 DEF GetNothing, EndIteration, GoTo, IInv, ThreadOK
        <3> QED BY <1>1, <2>2, <3>1 DEF Hit, Searching
    <2>3. CASE Ack(w)
        <3>1. /\ pc[w] = "ack" /\ left' = left
              /\ \/ pc'[w] = "finally" /\ done'[w] /\ call[w].op = "ackCertainMessage"
                 \/ pc'[w] = "send" /\ done' = done
            BY <1>1, <2>3 DEF Ack, GoTo
        <3> QED BY <1>1, <3>1 DEF Reach, Hit, Searching
    <2>4. CASE Send(w)
        <3>1. /\ pc[w] = "send" /\ done'[w] /\ left'[w] = left[w] - 1 /\ left[w] > 0
              /\ pc'[w] = (IF left[w] > 1 THEN "loop" ELSE "finally")
              /\ call[w].op = "republishMessage"
            BY <1>1, <2>4 DEF Send, EndIteration, GoTo, IInv, ThreadOK
        <3> QED BY <1>1, <3>1 DEF Reach, Hit, Searching
    <2> QED BY <2>1, <2>2, <2>3, <2>4
<1>3. Fetched(w) \subseteq Fetched(w)'
    <2>1. Template(w) = NoFactory \/ Template(w)' = Template(w)
        <3>1. CASE Ack(w)
            BY <3>1 DEF Ack, connVars, Template, Binder
        <3>2. CASE GetTemplate(w) \/ GetNothing(w) \/ Send(w)
            <4>1. Binder(w) \in Binders
                BY <1>1, SearcherTemplate
            <4>2. PICK f \in Factories :
                    TemplateExecute(w, Binder(w), f, TRUE) \/ TemplateLookup(w, Binder(w), f)
                BY <3>2 DEF GetTemplate, GetNothing, Send
            <4>3. /\ rabbitTemplateLookup'[w][Binder(w)] = f
                  /\ rabbitTemplateLookup[w][Binder(w)] \in {NoFactory, f}
                BY <4>1, <4>2, UseTemplate DEF IInv
            <4> QED BY <1>1, <4>3 DEF Template, Binder
        <3> QED BY <3>1, <3>2
    <2> QED BY <1>1, <2>1 DEF Fetched
<1>4. Present' = Present
    BY <1>1 DEF Present
<1>5. FetchedApart'
    BY FetchedIsApart, PTL
<1>6. owed'[w] = StillOwed(w)
    BY <1>1, <1>2, Remembered
<1>7. ASSUME NEW m \in owed'[w]
      PROVE  OwedMessage(w, m)'
    <2>1. m \in owed[w] /\ m \in (ready \cup Fetched(w))'
        BY <1>6, <1>7 DEF StillOwed
    <2>2. OwedMessage(w, m)
        BY <2>1 DEF OwedOK
    <2>3. m \in Fetched(w)' => m \in Fetched(w)
        BY <1>1, <1>2, <1>5, <2>2 DEF OwedMessage, FetchedApart
    <2>4. m \in ready => ~GetNothing(w)
        BY <2>2 DEF OwedMessage, GetNothing, Ready
    <2>5. Shown(w)' = Shown(w)
        BY <1>1 DEF Shown
    <2>6. MsgsGrow
        BY <1>1, LenProperties DEF MsgsGrow, IInv, BrokerTypeOK
    <2> QED BY <1>1, <1>2, <1>3, <1>4, <2>1, <2>2, <2>3, <2>4, <2>5, <2>6, StaysOwed
<1> QED BY <1>1, <1>2, <1>7 DEF OwedOK

LEMMA OwnStepOwes ==
    ASSUME IInv, IInv', Apart, Apart', NEW w \in Threads, OwedOK(w), Remember,
           Request(w) \/ Operator(w)
    PROVE  OwedOK(w)'
<1>1. CASE ListMessage(w) \/ SkipMessage(w) \/ MatchMessage(w)
    BY <1>1, FetchStepOwes
<1>2. CASE GetTemplate(w) \/ GetNothing(w) \/ Ack(w) \/ Send(w)
    BY <1>2, MoveOnOwes
<1>3. CASE pc'[w] \notin Searching
    BY <1>3, Remembered DEF OwedOK, Searching
<1>4. CASE SizeRead(w)
    <2>1. pc'[w] \in {"returned", "purge", "template", "loop", "finally"}
        BY <1>4 DEF SizeRead, Return, GoTo, IInv, CallTypeOK
    <2> QED BY <1>3, <1>4, <2>1, SizeReadOwes DEF Searching
<1>5. CASE \/ RejectEmptyId(w) \/ SizeOfUnknownQueue(w) \/ SizeOfUnknownBinder(w)
           \/ SizeOfUndeclaredQueue(w) \/ Purge(w) \/ Finally(w) \/ FinallyWithoutTemplate(w)
    <2>1. pc'[w] = "returned"
        BY <1>5 DEF RejectEmptyId, SizeOfUnknownQueue, SizeOfUnknownBinder,
            SizeOfUndeclaredQueue, Purge, Finally, FinallyWithoutTemplate, Return, GoTo,
            IInv, CallTypeOK
    <2> QED BY <1>3, <2>1 DEF Searching
<1>6. CASE Request(w) \/ ConversionFails(w) \/ AckOnClosedChannel(w) \/ Respond(w)
    <2>1. pc'[w] \in {"size", "unwind", "idle"}
        BY <1>6 DEF Request, ConversionFails, AckOnClosedChannel, Respond, GoTo, IInv, CallTypeOK
    <2> QED BY <1>3, <2>1 DEF Searching
<1> QED BY <1>1, <1>2, <1>4, <1>5, <1>6 DEF Operator

(* What goes on elsewhere: nothing the thread has fetched is taken from it, *)
(* nothing it has not fetched comes to it, and new messages come last.      *)
LEMMA ElsewhereOwes ==
    ASSUME IInv, IInv', Apart, Apart', NEW w \in Threads, OwedOK(w), Remember, MsgsGrow,
           pc'[w] = pc[w], call'[w] = call[w], left'[w] = left[w], done'[w] = done[w],
           dlqMessages'[w] = dlqMessages[w],
           pc[w] \in Searching => /\ Fetched(w)' \subseteq Fetched(w)
                                 /\ Fetched(w) \cap Present' \subseteq Fetched(w)',
           \A n \in Present' : n \in Present \/ (n \in Nat /\ n > Len(msgs)),
           \A m \in ready \cap ready' : m \in redelivered' <=> m \in redelivered
    PROVE  OwedOK(w)'
<1>1. CASE pc[w] \notin Searching
    BY <1>1, Remembered DEF OwedOK, Searching
<1>2. CASE pc[w] \in Searching
    <2>1. owed'[w] = StillOwed(w)
        BY <1>2, Remembered
    <2>2. FetchedApart'
        BY FetchedIsApart, PTL
    <2>3. ASSUME NEW m \in owed'[w]
          PROVE  OwedMessage(w, m)'
        <3>1. m \in owed[w] /\ m \in (ready \cup Fetched(w))'
            BY <2>1, <2>3 DEF StillOwed
        <3>2. OwedMessage(w, m)
            BY <3>1 DEF OwedOK
        <3>3. m \in ready' => m \in Present' /\ m \notin Fetched(w)'
            BY <1>2, <2>2 DEF FetchedApart, Present
        <3>4. m \in ready' => m \in ready
            BY <1>2, <3>2, <3>3 DEF OwedMessage
        <3>5. Shown(w)' = Shown(w) /\ Hit(w)' = Hit(w) /\ Reach(w)' = Reach(w)
            BY DEF Shown, Hit, Reach
        <3>6. Reach(w) \in Int
            BY DEF Reach, IInv, CallTypeOK
        <3> QED BY <1>2, <3>1, <3>2, <3>4, <3>5, <3>6, StaysOwed
    <2> QED BY <1>2, <2>3 DEF OwedOK
<1> QED BY <1>1, <1>2

LEMMA RedeliveredStays ==
    ASSUME ~Failures, IInv, Apart, NEW v \in Threads, Request(v) \/ Operator(v) \/ Failure(v),
           NEW m \in ready
    PROVE  m \in redelivered' <=> m \in redelivered
<1>1. ~Failure(v)
    BY DEF Failure, SizeFails, PurgeFails, ExecuteFails
<1>2. CASE Finally(v)
    <2>1. Template(v) \in Factories
        BY <1>2, ScanningBinder DEF Finally, IInv, ThreadOK, Scanning, Template,
            ConnInv, ConnTypeOK, Lookup
    <2> QED BY <1>2, <2>1 DEF Finally, CloseConnection, Apart
<1>3. CASE ListMessage(v) \/ SkipMessage(v) \/ MatchMessage(v) \/ ConversionFails(v)
    BY <1>3 DEF ListMessage, SkipMessage, MatchMessage, ConversionFails, Fetch, BasicGet
<1> QED BY <1>1, <1>2, <1>3 DEF Operator, Request, RejectEmptyId, SizeOfUnknownQueue,
        SizeOfUnknownBinder, SizeOfUndeclaredQueue, SizeRead, Purge, QueuePurge, GetTemplate,
        GetNothing, Ack, AckOnClosedChannel, Send, WriteFrame, FinallyWithoutTemplate, Respond,
        brokerVars

NothingYet == \A w \in Threads : pc[w] = "template" => Fetched(w) = {}

LEMMA NothingFetchedYet == IInv /\ HoldInv => NothingYet
BY NothingFetched DEF NothingYet

OneOwnerEach ==
    \A v, w \in Threads : \A f \in Factories : Owns(v, f) /\ Owns(w, f) => v = w

LEMMA OneOwnerOfEach == IInv => OneOwnerEach
BY OneOwner DEF OneOwnerEach

LEMMA OtherStepOwes ==
    ASSUME ~Failures, IInv, IInv', HoldInv, HoldInv', Apart, Apart',
           NEW v \in Threads, Request(v) \/ Operator(v) \/ Failure(v),
           NEW w \in Threads \ {v}, OwedOK(w), Remember
    PROVE  OwedOK(w)'
<1>1. Kept(v) /\ Handles
    BY ThreadStepKept, ThreadStepHandles
<1>2. /\ MsgsGrow /\ pc'[w] = pc[w] /\ call'[w] = call[w] /\ left'[w] = left[w]
      /\ done'[w] = done[w] /\ dlqMessages'[w] = dlqMessages[w]
      /\ Template(w)' = Template(w)
    BY <1>1 DEF Kept, BrokerKept, Others, Template, Binder
<1>3. ASSUME pc[w] \in Searching
      PROVE  Fetched(w)' = Fetched(w)
    <2>1. CASE pc[w] = "template"
        <3>1. NothingYet /\ NothingYet'
            BY NothingFetchedYet, PTL
        <3> QED BY <1>2, <2>1, <3>1 DEF NothingYet
    <2>2. CASE pc[w] # "template" /\ Template(w) \in Factories
        <3>1. PICK f \in Factories : f = Template(w)
            BY <2>2
        <3>2. Owns(w, f) /\ Owns(w, f)'
            BY <1>1, <1>3, <2>2, <3>1, ListerOwns, OwnersStay DEF Kept, Scanning, Searching
        <3>3. ~Owns(v, f) /\ ~Owns(v, f)'
            <4>1. OneOwnerEach /\ OneOwnerEach'
                BY OneOwnerOfEach, PTL
            <4> QED BY <3>2, <4>1 DEF OneOwnerEach
        <3>4. unacked[f] \subseteq unacked'[f]
            BY <3>3, OthersDeliveriesStay
        <3>5. Adds(v)
            <4>1. CASE pc[v] \notin Scanning
                BY <4>1, OutsideScan
            <4>2. CASE pc[v] \in Scanning
                <5>1. ~Request(v)
                    BY <4>2 DEF Request, Scanning
                <5> QED BY <4>2, <5>1, InsideScan
            <4> QED BY <4>1, <4>2
        <3>6. unacked'[f] \subseteq unacked[f]
            BY <3>3, <3>5 DEF Adds
        <3>7. f # NoFactory /\ unacked'[f] = unacked[f]
            BY <3>4, <3>6, NoFactoryAssumption
        <3>8. Fetched(w) = unacked[f]
            BY <3>1, <3>7 DEF Fetched
        <3>9. Fetched(w)' = unacked'[f]
            BY <1>2, <3>1, <3>7 DEF Fetched
        <3> QED BY <3>7, <3>8, <3>9
    <2>3. CASE Template(w) = NoFactory
        BY <1>2, <2>3 DEF Fetched
    <2> QED BY <1>3, <2>1, <2>2, <2>3, SearcherTemplate
<1>4. \A m \in ready : m \in redelivered' <=> m \in redelivered
    BY RedeliveredStays
<1> QED BY <1>1, <1>2, <1>3, <1>4, ElsewhereOwes DEF Handles

LEMMA BrokerStepOwes ==
    ASSUME IInv, IInv', Apart, Apart', NEW w \in Threads, OwedOK(w), Remember,
           Broker \/ Arrive \/ UNCHANGED brokerVars, UNCHANGED <<connVars, callVars>>
    PROVE  OwedOK(w)'
<1>1. /\ MsgsGrow
      /\ \A n \in Present' : n \in Present \/ (n \in Nat /\ n > Len(msgs))
      /\ \A f \in Factories : unacked'[f] \subseteq unacked[f]
    BY BrokerAppends DEF IInv, Apart
<1>2. redelivered' = redelivered
    BY DEF Broker, ReadAck, ReadPublish, RequeueOrphan, Arrive, brokerVars, Apart
<1>3. /\ pc' = pc /\ call' = call /\ left' = left /\ done' = done /\ dlqMessages' = dlqMessages
      /\ Template(w)' = Template(w)
    BY DEF callVars, connVars, Template, Binder
<1>4. ASSUME NEW f \in Factories, NEW n \in unacked[f], n \in Present'
      PROVE  n \in unacked'[f]
    <2>1. CASE \E g \in Factories : ReadAck(g)
        <3>1. ready' = ready /\ orphaned' = {}
            BY <2>1 DEF ReadAck, Apart
        <3>2. n \notin ready
            BY <1>4 DEF Apart
        <3>3. PICK h \in Factories : n \in unacked'[h]
            BY <1>4, <3>1, <3>2 DEF Present
        <3>4. h = f
            BY <1>1, <1>4, <3>3 DEF Apart
        <3> QED BY <3>3, <3>4
    <2>2. CASE unacked' = unacked
        BY <1>4, <2>2
    <2> QED BY <2>1, <2>2 DEF Broker, ReadPublish, RequeueOrphan, Arrive, brokerVars
<1>5. ASSUME pc[w] \in Searching
      PROVE  Fetched(w)' \subseteq Fetched(w) /\ Fetched(w) \cap Present' \subseteq Fetched(w)'
    <2>1. CASE Template(w) = NoFactory
        BY <1>3, <2>1 DEF Fetched
    <2>2. CASE Template(w) \in Factories
        BY <1>1, <1>3, <1>4, <2>2, NoFactoryAssumption DEF Fetched
    <2> QED BY <1>5, <2>1, <2>2, SearcherTemplate
<1> QED BY <1>1, <1>2, <1>3, <1>5, ElsewhereOwes

LEMMA NextKeepsOwed ==
    ASSUME ~Failures, IInv, IInv', HoldInv, HoldInv', GoneInv, GoneInv', OwedInv,
           [Next]_vars, Remember
    PROVE  OwedInv'
<1>1. Apart /\ Apart'
    BY DEF GoneInv
<1>2. ASSUME NEW v \in Threads, Request(v) \/ Operator(v) \/ Failure(v)
      PROVE  OwedInv'
    <2>1. ~Failure(v)
        BY DEF Failure, SizeFails, PurgeFails, ExecuteFails
    <2>2. OwedOK(v)'
        BY <1>1, <1>2, <2>1, OwnStepOwes DEF OwedInv
    <2>3. \A w \in Threads \ {v} : OwedOK(w)'
        BY <1>1, <1>2, OtherStepOwes DEF OwedInv
    <2> QED BY <2>2, <2>3 DEF OwedInv
<1>3. CASE (Broker \/ Arrive \/ UNCHANGED brokerVars) /\ UNCHANGED <<connVars, callVars>>
    BY <1>1, <1>3, BrokerStepOwes DEF OwedInv
<1> QED BY <1>2, <1>3 DEF Next, ConnectionLost, Restart, vars

LEMMA SameOwed ==
    ASSUME OwedInv, UNCHANGED searchVars
    PROVE  OwedInv'
<1>1. /\ UNCHANGED <<pc, call, left, done, dlqMessages, owed>>
      /\ UNCHANGED <<msgs, ready, redelivered, unacked, orphaned, rabbitTemplateLookup>>
    BY DEF searchVars, vars, connVars, brokerVars, callVars
<1>2. \A w \in Threads : /\ Template(w)' = Template(w) /\ ReadName(w)' = ReadName(w)
                         /\ Shown(w)' = Shown(w) /\ Hit(w)' = Hit(w) /\ Reach(w)' = Reach(w)
    BY <1>1 DEF Template, Binder, ReadName, Shown, Hit, Reach
<1>3. Present' = Present /\ \A w \in Threads : Fetched(w)' = Fetched(w)
    BY <1>1, <1>2 DEF Present, Fetched
<1>4. \A w \in Threads : \A m : Ahead(w, m)' = Ahead(w, m) /\ (Sought(w, m)' <=> Sought(w, m))
    BY <1>1, <1>2, <1>3 DEF Ahead, Sought, IdNow
<1>5. \A w \in Threads : \A m : OwedMessage(w, m) => OwedMessage(w, m)'
    BY <1>1, <1>2, <1>3, <1>4 DEF OwedMessage
<1> QED BY <1>1, <1>5 DEF OwedInv, OwedOK

(* While nothing fails, and whatever other threads fetch and give back at   *)
(* the same time, a drop or a republish that answers a plain failure has    *)
(* missed nothing it was owed, and a listing shows all it was owed.         *)
THEOREM SearchFindsOwed ==
    ASSUME ~Failures
    PROVE  SearchSpec => OwedIsFound
<1> DEFINE Finds(w) ==
      /\ reply'[w].status = "failure" => owed[w] \cap Present' = {}
      /\ reply'[w].status = "messages" =>
            owed[w] \cap Present' \subseteq
                {dlqMessages[w][i].msg : i \in DOMAIN dlqMessages[w]}
<1>1. SearchSpec => Spec
    <2>1. [SearchNext]_searchVars => [Next]_vars
        BY DEF SearchNext, searchVars
    <2> QED BY <2>1, PTL DEF SearchSpec, SearchInit, Spec
<1>2. SearchInit => OwedInv
    BY DEF SearchInit, Init, OwedInv, OwedOK
<1>3. /\ IInv /\ HoldInv /\ GoneInv /\ OwedInv
      /\ (IInv /\ HoldInv /\ GoneInv)'
      /\ [SearchNext]_searchVars
      => OwedInv'
    BY NextKeepsOwed, SameOwed DEF SearchNext
<1>4. ASSUME IInv, HoldInv, GoneInv, OwedInv, [Next]_vars, NEW w \in Threads,
             reply[w].status = "none"
      PROVE  Finds(w)
    <2>1. CASE owed[w] = {}
        BY <2>1
    <2>2. CASE owed[w] # {} /\ reply'[w].status \in {"failure", "messages"}
        <3>1. pc[w] \in Searching /\ OwedOK(w)
            BY <1>4, <2>2 DEF OwedInv, OwedOK
        <3>2. Request(w) \/ Operator(w)
            <4>1. reply'[w] # reply[w]
                BY <1>4, <2>2
            <4> QED BY <1>4, <4>1, OwnStep
        <3>3. Finally(w) /\ reply'[w].status = Outcome(w) /\ UNCHANGED <<call, dlqMessages>>
            <4>1. CASE Finally(w)
                BY <1>4, <4>1, AnswerIsReturned DEF Finally, Return
            <4>2. CASE FinallyWithoutTemplate(w)
                BY <1>4, <2>2, <4>2, AnswerIsReturned DEF FinallyWithoutTemplate
            <4>3. CASE Respond(w)
                BY <3>1, <4>3 DEF Respond, Searching
            <4>4. CASE Purge(w)
                BY <3>1, <4>4 DEF Purge, Searching
            <4> QED BY <1>4, <2>2, <3>1, <3>2, <4>1, <4>2, <4>3, <4>4 DEF Request, Operator,
                RejectEmptyId, SizeOfUnknownQueue, SizeOfUnknownBinder, SizeOfUndeclaredQueue,
                SizeRead, AsksSize, GetTemplate, GetNothing, ListMessage, SkipMessage,
                MatchMessage, ConversionFails, Ack, AckOnClosedChannel, Send, Searching
        <3>4. /\ pc[w] = "finally" /\ (call[w].op = "getMessages" \/ ~done[w])
              /\ reply'[w].status = "failure" => call[w].op # "getMessages"
              /\ reply'[w].status = "messages" => call[w].op = "getMessages"
            BY <2>2, <3>1, <3>3 DEF Finally, Outcome, Searching
        <3>5. left[w] = 0
            BY <3>1, <3>4 DEF OwedOK
        <3>6. FetchedApart
            BY <1>4, FetchedIsApart DEF GoneInv
        <3>7. ASSUME NEW m \in owed[w]
              PROVE  m \in Fetched(w)
            <4> SUFFICES ASSUME m \in ready PROVE FALSE
                BY <3>1, <3>7 DEF OwedOK, OwedMessage
            <4>1. Cardinality(Ahead(w, m)) <= 0
                BY <3>1, <3>4, <3>5, <3>7 DEF OwedOK, OwedMessage, Reach
            <4>2. m \in Nat /\ m \in Present /\ m \notin Fetched(w)
                BY <1>4, <3>1, <3>6, LenProperties DEF FetchedApart, Present, IInv, BrokerTypeOK
            <4>3. m \in Ahead(w, m)
                BY <4>2 DEF Ahead
            <4>4. IsFiniteSet(Ahead(w, m)) /\ Cardinality(Ahead(w, m)) \in Nat
                BY <1>4, CountsAreNat DEF Ahead, IInv
            <4> QED BY <4>1, <4>3, <4>4, FS_EmptySet
        <3>8. CASE call[w].op = "getMessages"
            <4>1. owed[w] \subseteq Shown(w)
                BY <3>1, <3>7, <3>8 DEF OwedOK, OwedMessage
            <4> QED BY <3>4, <3>8, <4>1 DEF Shown
        <3>9. CASE call[w].op # "getMessages"
            <4>1. \A m \in owed[w] : Hit(w)
                BY <3>1, <3>7, <3>9 DEF OwedOK, OwedMessage
            <4> QED BY <2>2, <3>4, <3>9, <4>1 DEF Hit
        <3> QED BY <3>8, <3>9
    <2> QED BY <2>1, <2>2
<1>5. IInv /\ HoldInv /\ GoneInv /\ OwedInv /\ [SearchNext]_searchVars =>
        [\A w \in Threads : reply[w].status = "none" => Finds(w)]_searchVars
    <2>1. [SearchNext]_searchVars => [Next]_vars
        BY DEF SearchNext, searchVars
    <2> QED BY <1>4, <2>1
<1> QED BY <1>1, <1>2, <1>3, <1>5, WithoutFailures, PTL DEF SearchSpec, OwedIsFound
=============================================================================
