------------------------- MODULE MessageOperator_proofs -------------------------
(***************************************************************************)
(* Proofs about MessageOperator for any number of threads, queues and       *)
(* messages, with every failure the specification allows.                   *)
(*                                                                         *)
(* The inductive invariant IInv says what is true of a thread at each step  *)
(* of its call.  Each action of a thread is shown to keep the parts it can  *)
(* disturb (Kept), and to leave the other threads alone (Others), from      *)
(* which IInv follows once for all of them.                                 *)
(***************************************************************************)
EXTENDS MessageOperator, RabbitMqConnectionService_proofs, SequenceTheorems, FiniteSetTheorems

(* The broker's steps: each keeps its state well typed and never changes a  *)
(* message that is already there.                                           *)

(* The history of messages only grows.                                      *)
MsgsGrow == /\ Len(msgs) <= Len(msgs')
            /\ \A m \in DOMAIN msgs : m \in DOMAIN msgs' /\ msgs'[m] = msgs[m]

BrokerKept == BrokerTypeOK' /\ MsgsGrow

LEMMA UnchangedKeepsBroker ==
    ASSUME BrokerTypeOK, UNCHANGED brokerVars
    PROVE  BrokerKept
BY DEF BrokerTypeOK, brokerVars, BrokerKept, MsgsGrow

LEMMA BasicGetKeepsBroker ==
    ASSUME BrokerTypeOK, NEW f \in Factories, NEW m \in ready, BasicGet(f, m)
    PROVE  BrokerKept
BY DEF BrokerTypeOK, BasicGet, BrokerKept, MsgsGrow

LEMMA WriteFrameKeepsBroker ==
    ASSUME BrokerTypeOK, NEW f \in Factories, NEW frame \in Frame, WriteFrame(f, frame)
    PROVE  BrokerKept
<1>1. wire[f] \in Seq(Frame)
    BY DEF BrokerTypeOK
<1>2. Append(wire[f], frame) \in Seq(Frame)
    BY <1>1, AppendProperties
<1>3. wire' \in [Factories -> Seq(Frame)]
    BY <1>2 DEF BrokerTypeOK, WriteFrame
<1> QED BY <1>3 DEF BrokerTypeOK, WriteFrame, BrokerKept, MsgsGrow

LEMMA QueuePurgeKeepsBroker ==
    ASSUME BrokerTypeOK, NEW q, QueuePurge(q)
    PROVE  BrokerKept
BY DEF BrokerTypeOK, QueuePurge, BrokerKept, MsgsGrow

LEMMA CloseConnectionKeepsBroker ==
    ASSUME BrokerTypeOK, NEW f \in Factories, CloseConnection(f)
    PROVE  BrokerKept
BY DEF BrokerTypeOK, CloseConnection, BrokerKept, MsgsGrow

LEMMA BreakConnectionsKeepsBroker ==
    ASSUME BrokerTypeOK, NEW F \in SUBSET Factories, NEW gone \in SUBSET ready,
           BreakConnections(F, gone)
    PROVE  BrokerKept
<1>1. wire' \in [Factories -> Seq(Frame)]
    <2>1. <<>> \in Seq(Frame)
        BY EmptySeq
    <2> QED BY <2>1 DEF BrokerTypeOK, BreakConnections
<1>2. unacked' \in [Factories -> SUBSET DOMAIN msgs]
    BY DEF BrokerTypeOK, BreakConnections
<1>3. orphaned' \subseteq DOMAIN msgs
    BY DEF BrokerTypeOK, BreakConnections
<1> QED BY <1>1, <1>2, <1>3 DEF BrokerTypeOK, BreakConnections, BrokerKept, MsgsGrow

(* Enqueue: the new messages follow the old ones and are ready.             *)
LEMMA EnqueueGrows ==
    ASSUME msgs \in Seq(Message), NEW new \in Seq(Message), Enqueue(new)
    PROVE  /\ msgs' \in Seq(Message)
           /\ Len(msgs') = Len(msgs) + Len(new)
           /\ DOMAIN msgs \subseteq DOMAIN msgs'
           /\ \A m \in DOMAIN msgs : msgs'[m] = msgs[m]
           /\ \A i \in DOMAIN new : msgs'[Len(msgs) + i] = new[i]
           /\ ready' = ready \cup (Len(msgs) + 1 .. Len(msgs'))
<1>1. msgs' = msgs \o new
    BY DEF Enqueue
<1>2. /\ msgs' \in Seq(Message)
      /\ Len(msgs') = Len(msgs) + Len(new)
      /\ \A i \in 1 .. Len(msgs) + Len(new) :
            msgs'[i] = IF i <= Len(msgs) THEN msgs[i] ELSE new[i - Len(msgs)]
    BY <1>1, ConcatProperties
<1>3. Len(msgs) \in Nat /\ Len(new) \in Nat
    BY LenProperties
<1>4. DOMAIN msgs = 1 .. Len(msgs) /\ DOMAIN msgs' = 1 .. Len(msgs') /\ DOMAIN new = 1 .. Len(new)
    BY <1>2, LenProperties
<1> QED BY <1>2, <1>3, <1>4 DEF Enqueue

LEMMA EnqueueKeepsBroker ==
    ASSUME BrokerTypeOK, NEW new \in Seq(Message), Enqueue(new),
           UNCHANGED <<redelivered, orphaned>>,
           unacked' \in [Factories -> SUBSET DOMAIN msgs],
           wire' \in [Factories -> Seq(Frame)]
    PROVE  BrokerKept
<1>1. msgs \in Seq(Message)
    BY DEF BrokerTypeOK
<1>2. /\ msgs' \in Seq(Message)
      /\ Len(msgs') = Len(msgs) + Len(new)
      /\ DOMAIN msgs \subseteq DOMAIN msgs'
      /\ \A m \in DOMAIN msgs : msgs'[m] = msgs[m]
      /\ ready' = ready \cup (Len(msgs) + 1 .. Len(msgs'))
    BY <1>1, EnqueueGrows
<1>3. Len(msgs) \in Nat /\ Len(new) \in Nat /\ DOMAIN msgs' = 1 .. Len(msgs')
    BY <1>1, <1>2, LenProperties
<1>4. ready' \subseteq DOMAIN msgs'
    <2>1. Len(msgs) + 1 .. Len(msgs') \subseteq DOMAIN msgs'
        BY <1>2, <1>3
    <2> QED BY <1>2, <2>1 DEF BrokerTypeOK
<1>5. Len(msgs) <= Len(msgs')
    BY <1>2, <1>3
<1>6. unacked' \in [Factories -> SUBSET DOMAIN msgs']
    BY <1>2
<1> QED BY <1>2, <1>4, <1>5, <1>6 DEF BrokerTypeOK, BrokerKept, MsgsGrow

LEMMA ArriveKeepsBroker ==
    ASSUME BrokerTypeOK, Arrive
    PROVE  BrokerKept
<1>1. PICK message \in Arrivals : Enqueue(<<message>>)
    BY DEF Arrive
<1>2. <<message>> \in Seq(Message)
    BY BrokerAssumption
<1> QED BY <1>1, <1>2, EnqueueKeepsBroker DEF Arrive, BrokerTypeOK

(* What the broker takes off the wire.                                      *)
LEMMA WireTail ==
    ASSUME BrokerTypeOK, NEW f \in Factories, wire[f] # <<>>
    PROVE  /\ Head(wire[f]) \in Frame
           /\ Head(wire[f]) = wire[f][1]
           /\ Tail(wire[f]) \in Seq(Frame)
           /\ Len(Tail(wire[f])) = Len(wire[f]) - 1
           /\ \A i \in 1 .. Len(wire[f]) - 1 : Tail(wire[f])[i] = wire[f][i + 1]
           /\ [wire EXCEPT ![f] = Tail(@)] \in [Factories -> Seq(Frame)]
<1>1. wire[f] \in Seq(Frame)
    BY DEF BrokerTypeOK
<1>2. /\ Head(wire[f]) \in Frame
      /\ Head(wire[f]) = wire[f][1]
      /\ Tail(wire[f]) \in Seq(Frame)
      /\ Len(Tail(wire[f])) = Len(wire[f]) - 1
      /\ \A i \in 1 .. Len(wire[f]) - 1 : Tail(wire[f])[i] = wire[f][i + 1]
    BY <1>1, HeadTailProperties, EmptySeq, LenProperties
<1> QED BY <1>2 DEF BrokerTypeOK

LEMMA ReadAckKeepsBroker ==
    ASSUME BrokerTypeOK, NEW f \in Factories, ReadAck(f)
    PROVE  BrokerKept
BY WireTail DEF BrokerTypeOK, ReadAck, BrokerKept, MsgsGrow

LEMMA ReadPublishKeepsBroker ==
    ASSUME BrokerTypeOK, NEW f \in Factories, ReadPublish(f)
    PROVE  BrokerKept
<1>1. Head(wire[f]) \in Frame /\ wire' \in [Factories -> Seq(Frame)]
    BY WireTail DEF ReadPublish
<1>2. Head(wire[f]).copies \in Seq(Message)
    BY <1>1 DEF ReadPublish, Frame
<1> QED BY <1>1, <1>2, EnqueueKeepsBroker DEF ReadPublish, BrokerTypeOK

LEMMA RequeueOrphanKeepsBroker ==
    ASSUME BrokerTypeOK, NEW m, RequeueOrphan(m)
    PROVE  BrokerKept
BY DEF BrokerTypeOK, RequeueOrphan, BrokerKept, MsgsGrow

(* The number of messages a declaration reports is a natural number.        *)
LEMMA MessageCountIsNat ==
    ASSUME BrokerTypeOK, NEW S \in SUBSET DOMAIN msgs
    PROVE  Cardinality(S) \in Nat
<1>1. IsFiniteSet(1 .. Len(msgs))
    BY LenProperties, FS_Interval DEF BrokerTypeOK
<1>2. IsFiniteSet(S)
    BY <1>1, FS_Subset, LenProperties DEF BrokerTypeOK
<1> QED BY <1>2, FS_CardinalityType

-----------------------------------------------------------------------------

(* m is the message, or one of the messages, the call of w asks for.        *)
Named(w, m) ==
    /\ m \in DOMAIN msgs
    /\ NeedsId(call[w].op)
    /\ call[w].messageId \in IdsOf(msgs[m].content.payload)
    /\ msgs[m].queue = ReadName(w)

ThreadOK(w) ==
    /\ pc[w] = "idle" <=> call[w] = NoCall
    /\ pc[w] = "idle" => acked[w] = {}
    /\ pc[w] \in {"template", "purge"} \cup Scanning =>
           Configured(w) /\ ReadName(w) \in BrokerQueues
    /\ pc[w] \in {"loop", "ack", "send"} => left[w] > 0
    /\ pc[w] = "template" => NeedsId(call[w].op)
    /\ pc[w] = "purge" => call[w].op = "dropMessages"
    /\ pc[w] \in {"ack", "send"} => Named(w, held[w])
    /\ pc[w] = "send" => call[w].op = "republishMessage"
    /\ pc[w] \in {"ack", "send", "unwind"} => Template(w) \in Factories
    /\ \A m \in acked[w] : Named(w, m)

IInv ==
    /\ ConnInv
    /\ BrokerTypeOK
    /\ CallTypeOK
    /\ \A w \in Threads : ThreadOK(w)

-----------------------------------------------------------------------------
(* A step of w leaves the locals and the templates of the others alone.     *)
Others(w) ==
    \A v \in Threads \ {w} :
        /\ pc'[v] = pc[v]
        /\ call'[v] = call[v]
        /\ left'[v] = left[v]
        /\ held'[v] = held[v]
        /\ acked'[v] = acked[v]
        /\ done'[v] = done[v]
        /\ dlqMessages'[v] = dlqMessages[v]
        /\ reply'[v] = reply[v]
        /\ rabbitTemplateLookup'[v] = rabbitTemplateLookup[v]

Kept(w) ==
    /\ [ConnNext]_connVars
    /\ BrokerKept
    /\ CallTypeOK'
    /\ Others(w)
    /\ ThreadOK(w)'

(* What is true of another thread stays true.                               *)
LEMMA OthersKeepThreadOK ==
    ASSUME NEW w \in Threads, NEW v \in Threads \ {w}, Others(w), MsgsGrow, ThreadOK(v)
    PROVE  ThreadOK(v)'
<1>1. /\ pc'[v] = pc[v] /\ call'[v] = call[v] /\ left'[v] = left[v]
      /\ held'[v] = held[v] /\ acked'[v] = acked[v]
      /\ rabbitTemplateLookup'[v] = rabbitTemplateLookup[v]
    BY DEF Others
<1>2. ASSUME NEW m, Named(v, m)
      PROVE  Named(v, m)'
    BY <1>1, <1>2 DEF Named, MsgsGrow, ReadName
<1>3. \A m \in acked'[v] : Named(v, m)'
    BY <1>1, <1>2 DEF ThreadOK
<1> QED BY <1>1, <1>2, <1>3 DEF ThreadOK, Configured, ReadName, Binder, Template

LEMMA KeptKeepsIInv ==
    ASSUME IInv, NEW w \in Threads, Kept(w)
    PROVE  IInv'
<1>1. ConnInv'
    BY ConnStepKeepsConnInv DEF IInv, Kept
<1>2. ASSUME NEW v \in Threads
      PROVE  ThreadOK(v)'
    <2>1. CASE v = w
        BY <2>1 DEF Kept
    <2>2. CASE v # w
        BY <2>2, OthersKeepThreadOK DEF Kept, IInv, BrokerKept
    <2> QED BY <2>1, <2>2
<1> QED BY <1>1, <1>2 DEF IInv, Kept, BrokerKept

-----------------------------------------------------------------------------
(* Typing of what the actions compute.                                      *)
LEMMA ScanningBinder ==
    ASSUME NEW w \in Threads, Configured(w)
    PROVE  Binder(w) \in Binders
BY QueuesAssumption DEF Binder, Configured

(* An id does not depend on the delivery tag, so it is among the ids of its *)
(* payload.                                                                 *)
LEMMA IdIsAmongIds ==
    ASSUME NEW d \in Deliveries
    PROVE  MessageId(d) \in IdsOf(d.payload) /\ MessageId(d) \in VirgilIds
<1> DEFINE e == [payload |-> d.payload, route |-> d.route,
                 redelivered |-> d.redelivered, deliveryTag |-> 1]
<1>1. MessageId(e) = MessageId(d)
    BY DEF MessageId, Fingerprint
<1>2. e \in [payload : {d.payload}, route : Routes, redelivered : BOOLEAN, deliveryTag : {1}]
    BY DEF Deliveries
<1>3. MessageId(d) \in IdsOf(d.payload)
    BY <1>1, <1>2 DEF IdsOf
<1>4. d.payload \in Payloads
    BY DEF Deliveries
<1> QED BY <1>3, <1>4 DEF VirgilIds

LEMMA DeliveryType ==
    ASSUME BrokerTypeOK, NEW f \in Factories, NEW m \in ready
    PROVE  /\ Delivery(f, m) \in Deliveries
           /\ Delivery(f, m).payload = msgs[m].content.payload
<1>1. Cardinality(unacked[f]) \in Nat
    BY MessageCountIsNat DEF BrokerTypeOK
<1>2. m \in DOMAIN msgs /\ msgs[m] \in Message
    BY LenProperties, ElementOfSeq DEF BrokerTypeOK
<1>3. msgs[m].content \in Contents
    BY <1>2 DEF Message
<1> QED BY <1>1, <1>3 DEF Delivery, Deliveries, Contents

LEMMA IdsSeenType ==
    ASSUME BrokerTypeOK
    PROVE  IdsSeen \subseteq VirgilIds
<1> DEFINE d(m, r) == [payload |-> msgs[m].content.payload,
                       route |-> msgs[m].content.route,
                       redelivered |-> r, deliveryTag |-> 1]
           id(m, r) == MessageId(d(m, r))
<1>1. ASSUME NEW m \in DOMAIN msgs, NEW r \in BOOLEAN
      PROVE  id(m, r) \in VirgilIds
    <2>1. msgs[m] \in Message
        BY ElementOfSeq, LenProperties DEF BrokerTypeOK
    <2>2. msgs[m].content \in Contents
        BY <2>1 DEF Message
    <2>3. d(m, r) \in Deliveries
        BY <2>2 DEF Contents, Deliveries
    <2> QED BY <2>3, IdIsAmongIds
<1>2. IdsSeen = {id(m, r) : m \in DOMAIN msgs, r \in BOOLEAN}
    BY DEF IdsSeen
<1> HIDE DEF id
<1> QED BY <1>1, <1>2

-----------------------------------------------------------------------------
(* The connection cache from the point of view of a call of w.              *)
TemplatesElsewhere(w) ==
    \A v \in Threads \ {w} : rabbitTemplateLookup'[v] = rabbitTemplateLookup[v]

LEMMA UseAdmin ==
    ASSUME ConnInv, NEW w \in Threads, NEW b \in Binders, NEW f \in Factories,
           NEW up \in BOOLEAN, AdminExecute(w, b, f, up)
    PROVE  ConnNext /\ rabbitTemplateLookup' = rabbitTemplateLookup
BY DEF AdminExecute, ConnNext, ServiceCall

LEMMA UseTemplate ==
    ASSUME ConnInv, NEW w \in Threads, NEW b \in Binders, NEW f \in Factories,
           NEW up \in BOOLEAN,
           TemplateExecute(w, b, f, up) \/ TemplateLookup(w, b, f)
    PROVE  /\ ConnNext
           /\ TemplatesElsewhere(w)
           /\ rabbitTemplateLookup'[w][b] = f
           /\ rabbitTemplateLookup[w][b] \in {NoFactory, f}
<1>1. ConnNext
    BY DEF ConnNext, ServiceCall
<1>2. GetRabbitTemplate(w, b, f)
    BY DEF TemplateExecute, TemplateLookup
<1>3. rabbitTemplateLookup' = [rabbitTemplateLookup EXCEPT ![w][b] = f]
    BY <1>2, GetRabbitTemplateCaches DEF ConnInv
<1>4. rabbitTemplateLookup[w][b] \in {NoFactory, f}
    BY <1>2 DEF GetRabbitTemplate
<1> QED BY <1>1, <1>3, <1>4 DEF TemplatesElsewhere, ConnInv, ConnTypeOK, Lookup

LEMMA DestroyOwn ==
    ASSUME ConnInv, NEW w \in Threads, NEW b \in Binders,
           DestroyConnectionsByName(w, b) \/ DestroyWithoutTemplate(w, b)
    PROVE  ConnNext /\ TemplatesElsewhere(w)
<1>1. ConnNext
    BY DEF ConnNext, ServiceCall
<1> QED BY <1>1 DEF TemplatesElsewhere, DestroyConnectionsByName, DestroyWithoutTemplate,
            ConnInv, ConnTypeOK, Lookup

-----------------------------------------------------------------------------
(* Ends of calls: whatever happened to the broker and the cache, returning  *)
(* keeps the invariant.                                                     *)
LEMMA ReturnKept ==
    ASSUME IInv, NEW w \in Threads, pc[w] # "idle",
           NEW status \in Status, NEW size \in Nat, Return(w, status, size),
           [ConnNext]_connVars, BrokerKept, TemplatesElsewhere(w)
    PROVE  Kept(w)
<1>1. CallTypeOK'
    BY DEF IInv, CallTypeOK, Return, GoTo, Steps, Replies, BrokerKept, MsgsGrow
<1>2. Others(w)
    BY DEF IInv, CallTypeOK, Return, GoTo, Others, TemplatesElsewhere
<1>3. /\ pc'[w] = "returned" /\ call'[w] = call[w] /\ acked'[w] = acked[w]
    BY DEF IInv, CallTypeOK, Return, GoTo
<1>4. \A m \in acked'[w] : Named(w, m)'
    BY <1>3 DEF IInv, ThreadOK, Named, ReadName, BrokerKept, MsgsGrow
<1>5. ThreadOK(w)'
    BY <1>3, <1>4 DEF IInv, ThreadOK, Scanning
<1> QED BY <1>1, <1>2, <1>5 DEF Kept

LEMMA StatusOfNullSize ==
    ASSUME NEW op
    PROVE  NullSizeStatus(op) \in Status
BY DEF NullSizeStatus, Status

LEMMA SameCache ==
    ASSUME NEW w \in Threads, UNCHANGED connVars
    PROVE  [ConnNext]_connVars /\ TemplatesElsewhere(w)
BY DEF connVars, TemplatesElsewhere

LEMMA RejectEmptyIdKept ==
    ASSUME IInv, NEW w \in Threads, RejectEmptyId(w)
    PROVE  Kept(w)
BY ReturnKept, SameCache, UnchangedKeepsBroker DEF RejectEmptyId, Status, IInv

LEMMA SizeOfUnknownQueueKept ==
    ASSUME IInv, NEW w \in Threads, SizeOfUnknownQueue(w)
    PROVE  Kept(w)
BY ReturnKept, SameCache, UnchangedKeepsBroker, StatusOfNullSize
    DEF SizeOfUnknownQueue, AsksSize, IInv

LEMMA SizeOfUnknownBinderKept ==
    ASSUME IInv, NEW w \in Threads, SizeOfUnknownBinder(w)
    PROVE  Kept(w)
BY ReturnKept, SameCache, UnchangedKeepsBroker
    DEF SizeOfUnknownBinder, AsksSize, Status, IInv

LEMMA SizeOfUndeclaredQueueKept ==
    ASSUME IInv, NEW w \in Threads, SizeOfUndeclaredQueue(w)
    PROVE  Kept(w)
<1>1. Binder(w) \in Binders
    BY ScanningBinder DEF SizeOfUndeclaredQueue
<1>2. ConnNext /\ TemplatesElsewhere(w)
    BY <1>1, UseAdmin DEF SizeOfUndeclaredQueue, TemplatesElsewhere, IInv
<1> QED BY <1>2, ReturnKept, UnchangedKeepsBroker, StatusOfNullSize
        DEF SizeOfUndeclaredQueue, AsksSize, IInv

LEMMA PurgeKept ==
    ASSUME IInv, NEW w \in Threads, Purge(w)
    PROVE  Kept(w)
<1>1. Binder(w) \in Binders
    BY ScanningBinder DEF Purge, IInv, ThreadOK
<1>2. ConnNext /\ TemplatesElsewhere(w)
    BY <1>1, UseTemplate DEF Purge, IInv
<1>3. BrokerKept
    BY QueuePurgeKeepsBroker DEF Purge, IInv
<1> QED BY <1>2, <1>3, ReturnKept DEF Purge, Status

LEMMA FinallyKept ==
    ASSUME IInv, NEW w \in Threads, Finally(w)
    PROVE  Kept(w)
<1>1. Binder(w) \in Binders
    BY ScanningBinder DEF Finally, IInv, ThreadOK, Scanning
<1>2. ConnNext /\ TemplatesElsewhere(w)
    BY <1>1, DestroyOwn DEF Finally, IInv
<1>3. Template(w) \in Factories
    BY <1>1 DEF Finally, Template, IInv, ConnInv, ConnTypeOK, Lookup
<1>4. BrokerKept
    BY <1>3, CloseConnectionKeepsBroker DEF Finally, IInv
<1>5. Outcome(w) \in Status
    BY DEF Outcome, Status
<1> QED BY <1>2, <1>4, <1>5, ReturnKept DEF Finally

LEMMA FinallyWithoutTemplateKept ==
    ASSUME IInv, NEW w \in Threads, FinallyWithoutTemplate(w)
    PROVE  Kept(w)
<1>1. Binder(w) \in Binders
    BY ScanningBinder DEF FinallyWithoutTemplate, IInv, ThreadOK, Scanning
<1>2. ConnNext /\ TemplatesElsewhere(w)
    BY <1>1, DestroyOwn DEF FinallyWithoutTemplate, IInv
<1> QED BY <1>2, ReturnKept, UnchangedKeepsBroker DEF FinallyWithoutTemplate, Status, IInv

LEMMA SizeFailsKept ==
    ASSUME IInv, NEW w \in Threads, SizeFails(w)
    PROVE  Kept(w)
<1>1. PICK f \in Factories : AdminExecute(w, Binder(w), f, FALSE) /\ BreakConnections({f}, {})
    BY DEF SizeFails
<1>2. Binder(w) \in Binders
    BY ScanningBinder DEF SizeFails
<1>3. ConnNext /\ TemplatesElsewhere(w)
    BY <1>1, <1>2, UseAdmin DEF TemplatesElsewhere, IInv
<1>4. BrokerKept
    BY <1>1, BreakConnectionsKeepsBroker DEF IInv
<1>5. PICK status \in {"error", NullSizeStatus(call[w].op)} : Return(w, status, 0)
    BY DEF SizeFails
<1>6. status \in Status /\ pc[w] # "idle"
    BY StatusOfNullSize DEF Status, SizeFails, AsksSize
<1> QED BY <1>3, <1>4, <1>5, <1>6, ReturnKept

LEMMA PurgeFailsKept ==
    ASSUME IInv, NEW w \in Threads, PurgeFails(w)
    PROVE  Kept(w)
<1>1. Binder(w) \in Binders
    BY ScanningBinder DEF PurgeFails, IInv, ThreadOK
<1>2. ConnNext /\ TemplatesElsewhere(w)
    BY <1>1, UseTemplate DEF PurgeFails, IInv
<1>3. BrokerKept
    BY QueuePurgeKeepsBroker, UnchangedKeepsBroker DEF PurgeFails, IInv
<1> QED BY <1>2, <1>3, ReturnKept DEF PurgeFails, Status

-----------------------------------------------------------------------------
(* The other steps of a call.  What was acknowledged, and what was asked    *)
(* for, stay so when neither the request nor those sets change.             *)
LEMMA NamedStays ==
    ASSUME NEW w \in Threads, call'[w] = call[w], MsgsGrow, NEW m, Named(w, m)
    PROVE  Named(w, m)'
BY DEF Named, MsgsGrow, ReadName

LEMMA RequestKept ==
    ASSUME IInv, NEW w \in Threads, Request(w)
    PROVE  Kept(w)
<1>1. PICK op \in Ops, q \in QueueIds,
           limit \in Limits \cup {Absent}, id \in IdsSeen \cup {Absent} :
        call' = [call EXCEPT ![w] = [op |-> op, queue |-> q,
                                     limit |-> limit, messageId |-> id]]
    BY DEF Request
<1>2. [op |-> op, queue |-> q, limit |-> limit, messageId |-> id] \in Calls
    BY IdsSeenType DEF Calls, IInv
<1>3. CallTypeOK'
    BY <1>1, <1>2 DEF IInv, CallTypeOK, Request, GoTo, Steps, brokerVars
<1>4. Others(w)
    BY <1>1 DEF IInv, CallTypeOK, Request, GoTo, Others, connVars
<1>5. pc'[w] = "size" /\ call'[w].op = op /\ acked'[w] = {}
    BY <1>1 DEF IInv, CallTypeOK, Request, GoTo, ThreadOK
<1>6. call'[w] # NoCall
    BY <1>5, CallsAssumption DEF NoCall
<1>7. ThreadOK(w)'
    BY <1>5, <1>6 DEF ThreadOK, Scanning
<1>8. BrokerKept
    BY UnchangedKeepsBroker DEF Request, IInv
<1> QED BY <1>3, <1>4, <1>7, <1>8 DEF Kept, Request

LEMMA RespondKept ==
    ASSUME IInv, NEW w \in Threads, Respond(w)
    PROVE  Kept(w)
<1>1. BrokerKept
    BY UnchangedKeepsBroker DEF Respond, IInv
<1>2. CallTypeOK'
    BY EmptySeq, <1>1 DEF IInv, CallTypeOK, Respond, GoTo, Steps, Replies, NoReply, Status, BrokerKept, MsgsGrow
<1>3. Others(w)
    BY DEF IInv, CallTypeOK, Respond, GoTo, Others, connVars
<1>4. pc'[w] = "idle" /\ call'[w] = NoCall /\ acked'[w] = {}
    BY DEF IInv, CallTypeOK, Respond, GoTo
<1>5. ThreadOK(w)'
    BY <1>4 DEF ThreadOK, Scanning
<1> QED BY <1>1, <1>2, <1>3, <1>5 DEF Kept, Respond

LEMMA SizeReadKept ==
    ASSUME IInv, NEW w \in Threads, SizeRead(w)
    PROVE  Kept(w)
<1> DEFINE size == MessageCount(ReadName(w))
           op == call[w].op
           todo == IF op = "getMessages" THEN NumToRetrieve(call[w].limit, size) ELSE size
<1>1. size \in Nat
    BY MessageCountIsNat DEF MessageCount, Ready, IInv, BrokerTypeOK
<1>2. call[w] \in Calls
    BY DEF SizeRead, AsksSize, IInv, ThreadOK, CallTypeOK
<1>3. todo \in Nat
    <2>1. call[w].limit \in Limits \cup {Absent} /\ Limits \subseteq Int
        BY <1>2, CallsAssumption DEF Calls
    <2>2. NumToRetrieve(call[w].limit, size) \in Nat
        <3> HIDE DEF size
        <3>1. CASE call[w].limit # Absent /\ call[w].limit > 0
            <4>1. call[w].limit \in Int
                BY <2>1, <3>1
            <4>2. NumToRetrieve(call[w].limit, size) = call[w].limit
                BY <3>1 DEF NumToRetrieve
            <4> QED BY <3>1, <4>1, <4>2
        <3>2. CASE ~(call[w].limit # Absent /\ call[w].limit > 0)
            <4>1. NumToRetrieve(call[w].limit, size) = size
                BY <3>2 DEF NumToRetrieve
            <4> QED BY <1>1, <4>1
        <3> QED BY <3>1, <3>2
    <2> QED BY <1>1, <2>2
<1>4. Binder(w) \in Binders
    BY ScanningBinder DEF SizeRead
<1>5. ConnNext /\ TemplatesElsewhere(w)
    BY <1>4, UseAdmin DEF SizeRead, TemplatesElsewhere, IInv
<1>6. BrokerKept
    BY UnchangedKeepsBroker DEF SizeRead, IInv
<1>7. CASE Return(w, "size", size)
    BY <1>1, <1>5, <1>6, <1>7, ReturnKept DEF SizeRead, AsksSize, Status
<1>8. CASE /\ op # "getQueueSize"
           /\ GoTo(w, CASE op = "dropMessages" -> "purge"
                        [] op = "getMessages" -> IF todo = 0 THEN "finally" ELSE "loop"
                        [] OTHER -> "template")
           /\ left' = [left EXCEPT ![w] = IF op = "dropMessages" THEN 0 ELSE todo]
           /\ UNCHANGED <<call, held, acked, done, dlqMessages, reply>>
    <2>1. left' \in [Threads -> Nat]
        BY <1>3, <1>8 DEF IInv, CallTypeOK
    <2>2. pc' \in [Threads -> Steps] /\ pc'[w] \in {"purge", "finally", "loop", "template"}
        BY <1>8 DEF IInv, CallTypeOK, GoTo, Steps, Scanning
    <2>3. CallTypeOK'
        BY <2>1, <2>2, <1>6, <1>8 DEF IInv, CallTypeOK, BrokerKept, MsgsGrow
    <2>4. Others(w)
        BY <1>5, <1>8 DEF IInv, CallTypeOK, GoTo, Others, TemplatesElsewhere
    <2>5. /\ pc'[w] = "purge" => op = "dropMessages"
          /\ pc'[w] = "loop" => left'[w] > 0
          /\ pc'[w] = "template" => NeedsId(op)
        BY <1>2, <1>3, <1>8, CallsAssumption DEF IInv, CallTypeOK, GoTo, NeedsId, Calls
    <2>6. call'[w] = call[w] /\ acked'[w] = acked[w]
        BY <1>8
    <2>7. \A m \in acked'[w] : Named(w, m)'
        BY <2>6, <1>6, NamedStays DEF IInv, ThreadOK, BrokerKept
    <2>8. Configured(w) /\ ReadName(w) \in BrokerQueues /\ pc[w] # "idle"
        BY DEF SizeRead, AsksSize
    <2>9. ThreadOK(w)'
        BY <2>2, <2>5, <2>6, <2>7, <2>8 DEF ThreadOK, Configured, ReadName, Scanning, IInv
    <2> QED BY <1>5, <1>6, <2>3, <2>4, <2>9 DEF Kept
<1> QED BY <1>7, <1>8 DEF SizeRead

LEMMA GetTemplateKept ==
    ASSUME IInv, NEW w \in Threads, GetTemplate(w)
    PROVE  Kept(w)
<1>1. Binder(w) \in Binders
    BY ScanningBinder DEF GetTemplate, IInv, ThreadOK
<1>2. ConnNext /\ TemplatesElsewhere(w)
    BY <1>1, UseTemplate DEF GetTemplate, IInv
<1>3. BrokerKept
    BY UnchangedKeepsBroker DEF GetTemplate, IInv
<1>4. CallTypeOK'
    BY <1>3 DEF GetTemplate, IInv, CallTypeOK, GoTo, Steps, Scanning, BrokerKept, MsgsGrow
<1>5. Others(w)
    BY <1>2 DEF GetTemplate, IInv, CallTypeOK, GoTo, Others, TemplatesElsewhere
<1>6. /\ pc'[w] \in {"loop", "finally"} /\ call'[w] = call[w] /\ acked'[w] = acked[w]
      /\ pc'[w] = "loop" => left'[w] > 0
    BY DEF GetTemplate, IInv, CallTypeOK, GoTo
<1>7. \A m \in acked'[w] : Named(w, m)'
    BY <1>6, <1>3, NamedStays DEF IInv, ThreadOK, BrokerKept
<1>8. ThreadOK(w)'
    BY <1>6, <1>7 DEF GetTemplate, ThreadOK, Configured, ReadName, Scanning, IInv
<1> QED BY <1>2, <1>3, <1>4, <1>5, <1>8 DEF Kept

(* The end of an iteration, and the exception that ends the loop.           *)
LEMMA StepInLoop ==
    ASSUME IInv, NEW w \in Threads, pc[w] \in {"loop", "ack", "send"},
           NEW step \in {"loop", "ack", "send", "finally", "unwind"}, GoTo(w, step),
           left' = left \/ EndIteration(w),
           step = "loop" => EndIteration(w),
           call' = call,
           held' \in [Threads -> Nat],
           \A v \in Threads \ {w} : held'[v] = held[v],
           acked' \in [Threads -> SUBSET DOMAIN msgs],
           \A v \in Threads \ {w} : acked'[v] = acked[v],
           done' \in [Threads -> BOOLEAN],
           \A v \in Threads \ {w} : done'[v] = done[v],
           dlqMessages' \in [Threads -> Seq(Listed)],
           \A v \in Threads \ {w} : dlqMessages'[v] = dlqMessages[v],
           reply' = reply,
           [ConnNext]_connVars, TemplatesElsewhere(w), BrokerKept,
           step \in {"ack", "send"} => Named(w, held'[w]) /\ left' = left,
           step = "send" => call[w].op = "republishMessage",
           step \in {"ack", "send", "unwind"} => Template(w)' \in Factories,
           \A m \in acked'[w] : Named(w, m)
    PROVE  Kept(w)
<1>1. /\ left' \in [Threads -> Nat]
      /\ \A v \in Threads \ {w} : left'[v] = left[v]
      /\ step \in {"loop", "ack", "send"} => left'[w] > 0
    <2>1. left \in [Threads -> Nat] /\ left[w] \in Nat /\ left[w] > 0 /\ pc \in [Threads -> Steps]
        BY DEF IInv, CallTypeOK, ThreadOK
    <2>2. CASE left' = left
        BY <2>1, <2>2 DEF EndIteration
    <2>3. CASE EndIteration(w)
        <3>1. left' = [left EXCEPT ![w] = left[w] - 1]
            BY <2>3 DEF EndIteration
        <3>2. step = IF left[w] > 1 THEN "loop" ELSE "finally"
            BY <2>1, <2>3 DEF EndIteration, GoTo
        <3> QED BY <2>1, <3>1, <3>2
    <2> QED BY <2>2, <2>3
<1>2. pc' \in [Threads -> Steps] /\ pc'[w] = step /\ \A v \in Threads \ {w} : pc'[v] = pc[v]
    BY DEF IInv, CallTypeOK, GoTo, Steps, Scanning
<1>3. CallTypeOK'
    BY <1>1, <1>2 DEF IInv, CallTypeOK, BrokerKept, MsgsGrow
<1>4. Others(w)
    BY <1>1, <1>2 DEF Others, TemplatesElsewhere
<1>5. \A m \in acked'[w] : Named(w, m)'
    BY NamedStays DEF BrokerKept
<1>6. step \in {"ack", "send"} => Named(w, held[w])' 
    <2>1. SUFFICES ASSUME step \in {"ack", "send"} PROVE Named(w, held[w])'
        OBVIOUS
    <2>2. Named(w, held'[w])
        BY <2>1
    <2> QED BY <2>2 DEF Named, MsgsGrow, ReadName, BrokerKept
<1>7. Configured(w)' /\ ReadName(w)' \in BrokerQueues /\ call'[w] # NoCall
    BY DEF IInv, ThreadOK, Configured, ReadName, Scanning
<1>8. ThreadOK(w)'
    BY <1>1, <1>2, <1>5, <1>6, <1>7 DEF ThreadOK
<1> QED BY <1>3, <1>4, <1>8 DEF Kept

(* basicGet in the loop: m comes over the template's connection.            *)
LEMMA FetchFacts ==
    ASSUME IInv, NEW w \in Threads, NEW f \in Factories, NEW m \in ready, Fetch(w, f, m)
    PROVE  /\ ConnNext /\ TemplatesElsewhere(w)
           /\ rabbitTemplateLookup'[w][Binder(w)] = f
           /\ rabbitTemplateLookup[w][Binder(w)] \in {NoFactory, f}
           /\ BrokerKept
           /\ m \in DOMAIN msgs /\ msgs[m].queue = ReadName(w)
           /\ Delivery(f, m) \in Deliveries
           /\ Delivery(f, m).payload = msgs[m].content.payload
           /\ pc[w] = "loop"
<1>1. Binder(w) \in Binders
    BY ScanningBinder DEF Fetch, IInv, ThreadOK, Scanning
<1>2. /\ ConnNext /\ TemplatesElsewhere(w)
      /\ rabbitTemplateLookup'[w][Binder(w)] = f
      /\ rabbitTemplateLookup[w][Binder(w)] \in {NoFactory, f}
    BY <1>1, UseTemplate DEF Fetch, IInv
<1>3. BrokerKept
    BY BasicGetKeepsBroker DEF Fetch, IInv
<1>4. m \in DOMAIN msgs /\ msgs[m].queue = ReadName(w)
    BY DEF Fetch, AtHead, Ready, IInv, BrokerTypeOK
<1> QED BY <1>2, <1>3, <1>4, DeliveryType DEF Fetch, IInv

LEMMA LocalTypes ==
    ASSUME IInv, NEW w \in Threads
    PROVE  /\ held \in [Threads -> Nat]
           /\ acked \in [Threads -> SUBSET DOMAIN msgs]
           /\ done \in [Threads -> BOOLEAN]
           /\ dlqMessages \in [Threads -> Seq(Listed)]
           /\ \A m \in acked[w] : Named(w, m)
BY DEF IInv, CallTypeOK, ThreadOK

LEMMA GetNothingKept ==
    ASSUME IInv, NEW w \in Threads, GetNothing(w)
    PROVE  Kept(w)
<1>1. Binder(w) \in Binders
    BY ScanningBinder DEF GetNothing, IInv, ThreadOK, Scanning
<1>2. ConnNext /\ TemplatesElsewhere(w)
    BY <1>1, UseTemplate DEF GetNothing, IInv
<1>3. BrokerKept
    BY UnchangedKeepsBroker DEF GetNothing, IInv
<1>4. PICK step \in {"loop", "finally"} : GoTo(w, step)
    BY DEF GetNothing, EndIteration
<1> QED BY <1>2, <1>3, <1>4, StepInLoop, LocalTypes DEF GetNothing

LEMMA ListMessageKept ==
    ASSUME IInv, NEW w \in Threads, ListMessage(w)
    PROVE  Kept(w)
<1>1. PICK f \in Factories, m \in ready :
        /\ Fetch(w, f, m)
        /\ dlqMessages' = [dlqMessages EXCEPT ![w] =
             Append(@, [msg |-> m, id |-> MessageId(Delivery(f, m)),
                        redelivered |-> m \in redelivered])]
    BY DEF ListMessage
<1>2. [msg |-> m, id |-> MessageId(Delivery(f, m)), redelivered |-> m \in redelivered] \in Listed
    <2>1. m \in Nat
        BY <1>1, FetchFacts, LenProperties DEF IInv, BrokerTypeOK
    <2> QED BY <2>1, <1>1, FetchFacts, IdIsAmongIds DEF Listed
<1>3. /\ dlqMessages' \in [Threads -> Seq(Listed)]
      /\ \A v \in Threads \ {w} : dlqMessages'[v] = dlqMessages[v]
    BY <1>1, <1>2, LocalTypes, AppendProperties
<1>4. PICK step \in {"loop", "finally"} : GoTo(w, step)
    BY DEF ListMessage, EndIteration
<1>5. EndIteration(w) /\ UNCHANGED <<call, held, acked, done, reply>>
    BY DEF ListMessage
<1>6. ConnNext /\ TemplatesElsewhere(w) /\ BrokerKept /\ pc[w] = "loop"
    BY <1>1, FetchFacts
<1> QED BY <1>3, <1>4, <1>5, <1>6, StepInLoop, LocalTypes

LEMMA SkipMessageKept ==
    ASSUME IInv, NEW w \in Threads, SkipMessage(w)
    PROVE  Kept(w)
<1>1. PICK f \in Factories, m \in ready : Fetch(w, f, m)
    BY DEF SkipMessage
<1>2. PICK step \in {"loop", "finally"} : GoTo(w, step)
    BY DEF SkipMessage, EndIteration
<1>3. EndIteration(w) /\ UNCHANGED <<call, held, acked, done, dlqMessages, reply>>
    BY DEF SkipMessage
<1> QED BY <1>1, <1>2, <1>3, StepInLoop, FetchFacts, LocalTypes

LEMMA MatchMessageKept ==
    ASSUME IInv, NEW w \in Threads, MatchMessage(w)
    PROVE  Kept(w)
<1>1. PICK f \in Factories, m \in ready :
        /\ Fetch(w, f, m)
        /\ MessageId(Delivery(f, m)) = call[w].messageId
        /\ held' = [held EXCEPT ![w] = m]
    BY DEF MatchMessage
<1>2. Named(w, m)
    BY <1>1, FetchFacts, IdIsAmongIds DEF Named, MatchMessage
<1>3. m \in Nat
    BY <1>1, FetchFacts, LenProperties DEF IInv, BrokerTypeOK
<1>4. /\ held' \in [Threads -> Nat] /\ held'[w] = m
      /\ \A v \in Threads \ {w} : held'[v] = held[v]
    BY <1>1, <1>3, LocalTypes
<1>5. GoTo(w, "ack") /\ UNCHANGED <<call, left, acked, done, dlqMessages, reply>>
    BY DEF MatchMessage
<1>6. Template(w)' \in Factories
    BY <1>1, <1>5, FetchFacts DEF Template, Binder
<1> QED BY <1>1, <1>2, <1>4, <1>5, <1>6, StepInLoop, FetchFacts, LocalTypes

LEMMA ConversionFailsKept ==
    ASSUME IInv, NEW w \in Threads, ConversionFails(w)
    PROVE  Kept(w)
<1>1. PICK f \in Factories, m \in ready : Fetch(w, f, m)
    BY DEF ConversionFails
<1>2. GoTo(w, "unwind") /\ UNCHANGED <<call, left, held, acked, done, dlqMessages, reply>>
    BY DEF ConversionFails
<1>3. Template(w)' \in Factories
    BY <1>1, <1>2, FetchFacts DEF Template, Binder
<1> QED BY <1>1, <1>2, <1>3, StepInLoop, FetchFacts, LocalTypes

LEMMA AckKept ==
    ASSUME IInv, NEW w \in Threads, Ack(w)
    PROVE  Kept(w)
<1>1. Named(w, held[w]) /\ Template(w) \in Factories
    BY DEF Ack, IInv, ThreadOK
<1>2. BrokerKept
    <2>1. [kind |-> "ack", msg |-> held[w]] \in Frame
        BY LocalTypes DEF Frame
    <2> QED BY <1>1, <2>1, WriteFrameKeepsBroker DEF Ack, IInv
<1>3. [ConnNext]_connVars /\ TemplatesElsewhere(w)
    BY SameCache DEF Ack
<1>4. /\ acked' \in [Threads -> SUBSET DOMAIN msgs]
      /\ \A v \in Threads \ {w} : acked'[v] = acked[v]
      /\ acked'[w] = acked[w] \cup {held[w]}
    BY <1>1, LocalTypes DEF Ack, Named
<1>5. \A m \in acked'[w] : Named(w, m)
    BY <1>1, <1>4, LocalTypes
<1>6. UNCHANGED <<call, left, held, dlqMessages, reply>> /\ pc[w] = "ack"
    BY DEF Ack
<1>7. CASE call[w].op = "ackCertainMessage"
    <2>1. done' \in [Threads -> BOOLEAN] /\ \A v \in Threads \ {w} : done'[v] = done[v]
        BY <1>7, LocalTypes DEF Ack
    <2>2. GoTo(w, "finally")
        BY <1>7 DEF Ack
    <2> QED BY <1>2, <1>3, <1>4, <1>5, <1>6, <2>1, <2>2, StepInLoop, LocalTypes
<1>8. CASE call[w].op # "ackCertainMessage"
    <2>1. GoTo(w, "send") /\ done' = done
        BY <1>8 DEF Ack
    <2>2. call[w].op = "republishMessage"
        BY <1>1, <1>8 DEF Named, NeedsId
    <2>3. Template(w)' \in Factories
        BY <1>1, <1>6 DEF Ack, Template, Binder, connVars
    <2> QED BY <1>1, <1>2, <1>3, <1>4, <1>5, <1>6, <2>1, <2>2, <2>3, StepInLoop, LocalTypes
<1> QED BY <1>7, <1>8

LEMMA AckOnClosedChannelKept ==
    ASSUME IInv, NEW w \in Threads, AckOnClosedChannel(w)
    PROVE  Kept(w)
<1>1. BrokerKept /\ [ConnNext]_connVars /\ TemplatesElsewhere(w)
    BY SameCache, UnchangedKeepsBroker DEF AckOnClosedChannel, IInv
<1>2. /\ GoTo(w, "unwind") /\ UNCHANGED <<call, left, held, acked, done, dlqMessages, reply>>
      /\ pc[w] = "ack"
    BY DEF AckOnClosedChannel
<1>3. Template(w)' \in Factories
    BY DEF AckOnClosedChannel, IInv, ThreadOK, Template, Binder, connVars
<1> QED BY <1>1, <1>2, <1>3, StepInLoop, LocalTypes

(* The copies are messages the broker can hold.                             *)
LEMMA CopiesType ==
    ASSUME IInv, NEW w \in Threads, pc[w] = "send"
    PROVE  /\ Copies(w) \in Seq(Message)
           /\ \A i \in DOMAIN Copies(w) :
                Copies(w)[i].content = [payload |-> msgs[held[w]].content.payload,
                                        route |-> republishTo[call[w].queue]]
<1> DEFINE route == republishTo[call[w].queue]
           copy(i) == [queue |-> Bindings[route][i],
                       content |-> [payload |-> msgs[held[w]].content.payload, route |-> route]]
<1>1. route \in Routes
    BY QueuesAssumption DEF IInv, ThreadOK, Configured, Scanning
<1>2. Bindings[route] \in Seq(BrokerQueues)
    BY <1>1, BrokerAssumption
<1>3. DOMAIN Bindings[route] = 1 .. Len(Bindings[route]) /\ Len(Bindings[route]) \in Nat
    BY <1>2, LenProperties
<1>4. held[w] \in DOMAIN msgs
    BY DEF IInv, ThreadOK, Named
<1>5. msgs[held[w]] \in Message
    BY <1>4, ElementOfSeq, LenProperties DEF IInv, BrokerTypeOK
<1>6. msgs[held[w]].content.payload \in Payloads
    BY <1>5 DEF Message, Contents
<1>7. \A i \in 1 .. Len(Bindings[route]) : copy(i) \in Message
    <2> TAKE i \in 1 .. Len(Bindings[route])
    <2>1. Bindings[route][i] \in BrokerQueues
        BY <1>2, <1>3, ElementOfSeq
    <2> QED BY <1>1, <1>6, <2>1 DEF Message, Contents
<1>8. Copies(w) = [i \in 1 .. Len(Bindings[route]) |-> copy(i)]
    BY <1>3 DEF Copies
<1>9. Copies(w) \in Seq(Message)
    <2> HIDE DEF copy
    <2> QED BY <1>3, <1>7, <1>8, IsASeq
<1> QED BY <1>8, <1>9

LEMMA SendKept ==
    ASSUME IInv, NEW w \in Threads, Send(w)
    PROVE  Kept(w)
<1>1. PICK f \in Factories :
        /\ TemplateExecute(w, Binder(w), f, TRUE)
        /\ WriteFrame(f, [kind |-> "publish", copies |-> Copies(w)])
    BY DEF Send
<1>2. Binder(w) \in Binders
    BY ScanningBinder DEF Send, IInv, ThreadOK, Scanning
<1>3. ConnNext /\ TemplatesElsewhere(w)
    BY <1>1, <1>2, UseTemplate DEF IInv
<1>4. BrokerKept
    <2>1. Copies(w) \in Seq(Message)
        BY CopiesType DEF Send
    <2>2. [kind |-> "publish", copies |-> Copies(w)] \in Frame
        BY <2>1 DEF Frame
    <2> QED BY <1>1, <2>2, WriteFrameKeepsBroker DEF IInv
<1>5. /\ done' \in [Threads -> BOOLEAN] /\ \A v \in Threads \ {w} : done'[v] = done[v]
      /\ held' \in [Threads -> Nat] /\ \A v \in Threads \ {w} : held'[v] = held[v]
    BY LocalTypes DEF Send
<1>6. PICK step \in {"loop", "finally"} : GoTo(w, step)
    BY DEF Send, EndIteration
<1>7. EndIteration(w) /\ UNCHANGED <<call, acked, dlqMessages, reply>> /\ pc[w] = "send"
    BY DEF Send
<1> QED BY <1>3, <1>4, <1>5, <1>6, <1>7, StepInLoop, LocalTypes

LEMMA ExecuteFailsKept ==
    ASSUME IInv, NEW w \in Threads, ExecuteFails(w)
    PROVE  Kept(w)
<1>1. PICK f \in Factories :
        /\ TemplateExecute(w, Binder(w), f, FALSE)
        /\ \E gone \in {{}} \cup {{m} : m \in ready} : BreakConnections({f}, gone)
    BY DEF ExecuteFails
<1>2. Binder(w) \in Binders
    BY ScanningBinder DEF ExecuteFails, IInv, ThreadOK, Scanning
<1>3. ConnNext /\ TemplatesElsewhere(w) /\ rabbitTemplateLookup'[w][Binder(w)] = f
    BY <1>1, <1>2, UseTemplate DEF IInv
<1>4. BrokerKept
    BY <1>1, BreakConnectionsKeepsBroker DEF IInv
<1>5. /\ GoTo(w, "unwind") /\ UNCHANGED <<call, left, held, acked, done, dlqMessages, reply>>
      /\ pc[w] \in {"loop", "send"}
    BY DEF ExecuteFails
<1>6. Template(w)' \in Factories
    BY <1>3, <1>5 DEF Template, Binder
<1> QED BY <1>3, <1>4, <1>5, <1>6, StepInLoop, LocalTypes

-----------------------------------------------------------------------------
(* Every step of a thread, and then every step, keeps the invariant.        *)
LEMMA ThreadStepKept ==
    ASSUME IInv, NEW w \in Threads, Request(w) \/ Operator(w) \/ Failure(w)
    PROVE  Kept(w)
<1>1. CASE Request(w)
    BY <1>1, RequestKept
<1>2. CASE Operator(w)
    BY <1>2, RejectEmptyIdKept, SizeOfUnknownQueueKept, SizeOfUnknownBinderKept,
       SizeOfUndeclaredQueueKept, SizeReadKept, PurgeKept, GetTemplateKept, GetNothingKept,
       ListMessageKept, SkipMessageKept, MatchMessageKept, ConversionFailsKept, AckKept,
       AckOnClosedChannelKept, SendKept, FinallyKept, FinallyWithoutTemplateKept, RespondKept
       DEF Operator
<1>3. CASE Failure(w)
    BY <1>3, SizeFailsKept, PurgeFailsKept, ExecuteFailsKept DEF Failure
<1> QED BY <1>1, <1>2, <1>3

(* Steps in which no thread moves.                                          *)
LEMMA BackgroundKeepsIInv ==
    ASSUME IInv, UNCHANGED callVars, UNCHANGED rabbitTemplateLookup,
           [ConnNext]_connVars, BrokerKept
    PROVE  IInv'
<1>1. ConnInv'
    BY ConnStepKeepsConnInv DEF IInv
<1>2. CallTypeOK'
    BY DEF IInv, CallTypeOK, callVars, BrokerKept, MsgsGrow
<1>3. ASSUME NEW w \in Threads
      PROVE  ThreadOK(w)'
    <2>1. \A m : Named(w, m) => Named(w, m)'
        BY NamedStays DEF callVars, BrokerKept
    <2> QED BY <2>1 DEF IInv, ThreadOK, callVars, Configured, ReadName, Template, Binder
<1> QED BY <1>1, <1>2, <1>3 DEF IInv, BrokerKept

LEMMA BrokerStepKept ==
    ASSUME BrokerTypeOK, Broker \/ Arrive
    PROVE  BrokerKept
BY ReadAckKeepsBroker, ReadPublishKeepsBroker, RequeueOrphanKeepsBroker, ArriveKeepsBroker
    DEF Broker

LEMMA RestartKeepsIInv ==
    ASSUME IInv, Restart
    PROVE  IInv'
<1>1. ConnInv'
    BY ConnStepKeepsConnInv DEF Restart, ConnNext, IInv
<1>2. BrokerKept
    BY BreakConnectionsKeepsBroker DEF Restart, IInv
<1>3. CallTypeOK'
    BY EmptySeq DEF Restart, CallTypeOK, Steps, Replies, NoReply, Status
<1>4. \A w \in Threads : ThreadOK(w)'
    BY DEF Restart, ThreadOK, Scanning
<1> QED BY <1>1, <1>2, <1>3, <1>4 DEF IInv, BrokerKept

LEMMA InitIInv == Init => IInv
<1> SUFFICES ASSUME Init PROVE IInv
    OBVIOUS
<1>1. ConnInv
    BY NoFactoryAssumption DEF Init, ConnInit, ConnInv, ConnTypeOK, SameFactory, Confined, NoLeak,
        EmptyLookup, Lookup
<1>2. BrokerTypeOK
    BY EmptySeq DEF Init, BrokerInit, BrokerTypeOK
<1>3. CallTypeOK
    BY EmptySeq DEF Init, CallTypeOK, Steps, Replies, NoReply, Status
<1>4. \A w \in Threads : ThreadOK(w)
    BY DEF Init, ThreadOK, Scanning
<1> QED BY <1>1, <1>2, <1>3, <1>4 DEF IInv

LEMMA NextKeepsIInv ==
    ASSUME IInv, [Next]_vars
    PROVE  IInv'
<1>1. ASSUME NEW w \in Threads, Request(w) \/ Operator(w) \/ Failure(w)
      PROVE  IInv'
    BY <1>1, ThreadStepKept, KeptKeepsIInv
<1>2. CASE (Broker \/ Arrive) /\ UNCHANGED <<connVars, callVars>>
    BY <1>2, BrokerStepKept, BackgroundKeepsIInv DEF IInv, connVars
<1>3. CASE ConnectionLost
    <2>1. BrokerKept
        BY <1>3, BreakConnectionsKeepsBroker DEF ConnectionLost, IInv
    <2>2. ConnNext /\ UNCHANGED rabbitTemplateLookup
        BY <1>3 DEF ConnectionLost, ConnNext, LoseConnection
    <2> QED BY <1>3, <2>1, <2>2, BackgroundKeepsIInv DEF ConnectionLost
<1>4. CASE Restart
    BY <1>4, RestartKeepsIInv
<1>5. CASE UNCHANGED vars
    BY <1>5, UnchangedKeepsBroker, BackgroundKeepsIInv DEF vars, connVars, IInv
<1> QED BY <1>1, <1>2, <1>3, <1>4, <1>5 DEF Next

THEOREM Invariance == Spec => []IInv
BY InitIInv, NextKeepsIInv, PTL DEF Spec

-----------------------------------------------------------------------------
(* Type correctness: every value a call handles is what the code declares;  *)
(* in particular a loop never runs past its count, and a message that is    *)
(* fetched, acknowledged or copied exists.                                  *)
THEOREM TypeCorrect == Spec => []TypeOK
<1>1. IInv => TypeOK
    BY DEF IInv, ConnInv, TypeOK
<1> QED BY <1>1, Invariance, PTL

(* Only what was asked for is acknowledged: the message has the id in the   *)
(* request and is in the queue the request is about, however the threads    *)
(* interleave and whatever fails.                                           *)
THEOREM OnlyNamedAreAcked == Spec => []AckedWereNamed
<1>1. IInv => AckedWereNamed
    BY DEF IInv, ThreadOK, Named, AckedWereNamed
<1> QED BY <1>1, Invariance, PTL

(* MessageOperator uses the connection cache only as                        *)
(* RabbitMqConnectionService allows, so what is proved of the cache holds   *)
(* of the whole program.                                                    *)
THEOREM UsesConnectionCache == Spec => ConnSpec
<1>1. Init => ConnInit
    BY DEF Init
<1>2. IInv /\ [Next]_vars => [ConnNext]_connVars
    <2> SUFFICES ASSUME IInv, [Next]_vars PROVE [ConnNext]_connVars
        OBVIOUS
    <2>1. ASSUME NEW w \in Threads, Request(w) \/ Operator(w) \/ Failure(w)
          PROVE  [ConnNext]_connVars
        BY <2>1, ThreadStepKept DEF Kept
    <2>2. CASE ConnectionLost \/ Restart
        BY <2>2 DEF ConnectionLost, Restart, ConnNext
    <2>3. CASE UNCHANGED connVars
        BY <2>3
    <2> QED BY <2>1, <2>2, <2>3 DEF Next, vars
<1> QED BY <1>1, <1>2, Invariance, PTL DEF Spec, ConnSpec
=============================================================================
