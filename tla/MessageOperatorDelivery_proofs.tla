--------------------- MODULE MessageOperatorDelivery_proofs ---------------------
(***************************************************************************)
(* Who is behind what the broker holds.  Every unacknowledged delivery and  *)
(* every frame on the wire belongs to a thread in the middle of a scan,     *)
(* over that thread's own template (HoldInv).  From it: a call that is over *)
(* holds nothing back, and the operator implements DeadLetterQueue.         *)
(***************************************************************************)
EXTENDS MessageOperator_proofs

Owns(w, f) ==
    /\ pc[w] \in Scanning
    /\ Configured(w)
    /\ Template(w) = f

CopiesOfNamed(w, copies) ==
    \E m \in DOMAIN msgs :
        /\ Named(w, m)
        /\ \A i \in DOMAIN copies :
            copies[i].content = [payload |-> msgs[m].content.payload,
                                 route |-> republishTo[call[w].queue]]

FrameOf(w, frame) ==
    \/ frame.kind = "ack" /\ frame.msg \in acked[w]
    \/ /\ frame.kind = "publish"
       /\ call[w].op = "republishMessage"
       /\ CopiesOfNamed(w, frame.copies)

Frames(f) == {wire[f][i] : i \in DOMAIN wire[f]}

HoldInv ==
    \A f \in Factories :
        /\ \A m \in unacked[f] :
            \E w \in Threads : Owns(w, f) /\ msgs[m].queue = ReadName(w)
        /\ \A frame \in Frames(f) :
            \E w \in Threads : Owns(w, f) /\ FrameOf(w, frame)

(* What one step of w does to ownership: w goes on owning what it owned, or *)
(* leaves nothing behind; and whatever is new belongs to w.                 *)
Keeps(w) ==
    \A f \in Factories : Owns(w, f) =>
        \/ /\ Owns(w, f)'
           /\ call'[w] = call[w]
           /\ acked[w] \subseteq acked'[w]
        \/ unacked'[f] = {} /\ Frames(f)' = {}

Adds(w) ==
    \A f \in Factories :
        /\ \A m \in unacked'[f] :
            \/ m \in unacked[f]
            \/ Owns(w, f)' /\ msgs'[m].queue = ReadName(w)'
        /\ \A frame \in Frames(f)' :
            frame \in Frames(f) \/ (Owns(w, f)' /\ FrameOf(w, frame)')

LEMMA FrameOfStays ==
    ASSUME NEW v \in Threads, call'[v] = call[v], acked[v] \subseteq acked'[v],
           MsgsGrow, NEW frame, FrameOf(v, frame)
    PROVE  FrameOf(v, frame)'
<1>1. CASE frame.kind = "ack" /\ frame.msg \in acked[v]
    BY <1>1 DEF FrameOf
<1>2. CASE /\ frame.kind = "publish"
           /\ call[v].op = "republishMessage"
           /\ CopiesOfNamed(v, frame.copies)
    <2>1. PICK m \in DOMAIN msgs :
            /\ Named(v, m)
            /\ \A i \in DOMAIN frame.copies :
                frame.copies[i].content = [payload |-> msgs[m].content.payload,
                                           route |-> republishTo[call[v].queue]]
        BY <1>2 DEF CopiesOfNamed
    <2>2. Named(v, m)' /\ m \in DOMAIN msgs' /\ msgs'[m] = msgs[m]
        BY <2>1, NamedStays DEF MsgsGrow
    <2>3. CopiesOfNamed(v, frame.copies)'
        BY <2>1, <2>2 DEF CopiesOfNamed
    <2> QED BY <1>2, <2>3 DEF FrameOf
<1> QED BY <1>1, <1>2 DEF FrameOf

LEMMA OwnersStay ==
    ASSUME NEW w \in Threads, NEW v \in Threads \ {w}, NEW f \in Factories,
           Others(w), Owns(v, f)
    PROVE  /\ Owns(v, f)' /\ call'[v] = call[v] /\ acked'[v] = acked[v]
           /\ ReadName(v)' = ReadName(v)
BY DEF Others, Owns, Configured, Template, Binder, ReadName

LEMMA HoldStep ==
    ASSUME BrokerTypeOK, HoldInv, NEW w \in Threads, Others(w), MsgsGrow, Keeps(w), Adds(w)
    PROVE  HoldInv'
<1>1. ASSUME NEW f \in Factories, NEW m \in unacked'[f]
      PROVE  \E v \in Threads : Owns(v, f)' /\ msgs'[m].queue = ReadName(v)'
    <2>1. CASE m \notin unacked[f]
        BY <1>1, <2>1 DEF Adds
    <2>2. CASE m \in unacked[f]
        <3>1. PICK v \in Threads : Owns(v, f) /\ msgs[m].queue = ReadName(v)
            BY <2>2 DEF HoldInv
        <3>2. msgs'[m] = msgs[m]
            BY <2>2 DEF MsgsGrow, BrokerTypeOK
        <3>3. CASE v = w
            BY <1>1, <3>1, <3>2, <3>3 DEF Keeps, ReadName
        <3>4. CASE v # w
            BY <3>1, <3>2, <3>4, OwnersStay
        <3> QED BY <3>3, <3>4
    <2> QED BY <2>1, <2>2
<1>2. ASSUME NEW f \in Factories, NEW frame \in Frames(f)'
      PROVE  \E v \in Threads : Owns(v, f)' /\ FrameOf(v, frame)'
    <2>1. CASE frame \notin Frames(f)
        BY <1>2, <2>1 DEF Adds
    <2>2. CASE frame \in Frames(f)
        <3>1. PICK v \in Threads : Owns(v, f) /\ FrameOf(v, frame)
            BY <2>2 DEF HoldInv
        <3>2. CASE v = w
            BY <1>2, <3>1, <3>2, FrameOfStays DEF Keeps
        <3>3. CASE v # w
            BY <3>1, <3>3, OwnersStay, FrameOfStays
        <3> QED BY <3>2, <3>3
    <2> QED BY <2>1, <2>2
<1> QED BY <1>1, <1>2 DEF HoldInv

-----------------------------------------------------------------------------
(* Steps of a thread that is not scanning: it owns nothing, and the broker  *)
(* only gives back or drops.                                                *)
Shrinks ==
    \A f \in Factories : unacked'[f] \subseteq unacked[f] /\ Frames(f)' \subseteq Frames(f)

LEMMA NotScanning ==
    ASSUME NEW w \in Threads, pc[w] \notin Scanning, Shrinks
    PROVE  Keeps(w) /\ Adds(w)
BY DEF Keeps, Adds, Owns, Shrinks

LEMMA BrokerShrinks ==
    ASSUME BrokerTypeOK,
           \/ UNCHANGED brokerVars
           \/ \E q \in QueueNames : QueuePurge(q)
           \/ \E F \in SUBSET Factories, gone \in SUBSET ready : BreakConnections(F, gone)
    PROVE  Shrinks
<1>1. CASE UNCHANGED brokerVars
    BY <1>1 DEF Shrinks, brokerVars, Frames
<1>2. CASE \E q \in QueueNames : QueuePurge(q)
    BY <1>2 DEF Shrinks, QueuePurge, Frames
<1>3. CASE \E F \in SUBSET Factories, gone \in SUBSET ready : BreakConnections(F, gone)
    <2>1. PICK F \in SUBSET Factories, gone \in SUBSET ready : BreakConnections(F, gone)
        BY <1>3
    <2>2. ASSUME NEW f \in Factories
          PROVE  unacked'[f] \subseteq unacked[f] /\ Frames(f)' \subseteq Frames(f)
        <3>1. CASE f \in F
            <4>1. unacked'[f] = {} /\ wire'[f] = <<>>
                BY <2>1, <3>1 DEF BreakConnections
            <4>2. Frames(f)' = {}
                BY <4>1 DEF Frames
            <4> QED BY <4>1, <4>2
        <3>2. CASE f \notin F
            BY <2>1, <3>2 DEF BreakConnections, Frames
        <3> QED BY <3>1, <3>2
    <2> QED BY <2>2 DEF Shrinks
<1> QED BY <1>1, <1>2, <1>3

(* Steps inside a scan: the thread keeps its template, or gets one.         *)
LEMMA StillScanning ==
    ASSUME NEW w \in Threads, pc[w] \in Scanning, pc'[w] \in Scanning,
           call'[w] = call[w], acked[w] \subseteq acked'[w],
           NEW f \in Factories, Template(w) \in {NoFactory, f}, Template(w)' = f,
           Configured(w)
    PROVE  Keeps(w) /\ Owns(w, f)'
BY NoFactoryAssumption DEF Keeps, Owns, Configured

-----------------------------------------------------------------------------
(* Each step of a thread.                                                   *)
LEMMA OutsideScan ==
    ASSUME IInv, NEW w \in Threads, pc[w] \notin Scanning,
           Request(w) \/ Operator(w) \/ Failure(w)
    PROVE  Keeps(w) /\ Adds(w)
<1>1. BrokerTypeOK
    BY DEF IInv
<1>2. CASE UNCHANGED brokerVars
    BY <1>1, <1>2, BrokerShrinks, NotScanning
<1>3. CASE Purge(w) \/ PurgeFails(w)
    <2>1. ReadName(w) \in QueueNames
        BY <1>3, QueuesAssumption DEF Purge, PurgeFails, IInv, ThreadOK
    <2>2. QueuePurge(ReadName(w)) \/ UNCHANGED brokerVars
        BY <1>3 DEF Purge, PurgeFails
    <2> QED BY <1>1, <2>1, <2>2, BrokerShrinks, NotScanning
<1>4. CASE SizeFails(w)
    <2>1. PICK f \in Factories : BreakConnections({f}, {})
        BY <1>4 DEF SizeFails
    <2>2. {f} \in SUBSET Factories /\ {} \in SUBSET ready
        OBVIOUS
    <2> QED BY <1>1, <2>1, <2>2, BrokerShrinks, NotScanning
<1>5. UNCHANGED brokerVars \/ Purge(w) \/ PurgeFails(w) \/ SizeFails(w)
    <2>1. CASE Request(w)
        BY <2>1 DEF Request
    <2>2. CASE Failure(w)
        BY <2>2 DEF Failure, ExecuteFails, Scanning
    <2>3. CASE Operator(w)
        BY <2>3 DEF Operator, RejectEmptyId, SizeOfUnknownQueue, SizeOfUnknownBinder,
            SizeOfUndeclaredQueue, SizeRead, GetTemplate, GetNothing, ListMessage, SkipMessage,
            MatchMessage, ConversionFails, Fetch, Ack, AckOnClosedChannel, Send, Finally,
            FinallyWithoutTemplate, Respond, Scanning
    <2> QED BY <2>1, <2>2, <2>3
<1> QED BY <1>2, <1>3, <1>4, <1>5

(* basicGet: the message fetched is w's, and nothing else is new.           *)
LEMMA FetchHold ==
    ASSUME IInv, NEW w \in Threads, NEW f \in Factories, NEW m \in ready, Fetch(w, f, m),
           pc'[w] \in Scanning, call' = call, acked' = acked
    PROVE  Keeps(w) /\ Adds(w)
<1>1. /\ Template(w)' = f /\ Template(w) \in {NoFactory, f}
      /\ pc[w] \in Scanning /\ Configured(w)
      /\ ReadName(w)' = ReadName(w)
    BY FetchFacts DEF Template, Binder, ReadName, Scanning, IInv, ThreadOK
<1>2. Keeps(w) /\ Owns(w, f)'
    BY <1>1, StillScanning
<1>3. /\ wire' = wire
      /\ unacked' = [unacked EXCEPT ![f] = @ \cup {m}]
      /\ msgs' = msgs
    BY DEF Fetch, BasicGet
<1>4. msgs[m].queue = ReadName(w)
    BY FetchFacts
<1>5. ASSUME NEW g \in Factories, NEW n \in unacked'[g], n \notin unacked[g]
      PROVE  Owns(w, g)' /\ msgs'[n].queue = ReadName(w)'
    <2>1. g = f /\ n = m
        BY <1>3, <1>5 DEF IInv, BrokerTypeOK
    <2> QED BY <1>1, <1>2, <1>3, <1>4, <2>1
<1>6. \A g \in Factories : Frames(g)' = Frames(g)
    BY <1>3 DEF Frames
<1> QED BY <1>2, <1>5, <1>6 DEF Adds

(* A frame written by w is w's.                                             *)
LEMMA WriteHold ==
    ASSUME IInv, NEW w \in Threads, NEW f \in Factories, NEW frame \in Frame,
           WriteFrame(f, frame), Owns(w, f)', FrameOf(w, frame)'
    PROVE  Adds(w)
<1>1. /\ unacked' = unacked
      /\ wire' = [wire EXCEPT ![f] = Append(wire[f], frame)]
    BY DEF WriteFrame
<1>2. wire \in [Factories -> Seq(Frame)]
    BY DEF IInv, BrokerTypeOK
<1>3. ASSUME NEW g \in Factories, NEW new \in Frames(g)', new \notin Frames(g)
      PROVE  g = f /\ new = frame
    <2>1. g = f
        BY <1>1, <1>2, <1>3 DEF Frames
    <2>2. PICK i \in DOMAIN wire'[f] : new = wire'[f][i]
        BY <1>3, <2>1 DEF Frames
    <2>3. wire'[f] = Append(wire[f], frame) /\ wire[f] \in Seq(Frame)
        BY <1>1, <1>2
    <2>4. /\ Len(wire[f]) \in Nat /\ DOMAIN wire[f] = 1 .. Len(wire[f])
          /\ i \in 1 .. Len(wire[f]) + 1
          /\ i # Len(wire[f]) + 1 => wire'[f][i] = wire[f][i]
          /\ wire'[f][Len(wire[f]) + 1] = frame
        BY <2>2, <2>3, LenProperties, AppendProperties
    <2>5. i \notin DOMAIN wire[f]
        BY <1>3, <2>1, <2>2, <2>4 DEF Frames
    <2>6. i = Len(wire[f]) + 1
        BY <2>4, <2>5
    <2> QED BY <2>1, <2>2, <2>4, <2>6
<1> QED BY <1>1, <1>3 DEF Adds

LEMMA AckHold ==
    ASSUME IInv, NEW w \in Threads, Ack(w)
    PROVE  Keeps(w) /\ Adds(w)
<1>a. PICK frame \in Frame : frame = [kind |-> "ack", msg |-> held[w]]
    BY LocalTypes DEF Frame
<1>b. PICK f \in Factories : f = Template(w)
    BY DEF Ack, IInv, ThreadOK
<1>1. pc[w] \in Scanning /\ Configured(w)
    BY DEF Ack, IInv, ThreadOK, Scanning
<1>2. /\ call' = call /\ Template(w)' = Template(w)
      /\ pc'[w] \in Scanning
      /\ acked'[w] = acked[w] \cup {held[w]}
    BY DEF Ack, Template, Binder, connVars, GoTo, Scanning, IInv, CallTypeOK
<1>3. Keeps(w) /\ Owns(w, f)'
    BY <1>b, <1>1, <1>2, StillScanning
<1>4. FrameOf(w, frame)'
    BY <1>a, <1>2 DEF FrameOf
<1>5. WriteFrame(f, frame)
    BY <1>a, <1>b DEF Ack
<1> QED BY <1>3, <1>4, <1>5, WriteHold

LEMMA SendHold ==
    ASSUME IInv, NEW w \in Threads, Send(w)
    PROVE  Keeps(w) /\ Adds(w)
<1>1. PICK f \in Factories :
        /\ TemplateExecute(w, Binder(w), f, TRUE)
        /\ WriteFrame(f, [kind |-> "publish", copies |-> Copies(w)])
    BY DEF Send
<1>2. /\ Binder(w) \in Binders /\ Configured(w)
      /\ pc[w] = "send" /\ pc[w] \in Scanning
    BY ScanningBinder DEF Send, IInv, ThreadOK, Scanning
<1>3. /\ rabbitTemplateLookup'[w][Binder(w)] = f
      /\ rabbitTemplateLookup[w][Binder(w)] \in {NoFactory, f}
    BY <1>1, <1>2, UseTemplate DEF IInv
<1>4. /\ call' = call /\ acked' = acked /\ pc'[w] \in Scanning
      /\ Template(w)' = f /\ Template(w) \in {NoFactory, f}
    BY <1>3 DEF Send, EndIteration, GoTo, Template, Binder, Scanning, IInv, CallTypeOK
<1>5. Keeps(w) /\ Owns(w, f)'
    BY <1>2, <1>4, StillScanning
<1>6. PICK frame \in Frame : frame = [kind |-> "publish", copies |-> Copies(w)]
    BY <1>2, CopiesType DEF Frame
<1>7. FrameOf(w, frame)
    <2>1. Named(w, held[w]) /\ call[w].op = "republishMessage"
        BY <1>2 DEF IInv, ThreadOK
    <2>2. CopiesOfNamed(w, Copies(w))
        BY <1>2, <2>1, CopiesType DEF CopiesOfNamed, Named
    <2> QED BY <1>6, <2>1, <2>2 DEF FrameOf
<1>8. MsgsGrow
    BY ThreadStepKept DEF Operator, Kept, BrokerKept
<1>9. FrameOf(w, frame)'
    BY <1>4, <1>7, <1>8, FrameOfStays
<1> QED BY <1>1, <1>5, <1>6, <1>9, WriteHold

LEMMA InsideScan ==
    ASSUME IInv, HoldInv, NEW w \in Threads, pc[w] \in Scanning, Operator(w) \/ Failure(w)
    PROVE  Keeps(w) /\ Adds(w)
<1>1. Binder(w) \in Binders /\ Configured(w) /\ Template(w) \in Factories \cup {NoFactory}
    BY ScanningBinder DEF IInv, ThreadOK, ConnInv, ConnTypeOK, Lookup, Template
<1>2. CASE Ack(w) \/ Send(w)
    BY <1>2, AckHold, SendHold
<1>3. CASE ListMessage(w) \/ SkipMessage(w) \/ MatchMessage(w) \/ ConversionFails(w)
    <2>1. \E f \in Factories, m \in ready : Fetch(w, f, m)
        BY <1>3 DEF ListMessage, SkipMessage, MatchMessage, ConversionFails
    <2>2. pc'[w] \in Scanning /\ call' = call /\ acked' = acked
        BY <1>3 DEF ListMessage, SkipMessage, MatchMessage, ConversionFails, EndIteration, GoTo,
            Scanning, IInv, CallTypeOK
    <2> QED BY <2>1, <2>2, FetchHold
<1>4. CASE GetNothing(w)
    <2>1. PICK f \in Factories : TemplateExecute(w, Binder(w), f, TRUE)
        BY <1>4 DEF GetNothing
    <2>2. pc'[w] \in Scanning /\ call' = call /\ acked' = acked /\ UNCHANGED brokerVars
        BY <1>4 DEF GetNothing, EndIteration, GoTo, Scanning, IInv, CallTypeOK
    <2>3. Template(w)' = f /\ Template(w) \in {NoFactory, f}
        <3>1. /\ rabbitTemplateLookup'[w][Binder(w)] = f
              /\ rabbitTemplateLookup[w][Binder(w)] \in {NoFactory, f}
            BY <1>1, <2>1, UseTemplate DEF IInv
        <3> QED BY <2>2, <3>1 DEF Template, Binder
    <2>4. Keeps(w)
        BY <1>1, <2>2, <2>3, StillScanning
    <2> QED BY <2>2, <2>4 DEF Adds, brokerVars, Frames
<1>5. CASE AckOnClosedChannel(w)
    <2>1. /\ pc'[w] \in Scanning /\ call' = call /\ acked' = acked /\ UNCHANGED brokerVars
          /\ Template(w)' = Template(w) /\ Template(w) \in Factories
        BY <1>5 DEF AckOnClosedChannel, GoTo, Scanning, IInv, CallTypeOK, ThreadOK, Template,
            Binder, connVars
    <2>2. Keeps(w)
        BY <1>1, <2>1, StillScanning
    <2> QED BY <2>1, <2>2 DEF Adds, brokerVars, Frames
<1>6. CASE ExecuteFails(w)
    <2>1. PICK f \in Factories :
            /\ TemplateExecute(w, Binder(w), f, FALSE)
            /\ \E gone \in {{}} \cup {{m} : m \in ready} : BreakConnections({f}, gone)
        BY <1>6 DEF ExecuteFails
    <2>2. pc'[w] \in Scanning /\ call' = call /\ acked' = acked
        BY <1>6 DEF ExecuteFails, GoTo, Scanning, IInv, CallTypeOK
    <2>3. Template(w)' = f /\ Template(w) \in {NoFactory, f}
        <3>1. /\ rabbitTemplateLookup'[w][Binder(w)] = f
              /\ rabbitTemplateLookup[w][Binder(w)] \in {NoFactory, f}
            BY <1>1, <2>1, UseTemplate DEF IInv
        <3> QED BY <2>2, <3>1 DEF Template, Binder
    <2>4. Keeps(w)
        BY <1>1, <2>2, <2>3, StillScanning
    <2>5. Shrinks
        BY <2>1, BrokerShrinks DEF IInv
    <2> QED BY <2>4, <2>5 DEF Adds, Shrinks
<1>7. CASE Finally(w)
    <2>1. /\ Template(w) \in Factories /\ wire[Template(w)] = <<>> /\ wire' = wire
          /\ unacked' = [unacked EXCEPT ![Template(w)] = {}]
        BY <1>1, <1>7 DEF Finally, CloseConnection
    <2>2. \A f \in Factories : Frames(f)' = Frames(f) /\ unacked'[f] \subseteq unacked[f]
        BY <2>1 DEF Frames, IInv, BrokerTypeOK
    <2>3. unacked'[Template(w)] = {} /\ Frames(Template(w)) = {}
        BY <2>1 DEF Frames, IInv, BrokerTypeOK
    <2> QED BY <2>2, <2>3 DEF Keeps, Adds, Owns
<1>8. CASE FinallyWithoutTemplate(w)
    <2>1. Template(w) = NoFactory /\ UNCHANGED brokerVars
        BY <1>8 DEF FinallyWithoutTemplate, DestroyWithoutTemplate, Template
    <2> QED BY <2>1, NoFactoryAssumption DEF Keeps, Adds, Owns, brokerVars, Frames
<1>9. \/ Ack(w) \/ Send(w) \/ GetNothing(w) \/ AckOnClosedChannel(w) \/ ExecuteFails(w)
      \/ ListMessage(w) \/ SkipMessage(w) \/ MatchMessage(w) \/ ConversionFails(w)
      \/ Finally(w) \/ FinallyWithoutTemplate(w)
    BY DEF Operator, Failure, RejectEmptyId, SizeOfUnknownQueue, SizeOfUnknownBinder,
        SizeOfUndeclaredQueue, SizeRead, Purge, GetTemplate, Respond, SizeFails, PurgeFails,
        AsksSize, Scanning
<1> QED BY <1>2, <1>3, <1>4, <1>5, <1>6, <1>7, <1>8, <1>9

-----------------------------------------------------------------------------
(* The broker's steps, and the loss of a connection, add no holder.         *)
LEMMA BackgroundHold ==
    ASSUME BrokerTypeOK, HoldInv, MsgsGrow, Shrinks, UNCHANGED callVars,
           UNCHANGED rabbitTemplateLookup
    PROVE  HoldInv'
<1>1. ASSUME NEW w \in Threads, NEW f \in Factories, Owns(w, f)
      PROVE  Owns(w, f)' /\ ReadName(w)' = ReadName(w)
    BY <1>1 DEF Owns, callVars, Configured, Template, Binder, ReadName
<1>2. ASSUME NEW f \in Factories, NEW m \in unacked'[f]
      PROVE  \E w \in Threads : Owns(w, f)' /\ msgs'[m].queue = ReadName(w)'
    <2>1. m \in unacked[f]
        BY <1>2 DEF Shrinks
    <2>2. PICK w \in Threads : Owns(w, f) /\ msgs[m].queue = ReadName(w)
        BY <2>1 DEF HoldInv
    <2>3. msgs'[m] = msgs[m]
        BY <2>1 DEF MsgsGrow, BrokerTypeOK
    <2> QED BY <1>1, <2>2, <2>3
<1>3. ASSUME NEW f \in Factories, NEW frame \in Frames(f)'
      PROVE  \E w \in Threads : Owns(w, f)' /\ FrameOf(w, frame)'
    <2>1. frame \in Frames(f)
        BY <1>3 DEF Shrinks
    <2>2. PICK w \in Threads : Owns(w, f) /\ FrameOf(w, frame)
        BY <2>1 DEF HoldInv
    <2>3. FrameOf(w, frame)'
        BY <2>2, FrameOfStays DEF callVars
    <2> QED BY <1>1, <2>2, <2>3
<1> QED BY <1>2, <1>3 DEF HoldInv

LEMMA ReadShrinks ==
    ASSUME BrokerTypeOK, NEW f \in Factories, wire[f] # <<>>,
           wire' = [wire EXCEPT ![f] = Tail(@)],
           \A g \in Factories : unacked'[g] \subseteq unacked[g]
    PROVE  Shrinks
<1>1. ASSUME NEW g \in Factories
      PROVE  Frames(g)' \subseteq Frames(g)
    <2>1. CASE g # f
        BY <2>1 DEF Frames, BrokerTypeOK
    <2>2. CASE g = f
        <3>1. wire'[f] = Tail(wire[f]) /\ wire[f] \in Seq(Frame)
            BY DEF BrokerTypeOK
        <3>2. /\ DOMAIN wire'[f] = 1 .. Len(wire[f]) - 1
              /\ DOMAIN wire[f] = 1 .. Len(wire[f])
              /\ Len(wire[f]) \in Nat
            BY <3>1, WireTail, LenProperties
        <3>3. ASSUME NEW i \in DOMAIN wire'[f]
              PROVE  i + 1 \in DOMAIN wire[f] /\ wire'[f][i] = wire[f][i + 1]
            BY <3>1, <3>2, WireTail
        <3> QED BY <2>2, <3>3 DEF Frames
    <2> QED BY <2>1, <2>2
<1> QED BY <1>1 DEF Shrinks

LEMMA BrokerStepShrinks ==
    ASSUME BrokerTypeOK, Broker \/ Arrive
    PROVE  Shrinks
<1>1. ASSUME NEW f \in Factories, ReadAck(f)
      PROVE  Shrinks
    BY <1>1, ReadShrinks DEF ReadAck, BrokerTypeOK
<1>2. ASSUME NEW f \in Factories, ReadPublish(f)
      PROVE  Shrinks
    BY <1>2, ReadShrinks DEF ReadPublish
<1>3. CASE Arrive \/ \E m \in orphaned : RequeueOrphan(m)
    BY <1>3 DEF Arrive, RequeueOrphan, Shrinks, Frames
<1> QED BY <1>1, <1>2, <1>3 DEF Broker

LEMMA NextKeepsHoldInv ==
    ASSUME IInv, HoldInv, [Next]_vars
    PROVE  HoldInv'
<1>1. ASSUME NEW w \in Threads, Request(w) \/ Operator(w) \/ Failure(w)
      PROVE  HoldInv'
    <2>1. Others(w) /\ MsgsGrow /\ BrokerTypeOK
        BY <1>1, ThreadStepKept DEF Kept, BrokerKept, IInv
    <2>2. Keeps(w) /\ Adds(w)
        <3>1. CASE pc[w] \notin Scanning
            BY <1>1, <3>1, OutsideScan
        <3>2. CASE pc[w] \in Scanning
            <4>1. ~Request(w)
                BY <3>2 DEF Request, Scanning
            <4> QED BY <1>1, <3>2, <4>1, InsideScan
        <3> QED BY <3>1, <3>2
    <2> QED BY <2>1, <2>2, HoldStep
<1>2. CASE (Broker \/ Arrive) /\ UNCHANGED <<connVars, callVars>>
    BY <1>2, BrokerStepShrinks, BrokerStepKept, BackgroundHold DEF IInv, connVars, BrokerKept
<1>3. CASE ConnectionLost
    <2>1. MsgsGrow /\ Shrinks
        BY <1>3, BrokerShrinks, BreakConnectionsKeepsBroker DEF ConnectionLost, IInv, BrokerKept
    <2> QED BY <1>3, <2>1, BackgroundHold DEF ConnectionLost, LoseConnection, IInv
<1>4. CASE Restart
    <2>1. \A f \in Factories : unacked'[f] = {} /\ wire'[f] = <<>>
        BY <1>4 DEF Restart, BreakConnections
    <2> QED BY <2>1 DEF HoldInv, Frames
<1>5. CASE UNCHANGED vars
    <2>1. MsgsGrow /\ Shrinks
        BY <1>5, BrokerShrinks, UnchangedKeepsBroker DEF vars, IInv, BrokerKept
    <2> QED BY <1>5, <2>1, BackgroundHold DEF vars, connVars, IInv
<1> QED BY <1>1, <1>2, <1>3, <1>4, <1>5 DEF Next

THEOREM Holders == Spec => [](IInv /\ HoldInv)
<1>1. Init => HoldInv
    BY DEF Init, BrokerInit, HoldInv, Frames
<1>2. IInv /\ HoldInv /\ [Next]_vars => HoldInv'
    BY NextKeepsHoldInv
<1> QED BY <1>1, <1>2, Invariance, PTL DEF Spec

(* Whatever way a call ended, every message it fetched and did not          *)
(* acknowledge is back with the broker: only a thread in the middle of its  *)
(* own scan of the queue keeps a message from it.                           *)
THEOREM NothingHeldWhenIdle == Spec => []IdleHoldsNothing
<1>1. HoldInv => IdleHoldsNothing
    BY DEF HoldInv, Owns, IdleHoldsNothing
<1> QED BY <1>1, Holders, PTL

-----------------------------------------------------------------------------
(* The refinement mapping forgets where a message is (ready, delivered or   *)
(* orphaned) and how far a call has got.  A frame that the broker reads is  *)
(* traced back, by HoldInv, to a thread that is still scanning, and by IInv *)
(* to the id in the request of that thread.                                 *)
LEMMA SameIds ==
    ASSUME NEW p
    PROVE  DLQ!IdsOf(p) = IdsOf(p)
BY DEF DLQ!IdsOf, DLQ!MessageId, DLQ!Fingerprint, IdsOf, MessageId, Fingerprint

(* Steps of the broker that only move messages about.                       *)
Stays == UNCHANGED <<msgs, Present>>

LEMMA MovesStay ==
    ASSUME BrokerTypeOK,
           \/ UNCHANGED brokerVars
           \/ \E f \in Factories, m \in ready : BasicGet(f, m)
           \/ \E f \in Factories : \E frame : WriteFrame(f, frame)
           \/ \E f \in Factories : CloseConnection(f)
           \/ \E F \in SUBSET Factories, gone \in SUBSET ready : BreakConnections(F, gone)
           \/ \E m \in orphaned : RequeueOrphan(m)
    PROVE  Stays
<1>1. CASE UNCHANGED brokerVars
    BY <1>1 DEF brokerVars, Stays, Present
<1>2. CASE \E f \in Factories, m \in ready : BasicGet(f, m)
    BY <1>2 DEF BasicGet, Stays, Present, BrokerTypeOK
<1>3. CASE \E f \in Factories : \E frame : WriteFrame(f, frame)
    BY <1>3 DEF WriteFrame, Stays, Present
<1>4. CASE \E f \in Factories : CloseConnection(f)
    BY <1>4 DEF CloseConnection, Stays, Present, BrokerTypeOK
<1>5. CASE \E F \in SUBSET Factories, gone \in SUBSET ready : BreakConnections(F, gone)
    BY <1>5 DEF BreakConnections, Stays, Present, BrokerTypeOK
<1>6. CASE \E m \in orphaned : RequeueOrphan(m)
    BY <1>6 DEF RequeueOrphan, Stays, Present
<1> QED BY <1>1, <1>2, <1>3, <1>4, <1>5, <1>6

-----------------------------------------------------------------------------
(* Steps of a thread.                                                       *)
LEMMA PurgeIsRemoveAll ==
    ASSUME IInv, NEW w \in Threads, pc[w] = "purge", QueuePurge(ReadName(w)), call' = call
    PROVE  DLQ!RemoveAll(w)
<1>1. call[w].op = "dropMessages" /\ Configured(w)
    BY DEF IInv, ThreadOK
<1>2. Present' \subseteq Present /\ \A m \in Present \ Present' : m \in Ready(ReadName(w))
    BY DEF QueuePurge, Present
<1>3. \A m \in Present \ Present' : DLQ!Reads(w, m)
    BY <1>1, <1>2 DEF DLQ!Reads, Ready, ReadName, Configured
<1> QED BY <1>1, <1>2, <1>3 DEF DLQ!RemoveAll, QueuePurge

LEMMA ThreadStepImplements ==
    ASSUME IInv, NEW w \in Threads, Request(w) \/ Operator(w) \/ Failure(w)
    PROVE  [DLQ!DLQNext]_(DLQ!dlqVars)
<1>1. CASE Request(w)
    <2>1. Stays
        BY <1>1, MovesStay DEF Request, IInv
    <2>2. call[w] = NoCall /\ call' = [call EXCEPT ![w] = call'[w]]
        BY <1>1 DEF Request, IInv, ThreadOK, CallTypeOK
    <2> QED BY <2>1, <2>2 DEF Stays, NoCall, DLQ!NoRequest, DLQ!BeginRequest, DLQ!DLQNext
<1>2. CASE Respond(w)
    <2>1. Stays
        BY <1>2, MovesStay DEF Respond, IInv
    <2> QED BY <1>2, <2>1 DEF Respond, Stays, NoCall, DLQ!NoRequest, DLQ!EndRequest, DLQ!DLQNext
<1>3. CASE Purge(w) \/ PurgeFails(w)
    <2>1. pc[w] = "purge" /\ call' = call /\ (QueuePurge(ReadName(w)) \/ UNCHANGED brokerVars)
        BY <1>3 DEF Purge, PurgeFails, Return
    <2>2. CASE QueuePurge(ReadName(w))
        BY <2>1, <2>2, PurgeIsRemoveAll DEF DLQ!DLQNext
    <2>3. CASE UNCHANGED brokerVars
        BY <2>1, <2>3, MovesStay DEF IInv, Stays, DLQ!dlqVars
    <2> QED BY <2>1, <2>2, <2>3
<1>4. CASE call' = call /\ Stays
    BY <1>4 DEF Stays, DLQ!dlqVars
<1>5. ASSUME ~Request(w), ~Respond(w), ~Purge(w), ~PurgeFails(w)
      PROVE  call' = call /\ Stays
    <2>1. call' = call
        BY <1>5 DEF Operator, Failure, RejectEmptyId, SizeOfUnknownQueue, SizeOfUnknownBinder,
            SizeOfUndeclaredQueue, SizeRead, GetTemplate, GetNothing, ListMessage, SkipMessage,
            MatchMessage, ConversionFails, Ack, AckOnClosedChannel, Send, Finally,
            FinallyWithoutTemplate, SizeFails, ExecuteFails, Return
    <2>2. CASE UNCHANGED brokerVars
        BY <2>1, <2>2, MovesStay DEF IInv
    <2>3. CASE ListMessage(w) \/ SkipMessage(w) \/ MatchMessage(w) \/ ConversionFails(w)
        BY <2>3, MovesStay DEF IInv, ListMessage, SkipMessage, MatchMessage, ConversionFails, Fetch
    <2>4. CASE Ack(w)
        BY <2>4, MovesStay DEF IInv, ThreadOK, Ack
    <2>5. CASE Send(w)
        BY <2>5, MovesStay DEF IInv, Send
    <2>6. CASE Finally(w)
        <3>1. Template(w) \in Factories
            BY <2>6, ScanningBinder DEF Finally, IInv, ThreadOK, Scanning, Template,
                ConnInv, ConnTypeOK, Lookup
        <3> QED BY <2>1, <2>6, <3>1, MovesStay DEF IInv, Finally
    <2>7. CASE SizeFails(w) \/ ExecuteFails(w)
        <3>1. \E F \in SUBSET Factories, gone \in SUBSET ready : BreakConnections(F, gone)
            <4>1. CASE SizeFails(w)
                <5>1. PICK f \in Factories : BreakConnections({f}, {})
                    BY <4>1 DEF SizeFails
                <5> QED BY <5>1
            <4>2. CASE ExecuteFails(w)
                <5>1. PICK f \in Factories, gone \in {{}} \cup {{m} : m \in ready} :
                        BreakConnections({f}, gone)
                    BY <4>2 DEF ExecuteFails
                <5>2. {f} \in SUBSET Factories /\ gone \in SUBSET ready
                    OBVIOUS
                <5> QED BY <5>1, <5>2
            <4> QED BY <2>7, <4>1, <4>2
        <3> QED BY <2>1, <3>1, MovesStay DEF IInv
    <2>8. \/ UNCHANGED brokerVars
          \/ ListMessage(w) \/ SkipMessage(w) \/ MatchMessage(w) \/ ConversionFails(w)
          \/ Ack(w) \/ Send(w) \/ Finally(w) \/ SizeFails(w) \/ ExecuteFails(w)
        BY <1>5 DEF Operator, Failure, RejectEmptyId, SizeOfUnknownQueue, SizeOfUnknownBinder,
            SizeOfUndeclaredQueue, SizeRead, GetTemplate, GetNothing, AckOnClosedChannel,
            FinallyWithoutTemplate
    <2> QED BY <2>1, <2>2, <2>3, <2>4, <2>5, <2>6, <2>7, <2>8
<1> QED BY <1>1, <1>2, <1>3, <1>4, <1>5

-----------------------------------------------------------------------------
(* Steps of the broker.                                                     *)
LEMMA NamedIsNamed ==
    ASSUME NEW w \in Threads, NEW m, Named(w, m), Configured(w)
    PROVE  DLQ!Names(w, m) /\ m \in DOMAIN msgs
BY SameIds DEF Named, ReadName, Configured, DLQ!Names, DLQ!Reads

LEMMA ReadAckImplements ==
    ASSUME IInv, HoldInv, NEW f \in Factories, ReadAck(f), call' = call
    PROVE  [DLQ!DLQNext]_(DLQ!dlqVars)
<1>1. /\ Head(wire[f]) \in Frames(f) /\ Head(wire[f]).kind = "ack"
    <2>1. Head(wire[f]) = wire[f][1] /\ wire[f] \in Seq(Frame) /\ wire[f] # <<>>
        BY WireTail DEF ReadAck, IInv, BrokerTypeOK
    <2>2. 1 \in DOMAIN wire[f]
        BY <2>1, LenProperties, EmptySeq
    <2> QED BY <2>1, <2>2 DEF Frames, ReadAck
<1>2. PICK w \in Threads : Owns(w, f) /\ FrameOf(w, Head(wire[f]))
    BY <1>1 DEF HoldInv
<1>3. PICK m : m = Head(wire[f]).msg
    OBVIOUS
<1>4. m \in acked[w]
    BY <1>1, <1>2, <1>3 DEF FrameOf
<1>5. Named(w, m) /\ Configured(w)
    BY <1>2, <1>4 DEF IInv, ThreadOK, Owns
<1>6. /\ msgs' = msgs
      /\ Present' = Present \/ (m \in Present /\ Present' = Present \ {m})
    BY <1>3 DEF ReadAck, Present, IInv, BrokerTypeOK
<1>7. call[w].op \in {"ackCertainMessage", "republishMessage"}
    BY <1>5 DEF Named, NeedsId
<1>8. CASE Present' = Present
    BY <1>6, <1>8 DEF DLQ!dlqVars
<1>9. CASE m \in Present /\ Present' = Present \ {m}
    BY <1>5, <1>6, <1>7, <1>9, NamedIsNamed DEF DLQ!RemoveNamed, DLQ!DLQNext
<1> QED BY <1>6, <1>8, <1>9

(* New messages take the next positions.                                    *)
LEMMA EnqueueAppears ==
    ASSUME BrokerTypeOK, NEW new \in Seq(Message), Enqueue(new),
           UNCHANGED <<unacked, orphaned>>, call' = call
    PROVE  /\ DLQ!Appear
           /\ \A n \in Len(msgs) + 1 .. Len(msgs') :
                n - Len(msgs) \in DOMAIN new /\ msgs'[n] = new[n - Len(msgs)]
<1>1. msgs \in Seq(Message)
    BY DEF BrokerTypeOK
<1>2. /\ msgs' \in Seq(Message)
      /\ Len(msgs') = Len(msgs) + Len(new)
      /\ \A m \in DOMAIN msgs : msgs'[m] = msgs[m]
      /\ \A i \in DOMAIN new : msgs'[Len(msgs) + i] = new[i]
      /\ ready' = ready \cup (Len(msgs) + 1 .. Len(msgs'))
    BY <1>1, EnqueueGrows
<1>3. /\ Len(msgs) \in Nat /\ Len(new) \in Nat
      /\ DOMAIN msgs = 1 .. Len(msgs) /\ DOMAIN new = 1 .. Len(new)
    BY <1>1, LenProperties
<1>4. Present' = Present \cup (Len(msgs) + 1 .. Len(msgs'))
    BY <1>2 DEF Present
<1>5. Len(msgs') >= Len(msgs)
    BY <1>2, <1>3
<1>6. ASSUME NEW n \in Len(msgs) + 1 .. Len(msgs')
      PROVE  n - Len(msgs) \in DOMAIN new /\ msgs'[n] = new[n - Len(msgs)]
    <2>1. n - Len(msgs) \in DOMAIN new /\ Len(msgs) + (n - Len(msgs)) = n
        BY <1>2, <1>3
    <2> QED BY <1>2, <2>1
<1> QED BY <1>2, <1>3, <1>4, <1>5, <1>6 DEF DLQ!Appear

LEMMA ReadPublishImplements ==
    ASSUME IInv, HoldInv, NEW f \in Factories, ReadPublish(f), call' = call
    PROVE  DLQ!DLQNext
<1>1. /\ Head(wire[f]) \in Frames(f) /\ Head(wire[f]).kind = "publish"
      /\ Head(wire[f]).copies \in Seq(Message)
    <2>1. /\ Head(wire[f]) = wire[f][1] /\ wire[f] \in Seq(Frame) /\ wire[f] # <<>>
          /\ Head(wire[f]) \in Frame
        BY WireTail DEF ReadPublish, IInv, BrokerTypeOK
    <2>2. 1 \in DOMAIN wire[f]
        BY <2>1, LenProperties, EmptySeq
    <2> QED BY <2>1, <2>2 DEF Frames, ReadPublish, Frame
<1>2. PICK w \in Threads : Owns(w, f) /\ FrameOf(w, Head(wire[f]))
    BY <1>1 DEF HoldInv
<1>3. PICK new \in Seq(Message) : new = Head(wire[f]).copies
    BY <1>1
<1>4. call[w].op = "republishMessage" /\ CopiesOfNamed(w, new)
    BY <1>1, <1>2, <1>3 DEF FrameOf
<1>5. PICK m \in DOMAIN msgs :
        /\ Named(w, m)
        /\ \A i \in DOMAIN new :
            new[i].content = [payload |-> msgs[m].content.payload,
                              route |-> republishTo[call[w].queue]]
    BY <1>4 DEF CopiesOfNamed
<1>6. DLQ!Names(w, m)
    BY <1>2, <1>5, NamedIsNamed DEF Owns
<1>7. /\ DLQ!Appear
      /\ \A n \in Len(msgs) + 1 .. Len(msgs') :
            n - Len(msgs) \in DOMAIN new /\ msgs'[n] = new[n - Len(msgs)]
    BY <1>3, EnqueueAppears DEF ReadPublish, IInv
<1>8. DLQ!Republish(w)
    BY <1>4, <1>5, <1>6, <1>7 DEF DLQ!Republish
<1> QED BY <1>8 DEF DLQ!DLQNext

LEMMA ArriveImplements ==
    ASSUME IInv, Arrive, call' = call
    PROVE  DLQ!DLQNext
<1>1. PICK message \in Arrivals : Enqueue(<<message>>)
    BY DEF Arrive
<1>2. message \in Message /\ <<message>> \in Seq(Message) /\ msgs \in Seq(Message)
    BY BrokerAssumption DEF IInv, BrokerTypeOK
<1>3. DLQ!Appear
    BY <1>1, <1>2, EnqueueAppears DEF Arrive, IInv
<1>4. msgs' = Append(msgs, message)
    BY <1>1, <1>2 DEF Enqueue
<1> QED BY <1>3, <1>4 DEF DLQ!DeadLetter, DLQ!DLQNext

-----------------------------------------------------------------------------
LEMMA StepImplements ==
    ASSUME IInv, HoldInv, [Next]_vars
    PROVE  [DLQ!DLQNext]_(DLQ!dlqVars)
<1>1. ASSUME NEW w \in Threads, Request(w) \/ Operator(w) \/ Failure(w)
      PROVE  [DLQ!DLQNext]_(DLQ!dlqVars)
    BY <1>1, ThreadStepImplements
<1>2. CASE Broker /\ UNCHANGED <<connVars, callVars>>
    <2>1. call' = call
        BY <1>2 DEF callVars
    <2>2. CASE \E m \in orphaned : RequeueOrphan(m)
        BY <2>1, <2>2, MovesStay DEF IInv, Stays, DLQ!dlqVars
    <2> QED BY <1>2, <2>1, <2>2, ReadAckImplements, ReadPublishImplements DEF Broker
<1>3. CASE Arrive /\ UNCHANGED <<connVars, callVars>>
    BY <1>3, ArriveImplements DEF callVars
<1>4. CASE ConnectionLost
    <2>1. PICK f \in Factories : BreakConnections({f}, {})
        BY <1>4 DEF ConnectionLost
    <2>2. Stays
        BY <2>1, MovesStay DEF IInv
    <2> QED BY <1>4, <2>2 DEF ConnectionLost, callVars, Stays, DLQ!dlqVars
<1>5. CASE Restart
    <2>1. Stays
        BY <1>5, MovesStay DEF Restart, IInv
    <2> QED BY <1>5, <2>1 DEF Restart, Stays, NoCall, DLQ!NoRequest, DLQ!EndAllRequests,
            DLQ!DLQNext
<1>6. CASE UNCHANGED vars
    <2>1. Stays
        BY <1>6, MovesStay DEF vars, IInv
    <2> QED BY <1>6, <2>1 DEF vars, callVars, Stays, DLQ!dlqVars
<1> QED BY <1>1, <1>2, <1>3, <1>4, <1>5, <1>6 DEF Next

(* No message disappears that no request being served names or purges, and  *)
(* none appears but arrivals and the copies a request asks for, whatever    *)
(* the threads, the failures and the broker do.                             *)
THEOREM Refinement == Spec => ImplementsDeadLetterQueue
<1>1. Init => DLQ!DLQInit
    BY DEF Init, BrokerInit, NoCall, Present, DLQ!DLQInit, DLQ!NoRequest
<1>2. IInv /\ HoldInv /\ [Next]_vars => [DLQ!DLQNext]_(DLQ!dlqVars)
    BY StepImplements
<1> QED BY <1>1, <1>2, Holders, PTL DEF Spec, DLQ!DLQSpec, ImplementsDeadLetterQueue
=============================================================================
