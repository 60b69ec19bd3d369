--------------------- MODULE VirgilPropertyConfig_proofs ---------------------
(***************************************************************************)
(* Threads that write one object without a lock do no harm, because all of  *)
(* them write the same: whatever has been stored for a queue is what its    *)
(* own name for the read binder leads to.                                   *)
(***************************************************************************)
EXTENDS VirgilPropertyConfig, TLAPS

(* What the object of a queue holds, once a lookup has found something.     *)
ReadBinder(q) == GetBinderProperties(readBinderName[q])

IInv ==
    /\ TypeOK
    /\ \A w \in Threads :
        pc[w] \in {"read", "republish", "found"} => queueId[w] \in ConfiguredQueues
    /\ \A q \in ConfiguredQueues : readBinderProperties[q] \in {Null, ReadBinder(q)}
    /\ ExchangeIsOfReadBinder

LEMMA AssignKeepsReadBinder ==
    ASSUME IInv, NEW q \in ConfiguredQueues, Assign(q, ReadBinder(q))
    PROVE  /\ readBinderProperties' \in [ConfiguredQueues -> ConfiguredBinders \cup {Null}]
           /\ \A p \in ConfiguredQueues : readBinderProperties'[p] \in {Null, ReadBinder(p)}
<1>1. ReadBinder(q) \in ConfiguredBinders \cup {Null}
    BY DEF ReadBinder, GetBinderProperties
<1>2. readBinderProperties \in [ConfiguredQueues -> ConfiguredBinders \cup {Null}]
    BY DEF IInv, TypeOK
<1>3. CASE ReadBinder(q) = Null
    BY <1>2, <1>3 DEF Assign, IInv
<1>4. CASE ReadBinder(q) # Null
    BY <1>1, <1>2, <1>4 DEF Assign, IInv
<1> QED BY <1>3, <1>4

(* Both setters of a lookup.                                                *)
LEMMA SettersKeepIInv ==
    ASSUME IInv, NEW w \in Threads,
           SetReadBinderProperties(w) \/ SetRepublishBinderProperties(w)
    PROVE  IInv'
<1>1. /\ queueId[w] \in ConfiguredQueues
      /\ Assign(queueId[w], ReadBinder(queueId[w]))
      /\ queueId' = queueId /\ sent' = sent
    BY DEF IInv, SetReadBinderProperties, SetRepublishBinderProperties, ReadBinder
<1>2. /\ readBinderProperties' \in [ConfiguredQueues -> ConfiguredBinders \cup {Null}]
      /\ \A q \in ConfiguredQueues : readBinderProperties'[q] \in {Null, ReadBinder(q)}
    BY <1>1, AssignKeepsReadBinder
<1>3. /\ pc' \in [Threads -> Steps]
      /\ \A v \in Threads : v # w => pc'[v] = pc[v]
    BY DEF IInv, TypeOK, Steps, GoTo, SetReadBinderProperties, SetRepublishBinderProperties
<1> QED BY <1>1, <1>2, <1>3 DEF IInv, TypeOK, ExchangeIsOfReadBinder, ReadBinder

LEMMA RepublishKeepsIInv ==
    ASSUME IInv, NEW w \in Threads, Republish(w)
    PROVE  IInv'
<1> DEFINE q == queueId[w]
           copy == [queue |-> q, by |-> readBinderName[q],
                    to |-> exchange[readBinderProperties[q]]]
<1>1. q \in ConfiguredQueues /\ readBinderName[q] \in ConfiguredBinders
    BY DEF Republish, IInv
<1>2. readBinderProperties[q] = readBinderName[q]
    BY <1>1 DEF Republish, IInv, ReadBinder, GetBinderProperties
<1>3. copy \in Copies /\ copy.to = exchange[copy.by]
    BY <1>1, <1>2, ConfigAssumption DEF Copies
<1>4. sent' = sent \cup {copy} /\ UNCHANGED <<readBinderProperties, pc, queueId>>
    BY DEF Republish
<1> QED BY <1>3, <1>4 DEF IInv, TypeOK, ExchangeIsOfReadBinder, ReadBinder

LEMMA NextKeepsIInv ==
    ASSUME IInv, [Next]_vars
    PROVE  IInv'
<1>1. ASSUME NEW w \in Threads, GetQueueProperties(w)
      PROVE  IInv'
    BY <1>1 DEF GetQueueProperties, GoTo, IInv, TypeOK, Steps, ExchangeIsOfReadBinder, ReadBinder
<1>2. ASSUME NEW w \in Threads, End(w)
      PROVE  IInv'
    BY <1>2 DEF End, GoTo, IInv, TypeOK, Steps, ExchangeIsOfReadBinder, ReadBinder
<1>3. CASE UNCHANGED vars
    BY <1>3 DEF vars, IInv, TypeOK, ExchangeIsOfReadBinder, ReadBinder
<1> QED BY <1>1, <1>2, <1>3, SettersKeepIInv, RepublishKeepsIInv DEF Next

THEOREM Invariance == Spec => []IInv
<1>1. Init => IInv
    BY DEF Init, IInv, TypeOK, Steps, ExchangeIsOfReadBinder
<1> QED BY <1>1, NextKeepsIInv, PTL DEF Spec

(* What the lookups keep is of the type the code declares; in particular    *)
(* nothing is stored for a name that no binder has.                         *)
THEOREM ConfigTypeCorrect == Spec => []TypeOK
<1>1. IInv => TypeOK
    BY DEF IInv
<1> QED BY <1>1, Invariance, PTL

(* A copy goes to the exchange of the binder its message was read by,       *)
(* however many threads look up queues between a thread's own lookup and    *)
(* its use of the result, and whatever binders the queues name.             *)
THEOREM CopiesGoToReadBinder == Spec => []ExchangeIsOfReadBinder
<1>1. IInv => ExchangeIsOfReadBinder
    BY DEF IInv
<1> QED BY <1>1, Invariance, PTL
=============================================================================
