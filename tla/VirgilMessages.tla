----------------------------- MODULE VirgilMessages -----------------------------
(***************************************************************************)
(* How the starter names a message: services/DefaultMessageConverter and    *)
(* util/VirgilMessageUtils.  Nothing here has state.                        *)
(*                                                                         *)
(* A payload stands for everything the publisher fixed: body, headers and   *)
(* the basic properties, the AMQP message id among them.  What the broker   *)
(* adds to a delivery is the exchange and routing key it arrived by         *)
(* (route), whether it was delivered before (redelivered) and its place     *)
(* among the deliveries of the channel (deliveryTag).                       *)
(***************************************************************************)
EXTENDS Naturals

CONSTANTS
    Payloads,
    Routes,
    MessageIds,
    NoMessageId,        \* null or empty message id property
    AmqpMessageId,      \* the message id property of each payload
    Unconvertible       \* payloads with a null value in a header that is shown

ASSUME AmqpMessageIdAssumption ==
    AmqpMessageId \in [Payloads -> MessageIds \cup {NoMessageId}]
ASSUME UnconvertibleAssumption == Unconvertible \subseteq Payloads

Deliveries == [payload : Payloads, route : Routes,
               redelivered : BOOLEAN, deliveryTag : Nat]

(* MD5 over the body and getMessagePropertyBytes: every property but those  *)
(* that depend on other messages (the delivery tag).  The redelivered flag  *)
(* and the received exchange and routing key are in it.  Taken as injective. *)
Fingerprint(d) == [payload |-> d.payload, route |-> d.route,
                   redelivered |-> d.redelivered]

(* convertMessage: "i_" and the AMQP message id when there is one, "f_" and *)
(* the fingerprint otherwise.                                               *)
MessageId(d) ==
    IF AmqpMessageId[d.payload] = NoMessageId
    THEN <<"f", Fingerprint(d)>>
    ELSE <<"i", AmqpMessageId[d.payload]>>

(* The ids convertMessage can give to a payload.                            *)
IdsOf(p) == {MessageId(d) : d \in [payload : {p}, route : Routes,
                                   redelivered : BOOLEAN, deliveryTag : {1}]}

VirgilIds == UNION {IdsOf(p) : p \in Payloads}

(* convertMessage throws on a shown header without a value: the generated   *)
(* builder refuses null.                                                    *)
Convertible(d) == d.payload \notin Unconvertible
=============================================================================
