---------------------------- MODULE EndpointService ----------------------------
(***************************************************************************)
(* src/npm/custom/src/EndpointService.js: how the view finds the URL of an   *)
(* endpoint.  Nothing here has state.                                       *)
(*                                                                         *)
(* A URL is the sequence of its segments, the empty one is ''.  A segment   *)
(* either is 'get-queues' or does not have that text in it.  The endpoints  *)
(* of an instance are a sequence of records [id, url].                      *)
(***************************************************************************)
EXTENDS SequencesExt

(* getEndpointUrl: the first endpoint of that id, '' when there is none.    *)
GetEndpointUrl(endpoints, endpointId) ==
    LET i == SelectInSeq(endpoints, LAMBDA e : e.id = endpointId)
    IN IF i = 0 THEN <<>> ELSE endpoints[i].url

Get(endpoints, endpointId, queryParams) ==
    [method |-> "GET", url |-> GetEndpointUrl(endpoints, endpointId), data |-> queryParams]

Post(endpoints, endpointId, payload) ==
    [method |-> "POST", url |-> GetEndpointUrl(endpoints, endpointId), data |-> payload]

(* Slip: the base URL is looked up under the endpoint's own id.             *)
GetQueueSizeByItsId(endpoints, queueId) ==
    [method |-> "GET",
     url |-> GetEndpointUrl(endpoints, "get-queue-size") \o queueId,
     data |-> <<>>]

(* String.replace with texts: the first 'get-queues' becomes another text.  *)
SizeUrl(url) ==
    [i \in DOMAIN url |->
        IF url[i] = "get-queues" /\ \A j \in 1..i - 1 : url[j] # "get-queues"
        THEN "get-queue-size" ELSE url[i]]

(* getQueueSize: endpoints with a parameter in their path are not among     *)
(* those of an instance, so the URL is made from that of get-queues.  The   *)
(* queue key is put in as it is, with every slash it has.                   *)
GetQueueSize(endpoints, queueId) ==
    [method |-> "GET",
     url |-> SizeUrl(GetEndpointUrl(endpoints, "get-queues")) \o queueId,
     data |-> <<>>]
=============================================================================
