---------------------------- MODULE VirgilExtension ----------------------------
(***************************************************************************)
(* From the property sources of an application to the requests of its       *)
(* Virgil tab: what VirgilEnvironment sets decides which endpoints exist    *)
(* and under which paths; Spring Boot Admin registers the instance with the *)
(* endpoints its actuator index links to; index.js offers the tab, and      *)
(* EndpointService finds the URLs again.                                    *)
(***************************************************************************)
EXTENDS VirgilEnvironment, EndpointService

CONSTANTS
    Base,           \* the management URL of the instance
    QueueKeys       \* queue keys as URL segments

ASSUME BaseAssumption ==
    IsPath(Base) /\ Base # <<>> /\ "get-queues" \notin Range(Base)

VARIABLES
    registered,     \* whether Spring Boot Admin knows the instance
    endpoints       \* the endpoints of the instance

vars == <<envVars, registered, endpoints>>

Init == EnvInit /\ registered = FALSE /\ endpoints = <<>>

-----------------------------------------------------------------------------
(* How Spring reads a property: the first source that has it, as one value  *)
(* or as a list.  Written(s, name) is what that source has, if there is one. *)
Written(s, name) ==
    LET having == {i \in DOMAIN s : {name, Indexed(name)} \cap DOMAIN s[i] # {}}
        first == s[Min(having)]
    IN IF having = {} THEN {}
       ELSE {first[IF name \in DOMAIN first THEN name ELSE Indexed(name)]}

Entries(s, name) == UNION {v.is : v \in Written(s, name)}

Path(e) == (CHOOSE v \in Written(sources, Mapping(e)) : TRUE).is

Exposed == {e \in Endpoints : {e, "*"} \cap Entries(sources, Include) # {}}
             \ Entries(sources, Exclude)

(* The actuator index has no usable link for a path with a parameter.       *)
Links == {[id |-> e, url |-> Base \o Path(e)] : e \in Exposed \ {"get-queue-size"}}

Register ==
    /\ processed
    /\ registered' = TRUE
    /\ endpoints' = SetToSeq(Links)
    /\ UNCHANGED envVars

Next ==
    \/ PostProcessEnvironment /\ UNCHANGED <<registered, endpoints>>
    \/ Register

Spec == Init /\ [][Next]_vars

-----------------------------------------------------------------------------
(* Slip: the tab looks for an endpoint whose path has a parameter.          *)
EnabledBySize == registered /\ \E i \in DOMAIN endpoints : endpoints[i].id = "get-queue-size"

(* The tab is there when the instance has get-queues.                       *)
IsEnabled == registered /\ \E i \in DOMAIN endpoints : endpoints[i].id = "get-queues"

(* What the view sends to each endpoint; data that does not matter is <<>>. *)
Request(e, q) ==
    CASE e \in {"get-queues", "get-dlq-messages"} -> Get(endpoints, e, <<>>)
      [] e \in {"drop-message", "publish-message", "drop-all-messages"} -> Post(endpoints, e, <<>>)
      [] e = "get-queue-size" -> GetQueueSize(endpoints, q)

(* The operation of each endpoint: its method, and whether it takes the     *)
(* queue from its path.                                                     *)
Method(e) == IF e \in {"get-queues", "get-dlq-messages", "get-queue-size"} THEN "GET" ELSE "POST"
Selected(e, q) == IF e = "get-queue-size" THEN {<<seg>> : seg \in Range(q)} ELSE {<<>>}

(* The endpoints that serve a request.                                      *)
Served(request, q) ==
    {e \in Exposed :
        /\ request.method = Method(e)
        /\ \E selected \in Selected(e, q) : request.url = Base \o Path(e) \o selected}

-----------------------------------------------------------------------------
(* Once the environment is processed the user's own sources are the rest.   *)
Users == IF processed THEN Tail(sources) ELSE sources

(* Entries that users wrote as one text stay in force next to those of the  *)
(* starter, whichever of their sources they stand in.                       *)
TextSettingsSurvive ==
    \A name \in ListNames :
        (\A v \in Written(Users, name) : v.kind = "text")
            => Entries(Users, name) \subseteq Entries(sources, name)

(* A path that users gave an endpoint is the one it has.                    *)
OverridesKept ==
    \A e \in Endpoints : \A v \in Written(Users, Mapping(e)) :
        v.kind = "text" => Path(e) = v.is

(* The paths an endpoint may have.                                          *)
PathsOf(e) ==
    {DefaultPath(e)} \cup
    {s[Mapping(e)].is : s \in {t \in UserSources :
                                  Mapping(e) \in DOMAIN t /\ t[Mapping(e)].kind = "text"}}

(* What the requests of the tab need of users' settings: the path of an     *)
(* endpoint is one text, and no two endpoints share a path.                 *)
PathsArePlain ==
    /\ \A s \in UserSources, e \in Endpoints : Indexed(Mapping(e)) \notin DOMAIN s
    /\ \A d, e \in Endpoints : d # e => PathsOf(d) \cap PathsOf(e) = {}

(* And of the keys of the queues: they have no slash, and no endpoint sits  *)
(* where the size of a queue is served, or asked for.                       *)
SizePaths == PathsOf("get-queue-size") \cup {SizeUrl(p) : p \in PathsOf("get-queues")}

KeysArePlain ==
    \A q \in QueueKeys :
        /\ IsPath(q) /\ Len(q) = 1
        /\ \A p \in SizePaths, e \in Endpoints : p \o q \notin PathsOf(e)

(* The path of get-queues, with the one text for the other, is that of      *)
(* get-queue-size: so by default, and when users move both alike.           *)
GuessIsRight == SizeUrl(Path("get-queues")) = Path("get-queue-size")

(* Where the tab is offered, each of its requests is served by the endpoint *)
(* it is meant for, if that is exposed, and by no other; but the size of a  *)
(* queue by none at all, for any queue, unless the guess of its path is     *)
(* right.  Needs PathsArePlain and KeysArePlain.                            *)
RequestsArrive ==
    IsEnabled => \A e \in Endpoints, q \in QueueKeys :
        Served(Request(e, q), q) =
            IF e = "get-queue-size" /\ ~GuessIsRight THEN {} ELSE {e} \cap Exposed

(* Nothing excluded, nothing missing: the tab is offered.                   *)
TabIsOffered ==
    registered /\ Entries(sources, Exclude) = {} => IsEnabled
=============================================================================
