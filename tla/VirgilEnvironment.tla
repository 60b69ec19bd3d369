--------------------------- MODULE VirgilEnvironment ---------------------------
(***************************************************************************)
(* config/VirgilPropertiesEnvironmentPostProcessor: at start-up, before the *)
(* application is configured, a property source is put in front of the      *)
(* others that exposes the endpoints of the starter, maps their paths, and  *)
(* names them and the user interface to Spring Boot Admin.                  *)
(*                                                                         *)
(* A property source is a partial function from names to values.  A value   *)
(* is a text - what it stands for is kept, a path or a set of entries - or  *)
(* a number.  A list in YAML puts its entries under other names, the name   *)
(* of the property with an index; Indexed(name) stands for all of them.     *)
(***************************************************************************)
EXTENDS Naturals, Sequences, FiniteSetsExt, Functions

CONSTANTS
    UserSources     \* property sources a user may write

Endpoints == {"get-queue-size", "get-dlq-messages", "publish-message",
              "drop-message", "drop-all-messages", "get-queues"}

(* The properties the starter sets, and one it does not know.               *)
Mapping(e) == <<"management.endpoints.web.path-mapping", e>>
Include == <<"management.endpoints.web.exposure.include">>
Probed == <<"spring.boot.admin.probed-endpoints">>
Locations == <<"spring.boot.admin.ui.extension-resource-locations">>
Exclude == <<"management.endpoints.web.exposure.exclude">>

ListNames == {Include, Probed, Locations}
Indexed(name) == name \o <<"[*]">>

Text(value) == [kind |-> "text", is |-> value]

(* A path or a URL is the sequence of its segments.                         *)
IsPath(p) == p \in Seq(Range(p))

(* What a list puts under other names is no text; a text of a mapping is a  *)
(* path.                                                                    *)
ASSUME SourcesAssumption ==
    \A s \in UserSources :
        /\ \A name \in ListNames \cup {Mapping(e) : e \in Endpoints} :
            Indexed(name) \in DOMAIN s => s[Indexed(name)].kind = "list"
        /\ \A e \in Endpoints :
            Mapping(e) \in DOMAIN s /\ s[Mapping(e)].kind = "text"
                => IsPath(s[Mapping(e)].is)

(* DEFAULT_ENDPOINTS: the path of each.                                     *)
DefaultPath(e) == <<"private", "virgil", e>>

VARIABLES
    sources,        \* the property sources, those that win first
    processed       \* whether the environment has been post-processed

envVars == <<sources, processed>>

EnvInit ==
    /\ sources \in UserSources \X UserSources
    /\ processed = FALSE

-----------------------------------------------------------------------------
(* The first source that has the name decides, even if others have a text.  *)
(* The result is an Optional: a set of at most one value.                   *)
GetProperty(name) ==
    LET having == {i \in DOMAIN sources : name \in DOMAIN sources[i]} IN
    IF having = {} THEN {}
    ELSE {v \in {sources[Min(having)][name]} : v.kind = "text"}

(* What the starter sets a list property to, without what users set.        *)
Defaults(name) ==
    CASE name = Include -> Endpoints
      [] name = Probed -> {<<e, "virgil", e>> : e \in Endpoints}
      [] name = Locations -> {"META-INF/extensions/custom"}

(* Slip: an override does not keep the starter from setting its own.        *)
AllEndpoints == Endpoints

(* The endpoints whose path users have not set.                             *)
Unmapped == {e \in Endpoints : GetProperty(Mapping(e)) = {}}

(* Slip: what users set is not appended.                                    *)
DefaultsOnly(name) == Text(Defaults(name))

(* String.join of the defaults and of what users set.                       *)
Consolidated(name) == Text(Defaults(name) \cup UNION {v.is : v \in GetProperty(name)})

VirgilSource ==
    [name \in {Mapping(e) : e \in Unmapped} \cup ListNames |->
        IF name \in ListNames THEN Consolidated(name) ELSE Text(DefaultPath(name[2]))]

PostProcessEnvironment ==
    /\ ~processed
    /\ sources' = <<VirgilSource>> \o sources
    /\ processed' = TRUE
=============================================================================
