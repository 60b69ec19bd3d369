--------------------------- MODULE MCVirgilExtension ---------------------------
(* Small instances of VirgilExtension for TLC.                              *)
EXTENDS VirgilExtension, TLC

(* Ways to write one property: not at all, or with one of some values.      *)
Unset == {<<>>}
AsText(name, values) == {name :> Text(v) : v \in values}
AsNumber(name) == {name :> [kind |-> "number", is |-> {"7"}]}
AsList(name, entries) == {Indexed(name) :> [kind |-> "list", is |-> entries]}

Includes == Unset \cup AsText(Include, {{"health"}, {"*"}}) \cup AsNumber(Include)
Lists == Unset \cup AsList(Include, {"info"})
Excludes == Unset \cup AsText(Exclude, {{"get-queues"}, {"drop-message"}, {"get-queue-size"}})
ProbedTexts == Unset \cup AsText(Probed, {{<<"health", "health">>}})
Moved(e, paths) == Unset \cup AsText(Mapping(e), paths)

ManySettings ==
    {a @@ b @@ c @@ d @@ e : a \in Includes, b \in Lists, c \in Excludes, d \in ProbedTexts,
                             e \in Moved("drop-message", {<<"moved", "drop-message">>})}

(* Both endpoints that a size is guessed from and served by, moved or not.  *)
SizesMoved ==
    {c @@ d @@ e : c \in Excludes,
                   d \in Moved("get-queues", {<<"moved", "get-queues">>, <<"queues">>}),
                   e \in Moved("get-queue-size", {<<"moved", "get-queue-size">>})}

Settings == ManySettings \cup SizesMoved

ManagementUrl == <<"host", "actuator">>
SimpleKeys == {<<"key">>}

(* What RequestsArrive needs holds of these.                                *)
ASSUME SettingsArePlain == PathsArePlain /\ KeysArePlain
=============================================================================
