---------------------------- MODULE MCApplication ----------------------------
(***************************************************************************)
(* An instance of Application for TLC.                                     *)
(***************************************************************************)
EXTENDS Application, TLC

CONSTANTS a, b, c  \* entity ids

Setting(required, prefix, module, own) ==
  [isRequired |-> required, prefix |-> prefix, DataPoint |-> module, before |-> own, after |-> FALSE]
Plain == Setting("no", FALSE, TRUE, FALSE)
\* Every way to require the cache; then the settings that make create throw.
Settings ==
  {Setting(required, FALSE, TRUE, FALSE) : required \in {"null", "no", "yes"}}
    \cup {Setting("absent", FALSE, TRUE, TRUE), Setting("absent", TRUE, TRUE, FALSE),
          Setting("absent", FALSE, FALSE, FALSE)}

Item(x, parent, type, select) == [id |-> x, parent |-> parent, type |-> type, select |-> select]

\* Added while the application runs.
MCBatches ==
  {<<Item(a, None, "control", "s"), Item(b, a, "control", None)>>,
   <<Item(c, "elsewhere", "model", None)>>,
   <<Item(b, None, "custom", None), Item(a, None, "model", None)>>}

\* Chains up to three deep, circles that an entity is on or leads into, a key twice.
MCFirstBatches ==
  {<<Item(a, p, "control", s), Item(b, q, "control", t), Item(c, r, "model", "s")>> :
     p \in {None, b, c}, q \in {None, a, c}, r \in {None, a, c, "elsewhere"},
     s \in {None, "s"}, t \in {None, "t"}}
    \cup {<<Item(a, None, "control", "s"), Item(b, a, "control", None)>>,
          <<Item(a, b, "model", None), Item(b, None, "model", None), Item(a, None, "control", None)>>,
          <<Item(a, None, "custom", None)>>, <<>>}

MCOwnTypes == {{}, {"custom"}}
MCFirstValues == {NoValues, [p |-> "object", q |-> "truthy"]}

Way(method, path, priority, enabled, list) ==
  [method |-> method, path |-> path, priority |-> priority, enabled |-> enabled, middleware |-> list]
Maps ==
  {<<Way("get", "any", p, TRUE, <<Function>>), Way("get", "home", q, e, <<Function, a>>),
     Way("get", "any", Undefined, TRUE, <<b>>)>> : p \in {1, 2}, q \in {1, 2}, e \in BOOLEAN}
    \cup {<<Way("get", "home", 2, TRUE, <<a>>), Way("get", "any", 1, TRUE, <<b, Function>>)>>,
          <<Way("trace", "home", 1, TRUE, <<a>>)>>, <<>>}
OneRoute == <<Way("get", "any", 1, TRUE, <<a>>)>>
MCRouteMaps == Maps \cup {OneRoute}

Program(settings, specs, own, v, map, changes) ==
  [options |-> settings, entities |-> specs, types |-> own, values |-> v, routes |-> map, changes |-> changes]
Two == <<Item(a, None, "control", "s"), Item(b, a, "control", None)>>
MCPrograms ==
  {Program(s, Two, {}, NoValues, OneRoute, {"redis", "middleware"}) : s \in Settings}
    \cup {Program(Plain, batch, {}, NoValues, OneRoute, {}) : batch \in MCFirstBatches}
    \cup {Program(Plain, Two, own, NoValues, OneRoute, {"entities", "types"}) : own \in MCOwnTypes}
    \cup {Program(Plain, Two, {}, v, OneRoute, {"values"}) : v \in MCFirstValues}
    \cup {Program(Plain, Two, {}, NoValues, map, {}) : map \in Maps}
=============================================================================
