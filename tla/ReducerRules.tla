---------------------------- MODULE ReducerRules ----------------------------
(***************************************************************************)
(* What a reducer comes to on a value, as rules: its outcomes by those of  *)
(* its parts, without regard to tasks or their order.  There is more than  *)
(* one only where several parts fail together.                             *)
(***************************************************************************)
EXTENDS Reducers

CONSTANTS
  Outcomes(_, _),   \* those of a reducer on a value
  Rest(_, _, _),    \* those of a reducer from its k-th part on, on the value it has there
  Sources,          \* what the reducers to resolve are made of
  Reference(_, _)   \* the outcomes that a source has on a value, by the README

\* What Op makes of each good outcome.
Then(outcomes, Op(_)) == UNION {IF IsOk(o) THEN Op(o[2]) ELSE {o} : o \in outcomes}

\* Parts that run together: what Op makes of their values, or the failure of one.
Fulfilled(parts) ==
  {c \in [DOMAIN parts -> UNION {parts[i] : i \in DOMAIN parts}] :
     \A i \in DOMAIN parts : c[i] \in parts[i] /\ IsOk(c[i])}
Together(parts, Op(_)) ==
  {Ok(Op(c)) : c \in Fulfilled(parts)}
    \cup {o \in UNION {parts[i] : i \in DOMAIN parts} : IsError(o)}

\* The reducer on each of the items.
OnEach(reducer, items) == [i \in DOMAIN items |-> Outcomes(reducer, items[i])]
AsArray(c) == Array(Values(c))

\* What is left of an entity that has failed: its error reducer and the check.
Handler(e) == Source("entity", [stages |-> e.error, error |-> <<>>])

\* The items for which the predicate held.
KeptItems(predicate, items, c) ==
  FlattenSeq([i \in DOMAIN c |->
                IF PredicateIsTruthy(predicate, c[i][2]) THEN <<items[i]>> ELSE <<>>])

\* The rule of each type of reducer.
OutcomesByType(r, v) ==
  CASE r.type = "ReducerList" ->
         IF r.of = <<>> THEN {Ok(Undefined)} ELSE Rest(r, 1, IF v = Undefined THEN Null ELSE v)
    [] r.type = "ReducerObject" ->
         LET parts == r.of.reducers
         IN  Together([i \in DOMAIN parts |-> Outcomes(parts[i].reducer, v)],
                      LAMBDA c : Object(EntriesOf(r.of.constants, parts, c)))
    [] r.type = "parallel" -> Together([i \in DOMAIN r.of |-> Outcomes(r.of[i], v)], AsArray)
    [] r.type = "map" ->
         IF IsArray(v) THEN Together(OnEach(r.of, v[2]), AsArray) ELSE {TypeError}
    [] r.type = "filter" ->
         IF IsArray(v) THEN Together(OnEach(r.of, v[2]), LAMBDA c : Array(KeptItems(r.of, v[2], c)))
         ELSE {Throws("not an array")}
    [] r.type = "find" ->
         IF v \in {Undefined, Null} THEN {TypeError}
         ELSE IF IsArray(v) THEN Rest(r, 1, v) ELSE {Ok(Undefined)}
    [] r.type = "assign" ->
         Then(Outcomes(r.of, v), LAMBDA w : {Ok(Object(Entries(w) @@ Entries(v)))})
    [] r.type = "request" ->
         Then(Outcomes(r.of.options, v), LAMBDA w :
           Outcomes(Source("rp", r.of.inspect),
                    Object(getRequestOptions(resolveUrl(r.of.url, v), w))))
    [] r.type \in {"control", "entity"} -> Rest(r, 1, v)
    [] r.type \in {"entity id", "entity instance"} ->
         IF ~Known(r) THEN {Throws("InvalidId")}
         ELSE IF Skipped(r, v) THEN {Ok(v)}
         ELSE IF ~r.of.asCollection THEN Outcomes(Once(r), v)
         ELSE IF ~IsArray(v) THEN {Ok(Undefined)}
         ELSE Together([i \in DOMAIN v[2] |-> IF Skipped(r, v[2][i]) THEN {Ok(v[2][i])}
                                              ELSE Outcomes(Once(r), v[2][i])], AsArray)
    [] OTHER -> {Simple(r, v)}

\* The parts that run one at a time, from the k-th on: the reducers of a list, each on
\* what the one before has made; the items of find, the cases of a control entity, up to
\* the first that holds; the stages of an entity, up to the first that fails.
RestByType(r, k, v) ==
  CASE r.type = "ReducerList" ->
         IF k = Len(r.of) THEN Outcomes(r.of[k], v)
         ELSE Then(Outcomes(r.of[k], v), LAMBDA w : Rest(r, k + 1, w))
    [] r.type = "find" ->
         IF k > Len(v[2]) THEN {Ok(Undefined)}
         ELSE Then(Outcomes(r.of, v[2][k]), LAMBDA w :
                IF PredicateIsTruthy(r.of, w) THEN {Ok(v[2][k])} ELSE Rest(r, k + 1, v))
    [] r.type = "control" ->
         IF k > Len(r.of.cases) THEN Outcomes(r.of.default, v)
         ELSE Then(Outcomes(r.of.cases[k], v), LAMBDA w :
                IF Truthy(w) THEN Outcomes(r.of.dos[k], v) ELSE Rest(r, k + 1, v))
    [] r.type = "entity" ->
         IF k > Len(r.of.stages) THEN {Ok(v)}
         ELSE LET stage == r.of.stages[k]
              IN  UNION {IF IsOk(o) THEN Rest(r, k + 1, IF stage.keeps THEN v ELSE o[2])
                         ELSE IF r.of.error = <<>> THEN {o}
                         ELSE Rest(Handler(r.of), 1, Failure(o[2])) :
                         o \in Outcomes(stage.reducer, v)}

\* The default replaces a missing value.
OutcomesRule(r, v) == {WithDefaultOf(r, o) : o \in OutcomesByType(r, v)}

\* Outcomes and Rest are what the rules say.
FollowTheRules ==
  /\ \A r, v : Outcomes(r, v) = OutcomesRule(r, v)
  /\ \A r, k, v : Rest(r, k, v) = RestByType(r, k, v)

\* The factories have made reducers that do what their sources mean.
FactoriesAgree ==
  \A i \in DOMAIN Roots, v \in Inputs : Outcomes(Roots[i], v) = Reference(Sources[i], v)

-----------------------------------------------------------------------------
(* Properties *)

\* What each call of resolveReducer settles to, in any order of the calls and whatever
\* else is under way, is an outcome that its reducer has on its value by the rules: also
\* for calls that nobody waits for any more.
EachCallAgrees ==
  \A p \in DOMAIN task :
    task[p].result # Pending => task[p].result \in Outcomes(task[p].reducer, task[p].value)

Root == task[<<>>]

\* What a resolution settles to is an outcome that its source has by the reference:
\* the value, or one of the failures.
AgreesWithReference ==
  Root.result # Pending => Root.result \in Reference(Sources[chosen], input)
=============================================================================
