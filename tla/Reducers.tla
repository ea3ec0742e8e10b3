------------------------------ MODULE Reducers ------------------------------
(***************************************************************************)
(* The resolution of a reducer: resolveReducer, the resolve functions of   *)
(* the reducer types, and those of the entities without their middleware   *)
(* (which EntityResolve models).                                           *)
(*                                                                         *)
(* Every call of resolveReducer is a task, known by its path from the      *)
(* outermost call.  A task starts calls and waits for them: for one at a   *)
(* time where the code awaits in a loop, for all together where it uses    *)
(* Promise.all.  What a call settles to reaches its caller in a step of    *)
(* its own, so calls that are under way together settle in any order.      *)
(***************************************************************************)
EXTENDS ReducerValues

CONSTANTS
  Reducer,       \* the reducers there are: those to resolve and all their parts
  Roots,         \* the reducers to resolve, a sequence
  Inputs,        \* the values to resolve them with
  Entity,        \* the entities: id -> what the factories make of the spec
  Registered,    \* the ids that the manager knows
  Body(_, _),    \* what a function reducer returns, or throws, on a value
  Fails(_, _),   \* whether it throws
  Server(_),     \* the answer to a request with these options, or its error
  Refuses(_),    \* whether it is an error
  Valid(_, _),   \* whether a schema accepts a value
  Depth          \* how many calls deep one synchronous stretch of code goes, at most

\* The reducers that call no other, and those that createReducer makes of parts.
SimpleTypes == {"function", "constant", "path", "path[]", "pick", "omit", "type check",
                "entry", "rp", "schema"}
Types == SimpleTypes \cup {"ReducerList", "ReducerObject", "parallel", "map", "filter", "find",
                          "assign", "control", "request", "entity id", "entity instance"}

Known(r) == r.type = "entity instance" \/ r.of.id \in Registered

ASSUME ReducerAssumption ==
  /\ Depth \in Nat
  /\ Roots \in Seq(Reducer)
  /\ Registered \subseteq DOMAIN Entity
  /\ \A id \in DOMAIN Entity :
       \A stages \in {Entity[id].stages, Entity[id].error} :
         /\ stages \in Seq(Range(stages))
         /\ \A i \in DOMAIN stages : stages[i].reducer \in Reducer
  /\ \A r \in Reducer :
       /\ r.type \in Types
       /\ r.type \in {"ReducerList", "parallel"} => r.of \in Seq(Reducer)
       /\ r.type \in {"map", "filter", "find", "assign"} => r.of \in Reducer
       /\ r.type = "ReducerObject" =>
            /\ r.of.reducers \in Seq(Range(r.of.reducers))
            /\ \A i \in DOMAIN r.of.reducers : r.of.reducers[i].reducer \in Reducer
       /\ r.type = "control" =>
            /\ r.of.cases \in Seq(Reducer) /\ r.of.dos \in Seq(Reducer)
            /\ Len(r.of.dos) = Len(r.of.cases) /\ r.of.default \in Reducer
       /\ r.type = "request" => r.of.options \in Reducer
       /\ r.type \in {"entity id", "entity instance"} /\ Known(r) => r.of.id \in DOMAIN Entity

VARIABLES
  chosen,       \* which source
  input,
  task          \* path -> [reducer, value, calls (how many it has made), result]

vars == <<chosen, input, task>>

\* Outcomes of a promise.
Pending == <<"pending">>
Ok(v) == <<"ok", v>>
Throws(error) == <<"throws", error>>
IsOk(outcome) == outcome[1] = "ok"
IsError(outcome) == outcome[1] = "throws"
Outcome(fails, v) == IF fails THEN Throws(v) ELSE Ok(v)
Values(outcomes) == [i \in DOMAIN outcomes |-> outcomes[i][2]]

-----------------------------------------------------------------------------
(* One operator per resolve function.  It is asked for what comes next, given *)
(* the outcomes "got" of the calls so far: further calls, or the result.      *)

To(reducer, v) == [reducer |-> reducer, value |-> v]
Call(calls) == [calls |-> calls, result |-> Pending]
Settle(outcome) == [calls |-> <<>>, result |-> outcome]

\* Promise.all over calls that start together.
PromiseAll(calls, got, outcome) ==
  IF got = <<>> /\ calls # <<>> THEN Call(calls) ELSE Settle(outcome)

\* Array.prototype.map with a value that is no array.
TypeError == Throws("TypeError")

FaultyListResolve(r, v, got) ==               \* waits for the calls of an empty list
  IF got # <<>> /\ Len(got) = Len(r.of) THEN Settle(Last(got))
  ELSE Call([i \in 1 .. IF r.of = <<>> THEN 0 ELSE 1 |->
               To(r.of[Len(got) + 1], IF got # <<>> THEN Last(got)[2] ELSE v)])
ListResolve(r, v, got) ==
  IF r.of = <<>> THEN Settle(Ok(Undefined))
  ELSE IF got # <<>> /\ Len(got) = Len(r.of) THEN Settle(Last(got))
  ELSE Call(<<To(r.of[Len(got) + 1],
                 IF got # <<>> THEN Last(got)[2]
                 ELSE IF v = Undefined THEN Null ELSE v)>>)

\* Each value is set at the path of its part.
EntriesOf(constants, parts, got) ==
  FoldLeftDomain(LAMBDA entries, i : SetIn(entries, parts[i].path, got[i][2]), constants, got)
ObjectResolve(r, v, got) ==
  LET parts == r.of.reducers
  IN  PromiseAll([i \in DOMAIN parts |-> To(parts[i].reducer, v)], got,
                 Ok(Object(EntriesOf(r.of.constants, parts, got))))

ParallelResolve(r, v, got) ==
  PromiseAll([i \in DOMAIN r.of |-> To(r.of[i], v)], got, Ok(Array(Values(got))))

\* One call per item.
Each(reducer, items) == [i \in DOMAIN items |-> To(reducer, items[i])]

MapResolve(r, v, got) ==
  IF ~IsArray(v) THEN Settle(TypeError)
  ELSE PromiseAll(Each(r.of, v[2]), got, Ok(Array(Values(got))))

\* reducerPredicateIsTruthy: when a ReducerObject decides, each of its values must hold.
Falsy(v) == v \in {Undefined, Null, Blank, EmptyText}
Deciding(r) == IF r.type = "ReducerList" /\ r.of # <<>> THEN Last(r.of) ELSE r
PredicateIsTruthy(r, v) ==
  IF Deciding(r).type = "ReducerObject"
    THEN /\ DOMAIN Entries(v) # {}
         /\ \A key \in DOMAIN Entries(v) : ~Falsy(Get(v, key))
    ELSE Truthy(v)

Matching(r, items, got) ==
  {i \in DOMAIN got : PredicateIsTruthy(r.of, got[i][2])}

FilterResolve(r, v, got) ==
  LET kept == [i \in DOMAIN got |->
                 IF i \in Matching(r, v[2], got) THEN <<v[2][i]>> ELSE <<>>]
  IN  IF ~IsArray(v) THEN Settle(Throws("not an array"))
      ELSE PromiseAll(Each(r.of, v[2]), got, Ok(Array(FlattenSeq(kept))))

\* A value without a length has no items; null and undefined have no length.
FaultyFindResolve(r, v, got) ==               \* all items at once
  IF ~IsArray(v) THEN Settle(Ok(Undefined))
  ELSE PromiseAll(Each(r.of, v[2]), got,
         IF Matching(r, v[2], got) = {} THEN Ok(Undefined)
         ELSE Ok(v[2][CHOOSE i \in Matching(r, v[2], got) :
                        \A j \in Matching(r, v[2], got) : i <= j]))
FindResolve(r, v, got) ==
  CASE v \in {Undefined, Null} -> Settle(TypeError)
    [] IsArray(v) /\ Matching(r, v[2], got) # {} -> Settle(Ok(v[2][Len(got)]))
    [] IsArray(v) /\ Matching(r, v[2], got) = {} /\ Len(got) < Len(v[2]) ->
         Call(<<To(r.of, v[2][Len(got) + 1])>>)
    [] OTHER -> Settle(Ok(Undefined))

FaultyAssignResolve(r, v, got) ==             \* the value goes over what is assigned
  IF got = <<>> THEN Call(<<To(r.of, v)>>)
  ELSE Settle(Ok(Object(Entries(v) @@ Entries(got[1][2]))))
AssignResolve(r, v, got) ==
  IF got = <<>> THEN Call(<<To(r.of, v)>>)
  ELSE Settle(Ok(Object(Entries(got[1][2]) @@ Entries(v))))

Restricted(entries, keys) == [key \in DOMAIN entries \cap keys |-> entries[key]]
Omitted(entries, keys) == Restricted(entries, DOMAIN entries \ keys)
EntryValue(v) == defaultTo(v, Object(NoEntries))
PathOf(key, v) == IF key = "$" THEN v ELSE Get(v, key)
CheckType(type, v) ==
  IF (type = "array" /\ IsArray(v)) \/ (type = "object" /\ IsObject(v))
    THEN Ok(v) ELSE Throws("type check")

\* resolveUrl.  A url that is not set is the value, if that is text; every object
\* reads the same in a text.
Injected(v) == IF IsObject(v) THEN Object(NoEntries) ELSE v
resolveUrl(url, v) ==
  CASE Len(url) = 2 -> Text(url[1], Injected(PathOf(url[2], v)))
    [] Len(url) = 1 -> Text(url[1], Undefined)
    [] url = <<>> /\ IsText(v) /\ v # EmptyText -> v
    [] OTHER -> Undefined

\* Defaults go where nothing is defined; with a baseUrl, the url is relative to it.
RequestDefaults == [method |-> Atom("GET"), json |-> Atom("true")]
getRequestOptions(url, specOptions) ==
  LET given == Entries(specOptions)
      set == Restricted(given, {key \in DOMAIN given : given[key] # Undefined})
      defaults == set @@ RequestDefaults @@ given
      Either(key, v) == IF Truthy(Get(Object(defaults), key)) THEN defaults[key] ELSE v
      asked == Either("url", url)
  IN  IF Truthy(Either("baseUrl", Undefined))
        THEN ("uri" :> Either("uri", asked)) @@ ("url" :> EmptyText) @@ defaults
        ELSE ("url" :> asked) @@ defaults

\* The options, resolved on the value of the entity, then the request.
RequestResolve(r, v, got) ==
  CASE got = <<>> -> Call(<<To(r.of.options, v)>>)
    [] Len(got) = 1 ->
         Call(<<To(Source("rp", r.of.inspect),
                   Object(getRequestOptions(resolveUrl(r.of.url, v), got[1][2])))>>)
    [] OTHER -> Settle(Last(got))

\* Without an address the request fails; the inspect function reads the address
\* first, which fails in its own way.
Answer(options) == Outcome(Refuses(options), Server(options))
Addressed(options) == Truthy(Get(options, "uri")) \/ Truthy(Get(options, "url"))
ResolveRequest(inspect, options) ==
  IF Addressed(options) THEN Answer(options)
  ELSE IF inspect = "function" THEN TypeError ELSE Throws("no uri")

ValidateContext(schema, v) == IF Valid(schema, v) THEN Ok(v) ELSE Throws("InvalidSchema")

\* The reducers that call no other.
Simple(r, v) ==
  CASE r.type = "function" -> Outcome(Fails(r.of, v), Body(r.of, v))
    [] r.type = "constant" -> Ok(r.of)
    [] r.type = "path" -> Ok(PathOf(r.of, v))
    [] r.type = "path[]" /\ IsArray(v) -> Ok(Array([i \in DOMAIN v[2] |-> Get(v[2][i], r.of)]))
    [] r.type = "path[]" /\ ~IsArray(v) -> Ok(Undefined)
    [] r.type = "pick" -> Ok(Object(Restricted(Entries(v), r.of)))
    [] r.type = "omit" -> Ok(Object(Omitted(Entries(v), r.of)))
    [] r.type = "type check" -> CheckType(r.of, v)
    [] r.type = "entry" -> Ok(EntryValue(v))
    [] r.type = "rp" -> ResolveRequest(r.of, v)
    [] r.type = "schema" -> ValidateContext(r.of, v)

\* The cases of a control entity, one at a time, then what the first that holds
\* does, or the default.
FaultyControlResolve(r, v, got) ==            \* goes on after the first that holds
  LET cases == r.of.cases
      n == Len(got)
      held == {i \in DOMAIN got \cap DOMAIN cases : Truthy(got[i][2])}
  IN  CASE n < Len(cases) -> Call(<<To(cases[n + 1], v)>>)
        [] n = Len(cases) ->
             Call(<<To(IF held = {} THEN r.of.default ELSE r.of.dos[Min(held)], v)>>)
        [] OTHER -> Settle(Last(got))
ControlResolve(r, v, got) ==
  LET cases == r.of.cases
      n == Len(got)
      held == {i \in DOMAIN got \cap DOMAIN cases : Truthy(got[i][2])}
  IN  CASE held = {} /\ n < Len(cases) -> Call(<<To(cases[n + 1], v)>>)
        [] held = {} /\ n = Len(cases) -> Call(<<To(r.of.default, v)>>)
        [] n # 0 /\ held = {n} -> Call(<<To(r.of.dos[n], v)>>)
        [] OTHER -> Settle(Last(got))

\* resolveEntity.  A failure leads to the error reducer and the check of what it
\* makes, whose own failure is the entity's.
Failures(got) == {i \in DOMAIN got : IsError(got[i])}
StagesOf(e, got) ==
  LET failed == Min(Failures(got))
  IN  IF Failures(got) = {} THEN e.stages
      ELSE [i \in 1 .. failed + Len(e.error) |->
              IF i <= failed THEN e.stages[i] ELSE e.error[i - failed]]

\* The value that the next stage gets.
FaultyCurrent(stages, v, got) ==              \* what a type check returns is the value
  IF got = <<>> THEN v
  ELSE IF IsOk(Last(got)) THEN Last(got)[2]
  ELSE Failure(Last(got)[2])
Current(stages, v, got) ==
  LET made == {i \in DOMAIN got : IsError(got[i]) \/ ~stages[i].keeps}
  IN  IF made = {} THEN v
      ELSE IF IsOk(got[Max(made)]) THEN got[Max(made)][2]
      ELSE Failure(got[Max(made)][2])

ResolveEntity(r, v, got) ==
  LET stages == StagesOf(r.of, got)
      n == Len(got)
  IN  IF n < Len(stages) /\ Cardinality(Failures(got)) < 2
        THEN Call(<<To(stages[n + 1].reducer, Current(stages, v, got))>>)
        ELSE Settle(IF n # 0 /\ IsError(Last(got)) THEN Last(got)
                    ELSE Ok(Current(stages, v, got)))

\* resolve of BaseEntity.  An item that is skipped stands for itself in the array
\* given to Promise.all.
Skipped(r, v) == r.of.hasEmptyConditional /\ v \in {Undefined, Null, False}
Once(r) == Source("entity", Entity[r.of.id])
BaseResolve(r, v, got) ==
  IF ~Known(r) THEN Settle(Throws("InvalidId"))
  ELSE IF Skipped(r, v) THEN Settle(Ok(v))
  ELSE IF ~r.of.asCollection THEN PromiseAll(<<To(Once(r), v)>>, got, Last(got))
  ELSE IF ~IsArray(v) THEN Settle(Ok(Undefined))
  ELSE PromiseAll([i \in DOMAIN v[2] |->
                     IF Skipped(r, v[2][i]) THEN To(Constant(v[2][i]), v[2][i])
                     ELSE To(Once(r), v[2][i])],
                  got, Ok(Array(Values(got))))

-----------------------------------------------------------------------------
(* resolveReducer *)

Resolve(r, v, got) ==
  CASE r.type = "ReducerList" -> ListResolve(r, v, got)
    [] r.type = "ReducerObject" -> ObjectResolve(r, v, got)
    [] r.type = "parallel" -> ParallelResolve(r, v, got)
    [] r.type = "map" -> MapResolve(r, v, got)
    [] r.type = "filter" -> FilterResolve(r, v, got)
    [] r.type = "find" -> FindResolve(r, v, got)
    [] r.type = "assign" -> AssignResolve(r, v, got)
    [] r.type = "control" -> ControlResolve(r, v, got)
    [] r.type \in {"entity id", "entity instance"} -> BaseResolve(r, v, got)
    [] r.type = "entity" -> ResolveEntity(r, v, got)
    [] r.type = "request" -> RequestResolve(r, v, got)
    [] OTHER -> Settle(Simple(r, v))

-----------------------------------------------------------------------------
(* Tasks *)

Task(call) ==
  [reducer |-> call.reducer, value |-> call.value, calls |-> 0, result |-> Pending]

\* The tasks after each task p in DOMAIN next has made the calls next[p].
FaultyCalling(tasks, next) ==                 \* numbers the calls from 0
  LET new == UNION {{Append(p, tasks[p].calls + i - 1) : i \in DOMAIN next[p]} :
                      p \in DOMAIN next}
  IN  [q \in DOMAIN tasks \cup new |->
         CASE q \notin DOMAIN tasks -> Task(next[Front(q)][Last(q) - tasks[Front(q)].calls + 1])
           [] q \in DOMAIN next -> [tasks[q] EXCEPT !.calls = @ + Len(next[q])]
           [] OTHER -> tasks[q]]
Calling(tasks, next) ==
  LET new == UNION {{Append(p, tasks[p].calls + i) : i \in DOMAIN next[p]} : p \in DOMAIN next}
  IN  [q \in DOMAIN tasks \cup new |->
         CASE q \notin DOMAIN tasks -> Task(next[Front(q)][Last(q) - tasks[Front(q)].calls])
           [] q \in DOMAIN next -> [tasks[q] EXCEPT !.calls = @ + Len(next[q])]
           [] OTHER -> tasks[q]]

\* A call runs up to its first await: it makes its own first calls at once, which do
\* the same.  (Sets of one bind what TLC would evaluate again at each use.)
Unbegun(tasks) == {p \in DOMAIN tasks : tasks[p].calls = 0 /\ tasks[p].result = Pending}
FirstCalls(tasks) ==
  [p \in Unbegun(tasks) |-> Resolve(tasks[p].reducer, tasks[p].value, <<>>).calls]
Begin(tasks) == {Calling(tasks, next) : next \in {FirstCalls(tasks)}}
Begun(tasks) ==
  LET deeper[n \in 0 .. Depth] ==
        IF n = 0 THEN {tasks} ELSE UNION {Begin(begun) : begun \in deeper[n - 1]}
  IN  deeper[Depth]

\* The outcomes of the calls of a task, in the order in which it made them.
Got(tasks, p) == [i \in 1 .. tasks[p].calls |-> tasks[Append(p, i)].result]

\* The default replaces a missing result, not a failure.
WithDefaultOf(r, outcome) ==
  IF "default" \in DOMAIN r /\ IsOk(outcome) /\ Falsy(outcome[2]) THEN Ok(r.default)
  ELSE outcome

\* resolveEntity awaits inside a try block; anywhere else a failure goes up.
Catches(r) == r.type = "entity"

Accepts(r, outcome) == IsOk(outcome) \/ (Catches(r) /\ IsError(outcome))

\* All that a task waits for has settled: it goes on, or settles itself.
Resume(p) ==
  /\ task[p].result = Pending
  /\ \E got \in {Got(task, p)}, r \in {task[p].reducer} :
       /\ \A i \in DOMAIN got : Accepts(r, got[i])
       /\ \E next \in {Resolve(r, task[p].value, got)} :
            IF next.result = Pending THEN task' \in Begun(Calling(task, [q \in {p} |-> next.calls]))
            ELSE task' = [task EXCEPT ![p].result = WithDefaultOf(r, next.result)]
  /\ UNCHANGED <<chosen, input>>

\* The first failure that arrives is that of the task.  The calls next to it go
\* on, with nobody to wait for them.
FaultyReject(p) ==                            \* Promise.race for Promise.all
  /\ task[p].result = Pending
  /\ ~Catches(task[p].reducer)
  /\ \E i \in 1 .. task[p].calls :
       /\ Got(task, p)[i] # Pending
       /\ task' = [task EXCEPT ![p].result = Got(task, p)[i]]
  /\ UNCHANGED <<chosen, input>>
Reject(p) ==
  /\ task[p].result = Pending
  /\ ~Catches(task[p].reducer)
  /\ \E i \in Failures(Got(task, p)) :
       task' = [task EXCEPT ![p].result = Got(task, p)[i]]
  /\ UNCHANGED <<chosen, input>>

Init ==
  /\ chosen \in DOMAIN Roots
  /\ input \in Inputs
  /\ task \in Begun([p \in {<<>>} |-> Task(To(Roots[chosen], input))])

Next == \E p \in DOMAIN task : Resume(p) \/ Reject(p)

Spec == Init /\ [][Next]_vars

\* Function reducers settle, and the event loop runs what waits for them.
FairSpec == Spec /\ WF_vars(Next)

-----------------------------------------------------------------------------
(* Properties *)

\* The tasks make a tree, in which the calls of each are numbered from 1, without gaps.
TypeOK ==
  /\ chosen \in DOMAIN Roots
  /\ input \in Inputs
  /\ DOMAIN task \subseteq Seq(Nat \ {0})
  /\ <<>> \in DOMAIN task
  /\ \A p \in DOMAIN task :
       /\ task[p].calls \in Nat
       /\ task[p].result[1] \in {"pending", "ok", "throws"}
       /\ \A i \in 1 .. task[p].calls : Append(p, i) \in DOMAIN task
       /\ p # <<>> => /\ Front(p) \in DOMAIN task
                      /\ Last(p) \in 1 .. task[Front(p)].calls

\* Lists, find, assign, control, requests and the stages of an entity make one
\* call at a time: a later one starts when that before it has settled (its side effects
\* are done), and none starts after one that has failed uncaught.
Sequential(r) ==
  r.type \in {"ReducerList", "find", "assign", "control", "entity", "request"}
InTurn ==
  \A p \in DOMAIN task : Sequential(task[p].reducer) =>
    \A i \in 1 .. task[p].calls - 1 : Accepts(task[p].reducer, Got(task, p)[i])

\* find tries no item after the first that matches, and a control entity
\* evaluates no case after the first that holds: it makes one more call, of do.
NoNeedlessCalls ==
  \A p \in DOMAIN task :
    LET got == Got(task, p)
        r == task[p].reducer
    IN  /\ r.type = "find" =>
             \A i \in 1 .. Len(got) - 1 : ~(IsOk(got[i]) /\ PredicateIsTruthy(r.of, got[i][2]))
        /\ r.type = "control" =>
             \A i \in DOMAIN got \cap DOMAIN r.of.cases :
               IsOk(got[i]) /\ Truthy(got[i][2]) =>
                 Len(got) <= i + 1 /\ (Len(got) = i + 1 =>
                                         task[Append(p, i + 1)].reducer = r.of.dos[i])

\* Promise.all: a task that has settled while one of its calls is under way has
\* the failure of another call as its result.  So a resolution without any failure
\* leaves nothing running.
AbandonedOnlyByFailure ==
  \A p \in DOMAIN task :
    LET got == Got(task, p) IN
    task[p].result # Pending /\ (\E i \in DOMAIN got : got[i] = Pending) =>
      IsError(task[p].result) /\ \E i \in DOMAIN got : got[i] = task[p].result

\* Every call settles, also those that nobody waits for after a failure.
Settles == <>(\A p \in DOMAIN task : task[p].result # Pending)
=============================================================================
