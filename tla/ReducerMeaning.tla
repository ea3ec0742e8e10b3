--------------------------- MODULE ReducerMeaning ---------------------------
(***************************************************************************)
(* What a source means, after the README of data-point and without regard  *)
(* to tasks or their order: the outcomes it may have on a value.  There    *)
(* is more than one only where several parts fail together.                *)
(***************************************************************************)
EXTENDS ReducerRules, ReducerFactory

CONSTANT
  Specs         \* what the entities are made of: id -> spec

ASSUME SourcesAssumption ==
  /\ Roots = CreateAll(Sources)
  /\ Entity = [id \in DOMAIN Specs |-> CreateEntity(Specs[id])]

\* The parts of an object: what each leaf of the nested objects means.
RECURSIVE Parts(_, _)
Parts(items, stack) ==
  FlattenSeq([i \in DOMAIN items |->
    IF items[i][2].type = "plain object" THEN Parts(items[i][2].of, Append(stack, items[i][1]))
    ELSE <<[path |-> Append(stack, items[i][1]), source |-> items[i][2]]>>])

Missing(v) == v \in {Undefined, Null, Blank, EmptyText}

\* A predicate that ends in an object holds when all the values of the object do.
RECURSIVE EndsInObject(_)
EndsInObject(s) ==
  \/ s.type = "plain object"
  \/ s.type = "list" /\ s.of # <<>> /\ EndsInObject(Last(s.of))
Holds(s, v) ==
  IF EndsInObject(s)
    THEN /\ Entries(v) # NoEntries
         /\ \A key \in DOMAIN Entries(v) : ~Missing(v[2][key])
    ELSE Truthy(v)

\* What a list of several is applied to.
NullIfUndefined(s, v) == IF v = Undefined /\ Len(s.of) > 1 THEN Null ELSE v

RECURSIVE Means(_, _), Chain(_, _), First(_, _), Select(_, _), Modifiers(_, _, _)

\* One after the other, each on what the one before has made.
Chain(sources, v) ==
  IF sources = <<>> THEN {Ok(v)}
  ELSE Then(IF Head(sources).type = "list" THEN Chain(Head(sources).of, v)
            ELSE Means(Head(sources), v),
            LAMBDA w : Chain(Tail(sources), w))

\* The first item for which the predicate holds; those after it are not tried.
First(s, items) ==
  IF items = <<>> THEN {Ok(Undefined)}
  ELSE Then(Means(s, Head(items)),
            LAMBDA w : IF Holds(s, w) THEN {Ok(Head(items))} ELSE First(s, Tail(items)))

\* What the first case that holds does.
Select(select, v) ==
  IF select.cases = <<>> THEN Means(select.default, v)
  ELSE Then(Means(Head(select.cases)[1], v),
            LAMBDA w : IF Truthy(w) THEN Means(Head(select.cases)[2], v)
                       ELSE Select([select EXCEPT !.cases = Tail(@)], v))

\* A modifier of a collection or of a hash.
Modifies(modifier, v) ==
  LET s == modifier[2] IN
  CASE modifier[1] = "filter" -> Means(FilterBy(s), v)
    [] modifier[1] = "map" -> Means(MapOf(s), v)
    [] modifier[1] = "find" -> Means(FindBy(s), v)
    [] modifier[1] = "mapKeys" -> Means(s, v)
    [] modifier[1] = "addKeys" -> Then(Means(s, v), LAMBDA w : {Ok(Object(Entries(w) @@ Entries(v)))})
    [] modifier[1] = "addValues" -> {Ok(Object(Entries(s) @@ Entries(v)))}
    [] modifier[1] = "pickKeys" -> {Ok(Object(Restricted(Entries(v), s)))}
    [] modifier[1] = "omitKeys" -> {Ok(Object(Restricted(Entries(v), DOMAIN Entries(v) \ s)))}

\* The modifiers of an entity from the i-th on.
Modifiers(spec, i, v) ==
  IF i > Len(spec.compose) THEN {Ok(v)}
  ELSE Then(Modifies(spec.compose[i], v), LAMBDA w : Modifiers(spec, i + 1, w))

\* A request goes to the url of its options, else to its own, else to that which
\* the value is; a base goes before it, and a uri has precedence then.
AnyOf(candidates) ==
  LET good == SelectSeq(candidates, Truthy) IN IF good = <<>> THEN Undefined ELSE good[1]
OwnUrl(spec, v) ==
  IF spec.url = <<>> THEN IF IsText(v) THEN v ELSE Undefined
  ELSE Text(spec.url[1], IF Len(spec.url) = 1 THEN Undefined
                         ELSE IF IsObject(PathOf(spec.url[2], v)) THEN Object(NoEntries)
                         ELSE PathOf(spec.url[2], v))
Requests(spec, v) ==
  Then(IF spec.options = <<>> THEN {Ok(Object(NoEntries))} ELSE Means(spec.options[1], v),
       LAMBDA w :
         LET based == Truthy(Get(w, "baseUrl"))
             url == AnyOf(<<Get(w, "url"), OwnUrl(spec, v)>>)
             address == IF based THEN AnyOf(<<Get(w, "uri"), url>>) ELSE url
             Default(key, x) == IF Get(w, key) = Undefined THEN x ELSE Get(w, key)
             options == [method |-> Default("method", Atom("GET")),
                         json |-> Default("json", Atom("true")),
                         url |-> IF based THEN EmptyText ELSE address]
                          @@ (IF based THEN [uri |-> address] ELSE NoEntries) @@ Entries(w)
         IN  IF Truthy(address) \/ Truthy(Get(w, "uri")) THEN {Answer(Object(options))}
             ELSE {IF spec.inspect = "function" THEN TypeError ELSE Throws("no uri")})

\* A check lets the value through or fails.
Optional(sources, v) == IF sources = <<>> THEN {Ok(v)} ELSE Means(sources[1], v)
Checked(sources, v) == Then(Optional(sources, v), LAMBDA w : {Ok(v)})
HasKind(spec, v) ==
  /\ spec.kind = "collection" => IsArray(v)
  /\ spec.kind = "hash" => IsObject(v)
Typed(spec, v) ==
  IF HasKind(spec, v) THEN Checked(spec.outputType, v) ELSE {Throws("type check")}

Attempt(spec, v) ==
  Then(Checked(spec.inputType, v), LAMBDA v0 :
  Then(Optional(spec.before, v0), LAMBDA v1 :
  Then(Optional(spec.value, v1), LAMBDA v2 :
  Then(CASE spec.kind = "control" -> Select(spec.select, v2)
         [] spec.kind = "entry" -> {Ok(defaultTo(v2, Object(NoEntries)))}
         [] spec.kind = "request" -> Requests(spec, v2)
         [] spec.kind = "schema" -> {IF Valid(spec.schema, v2) THEN Ok(v2)
                                     ELSE Throws("InvalidSchema")}
         [] OTHER -> Modifiers(spec, 1, v2), LAMBDA v3 :
  Then(Optional(spec.after, v3), LAMBDA v4 : Typed(spec, v4))))))

EntityMeans(spec, v) ==
  UNION {IF IsOk(o) \/ spec.error = <<>> THEN {o}
         ELSE Then(Optional(spec.error, Failure(o[2])), LAMBDA w : Typed(spec, w)) :
         o \in Attempt(spec, v)}

\* An entity on one value, or not when the condition skips it.
Applies(of, v) ==
  IF of.hasEmptyConditional /\ v \in {Undefined, Null, False} THEN {Ok(v)}
  ELSE EntityMeans(Specs[of.id], v)

Means(s, v) ==
  CASE s.type = "list" /\ s.of = <<>> -> {Ok(Undefined)}
    [] s.type = "list" /\ s.of # <<>> -> Chain(s.of, NullIfUndefined(s, v))
    [] s.type = "plain object" ->
         LET parts == Parts(s.of, <<>>) IN
         Together([i \in DOMAIN parts |-> Means(parts[i].source, v)],
                  LAMBDA c : Object(FoldLeftDomain(LAMBDA e, i : SetIn(e, parts[i].path, c[i][2]),
                                                   NoEntries, c)))
    [] s.type = "parallel" -> Together([i \in DOMAIN s.of |-> Means(s.of[i], v)], AsArray)
    [] s.type = "map" /\ IsArray(v) ->
         Together([i \in DOMAIN v[2] |-> Means(s.of, v[2][i])], AsArray)
    [] s.type = "filter" /\ IsArray(v) ->
         Together([i \in DOMAIN v[2] |-> Means(s.of, v[2][i])],
                  LAMBDA c : Array(FlattenSeq([i \in DOMAIN c |->
                               IF Holds(s.of, c[i][2]) THEN <<v[2][i]>> ELSE <<>>])))
    [] s.type = "find" /\ v \notin {Undefined, Null} ->
         First(s.of, IF IsArray(v) THEN v[2] ELSE <<>>)
    [] s.type = "assign" -> Modifies(<<"addKeys", s.of>>, v)
    [] s.type = "withDefault" ->
         Then(Means(s.of.source, v), LAMBDA w : {Ok(IF Missing(w) THEN s.of.value ELSE w)})
    [] s.type = "entity instance" -> EntityMeans(Specs[s.of.id], v)
    [] s.type = "entity id" /\ s.of.id \notin Registered -> {Throws("InvalidId")}
    [] s.type = "entity id" /\ s.of.id \in Registered /\ ~s.of.asCollection -> Applies(s.of, v)
    [] s.type = "entity id" /\ s.of.id \in Registered /\ s.of.asCollection ->
         IF IsArray(v) THEN Together([i \in DOMAIN v[2] |-> Applies(s.of, v[2][i])], AsArray)
         ELSE {Ok(IF s.of.hasEmptyConditional /\ v \in {Null, False} THEN v ELSE Undefined)}
    [] s.type = "map" /\ ~IsArray(v) -> {TypeError}
    [] s.type = "find" /\ v \in {Undefined, Null} -> {TypeError}
    [] s.type = "filter" /\ ~IsArray(v) -> {Throws("not an array")}
    [] OTHER -> {Simple(s, v)}
=============================================================================
