--------------------------- MODULE ReducerFactory ---------------------------
(***************************************************************************)
(* What a user of data-point writes (sources) and what createReducer and   *)
(* the entity factories make of it (reducers and entities).  A source is a *)
(* record [type, of], like a reducer.                                      *)
(***************************************************************************)
EXTENDS ReducerValues

-----------------------------------------------------------------------------
\* Sources.  The items of an object are pairs <<key, source>>.
Fn(f) == Source("function", f)
Path(key) == Source("path", key)           \* "$key", and "$" for the value itself
PathItems(key) == Source("path[]", key)
List(sources) == Source("list", sources)   \* an array, or text with " | "
Obj(items) == Source("plain object", items)
MapOf(s) == Stub("map", s)
FilterBy(s) == Stub("filter", s)
FindBy(s) == Stub("find", s)
AssignOf(s) == Stub("assign", s)
PickKeys(keys) == Stub("pick", keys)
OmitKeys(keys) == Stub("omit", keys)
ParallelOf(sources) == Stub("parallel", sources)
WithDefault(s, v) == Stub("withDefault", [source |-> s, value |-> v])
\* "type:name", "?type:name" and "type:name[]".
EntityId(id, conditional, collection) ==
  Source("entity id", [id |-> id, hasEmptyConditional |-> conditional,
                       asCollection |-> collection])
\* What the entity factory returned, for an entity that need not be registered.
EntityInstance(id) ==
  Source("entity instance", [id |-> id, hasEmptyConditional |-> FALSE,
                             asCollection |-> FALSE])

-----------------------------------------------------------------------------
\* A list that stands in a list is flattened into it, one level at a time.
Flattened(sources) ==
  FlattenSeq([i \in DOMAIN sources |->
                IF sources[i].type = "list" THEN sources[i].of ELSE <<sources[i]>>])

\* normalizeInput: a list of one is that one.
Normalized(s) ==
  IF s.type # "list" THEN s
  ELSE LET items == Flattened(s.of) IN IF Len(items) = 1 THEN items[1] ELSE List(items)

RECURSIVE Create(_)
CreateAll(sources) == [i \in DOMAIN sources |-> Create(sources[i])]

\* The leaves of nested plain objects, with their paths: getProps.
RECURSIVE Leaves(_, _)
Leaves(items, stack) ==
  FlattenSeq([i \in DOMAIN items |->
    LET path == Append(stack, items[i][1])
        s == items[i][2]
    IN  IF s.type = "plain object" THEN Leaves(s.of, path)
        ELSE <<[path |-> path, reducer |-> Create(s)]>>])

\* The constants are set once, and cloned for each resolution.
CreateObject(items) ==
  LET leaves == Leaves(items, <<>>)
      IsConstant(leaf) == leaf.reducer.type = "constant"
  IN  [constants |-> FoldLeft(LAMBDA entries, leaf : SetIn(entries, leaf.path, leaf.reducer.of),
                              NoEntries, SelectSeq(leaves, IsConstant)),
       reducers |-> SelectSeq(leaves, LAMBDA leaf : ~IsConstant(leaf))]

\* A default is set on the new reducer, which stays as it is if it has one.
CreateDefault(s) ==
  LET reducer == Create(s.of.source)
  IN  IF "default" \in DOMAIN reducer THEN reducer
      ELSE reducer @@ ("default" :> s.of.value)

\* createReducer: the type of the source decides, after normalizeInput.
CreateByType(s) ==
  CASE s.type = "list" -> Source("ReducerList", CreateAll(Flattened(s.of)))
    [] s.type = "plain object" -> Source("ReducerObject", CreateObject(s.of))
    [] s.type = "parallel" -> Source(s.type, CreateAll(s.of))
    [] s.type \in {"map", "filter", "find", "assign"} -> Source(s.type, Create(s.of))
    [] s.type = "withDefault" -> CreateDefault(s)
    [] OTHER -> s

Create(s) == CreateByType(Normalized(s))

-----------------------------------------------------------------------------
(* Entities.  A spec has inputType, before, value, after, outputType and     *)
(* error, each a sequence of no source or one; and compose, a sequence of    *)
(* pairs <<modifier, argument>>, or the select of a control entity.  A       *)
(* request has a url, <<>> or <<base>> or <<base, path>> for "base{path}",   *)
(* options, and inspect; a schema entity has the name of its schema.         *)

TypeCheck(type) == Source("type check", type)

\* getTypeCheckSourceWithDefault puts the type of the kind before the spec's.
OutputType(spec) ==
  CASE spec.kind = "collection" -> <<List(<<TypeCheck("array")>> \o spec.outputType)>>
    [] spec.kind = "hash" -> <<List(<<TypeCheck("object")>> \o spec.outputType)>>
    [] OTHER -> spec.outputType

CollectionModifier(modifier) ==
  CASE modifier[1] = "filter" -> FilterBy(modifier[2])
    [] modifier[1] = "map" -> MapOf(modifier[2])
    [] modifier[1] = "find" -> FindBy(modifier[2])

\* mapKeys takes its argument as it is.
HashModifier(modifier) ==
  CASE modifier[1] = "omitKeys" -> OmitKeys(modifier[2])
    [] modifier[1] = "pickKeys" -> PickKeys(modifier[2])
    [] modifier[1] = "mapKeys" -> modifier[2]
    [] modifier[1] = "addValues" -> AssignOf(Constant(modifier[2]))
    [] modifier[1] = "addKeys" -> AssignOf(modifier[2])

\* The modifiers become one list, in the order of compose; without any,
\* entity.resolve passes the value on.
CreateCompose(spec) ==
  LET modifiers == [i \in DOMAIN spec.compose |->
                      IF spec.kind = "collection" THEN CollectionModifier(spec.compose[i])
                      ELSE HashModifier(spec.compose[i])]
  IN  IF modifiers = <<>> THEN <<>> ELSE <<Create(List(modifiers))>>

\* parseSwitch: the cases in their order, and the default.
CreateControl(select) ==
  Source("control", [cases |-> [i \in DOMAIN select.cases |-> Create(select.cases[i][1])],
                     dos |-> [i \in DOMAIN select.cases |-> Create(select.cases[i][2])],
                     default |-> Create(select.default)])

\* Without options, a reducer that makes an empty object.
defaultOptions == Constant(Object(NoEntries))
CreateRequest(spec) ==
  Source("request", [url |-> spec.url, inspect |-> spec.inspect,
                     options |-> Create(IF spec.options = <<>> THEN defaultOptions
                                        ELSE spec.options[1])])

\* The schema is one that ajv accepts: another makes the factory throw.
CreateSchema(spec) == Source("schema", spec.schema)

\* The stages of resolveEntity, in their order.  A type check is awaited for its
\* failure only: the value stays.
Keeps(s) == [reducer |-> s, keeps |-> TRUE]
Makes(s) == [reducer |-> s, keeps |-> FALSE]
Kept(sources) == [i \in DOMAIN sources |-> Keeps(Create(sources[i]))]
Made(sources) == [i \in DOMAIN sources |-> Makes(Create(sources[i]))]
Resolves(spec) ==
  CASE spec.kind = "control" -> <<Makes(CreateControl(spec.select))>>
    [] spec.kind = "entry" -> <<Makes(Source("entry", "defaultTo"))>>
    [] spec.kind = "request" -> <<Makes(CreateRequest(spec))>>
    [] spec.kind = "schema" -> <<Makes(CreateSchema(spec))>>
    [] OTHER -> [i \in DOMAIN CreateCompose(spec) |-> Makes(CreateCompose(spec)[i])]

CreateEntity(spec) ==
  [stages |-> Kept(spec.inputType) \o Made(spec.before) \o Made(spec.value)
                \o Resolves(spec) \o Made(spec.after) \o Kept(OutputType(spec)),
   error |-> IF spec.error = <<>> THEN <<>>
             ELSE Made(spec.error) \o Kept(OutputType(spec))]
=============================================================================
