--------------------------- MODULE DataPointCore ---------------------------
(***************************************************************************)
(* The DataPoint instance (core.js of data-point): its stores of entity    *)
(* types, entities and values, the normalisation of the specs it is given  *)
(* (normalize-entities.js), and the transforms that read the stores while  *)
(* the application goes on changing them (transform.js).                   *)
(*                                                                         *)
(* A call of addEntities runs to its end without a pause; the model takes  *)
(* it in steps, one for each store.add, and lets nothing else happen       *)
(* between them.  Of an entity spec the model knows its key, "id" or       *)
(* "id -> parent", its type, and the select array of a control entity: an  *)
(* object of the caller, that its factory takes the case statements from.  *)
(***************************************************************************)
EXTENDS Naturals, Sequences, FiniteSets, Functions

CONSTANTS
  Id,            \* entity ids
  Select,        \* select arrays in the specs of the application
  FirstBatches,  \* options of create: entities, sequences of Items,
  OwnTypes,      \*   entity types,
  FirstValues,   \*   and values
  Batches,       \* arguments of addEntities: sequences of Items
  Request        \* concurrent transforms

VARIABLES
  manager,   \* the DataPoint instance
  types,     \* [TypeName -> who made the factory] the store of entity types
  entities,  \* [Id -> entity] the store of entities
  whole,     \* the select arrays that still hold their case statements
  values,    \* the store of values
  adding,    \* the call of addEntities under way
  call       \* [Request -> transform]

coreVars == <<manager, types, entities, whole, values, adding, call>>

None == "none"
TypeName == {"model", "control", "custom"}
Items == [id : Id, parent : Id \cup {None, "elsewhere"}, type : TypeName, select : Select \cup {None}]

ASSUME CoreAssumption ==
  /\ Batches \cup FirstBatches \subseteq Seq(Items)
  /\ OwnTypes \subseteq SUBSET TypeName
  /\ {None, "elsewhere", "missing", "circle"} \cap Id = {}
  /\ None \notin Select

\* Two paths of the store of values: p, and p.q inside it.
Values ==
  {v \in [p : {None, "falsy", "truthy", "object"}, q : {None, "falsy", "truthy"}] :
     v.q # None => v.p = "object"}
NoValues == [p |-> None, q |-> None]
ASSUME ValuesAssumption == FirstValues \subseteq Values

Makers == {"built in", "own"}
Entities == [type : TypeName, madeBy : Makers, select : Select \cup {None}, cases : BOOLEAN]
NoEntity == [type |-> None, madeBy |-> None, select |-> None, cases |-> FALSE]

Errors == {"missing", "circle", "exists", "factory"}
NotAdding == [busy |-> FALSE, source |-> <<>>, specs |-> <<>>, error |-> None]
Adding == adding.busy

\* A transform reads the store of values, or, cleared meanwhile, the one before it.
Calls == [stage : {"running", "failing"}, cleared : BOOLEAN, values : Values]
NoCall == [stage |-> "idle", cleared |-> FALSE, values |-> NoValues]

CoreTypeOK ==
  /\ manager \in {None, "creating", "ready", "failed"}
  /\ types \in [TypeName -> Makers \cup {None}]
  /\ entities \in [Id -> Entities \cup {NoEntity}]
  /\ whole \subseteq Select
  /\ values \in Values
  /\ adding.busy \in BOOLEAN
  /\ adding.source \in Batches \cup FirstBatches \cup {<<>>}
  /\ adding.specs \in Seq(Items)
  /\ adding.error \in Errors \cup {None}
  /\ call \in [Request -> Calls \cup {NoCall}]

CoreInit ==
  /\ manager = None
  /\ types = [t \in TypeName |-> None]
  /\ entities = [x \in Id |-> NoEntity]
  /\ whole = Select
  /\ values = NoValues
  /\ adding = NotAdding
  /\ call = [r \in Request |-> NoCall]

-----------------------------------------------------------------------------
(* normalize-entities.js *)

\* normalizeEntitySpecs: of two keys with the same id the later spec counts, in
\* the place of the first.
Places(b) == {i \in DOMAIN b : \A j \in DOMAIN b : j < i => b[j].id # b[i].id}
Latest(b, x) == b[CHOOSE i \in DOMAIN b : b[i].id = x /\ \A j \in DOMAIN b : j > i => b[j].id # x]
normalizeEntitySpecs(b) == [x \in {b[i].id : i \in DOMAIN b} |-> Latest(b, x)]

\* getParentSpec: parents are looked for among the specs of the same call.
getParentSpec(specs, x) ==
  IF specs[x].parent = None \/ specs[x].parent \in DOMAIN specs THEN specs[x].parent ELSE "missing"

FaultyAbove(specs, x, w) ==      \* a circle ends the walk like the top of a chain
  IF w.parent \notin DOMAIN specs THEN w
  ELSE IF w.parent = x \/ w.parent \in Range(w.ancestors) THEN [w EXCEPT !.parent = None]
  ELSE [ancestors |-> Append(w.ancestors, w.parent), parent |-> getParentSpec(specs, w.parent)]
\* The loop of getAncestors: the walk has come to w, or has ended there.
Above(specs, x, w) ==
  IF w.parent \notin DOMAIN specs THEN w
  ELSE IF w.parent = x \/ w.parent \in Range(w.ancestors) THEN [w EXCEPT !.parent = "circle"]
  ELSE [ancestors |-> Append(w.ancestors, w.parent), parent |-> getParentSpec(specs, w.parent)]

\* getAncestors: the nearest first.  The walk ends above the last ancestor, with
\* parent "none", or with what it throws.
getAncestors(specs, x) ==
  LET walk[n \in 0 .. Cardinality(DOMAIN specs)] ==
        IF n = 0 THEN [ancestors |-> <<>>, parent |-> getParentSpec(specs, x)]
        ELSE Above(specs, x, walk[n - 1])
  IN  walk[Cardinality(DOMAIN specs)]

\* extendSpec: the properties of the ancestors under its own, the farthest first: so
\* the select is its own, or that of the nearest that has one.
extendSpec(specs, x) ==
  LET ancestors == getAncestors(specs, x).ancestors
      with == {k \in DOMAIN ancestors : specs[ancestors[k]].select # None}
      nearest == CHOOSE k \in with : \A l \in with : k <= l
  IN  IF specs[x].select # None \/ with = {} THEN specs[x]
      ELSE [specs[x] EXCEPT !.select = specs[ancestors[nearest]].select]

\* The members of a finite set as a sequence, each after those that are before it.
InOrder(S, Before(_, _)) ==
  [k \in 1 .. Cardinality(S) |->
     CHOOSE i \in S : Cardinality({j \in S : Before(j, i)}) = k - 1]

\* normalize (the router has one too): the specs to add in the order of their keys,
\* or what it throws at the first that cannot be extended.
normalizeSpecs(b) ==
  LET specs == normalizeEntitySpecs(b)
      end(i) == getAncestors(specs, b[i].id).parent
      bad == {i \in Places(b) : end(i) # None}
      keys == InOrder(Places(b), LAMBDA i, j : i < j)
  IN  IF bad = {}
        THEN [specs |-> [k \in DOMAIN keys |-> extendSpec(specs, b[keys[k]].id)], error |-> None]
        ELSE [specs |-> <<>>, error |-> end(CHOOSE i \in bad : \A j \in bad : i <= j)]

-----------------------------------------------------------------------------
(* The stores *)

Normalized == [b \in Batches \cup FirstBatches |-> normalizeSpecs(b)]
addEntities(b) ==
  adding' = [busy |-> TRUE, source |-> b, specs |-> Normalized[b].specs, error |-> Normalized[b].error]

\* create: the built-in types, the values and types of the options, and last the
\* entities.
Create(b, v, own) ==
  /\ manager = None
  /\ manager' = "creating"
  /\ types' = [t \in TypeName |->
                 IF t \in own THEN "own" ELSE IF t = "custom" THEN None ELSE "built in"]
  /\ values' = v
  /\ addEntities(b)
  /\ UNCHANGED <<entities, whole, call>>

AddEntities(b) ==
  /\ manager = "ready" /\ ~Adding
  /\ addEntities(b)
  /\ UNCHANGED <<manager, types, entities, whole, values, call>>

\* createEntity, through the factory of the type: a control entity needs a select
\* (its default statement), and takes the case statements out of it.
FaultyCreatable(item) ==         \* the factory is not looked for
  item.type = "control" => item.select # None
Creatable(item) == types[item.type] # None /\ (item.type = "control" => item.select # None)
createEntity(item) ==
  [type |-> item.type, madeBy |-> types[item.type], select |-> item.select,
   cases |-> item.type = "control" /\ item.select \in whole]

FaultyAddEntity ==               \* add replaces what exists
  /\ adding.specs # <<>> /\ adding.error = None
  /\ LET item == Head(adding.specs) IN
       IF ~Creatable(item)
         THEN adding' = [adding EXCEPT !.error = "factory"] /\ UNCHANGED <<entities, whole>>
         ELSE /\ entities' = [entities EXCEPT ![item.id] = createEntity(item)]
              /\ whole' = IF item.type = "control" THEN whole \ {item.select} ELSE whole
              /\ adding' = [adding EXCEPT !.specs = Tail(@)]
  /\ UNCHANGED <<manager, types, values, call>>
\* store.add of one entity.  What was added before an error stays.
AddEntity ==
  /\ adding.specs # <<>> /\ adding.error = None
  /\ LET item == Head(adding.specs)
         fails(e) == adding' = [adding EXCEPT !.error = e] /\ UNCHANGED <<entities, whole>>
     IN  IF entities[item.id] # NoEntity THEN fails("exists")
         ELSE IF ~Creatable(item) THEN fails("factory")
         ELSE /\ entities' = [entities EXCEPT ![item.id] = createEntity(item)]
              /\ whole' = IF item.type = "control" THEN whole \ {item.select} ELSE whole
              /\ adding' = [adding EXCEPT !.specs = Tail(@)]
  /\ UNCHANGED <<manager, types, values, call>>

\* addEntities returns or throws, and so does create around it.
Created(ok) == manager' = IF manager # "creating" THEN manager ELSE IF ok THEN "ready" ELSE "failed"
AddEntitiesEnds ==
  /\ Adding /\ (adding.specs = <<>> \/ adding.error # None)
  /\ Created(adding.error = None)
  /\ adding' = NotAdding
  /\ UNCHANGED <<types, entities, whole, values, call>>

ClearEntities ==
  /\ manager = "ready" /\ ~Adding
  /\ entities' = [x \in Id |-> NoEntity]
  /\ UNCHANGED <<manager, types, whole, values, adding, call>>

\* addEntityType, addEntityTypes; without override it throws for a type that exists.
AddEntityType(t, override) ==
  /\ manager = "ready" /\ ~Adding
  /\ types[t] = None \/ override
  /\ types' = [types EXCEPT ![t] = "own"]
  /\ UNCHANGED <<manager, entities, whole, values, adding, call>>

\* addValue: without override it throws for a path that holds a truthy value.  A scalar
\* at p makes way for an object when p.q is set, whatever it is.
At(v, path) == IF path = "p" THEN v.p ELSE v.q
Put(v, path, value) ==
  IF path = "p" THEN [p |-> value, q |-> None] ELSE [p |-> "object", q |-> value]
AddValue(path, value, override) ==
  /\ manager = "ready" /\ ~Adding
  /\ override \/ At(values, path) \in {None, "falsy"}
  /\ values' = Put(values, path, value)
  /\ UNCHANGED <<manager, types, entities, whole, adding, call>>

\* values.clear puts a new object in the place of the old one: the transforms
\* under way keep the old one.
FaultyClearValues ==             \* the object itself is emptied
  /\ manager = "ready" /\ ~Adding
  /\ values' = NoValues
  /\ UNCHANGED <<manager, types, entities, whole, adding, call>>
ClearValues ==
  /\ manager = "ready" /\ ~Adding
  /\ values' = NoValues
  /\ call' = [r \in Request |-> IF call[r].stage # "idle" /\ ~call[r].cleared
                                  THEN [call[r] EXCEPT !.cleared = TRUE, !.values = values]
                                  ELSE call[r]]
  /\ UNCHANGED <<manager, types, entities, whole, adding>>

-----------------------------------------------------------------------------
(* transform.js *)

registryVars == <<manager, types, entities, whole, values, adding>>
Underway(r) == call[r].stage # "idle"

\* transform of the entity x, up to its first pause: the store is looked up.
Transform(r, x) ==
  /\ manager = "ready" /\ ~Adding /\ ~Underway(r)
  /\ call' = [call EXCEPT ![r].stage = IF entities[x] = NoEntity THEN "failing" ELSE "running"]
  /\ UNCHANGED registryVars

\* Its reducers look up further entities, at any later time.
LookUp(r, x) ==
  /\ ~Adding /\ call[r].stage = "running" /\ entities[x] = NoEntity
  /\ call' = [call EXCEPT ![r].stage = "failing"]
  /\ UNCHANGED registryVars

\* Its promise settles.
Ends(r) ==
  /\ ~Adding /\ Underway(r)
  /\ call' = [call EXCEPT ![r] = NoCall]
  /\ UNCHANGED registryVars

-----------------------------------------------------------------------------
Paths == {"p", "q"}
Scalars == {"falsy", "truthy"}

RegistryStep ==
  \/ AddEntity \/ AddEntitiesEnds
ChangeEntities == ClearEntities \/ \E b \in Batches : AddEntities(b)
ChangeTypes == \E t \in TypeName, override \in BOOLEAN : AddEntityType(t, override)
ChangeValues ==
  ClearValues
  \/ \E path \in Paths, v \in Scalars, override \in BOOLEAN : AddValue(path, v, override)
CallStep(r) ==
  \/ Ends(r)
  \/ \E x \in Id : Transform(r, x) \/ LookUp(r, x)

CoreNext ==
  \/ \E b \in FirstBatches, v \in FirstValues, own \in OwnTypes : Create(b, v, own)
  \/ RegistryStep \/ ChangeEntities \/ ChangeTypes \/ ChangeValues
  \/ \E r \in Request : CallStep(r)

CoreSpec == CoreInit /\ [][CoreNext]_coreVars

-----------------------------------------------------------------------------
(* Properties *)

\* The batch that is being added, read without getAncestors: what a key extends
\* is the least set that holds its parent and the parents of its members.
Extends(b, x) ==
  LET specs == normalizeEntitySpecs(b)
      Closed(s) == \A y \in s \cup {x} : specs[y].parent \in DOMAIN specs => specs[y].parent \in s
  IN  {y \in DOMAIN specs : \A s \in SUBSET DOMAIN specs : Closed(s) => y \in s}
Sound(b) ==
  LET specs == normalizeEntitySpecs(b)
  IN  \A x \in DOMAIN specs :
        /\ x \notin Extends(b, x)
        /\ specs[x].parent \in DOMAIN specs \cup {None}
Inherits(b, x) ==
  LET specs == normalizeEntitySpecs(b)
      with == {y \in {x} \cup Extends(b, x) : specs[y].select # None}
  IN  IF with = {} THEN None
      ELSE specs[CHOOSE y \in with : with \subseteq {y} \cup Extends(b, y)].select

\* addEntities refuses exactly the batches in which an entity extends itself, by
\* however many steps, or one that is not there, and then adds nothing; in the
\* others every entity has the select of the nearest spec above it that has one.
ExtensionRight ==
  /\ adding.error \in {"missing", "circle"} => ~Sound(adding.source) /\ adding.specs = <<>>
  /\ adding.error \notin {"missing", "circle"} /\ Adding =>
       /\ Sound(adding.source)
       /\ \A i \in DOMAIN adding.specs :
            adding.specs[i].select = Inherits(adding.source, adding.specs[i].id)

\* Only clear takes an entity out of the store, and nothing replaces one: a batch
\* that fails half way, is added again, or overlaps with an earlier one leaves what
\* is there as it was, and so does a new factory for its type.
EntitiesStay ==
  [][~ClearEntities => \A x \in Id : entities[x] # NoEntity => entities'[x] = entities[x]]_coreVars

\* A control entity has the case statements of its select, its own or the one of a
\* spec it extends: extending an entity "only overrides the first level of enumerable
\* properties from base entity to target" (README of data-point, "Extending Entities").
ControlsKeepCases == \A x \in Id : entities[x].type = "control" => entities[x].cases

\* A truthy value below a path stays as it is for a transform that can read it, until
\* the transform ends: whatever is added without override, at its path or at one above
\* it, and even if the store is cleared, after which not even an override takes it
\* away.  (A scalar has no such protection: see AddValue.)
Readable(r) == IF call[r].cleared THEN call[r].values ELSE values
Overrides == \E path \in Paths, v \in Scalars : AddValue(path, v, TRUE)
ValuesStay ==
  [][\A r \in Request : Underway(r) /\ Underway(r)' /\ Readable(r).q = "truthy"
       => \/ Readable(r)'.q = "truthy"
          \/ Overrides /\ ~call[r].cleared]_coreVars
=============================================================================
