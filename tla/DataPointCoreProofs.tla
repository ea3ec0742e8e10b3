------------------------ MODULE DataPointCoreProofs ------------------------
(***************************************************************************)
(* Proofs about DataPointCore: what no call may do to the stores, which    *)
(* does not depend on what the normalisation of a batch makes of it, and   *)
(* that the normalisation extends the specs of a batch as it should.       *)
(***************************************************************************)
EXTENDS DataPointCore, FiniteSetTheorems, Induction

\* q is set only below an object, which only clear removes; a transform needs an
\* instance.
StoreInv ==
  /\ DOMAIN entities = Id
  /\ values \in Values
  /\ call \in [Request -> Calls \cup {NoCall}]
  /\ manager = None => \A r \in Request : ~Underway(r)

LEMMA NoValuesTyped == NoValues \in Values
  BY DEF NoValues, Values, None

LEMMA PutTyped ==
  ASSUME NEW v \in Values, NEW path \in Paths, NEW value \in Scalars
  PROVE  Put(v, path, value) \in Values
<1>1. CASE path = "p" BY <1>1 DEF Put, Values, Scalars, None
<1>2. CASE path = "q" BY <1>2 DEF Put, Values, Scalars, None
<1>3. QED BY <1>1, <1>2 DEF Paths

LEMMA CoreInitHolds == CoreInit => StoreInv
  BY NoValuesTyped DEF CoreInit, StoreInv, Underway, NoCall

LEMMA CoreStepKeeps == StoreInv /\ [CoreNext]_coreVars => StoreInv'
<1> SUFFICES ASSUME StoreInv, [CoreNext]_coreVars PROVE StoreInv'
  OBVIOUS
<1> USE DEF StoreInv, Underway
<1>1. ASSUME NEW b \in FirstBatches, NEW v \in FirstValues, NEW own \in OwnTypes, Create(b, v, own)
      PROVE  StoreInv'
  BY <1>1, ValuesAssumption DEF Create
<1>2. CASE AddEntity
  BY <1>2 DEF AddEntity
<1>3. CASE AddEntitiesEnds
  BY <1>3 DEF AddEntitiesEnds, Created, None
<1>4. CASE ChangeEntities
  BY <1>4 DEF ChangeEntities, ClearEntities, AddEntities
<1>5. CASE ChangeTypes
  BY <1>5 DEF ChangeTypes, AddEntityType
<1>6. CASE ClearValues
  <2>1. values' \in Values
    BY <1>6, NoValuesTyped DEF ClearValues
  <2>2. ASSUME NEW r \in Request PROVE call'[r] \in Calls \cup {NoCall}
    <3>1. CASE call[r].stage # "idle" /\ ~call[r].cleared
      <4>1. call'[r] = [call[r] EXCEPT !.cleared = TRUE, !.values = values]
        BY <1>6, <3>1 DEF ClearValues
      <4>2. call[r] \in Calls
        BY <3>1 DEF NoCall
      <4>3. QED BY <4>1, <4>2 DEF Calls
    <3>2. CASE ~(call[r].stage # "idle" /\ ~call[r].cleared)
      BY <1>6, <3>2 DEF ClearValues
    <3>3. QED BY <3>1, <3>2
  <2>3. call' \in [Request -> Calls \cup {NoCall}]
    BY <1>6, <2>2 DEF ClearValues
  <2>4. manager' # None
    BY <1>6 DEF ClearValues, None
  <2>5. QED BY <1>6, <2>1, <2>3, <2>4 DEF ClearValues
<1>7. ASSUME NEW path \in Paths, NEW v \in Scalars, NEW override \in BOOLEAN,
             AddValue(path, v, override)
      PROVE  StoreInv'
  BY <1>7, PutTyped DEF AddValue
<1>8. ASSUME NEW r \in Request, CallStep(r) PROVE StoreInv'
  <2>1. call' \in [Request -> Calls \cup {NoCall}]
    <3>1. CASE Ends(r)
      BY <3>1 DEF Ends
    <3>2. ASSUME NEW x \in Id, Transform(r, x) \/ LookUp(r, x)
          PROVE  call' \in [Request -> Calls \cup {NoCall}]
      <4>1. PICK s \in {"running", "failing"} : call' = [call EXCEPT ![r].stage = s]
        BY <3>2 DEF Transform, LookUp
      <4>2. call[r] \in [stage : {"running", "failing", "idle"}, cleared : BOOLEAN, values : Values]
        <5>1. CASE call[r] \in Calls
          BY <5>1 DEF Calls
        <5>2. CASE call[r] = NoCall
          BY <5>2, NoValuesTyped DEF NoCall
        <5>3. QED BY <5>1, <5>2
      <4>3. [call[r] EXCEPT !.stage = s] \in Calls
        BY ONLY <4>2, s \in {"running", "failing"} DEF Calls
      <4>4. QED BY <4>1, <4>3
    <3>3. QED BY <1>8, <3>1, <3>2 DEF CallStep
  <2>2. UNCHANGED <<entities, values>>
    BY <1>8 DEF CallStep, Ends, Transform, LookUp, registryVars
  <2>3. manager' = None => \A s \in Request : ~Underway(s)'
    <3>1. CASE Ends(r)
      BY <3>1 DEF Ends, registryVars, Underway, NoCall
    <3>2. ASSUME NEW x \in Id, Transform(r, x) \/ LookUp(r, x) PROVE manager' # None
      BY <3>2 DEF Transform, LookUp, registryVars, Underway, None
    <3>3. QED BY <1>8, <3>1, <3>2 DEF CallStep
  <2>4. QED BY <2>1, <2>2, <2>3
<1>9. CASE UNCHANGED coreVars
  BY <1>9 DEF coreVars, Underway
<1>10. QED
  BY <1>1, <1>2, <1>3, <1>4, <1>5, <1>6, <1>7, <1>8, <1>9 DEF CoreNext, RegistryStep, ChangeValues

LEMMA CoreInductive == CoreSpec => []StoreInv
  BY CoreInitHolds, CoreStepKeeps, PTL DEF CoreSpec

-----------------------------------------------------------------------------
\* Entities and values outside the actions that write them.
LEMMA EntitiesWritten ==
  ASSUME [CoreNext]_coreVars, ~ClearEntities, ~AddEntity
  PROVE  entities' = entities
<1>1. ASSUME NEW r \in Request, CallStep(r) PROVE entities' = entities
  BY <1>1 DEF CallStep, Ends, Transform, LookUp, registryVars
<1>2. QED
  BY <1>1 DEF CoreNext, coreVars, Create, RegistryStep, AddEntitiesEnds, ChangeEntities, AddEntities,
     ChangeTypes, AddEntityType, ChangeValues, ClearValues, AddValue

\* Whatever batches are added, however they fail or overlap, an entity of the store is
\* never replaced, and only clear removes one.
THEOREM EntitiesAreKept == CoreSpec => EntitiesStay
<1>1. StoreInv /\ [CoreNext]_coreVars
        => [~ClearEntities => \A x \in Id : entities[x] # NoEntity => entities'[x] = entities[x]]_coreVars
  <2> SUFFICES ASSUME StoreInv, [CoreNext]_coreVars, ~ClearEntities,
                      NEW x \in Id, entities[x] # NoEntity
               PROVE  entities'[x] = entities[x]
    OBVIOUS
  <2>1. CASE AddEntity
    BY <2>1 DEF AddEntity, StoreInv
  <2>2. CASE ~AddEntity
    BY <2>2, EntitiesWritten
  <2>3. QED BY <2>1, <2>2
<1>2. QED BY <1>1, CoreInductive, PTL DEF CoreSpec, EntitiesStay

-----------------------------------------------------------------------------
LEMMA ReadableKept ==
  ASSUME StoreInv, [CoreNext]_coreVars,
         NEW r \in Request, Underway(r), Underway(r)', Readable(r).q = "truthy",
         ~(Overrides /\ ~call[r].cleared)
  PROVE  Readable(r)'.q = "truthy"
<1>1. ASSUME UNCHANGED <<values, call>> PROVE Readable(r)'.q = "truthy"
  BY <1>1 DEF Readable
<1>2. ASSUME NEW b \in FirstBatches, NEW v \in FirstValues, NEW own \in OwnTypes, Create(b, v, own)
      PROVE  FALSE
  BY <1>2 DEF Create, StoreInv
<1>3. CASE ClearValues
  <2>1. CASE call[r].cleared
    BY <1>3, <2>1 DEF ClearValues, Readable
  <2>2. CASE ~call[r].cleared
    <3>1. call'[r] = [call[r] EXCEPT !.cleared = TRUE, !.values = values]
      BY <1>3, <2>2 DEF ClearValues, Underway
    <3>2. call[r] \in Calls
      BY DEF StoreInv, Underway, NoCall
    <3>3. call'[r].cleared /\ call'[r].values = values
      BY <3>1, <3>2 DEF Calls
    <3>4. QED BY <2>2, <3>3 DEF Readable
  <2>3. QED BY <2>1, <2>2
<1>4. ASSUME NEW path \in Paths, NEW v \in Scalars, NEW override \in BOOLEAN,
             AddValue(path, v, override)
      PROVE  Readable(r)'.q = "truthy"
  <2>1. CASE call[r].cleared
    BY <1>4, <2>1 DEF AddValue, Readable
  <2>2. CASE ~call[r].cleared
    <3>1. values.q = "truthy" /\ values.p = "object"
      BY <2>2 DEF Readable, StoreInv, Values, None
    <3>2. path = "p" \/ path = "q"
      BY DEF Paths
    <3>3. override = FALSE
      BY <1>4, <2>2 DEF Overrides
    <3>4. FALSE
      BY <1>4, <3>1, <3>2, <3>3 DEF AddValue, At, None
    <3>5. QED BY <3>4
  <2>3. QED BY <2>1, <2>2
<1>5. ASSUME NEW s \in Request, CallStep(s) PROVE Readable(r)'.q = "truthy"
  <2>1. values' = values
    BY <1>5 DEF CallStep, Ends, Transform, LookUp, registryVars
  <2>2. CASE Ends(s)
    <3>1. s # r
      BY <2>2 DEF Ends, StoreInv, Underway, NoCall
    <3>2. QED BY <2>1, <2>2, <3>1 DEF Ends, StoreInv, Readable
  <2>3. ASSUME NEW x \in Id, Transform(s, x) PROVE Readable(r)'.q = "truthy"
    <3>1. s # r
      BY <2>3 DEF Transform
    <3>2. QED BY <2>1, <2>3, <3>1 DEF Transform, StoreInv, Readable
  <2>4. ASSUME NEW x \in Id, LookUp(s, x) PROVE Readable(r)'.q = "truthy"
    <3>1. call' = [call EXCEPT ![s].stage = "failing"]
      BY <2>4 DEF LookUp
    <3>2. CASE s # r
      BY <2>1, <3>1, <3>2 DEF StoreInv, Readable
    <3>3. CASE s = r
      <4>1. call[r] \in Calls
        BY DEF StoreInv, Underway, NoCall
      <4>2. call'[r].cleared = call[r].cleared /\ call'[r].values = call[r].values
        BY <3>1, <3>3, <4>1 DEF StoreInv, Calls
      <4>3. QED BY <2>1, <4>2 DEF Readable
    <3>4. QED BY <3>2, <3>3
  <2>5. QED BY <1>5, <2>2, <2>3, <2>4 DEF CallStep
<1>6. CASE UNCHANGED <<values, call>>
  BY <1>1, <1>6
<1>7. QED
  BY <1>2, <1>3, <1>4, <1>5, <1>6 DEF CoreNext, coreVars, RegistryStep, AddEntity, AddEntitiesEnds,
     ChangeEntities, ClearEntities, AddEntities, ChangeTypes, AddEntityType, ChangeValues

\* A transform goes on reading a truthy value that lies below another path until it
\* ends, whatever values are added without override meanwhile, and whatever is added
\* after the store was cleared.
THEOREM ValuesAreKept == CoreSpec => ValuesStay
<1>1. StoreInv /\ [CoreNext]_coreVars
        => [\A r \in Request : Underway(r) /\ Underway(r)' /\ Readable(r).q = "truthy"
              => \/ Readable(r)'.q = "truthy"
                 \/ Overrides /\ ~call[r].cleared]_coreVars
  BY ReadableKept
<1>2. QED BY <1>1, CoreInductive, PTL DEF CoreSpec, ValuesStay

-----------------------------------------------------------------------------
(* Finite sets in an order *)

LEMMA SeqTyped ==
  ASSUME NEW n \in Nat, NEW S, NEW f \in [1 .. n -> S]
  PROVE  f \in Seq(S) /\ Len(f) = n
<1>1. f \in Seq(S)
  OBVIOUS
<1>2. Len(f) \in Nat /\ 1 .. Len(f) = 1 .. n
  BY <1>1
<1>3. QED
  BY <1>1, <1>2

\* How many members come before i.
Rank(S, R, i) == Cardinality({j \in S : <<j, i>> \in R})

IsOrder(S, R) ==
  /\ \A i \in S : <<i, i>> \notin R
  /\ \A i, j \in S : i # j => <<i, j>> \in R \/ <<j, i>> \in R
  /\ \A i, j, k \in S : <<i, j>> \in R /\ <<j, k>> \in R => <<i, k>> \in R

\* The rank of a member grows with the order.
LEMMA RankGrows ==
  ASSUME NEW S, IsFiniteSet(S), NEW R, IsOrder(S, R), NEW i \in S
  PROVE  /\ Rank(S, R, i) \in 0 .. Cardinality(S) - 1
         /\ Cardinality(S) \in Nat
         /\ \A j \in S : <<j, i>> \in R => Rank(S, R, j) < Rank(S, R, i)
<1> DEFINE B(j) == {k \in S : <<k, j>> \in R}
<1>1. ASSUME NEW j \in S
      PROVE  IsFiniteSet(B(j)) /\ Cardinality(B(j)) \in Nat
  <2>1. B(j) \in SUBSET S
    OBVIOUS
  <2>2. IsFiniteSet(B(j))
    BY <2>1, FS_Subset
  <2>3. QED
    BY <2>2, FS_CardinalityType
<1>2. ASSUME NEW j \in S, <<j, i>> \in R
      PROVE  Cardinality(B(j)) < Cardinality(B(i))
  <2>1. B(j) \in SUBSET B(i)
    BY <1>2 DEF IsOrder
  <2>2. j \in B(i) /\ j \notin B(j)
    BY <1>2 DEF IsOrder
  <2>3. IsFiniteSet(B(i)) /\ Cardinality(B(i)) \in Nat /\ Cardinality(B(j)) \in Nat
    BY <1>1
  <2>4. Cardinality(B(j)) <= Cardinality(B(i)) /\ (Cardinality(B(i)) = Cardinality(B(j)) => B(i) = B(j))
    BY <2>1, <2>3, FS_Subset
  <2>5. B(i) # B(j)
    BY <2>2
  <2> HIDE DEF B
  <2>6. QED
    BY <2>3, <2>4, <2>5
<1>3. Cardinality(B(i)) \in 0 .. Cardinality(S) - 1 /\ Cardinality(S) \in Nat
  <2>1. B(i) \in SUBSET S /\ i \notin B(i)
    BY DEF IsOrder
  <2>2. Cardinality(S) \in Nat
    BY FS_CardinalityType
  <2>3. Cardinality(B(i)) <= Cardinality(S) /\ (Cardinality(S) = Cardinality(B(i)) => S = B(i))
    BY <2>1, FS_Subset
  <2>4. S # B(i)
    BY <2>1
  <2>5. Cardinality(B(i)) \in Nat
    BY <1>1
  <2> HIDE DEF B
  <2>6. QED
    BY <2>2, <2>3, <2>4, <2>5
<1>4. QED
  BY <1>2, <1>3 DEF Rank

\* Every rank below the size of the set is that of one member.
LEMMA RankReaches ==
  ASSUME NEW S, IsFiniteSet(S), NEW R, IsOrder(S, R), NEW k \in 1 .. Cardinality(S)
  PROVE  \E i \in S : Rank(S, R, i) = k - 1
<1> DEFINE n == Cardinality(S)
           ranks == 0 .. n - 1
           f == [i \in S |-> Rank(S, R, i)]
<1>1. n \in Nat
  BY FS_CardinalityType
<1>2. f \in [S -> ranks]
  BY RankGrows
<1>3. ASSUME NEW i \in S, NEW j \in S, i # j
      PROVE  f[i] # f[j]
  <2>1. CASE <<i, j>> \in R
    <3>1. Rank(S, R, i) < Rank(S, R, j) /\ Rank(S, R, j) \in Nat /\ Rank(S, R, i) \in Nat
      BY <2>1, RankGrows
    <3>2. QED
      BY <3>1
  <2>2. CASE <<j, i>> \in R
    <3>1. Rank(S, R, j) < Rank(S, R, i) /\ Rank(S, R, j) \in Nat /\ Rank(S, R, i) \in Nat
      BY <2>2, RankGrows
    <3>2. QED
      BY <3>1
  <2>3. QED
    BY <1>3, <2>1, <2>2 DEF IsOrder
<1>4. IsFiniteSet(ranks) /\ Cardinality(ranks) = n
  <2> HIDE DEF n
  <2>1. 0 \in Int /\ n - 1 \in Int /\ (IF 0 > n - 1 THEN 0 ELSE n - 1 - 0 + 1) = n
    BY <1>1
  <2>2. QED
    BY <2>1, FS_Interval
<1> HIDE DEF f, ranks
<1>5. f \in Injection(S, ranks)
  BY <1>2, <1>3 DEF Injection, IsInjective
<1>6. f \in Surjection(S, ranks)
  BY <1>4, <1>5, FS_Injection
<1>7. k - 1 \in ranks
  BY <1>1 DEF ranks
<1>8. PICK i \in S : f[i] = k - 1
  BY <1>6, <1>7 DEF Surjection
<1>9. QED
  BY <1>8 DEF f

\* So the sequence of the members in the order has each once, the k-th after k - 1.
Ranked(S, R) == [k \in 1 .. Cardinality(S) |-> CHOOSE i \in S : Rank(S, R, i) = k - 1]

LEMMA Enumerates ==
  ASSUME NEW S, IsFiniteSet(S), NEW R, IsOrder(S, R), NEW keys, keys = Ranked(S, R)
  PROVE  /\ keys \in Seq(S)
         /\ Len(keys) = Cardinality(S)
         /\ \A i \in S : \E k \in DOMAIN keys : keys[k] = i
         /\ \A k, l \in DOMAIN keys : <<keys[k], keys[l]>> \in R => k < l
<1> DEFINE n == Cardinality(S)
<1>1. n \in Nat
  BY FS_CardinalityType
<1>2. \A k \in 1 .. n : keys[k] \in S /\ Rank(S, R, keys[k]) = k - 1
  BY RankReaches DEF Ranked
<1>3. DOMAIN keys = 1 .. n
  BY DEF Ranked
<1>4. keys \in [1 .. n -> S]
  BY <1>2 DEF Ranked
<1>5. keys \in Seq(S) /\ Len(keys) = n
  BY <1>1, <1>4, SeqTyped
<1>6. ASSUME NEW i \in S
      PROVE  \E k \in 1 .. n : keys[k] = i
  <2> DEFINE k == Rank(S, R, i) + 1
  <2>1. Rank(S, R, i) \in 0 .. n - 1
    BY RankGrows
  <2>2. k \in 1 .. n /\ k - 1 = Rank(S, R, i)
    BY <1>1, <2>1
  <2>3. keys[k] \in S /\ Rank(S, R, keys[k]) = Rank(S, R, i)
    BY <1>2, <2>2
  <2>4. keys[k] = i
    <3>1. SUFFICES ASSUME keys[k] # i PROVE FALSE
      OBVIOUS
    <3>2. Rank(S, R, keys[k]) < Rank(S, R, i) \/ Rank(S, R, i) < Rank(S, R, keys[k])
      BY <2>3, <3>1, RankGrows DEF IsOrder
    <3>3. QED
      BY <2>1, <2>3, <3>2
  <2>5. QED
    BY <2>2, <2>4
<1>7. ASSUME NEW k \in 1 .. n, NEW l \in 1 .. n, <<keys[k], keys[l]>> \in R
      PROVE  k < l
  <2>1. Rank(S, R, keys[k]) < Rank(S, R, keys[l])
    BY <1>2, <1>7, RankGrows
  <2>2. QED
    BY <1>1, <1>2, <2>1
<1>8. QED
  BY <1>3, <1>5, <1>6, <1>7

-----------------------------------------------------------------------------
(* getAncestors *)

IsSpecs(specs) ==
  /\ IsFiniteSet(DOMAIN specs)
  /\ DOMAIN specs \subseteq Id
  /\ \A y \in DOMAIN specs : specs[y] \in Items

\* What getParentSpec gives tells what the parent is.
LEMMA ParentSpec ==
  ASSUME NEW specs, IsSpecs(specs), NEW y \in DOMAIN specs, NEW p, p = getParentSpec(specs, y)
  PROVE  /\ p \in DOMAIN specs \cup {None, "missing"}
         /\ p \in DOMAIN specs <=> specs[y].parent \in DOMAIN specs
         /\ p \in DOMAIN specs => p = specs[y].parent
         /\ p = None <=> specs[y].parent = None
         /\ None \notin DOMAIN specs /\ "missing" \notin DOMAIN specs /\ "circle" \notin DOMAIN specs
BY CoreAssumption DEF getParentSpec, IsSpecs, None

\* The walk has come n steps up from x, or has ended before: the entity it started
\* from and the ancestors, each the parent of the one before, none twice.
Node(w, x, k) == IF k = 0 THEN x ELSE w.ancestors[k]
Height(w) == Len(w.ancestors)

IsChain(specs, x, w) ==
  /\ DOMAIN w = {"ancestors", "parent"}
  /\ w.ancestors \in Seq(DOMAIN specs)
  /\ \A k \in 1 .. Height(w) : specs[Node(w, x, k - 1)].parent = Node(w, x, k)
  /\ \A k, l \in 0 .. Height(w) : k < l => Node(w, x, k) # Node(w, x, l)

Goes(specs, x, w, n) ==
  /\ Height(w) = n
  /\ w.parent \in DOMAIN specs
  /\ w.parent = specs[Node(w, x, Height(w))].parent
Tops(specs, x, w) ==
  /\ w.parent \in {None, "missing"}
  /\ w.parent = getParentSpec(specs, Node(w, x, Height(w)))
Circles(specs, x, w) ==
  /\ w.parent = "circle"
  /\ \E k \in 0 .. Height(w) : specs[Node(w, x, Height(w))].parent = Node(w, x, k)

IsWalk(specs, x, w, n) ==
  /\ IsChain(specs, x, w)
  /\ Goes(specs, x, w, n) \/ Tops(specs, x, w) \/ Circles(specs, x, w)

LEMMA NodesAreSpecs ==
  ASSUME NEW specs, NEW x \in DOMAIN specs, NEW w, IsChain(specs, x, w)
  PROVE  /\ Height(w) \in Nat
         /\ \A k \in 0 .. Height(w) : Node(w, x, k) \in DOMAIN specs
BY DEF IsChain, Height, Node

\* The walk starts below the parent of x.
First(specs, x) == [ancestors |-> <<>>, parent |-> getParentSpec(specs, x)]

LEMMA WalkStarts ==
  ASSUME NEW specs, IsSpecs(specs), NEW x \in DOMAIN specs
  PROVE  IsWalk(specs, x, First(specs, x), 0)
<1> DEFINE w == First(specs, x)
<1>1. Height(w) = 0 /\ w.ancestors = <<>> /\ DOMAIN w = {"ancestors", "parent"}
  BY DEF First, Height
<1>2. w.parent = getParentSpec(specs, x) /\ Node(w, x, 0) = x
  BY DEF First, Node
<1> HIDE DEF w
<1>3. IsChain(specs, x, w)
  BY <1>1 DEF IsChain
<1>4. Goes(specs, x, w, 0) \/ Tops(specs, x, w)
  <2>1. w.parent \in DOMAIN specs => w.parent = specs[x].parent
    BY <1>2, ParentSpec
  <2>2. w.parent \in DOMAIN specs \cup {None, "missing"}
    BY <1>2, ParentSpec
  <2>3. QED
    BY <1>1, <1>2, <2>1, <2>2 DEF Goes, Tops
<1>5. QED
  BY <1>3, <1>4 DEF IsWalk, w

\* It goes on to a parent that is there and that it has not met.
LEMMA WalkGoesOn ==
  ASSUME NEW specs, IsSpecs(specs), NEW x \in DOMAIN specs, NEW n \in Nat,
         NEW w, IsChain(specs, x, w), Goes(specs, x, w, n), NEW u,
         u = [ancestors |-> Append(w.ancestors, w.parent), parent |-> getParentSpec(specs, w.parent)],
         \A k \in 0 .. n : w.parent # Node(w, x, k)
  PROVE  IsWalk(specs, x, u, n + 1)
<1>1. w.ancestors \in Seq(DOMAIN specs) /\ Len(w.ancestors) = n /\ w.parent \in DOMAIN specs
  BY DEF IsChain, Goes, Height
<1>2. u.ancestors \in Seq(DOMAIN specs) /\ Height(u) = n + 1 /\ DOMAIN u = {"ancestors", "parent"}
  BY <1>1 DEF Height
<1>3. Node(u, x, n + 1) = w.parent
  BY <1>1 DEF Node
<1>4. \A k \in 0 .. n : Node(u, x, k) = Node(w, x, k)
  <2>1. \A k \in 1 .. n : u.ancestors[k] = w.ancestors[k]
    BY <1>1
  <2>2. QED
    BY <2>1 DEF Node
<1>5. u.parent = getParentSpec(specs, w.parent)
  OBVIOUS
<1>6. \A k \in 1 .. n + 1 : specs[Node(u, x, k - 1)].parent = Node(u, x, k)
  <2> TAKE k \in 1 .. n + 1
  <2>1. CASE k \in 1 .. n
    <3>1. k \in 0 .. n /\ k - 1 \in 0 .. n
      BY <2>1
    <3>2. specs[Node(w, x, k - 1)].parent = Node(w, x, k)
      BY <1>1, <2>1 DEF IsChain, Height
    <3>3. QED
      BY <1>4, <3>1, <3>2
  <2>2. CASE k = n + 1
    <3>1. k - 1 = n /\ n \in 0 .. n
      BY <2>2
    <3>2. specs[Node(w, x, n)].parent = w.parent
      BY <1>1 DEF Goes, Height
    <3>3. QED
      BY <1>3, <1>4, <2>2, <3>1, <3>2
  <2>3. QED
    BY <2>1, <2>2
<1>7. \A k, l \in 0 .. n + 1 : k < l => Node(u, x, k) # Node(u, x, l)
  <2> TAKE k, l \in 0 .. n + 1
  <2>1. CASE k < l /\ l # n + 1
    <3>1. k \in 0 .. n /\ l \in 0 .. n
      BY <2>1
    <3>2. Node(w, x, k) # Node(w, x, l)
      BY <1>1, <2>1, <3>1 DEF IsChain, Height
    <3>3. QED
      BY <1>4, <3>1, <3>2
  <2>2. CASE k < l /\ l = n + 1
    <3>1. k \in 0 .. n
      BY <2>2
    <3>2. QED
      BY <1>3, <1>4, <2>2, <3>1
  <2>3. QED
    BY <2>1, <2>2
<1> HIDE DEF Node
<1>8. IsChain(specs, x, u)
  <2>1. \A k \in 1 .. Height(u) : specs[Node(u, x, k - 1)].parent = Node(u, x, k)
    BY <1>2, <1>6
  <2>2. \A k, l \in 0 .. Height(u) : k < l => Node(u, x, k) # Node(u, x, l)
    BY <1>2, <1>7
  <2>3. QED
    BY ONLY <1>2, <2>1, <2>2 DEF IsChain
<1>9. Goes(specs, x, u, n + 1) \/ Tops(specs, x, u)
  <2>1. u.parent \in DOMAIN specs => u.parent = specs[w.parent].parent
    BY <1>1, <1>5, ParentSpec
  <2>2. u.parent \in DOMAIN specs \cup {None, "missing"}
    BY <1>1, <1>5, ParentSpec
  <2>3. QED
    BY <1>2, <1>3, <1>5, <2>1, <2>2 DEF Goes, Tops
<1>10. QED
  BY <1>8, <1>9 DEF IsWalk

LEMMA AboveKeeps ==
  ASSUME NEW specs, IsSpecs(specs), NEW x \in DOMAIN specs, NEW n \in Nat,
         NEW w, IsWalk(specs, x, w, n)
  PROVE  IsWalk(specs, x, Above(specs, x, w), n + 1)
<1> DEFINE u == Above(specs, x, w)
<1>1. IsChain(specs, x, w)
  BY DEF IsWalk
<1>2. CASE ~Goes(specs, x, w, n)
  <2>1. Tops(specs, x, w) \/ Circles(specs, x, w)
    BY <1>2 DEF IsWalk
  <2>2. w.parent \notin DOMAIN specs
    BY <2>1, CoreAssumption DEF Tops, Circles, IsSpecs, None
  <2>3. u = w
    BY <2>2 DEF Above
  <2>4. QED
    BY <1>1, <2>1, <2>3 DEF IsWalk
<1>3. CASE Goes(specs, x, w, n)
  <2>1. w.parent \in DOMAIN specs /\ Height(w) = n /\ DOMAIN w.ancestors = 1 .. n
    BY <1>1, <1>3 DEF Goes, IsChain, Height
  <2>2. w.parent = x \/ w.parent \in Range(w.ancestors) <=> \E k \in 0 .. n : w.parent = Node(w, x, k)
    BY <2>1 DEF Range, Node
  <2>3. CASE \E k \in 0 .. n : w.parent = Node(w, x, k)
    <3>1. u = [w EXCEPT !.parent = "circle"]
      BY <2>1, <2>2, <2>3 DEF Above
    <3>2. DOMAIN w = {"ancestors", "parent"}
      BY <1>1 DEF IsChain
    <3>3. u.ancestors = w.ancestors /\ u.parent = "circle" /\ DOMAIN u = DOMAIN w
      BY <3>1, <3>2
    <3> HIDE DEF u
    <3>4. Height(u) = Height(w) /\ \A k : Node(u, x, k) = Node(w, x, k)
      BY <3>3 DEF Height, Node
    <3>5. IsChain(specs, x, u)
      BY <1>1, <3>3, <3>4 DEF IsChain
    <3>6. Circles(specs, x, u)
      BY <1>3, <2>1, <2>3, <3>3, <3>4 DEF Circles, Goes
    <3>7. QED
      BY <3>5, <3>6 DEF IsWalk, u
  <2>4. CASE \A k \in 0 .. n : w.parent # Node(w, x, k)
    <3>1. u = [ancestors |-> Append(w.ancestors, w.parent), parent |-> getParentSpec(specs, w.parent)]
      BY <2>1, <2>2, <2>4 DEF Above
    <3> HIDE DEF u
    <3>2. IsWalk(specs, x, u, n + 1)
      BY <1>1, <1>3, <2>4, <3>1, WalkGoesOn
    <3>3. QED
      BY <3>2 DEF u
  <2>5. QED
    BY <2>3, <2>4
<1>4. QED
  BY <1>2, <1>3

\* The function by which getAncestors walks, up to m steps.
IsWalking(walk, specs, x, m) ==
  walk = [n \in 0 .. m |-> IF n = 0 THEN First(specs, x) ELSE Above(specs, x, walk[n - 1])]

LEMMA WalkingExists ==
  ASSUME NEW specs, NEW x, NEW m \in Nat
  PROVE  \E walk : IsWalking(walk, specs, x, m)
<1> DEFINE S == {k \in Nat : \E g : IsWalking(g, specs, x, k)}
<1>1. 0 \in S
  <2> DEFINE g == [n \in 0 .. 0 |-> First(specs, x)]
  <2>1. g = [n \in 0 .. 0 |-> IF n = 0 THEN First(specs, x) ELSE Above(specs, x, g[n - 1])]
    OBVIOUS
  <2>2. QED
    BY <2>1 DEF IsWalking
<1>2. ASSUME NEW k \in Nat, k \in S
      PROVE  k + 1 \in S
  <2>1. PICK g : g = [n \in 0 .. k |-> IF n = 0 THEN First(specs, x) ELSE Above(specs, x, g[n - 1])]
    BY <1>2 DEF IsWalking
  <2> DEFINE h == [n \in 0 .. k + 1 |-> IF n = k + 1 THEN Above(specs, x, g[k]) ELSE g[n]]
  <2>2. \A n \in 0 .. k + 1 : h[n] = IF n = 0 THEN First(specs, x) ELSE Above(specs, x, h[n - 1])
    <3> TAKE n \in 0 .. k + 1
    <3>1. CASE n = k + 1
      <4>1. h[n] = Above(specs, x, g[k]) /\ n - 1 = k /\ n # 0
        BY <3>1
      <4>2. h[k] = g[k]
        OBVIOUS
      <4>3. QED
        BY <4>1, <4>2
    <3>2. CASE n # k + 1 /\ n = 0
      <4>1. g[0] = First(specs, x)
        BY <2>1
      <4>2. QED
        BY <3>2, <4>1
    <3>3. CASE n # k + 1 /\ n # 0
      <4>1. n \in 0 .. k /\ n - 1 \in 0 .. k + 1 /\ n - 1 # k + 1
        BY <3>3
      <4>2. g[n] = Above(specs, x, g[n - 1])
        BY <2>1, <3>3, <4>1
      <4>3. h[n] = g[n] /\ h[n - 1] = g[n - 1]
        BY <3>3, <4>1
      <4>4. QED
        BY <3>3, <4>2, <4>3
    <3>4. QED
      BY <3>1, <3>2, <3>3
  <2>3. h = [n \in 0 .. k + 1 |-> h[n]]
    OBVIOUS
  <2> HIDE DEF h
  <2>4. h = [n \in 0 .. k + 1 |-> IF n = 0 THEN First(specs, x) ELSE Above(specs, x, h[n - 1])]
    BY <2>2, <2>3
  <2>5. QED
    BY <2>4 DEF IsWalking
<1> HIDE DEF S
<1>3. Nat \subseteq S
  BY <1>1, <1>2, SetInduction
<1>4. QED
  BY <1>3 DEF S

LEMMA AncestorsAreWalk ==
  ASSUME NEW specs, IsSpecs(specs), NEW x \in DOMAIN specs
  PROVE  IsWalk(specs, x, getAncestors(specs, x), Cardinality(DOMAIN specs))
<1> DEFINE m == Cardinality(DOMAIN specs)
           walk == CHOOSE g : g = [n \in 0 .. m |->
                                     IF n = 0 THEN [ancestors |-> <<>>, parent |-> getParentSpec(specs, x)]
                                     ELSE Above(specs, x, g[n - 1])]
<1>1. getAncestors(specs, x) = walk[m]
  BY Zenon DEF getAncestors
<1>2. m \in Nat
  BY FS_CardinalityType DEF IsSpecs
<1>3. \E g : g = [n \in 0 .. m |->
                    IF n = 0 THEN [ancestors |-> <<>>, parent |-> getParentSpec(specs, x)]
                    ELSE Above(specs, x, g[n - 1])]
  <2>1. PICK g : IsWalking(g, specs, x, m)
    BY <1>2, WalkingExists
  <2>2. g = [n \in 0 .. m |->
               IF n = 0 THEN [ancestors |-> <<>>, parent |-> getParentSpec(specs, x)]
               ELSE Above(specs, x, g[n - 1])]
    BY <2>1 DEF IsWalking, First
  <2>3. QED
    BY <2>2
<1>4. walk = [n \in 0 .. m |->
                IF n = 0 THEN [ancestors |-> <<>>, parent |-> getParentSpec(specs, x)]
                ELSE Above(specs, x, walk[n - 1])]
  BY <1>3
<1> HIDE DEF walk, m
<1>5. walk = [n \in 0 .. m |-> IF n = 0 THEN First(specs, x) ELSE Above(specs, x, walk[n - 1])]
  BY <1>4 DEF First
<1> DEFINE S == {n \in Nat : n \in 0 .. m => IsWalk(specs, x, walk[n], n)}
<1>6. 0 \in S
  <2>1. walk[0] = First(specs, x)
    BY <1>2, <1>5
  <2>2. QED
    BY <2>1, WalkStarts
<1>7. ASSUME NEW n \in Nat, n \in S
      PROVE  n + 1 \in S
  <2>1. SUFFICES ASSUME n + 1 \in 0 .. m
                 PROVE  IsWalk(specs, x, walk[n + 1], n + 1)
    OBVIOUS
  <2>2. n \in 0 .. m /\ n + 1 # 0 /\ n + 1 - 1 = n
    BY <1>2, <2>1
  <2>3. walk[n + 1] = Above(specs, x, walk[n])
    BY <1>5, <2>1, <2>2
  <2>4. IsWalk(specs, x, walk[n], n)
    BY <1>7, <2>2
  <2>5. QED
    BY <2>3, <2>4, AboveKeeps
<1> HIDE DEF S
<1>8. m \in S
  BY <1>2, <1>6, <1>7, SetInduction
<1>9. m \in 0 .. m
  BY <1>2
<1>10. QED
  BY <1>1, <1>8, <1>9 DEF S, m

\* There are no more ancestors than specs: the walk ends, at the top or in a circle.
LEMMA AncestorsEnd ==
  ASSUME NEW specs, IsSpecs(specs), NEW x \in DOMAIN specs, NEW w, w = getAncestors(specs, x)
  PROVE  /\ IsChain(specs, x, w)
         /\ Tops(specs, x, w) \/ Circles(specs, x, w)
<1> DEFINE m == Cardinality(DOMAIN specs)
<1>1. IsWalk(specs, x, w, m)
  BY AncestorsAreWalk
<1>2. IsChain(specs, x, w)
  BY <1>1 DEF IsWalk
<1>3. ASSUME Height(w) = m
      PROVE  FALSE
  <2> DEFINE f == [k \in 0 .. m |-> Node(w, x, k)]
  <2>1. m \in Nat
    BY FS_CardinalityType DEF IsSpecs
  <2>2. f \in [0 .. m -> DOMAIN specs]
    BY <1>2, <1>3, NodesAreSpecs
  <2>3. IsFiniteSet(0 .. m) /\ Cardinality(0 .. m) = m + 1
    <3> HIDE DEF m
    <3>1. 0 \in Int /\ m \in Int /\ (IF 0 > m THEN 0 ELSE m - 0 + 1) = m + 1
      BY <2>1
    <3>2. QED
      BY <3>1, FS_Interval
  <2>4. m < Cardinality(0 .. m)
    BY <2>1, <2>3
  <2> HIDE DEF f
  <2>5. PICK k, l \in 0 .. m : k # l /\ f[k] = f[l]
    BY <2>2, <2>3, <2>4, FS_PigeonHole DEF IsSpecs
  <2>6. f[k] = Node(w, x, k) /\ f[l] = Node(w, x, l)
    BY DEF f
  <2>7. k < l \/ l < k
    BY <2>1, <2>5
  <2>8. \A i, j \in 0 .. m : i < j => Node(w, x, i) # Node(w, x, j)
    BY <1>2, <1>3 DEF IsChain
  <2>9. Node(w, x, k) = Node(w, x, l)
    BY <2>5, <2>6
  <2> HIDE DEF m
  <2>10. QED
    BY <2>7, <2>8, <2>9
<1>4. QED
  BY <1>1, <1>2, <1>3 DEF IsWalk, Goes

-----------------------------------------------------------------------------
(* What a spec extends *)

IsClosed(specs, s, x) ==
  \A y \in s \cup {x} : specs[y].parent \in DOMAIN specs => specs[y].parent \in s
Over(specs, x) ==
  {y \in DOMAIN specs : \A s \in SUBSET DOMAIN specs : IsClosed(specs, s, x) => y \in s}

\* The parent, and what the parent extends.
LEMMA OverParent ==
  ASSUME NEW specs, NEW y \in DOMAIN specs, NEW p \in DOMAIN specs, p = specs[y].parent
  PROVE  /\ p \in Over(specs, y)
         /\ Over(specs, p) \subseteq Over(specs, y)
<1>1. ASSUME NEW s \in SUBSET DOMAIN specs, IsClosed(specs, s, y)
      PROVE  p \in s /\ IsClosed(specs, s, p)
  BY <1>1 DEF IsClosed
<1>2. QED
  BY <1>1 DEF Over

\* So everything above, on the walk.
LEMMA ChainIsOver ==
  ASSUME NEW specs, NEW x \in DOMAIN specs, NEW w, IsChain(specs, x, w)
  PROVE  \A k, l \in 0 .. Height(w) : k < l => Node(w, x, l) \in Over(specs, Node(w, x, k))
<1> DEFINE h == Height(w)
           S == {d \in Nat : \A k \in 0 .. h : k + 1 + d <= h =>
                               Node(w, x, k + 1 + d) \in Over(specs, Node(w, x, k))}
<1>1. h \in Nat /\ \A k \in 0 .. h : Node(w, x, k) \in DOMAIN specs
  BY NodesAreSpecs
<1>2. \A k \in 1 .. h : specs[Node(w, x, k - 1)].parent = Node(w, x, k)
  BY DEF IsChain
<1> HIDE DEF h
<1>3. ASSUME NEW k \in 0 .. h, k + 1 <= h
      PROVE  /\ Node(w, x, k + 1) \in Over(specs, Node(w, x, k))
             /\ Over(specs, Node(w, x, k + 1)) \subseteq Over(specs, Node(w, x, k))
  <2>1. k + 1 \in 1 .. h /\ k + 1 \in 0 .. h /\ k + 1 - 1 = k
    BY <1>1, <1>3
  <2>2. specs[Node(w, x, k)].parent = Node(w, x, k + 1)
    BY <1>2, <2>1
  <2>3. Node(w, x, k) \in DOMAIN specs /\ Node(w, x, k + 1) \in DOMAIN specs
    BY <1>1, <2>1
  <2>4. QED
    BY <2>2, <2>3, OverParent
<1>4. 0 \in S
  BY <1>1, <1>3
<1>5. ASSUME NEW d \in Nat, d \in S
      PROVE  d + 1 \in S
  <2>1. SUFFICES ASSUME NEW k \in 0 .. h, k + 1 + (d + 1) <= h
                 PROVE  Node(w, x, k + 1 + (d + 1)) \in Over(specs, Node(w, x, k))
    OBVIOUS
  <2>2. k + 1 \in 0 .. h /\ k + 1 <= h /\ (k + 1) + 1 + d = k + 1 + (d + 1)
    BY <1>1, <2>1
  <2>3. (k + 1) + 1 + d <= h
    BY <1>1, <2>1
  <2>4. Node(w, x, (k + 1) + 1 + d) \in Over(specs, Node(w, x, k + 1))
    BY <1>5, <2>2, <2>3
  <2>5. Over(specs, Node(w, x, k + 1)) \subseteq Over(specs, Node(w, x, k))
    BY <1>3, <2>2
  <2>6. QED
    BY <2>2, <2>4, <2>5
<1> HIDE DEF S
<1>6. Nat \subseteq S
  BY <1>4, <1>5, SetInduction
<1>7. ASSUME NEW k \in 0 .. h, NEW l \in 0 .. h, k < l
      PROVE  Node(w, x, l) \in Over(specs, Node(w, x, k))
  <2>1. l - k - 1 \in Nat /\ k + 1 + (l - k - 1) = l /\ l <= h
    BY <1>1, <1>7
  <2>2. l - k - 1 \in S
    BY <1>6, <2>1
  <2>3. QED
    BY <2>1, <2>2 DEF S
<1>8. QED
  BY <1>7 DEF h

\* And nothing else, if the walk ends at the top.
LEMMA OverIsChain ==
  ASSUME NEW specs, IsSpecs(specs), NEW x \in DOMAIN specs, NEW w,
         IsChain(specs, x, w), Tops(specs, x, w), NEW k \in 0 .. Height(w)
  PROVE  \A y \in Over(specs, Node(w, x, k)) : \E l \in 0 .. Height(w) : k < l /\ y = Node(w, x, l)
<1> DEFINE h == Height(w)
           s == {Node(w, x, l) : l \in k + 1 .. h}
<1>1. h \in Nat /\ \A l \in 0 .. h : Node(w, x, l) \in DOMAIN specs
  BY NodesAreSpecs
<1>2. \A l \in 1 .. h : specs[Node(w, x, l - 1)].parent = Node(w, x, l)
  BY DEF IsChain
<1>3. specs[Node(w, x, h)].parent \notin DOMAIN specs
  <2>1. h \in 0 .. h
    BY <1>1
  <2>2. w.parent \notin DOMAIN specs /\ w.parent = getParentSpec(specs, Node(w, x, h))
    BY CoreAssumption DEF Tops, IsSpecs, None
  <2>3. QED
    BY <1>1, <2>1, <2>2, ParentSpec
<1> HIDE DEF h
<1>4. \A l \in k .. h : specs[Node(w, x, l)].parent \in DOMAIN specs => specs[Node(w, x, l)].parent \in s
  <2> TAKE l \in k .. h
  <2>1. CASE l = h
    BY <1>3, <2>1
  <2>2. CASE l # h
    <3>1. k \in Nat
      BY DEF h
    <3>2. l + 1 \in k + 1 .. h /\ l + 1 \in 1 .. h /\ l + 1 - 1 = l
      BY <1>1, <2>2, <3>1
    <3>3. specs[Node(w, x, l)].parent = Node(w, x, l + 1)
      BY <1>2, <3>2
    <3>4. QED
      BY <3>2, <3>3
  <2>3. QED
    BY <2>1, <2>2
<1>5. k \in 0 .. h /\ k \in k .. h
  BY <1>1 DEF h
<1>6. IsClosed(specs, s, Node(w, x, k))
  <2> SUFFICES ASSUME NEW y \in s \cup {Node(w, x, k)}, specs[y].parent \in DOMAIN specs
               PROVE  specs[y].parent \in s
    BY DEF IsClosed
  <2>1. \E l \in k .. h : y = Node(w, x, l)
    <3>1. \A l \in k + 1 .. h : l \in k .. h
      BY <1>1, <1>5
    <3>2. QED
      BY <1>5, <3>1
  <2>2. QED
    BY <1>4, <2>1
<1>7. s \in SUBSET DOMAIN specs
  BY <1>1, <1>5
<1>8. ASSUME NEW y \in Over(specs, Node(w, x, k))
      PROVE  \E l \in 0 .. h : k < l /\ y = Node(w, x, l)
  <2>1. y \in s
    BY <1>6, <1>7 DEF Over
  <2>2. PICK l \in k + 1 .. h : y = Node(w, x, l)
    BY <2>1
  <2>3. l \in 0 .. h /\ k < l
    BY <1>1, <1>5
  <2>4. QED
    BY <2>2, <2>3
<1>9. QED
  BY <1>8 DEF h

\* In a circle some spec extends itself.
LEMMA CircleIsOver ==
  ASSUME NEW specs, NEW x \in DOMAIN specs, NEW w, IsChain(specs, x, w), Circles(specs, x, w)
  PROVE  \E y \in DOMAIN specs : y \in Over(specs, y)
<1> DEFINE h == Height(w)
           y == Node(w, x, h)
<1>1. h \in Nat /\ \A l \in 0 .. h : Node(w, x, l) \in DOMAIN specs
  BY NodesAreSpecs
<1>2. PICK k \in 0 .. h : specs[y].parent = Node(w, x, k)
  BY DEF Circles
<1>3. y \in DOMAIN specs /\ Node(w, x, k) \in DOMAIN specs
  BY <1>1
<1>4. Node(w, x, k) \in Over(specs, y) /\ Over(specs, Node(w, x, k)) \subseteq Over(specs, y)
  BY <1>2, <1>3, OverParent
<1>5. CASE k = h
  BY <1>3, <1>4, <1>5
<1>6. CASE k # h
  <2>1. h \in 0 .. h /\ k < h
    BY <1>1, <1>6
  <2>2. y \in Over(specs, Node(w, x, k))
    BY <2>1, ChainIsOver
  <2>3. QED
    BY <1>3, <1>4, <2>2
<1>7. QED
  BY <1>5, <1>6

IsSound(specs) ==
  \A x \in DOMAIN specs : x \notin Over(specs, x) /\ specs[x].parent \in DOMAIN specs \cup {None}

\* Where the walk from x ends tells whether x may be extended.
LEMMA EndTells ==
  ASSUME NEW specs, IsSpecs(specs), NEW x \in DOMAIN specs, NEW w, w = getAncestors(specs, x)
  PROVE  /\ w.parent \in {None, "missing", "circle"}
         /\ w.parent # None => ~IsSound(specs)
         /\ w.parent = None => x \notin Over(specs, x) /\ specs[x].parent \in DOMAIN specs \cup {None}
<1>1. IsChain(specs, x, w) /\ (Tops(specs, x, w) \/ Circles(specs, x, w))
  BY AncestorsEnd
<1> DEFINE h == Height(w)
<1>2. h \in Nat /\ \A l \in 0 .. h : Node(w, x, l) \in DOMAIN specs
  BY <1>1, NodesAreSpecs
<1>3. CASE Circles(specs, x, w)
  <2>1. w.parent = "circle"
    BY <1>3 DEF Circles
  <2>2. ~IsSound(specs)
    BY <1>1, <1>3, CircleIsOver DEF IsSound
  <2>3. QED
    BY <2>1, <2>2 DEF None
<1>4. CASE Tops(specs, x, w)
  <2>1. w.parent \in {None, "missing"} /\ w.parent = getParentSpec(specs, Node(w, x, h))
    BY <1>4 DEF Tops
  <2>2. h \in 0 .. h /\ Node(w, x, h) \in DOMAIN specs
    BY <1>2
  <2>3. ASSUME w.parent # None
        PROVE  ~IsSound(specs)
    <3>1. w.parent = "missing" /\ w.parent \notin DOMAIN specs
      BY <2>1, <2>2, <2>3, ParentSpec
    <3>2. specs[Node(w, x, h)].parent \notin DOMAIN specs \cup {None}
      BY <2>1, <2>2, <2>3, <3>1, ParentSpec
    <3>3. QED
      BY <2>2, <3>2 DEF IsSound
  <2>4. ASSUME w.parent = None
        PROVE  x \notin Over(specs, x) /\ specs[x].parent \in DOMAIN specs \cup {None}
    <3>1. Node(w, x, 0) = x /\ 0 \in 0 .. h
      BY <1>2 DEF Node
    <3>2. x \notin Over(specs, x)
      <4>1. SUFFICES ASSUME x \in Over(specs, x) PROVE FALSE
        OBVIOUS
      <4>2. PICK l \in 0 .. h : 0 < l /\ x = Node(w, x, l)
        BY <1>1, <1>4, <3>1, <4>1, OverIsChain
      <4>3. QED
        BY <1>1, <3>1, <4>2 DEF IsChain
    <3>3. CASE h = 0
      <4>1. specs[Node(w, x, h)].parent = None
        BY <2>1, <2>2, <2>4, ParentSpec
      <4>2. QED
        BY <3>1, <3>2, <3>3, <4>1
    <3>4. CASE h # 0
      <4>1. 1 \in 1 .. h /\ 1 \in 0 .. h /\ 1 - 1 = 0
        BY <1>2, <3>4
      <4>2. specs[Node(w, x, 1 - 1)].parent = Node(w, x, 1)
        BY <1>1, <4>1 DEF IsChain
      <4>3. specs[x].parent \in DOMAIN specs
        BY <1>2, <3>1, <4>1, <4>2
      <4>4. QED
        BY <3>2, <4>3
    <3>5. QED
      BY <3>3, <3>4
  <2>5. QED
    BY <2>1, <2>3, <2>4
<1>5. QED
  BY <1>1, <1>3, <1>4

-----------------------------------------------------------------------------
(* What an entity inherits *)

SelectOf(specs, x) ==
  LET with == {y \in {x} \cup Over(specs, x) : specs[y].select # None}
  IN  IF with = {} THEN None
      ELSE specs[CHOOSE y \in with : with \subseteq {y} \cup Over(specs, y)].select

\* The specs on a walk to the top that have a select: the nearest of them is the one
\* that all the others are over.
LEMMA NearestIsBelow ==
  ASSUME NEW specs, IsSpecs(specs), NEW x \in DOMAIN specs, NEW w,
         IsChain(specs, x, w), Tops(specs, x, w),
         NEW A, A = {k \in 0 .. Height(w) : specs[Node(w, x, k)].select # None}
  PROVE  /\ A = {} => SelectOf(specs, x) = None
         /\ \A k \in A : (\A l \in A : k <= l) => SelectOf(specs, x) = specs[Node(w, x, k)].select
<1> DEFINE h == Height(w)
           with == {y \in {x} \cup Over(specs, x) : specs[y].select # None}
           Below(y) == with \subseteq {y} \cup Over(specs, y)
<1>1. h \in Nat /\ Node(w, x, 0) = x /\ 0 \in 0 .. h
  <2>1. h \in Nat
    BY NodesAreSpecs
  <2>2. QED
    BY <2>1 DEF Node
<1> HIDE DEF h
<1>2. with = {Node(w, x, k) : k \in A}
  <2>1. \A l \in 0 .. h : 0 < l => Node(w, x, l) \in Over(specs, x)
    BY <1>1, ChainIsOver DEF h
  <2>2. \A y \in Over(specs, x) : \E l \in 0 .. h : y = Node(w, x, l)
    BY <1>1, OverIsChain DEF h
  <2>3. \A l \in 0 .. h : l = 0 \/ 0 < l
    BY <1>1
  <2>4. \A l \in 0 .. h : Node(w, x, l) \in {x} \cup Over(specs, x)
    BY <1>1, <2>1, <2>3
  <2>5. A = {k \in 0 .. h : specs[Node(w, x, k)].select # None}
    BY DEF h
  <2>6. QED
    BY <1>1, <2>2, <2>4, <2>5
<1>3. SelectOf(specs, x) = IF with = {} THEN None ELSE specs[CHOOSE y \in with : Below(y)].select
  BY DEF SelectOf
<1>4. ASSUME A = {}
      PROVE  SelectOf(specs, x) = None
  BY <1>2, <1>3, <1>4
<1>5. ASSUME NEW k \in A, \A l \in A : k <= l
      PROVE  SelectOf(specs, x) = specs[Node(w, x, k)].select
  <2> DEFINE y == Node(w, x, k)
  <2>1. A \subseteq 0 .. h /\ k \in 0 .. h
    BY DEF h
  <2>2. y \in with
    BY <1>2
  <2>3. Below(y)
    <3> SUFFICES ASSUME NEW z \in with, z # y PROVE z \in Over(specs, y)
      OBVIOUS
    <3>1. PICK l \in A : z = Node(w, x, l)
      BY <1>2
    <3>2. k < l /\ l \in 0 .. h
      BY <1>1, <1>5, <2>1, <3>1
    <3>3. QED
      BY <2>1, <3>1, <3>2, ChainIsOver DEF h
  <2>4. ASSUME NEW z \in with, Below(z)
        PROVE  z = y
    <3>1. SUFFICES ASSUME z # y PROVE FALSE
      OBVIOUS
    <3>2. PICK l \in A : z = Node(w, x, l)
      BY <1>2
    <3>3. y \in Over(specs, z)
      BY <2>2, <2>4, <3>1
    <3>4. l \in 0 .. Height(w)
      BY <2>1, <3>2 DEF h
    <3>5. PICK j \in 0 .. h : l < j /\ y = Node(w, x, j)
      BY <3>2, <3>3, <3>4, OverIsChain DEF h
    <3>6. k < j
      BY <1>1, <1>5, <2>1, <3>2, <3>5
    <3>7. QED
      BY <2>1, <3>5, <3>6 DEF IsChain, h
  <2> HIDE DEF y, with, Below
  <2>5. (CHOOSE z \in with : Below(z)) = y
    BY <2>2, <2>3, <2>4
  <2>6. QED
    BY <1>3, <2>2, <2>5 DEF y
<1>6. QED
  BY <1>4, <1>5

\* extendSpec gives a spec the select of the nearest, and leaves its id.
LEMMA ExtendSpec ==
  ASSUME NEW specs, IsSpecs(specs), NEW x \in DOMAIN specs, getAncestors(specs, x).parent = None
  PROVE  /\ extendSpec(specs, x) \in Items
         /\ extendSpec(specs, x).id = specs[x].id
         /\ extendSpec(specs, x).select = SelectOf(specs, x)
<1> DEFINE w == getAncestors(specs, x)
           h == Height(w)
           A == {k \in 0 .. Height(w) : specs[Node(w, x, k)].select # None}
           with == {k \in DOMAIN w.ancestors : specs[w.ancestors[k]].select # None}
           nearest == CHOOSE k \in with : \A l \in with : k <= l
<1>1. IsChain(specs, x, w) /\ Tops(specs, x, w)
  BY AncestorsEnd DEF Circles, None
<1>2. extendSpec(specs, x) = IF specs[x].select # None \/ with = {} THEN specs[x]
                             ELSE [specs[x] EXCEPT !.select = specs[w.ancestors[nearest]].select]
  BY DEF extendSpec
<1> HIDE DEF w
<1>3. h \in Nat /\ \A k \in 0 .. h : Node(w, x, k) \in DOMAIN specs
  BY <1>1, NodesAreSpecs
<1>4. DOMAIN w.ancestors = 1 .. h
  BY <1>1 DEF IsChain, Height
<1>5. Node(w, x, 0) = x /\ \A k \in 1 .. h : Node(w, x, k) = w.ancestors[k]
  BY <1>3 DEF Node
<1>6. specs[x] \in Items
  BY DEF IsSpecs
<1> HIDE DEF h
<1>7. A = {k \in 0 .. h : specs[Node(w, x, k)].select # None}
  BY DEF h
<1>8. with = A \ {0}
  BY <1>3, <1>4, <1>5, <1>7
<1>9. 0 \in A <=> specs[x].select # None
  BY <1>3, <1>5, <1>7
<1>10. /\ A = {} => SelectOf(specs, x) = None
       /\ \A k \in A : (\A l \in A : k <= l) => SelectOf(specs, x) = specs[Node(w, x, k)].select
  BY <1>1, NearestIsBelow
<1>11. A \subseteq Nat
  BY <1>3, <1>7
<1> HIDE DEF A, with
<1>12. CASE A = {}
  <2>1. extendSpec(specs, x) = specs[x] /\ specs[x].select = None
    BY <1>2, <1>8, <1>9, <1>12
  <2>2. QED
    BY <1>6, <1>10, <1>12, <2>1
<1>13. CASE 0 \in A
  <2>1. extendSpec(specs, x) = specs[x]
    BY <1>2, <1>9, <1>13
  <2>2. \A l \in A : 0 <= l
    BY <1>11
  <2>3. SelectOf(specs, x) = specs[x].select
    BY <1>5, <1>10, <1>13, <2>2
  <2>4. QED
    BY <1>6, <2>1, <2>3
<1>14. CASE A # {} /\ 0 \notin A
  <2>1. with = A /\ with # {} /\ specs[x].select = None
    BY <1>8, <1>9, <1>14
  <2>2. PICK least \in A : \A l \in A : ~(l < least)
    BY <1>11, <1>14, LeastNumber
  <2>3. \A l \in A : least <= l
    BY <1>11, <2>2
  <2>4. nearest \in A /\ \A l \in A : nearest <= l
    BY <2>1, <2>3
  <2> HIDE DEF nearest
  <2>5. nearest \in 1 .. h /\ nearest \in 0 .. h
    BY <1>3, <1>7, <1>14, <2>4
  <2>6. SelectOf(specs, x) = specs[w.ancestors[nearest]].select
    BY <1>5, <1>10, <2>4, <2>5
  <2>7. specs[w.ancestors[nearest]] \in Items
    BY <1>3, <1>5, <2>5 DEF IsSpecs
  <2>8. extendSpec(specs, x) = [specs[x] EXCEPT !.select = specs[w.ancestors[nearest]].select]
    BY <1>2, <2>1
  <2>9. QED
    BY <1>6, <2>6, <2>7, <2>8 DEF Items
<1>15. QED
  BY <1>12, <1>13, <1>14

-----------------------------------------------------------------------------
(* The normalisation of a batch *)

\* Every id of a batch has a last spec, which counts, and a first, which is its place.
LEMMA LastAndFirst ==
  ASSUME NEW b \in Seq(Items), NEW n \in DOMAIN b, NEW x, x = b[n].id
  PROVE  /\ Latest(b, x) \in Items
         /\ Latest(b, x).id = x
         /\ \E i \in Places(b) : b[i].id = x
<1>1. Len(b) \in Nat /\ DOMAIN b = 1 .. Len(b) /\ n \in Nat
  OBVIOUS
<1> DEFINE same == {i \in DOMAIN b : b[i].id = x}
<1>2. same \subseteq Nat /\ n \in same
  BY <1>1
<1>3. \E i \in same : \A j \in DOMAIN b : j > i => b[j].id # x
  <2> DEFINE after == {Len(b) - i : i \in same}
  <2>1. \A i \in same : Len(b) - i \in Nat
    BY <1>1
  <2>2. after \subseteq Nat /\ after # {}
    BY <1>2, <2>1
  <2> HIDE DEF after
  <2>3. PICK least \in after : \A a \in after : ~(a < least)
    BY <2>2, LeastNumber
  <2>4. PICK i \in same : least = Len(b) - i
    BY <2>3 DEF after
  <2>5. ASSUME NEW j \in DOMAIN b, j > i
        PROVE  b[j].id # x
    <3>1. SUFFICES ASSUME j \in same PROVE FALSE
      OBVIOUS
    <3>2. Len(b) - j \in after
      BY <3>1 DEF after
    <3>3. i \in Nat /\ j \in Nat
      BY <1>1
    <3>4. QED
      BY <1>1, <2>3, <2>4, <2>5, <3>2, <3>3
  <2>6. QED
    BY <2>4, <2>5
<1>4. PICK i \in DOMAIN b : b[i].id = x /\ \A j \in DOMAIN b : j > i => b[j].id # x
  BY <1>3
<1>5. PICK l \in DOMAIN b : Latest(b, x) = b[l] /\ b[l].id = x
  BY <1>4 DEF Latest
<1>6. b[l] \in Items
  BY <1>1
<1>7. \E k \in Places(b) : b[k].id = x
  <2>1. PICK k \in same : \A j \in same : ~(j < k)
    BY <1>2, LeastNumber
  <2>2. k \in Places(b)
    BY <2>1 DEF Places
  <2>3. QED
    BY <2>1, <2>2
<1>8. QED
  BY <1>5, <1>6, <1>7

LEMMA SpecsOfBatch ==
  ASSUME NEW b \in Seq(Items), NEW specs, specs = normalizeEntitySpecs(b)
  PROVE  /\ IsSpecs(specs)
         /\ DOMAIN specs = {b[i].id : i \in DOMAIN b}
         /\ \A x \in DOMAIN specs : specs[x].id = x
         /\ \A x \in DOMAIN specs : \E i \in Places(b) : b[i].id = x
         /\ Places(b) \subseteq DOMAIN b /\ IsFiniteSet(Places(b))
<1>1. DOMAIN specs = {b[i].id : i \in DOMAIN b} /\ \A x \in DOMAIN specs : specs[x] = Latest(b, x)
  BY DEF normalizeEntitySpecs
<1>2. \A i \in DOMAIN b : b[i] \in Items
  OBVIOUS
<1>3. ASSUME NEW x \in DOMAIN specs
      PROVE  /\ x \in Id /\ specs[x] \in Items /\ specs[x].id = x
             /\ \E i \in Places(b) : b[i].id = x
  <2>1. PICK n \in DOMAIN b : x = b[n].id
    BY <1>1
  <2>2. x \in Id
    BY <1>2, <2>1 DEF Items
  <2>3. Latest(b, x) \in Items /\ Latest(b, x).id = x /\ \E i \in Places(b) : b[i].id = x
    BY <2>1, LastAndFirst
  <2>4. QED
    BY <1>1, <2>2, <2>3
<1>4. IsFiniteSet(DOMAIN b)
  <2>1. Len(b) \in Nat /\ DOMAIN b = 1 .. Len(b)
    OBVIOUS
  <2>2. 1 \in Int /\ Len(b) \in Int
    BY <2>1
  <2>3. IsFiniteSet(1 .. Len(b))
    BY <2>2, FS_Interval
  <2>4. QED
    BY <2>1, <2>3
<1>5. IsFiniteSet(DOMAIN specs)
  <2> DEFINE f == [i \in DOMAIN b |-> b[i].id]
  <2>1. f \in Surjection(DOMAIN b, DOMAIN specs)
    BY <1>1 DEF Surjection
  <2> HIDE DEF f
  <2>2. QED
    BY <1>4, <2>1, FS_Surjection
<1>6. Places(b) \subseteq DOMAIN b
  BY DEF Places
<1>7. IsFiniteSet(Places(b))
  BY <1>4, <1>6, FS_Subset
<1>8. IsSpecs(specs)
  BY <1>3, <1>5 DEF IsSpecs
<1>9. QED
  BY <1>1, <1>3, <1>6, <1>7, <1>8

\* What the properties say of a batch, in the words of the lemmas above.
LEMMA BatchWords ==
  ASSUME NEW b
  PROVE  /\ Sound(b) <=> IsSound(normalizeEntitySpecs(b))
         /\ \A x : Inherits(b, x) = SelectOf(normalizeEntitySpecs(b), x)
<1>1. Sound(b) <=> IsSound(normalizeEntitySpecs(b))
  BY DEF Sound, IsSound, Extends, Over, IsClosed
<1>2. ASSUME NEW x
      PROVE  Inherits(b, x) = SelectOf(normalizeEntitySpecs(b), x)
  BY DEF Inherits, SelectOf, Extends, Over, IsClosed
<1>3. QED
  BY <1>1, <1>2

\* What normalizeSpecs makes of a batch: an error exactly if it is not sound, and else
\* for each entity the spec with the select that it inherits.
LEMMA NormalizeSpecs ==
  ASSUME NEW b \in Seq(Items), NEW made, made = normalizeSpecs(b)
  PROVE  /\ made.error \in {None, "missing", "circle"}
         /\ made.error = None <=> Sound(b)
         /\ made.error # None => made.specs = <<>>
         /\ made.specs \in Seq(Items)
         /\ \A k \in DOMAIN made.specs : made.specs[k].select = Inherits(b, made.specs[k].id)
<1> DEFINE specs == normalizeEntitySpecs(b)
           end(i) == getAncestors(specs, b[i].id).parent
           bad == {i \in Places(b) : end(i) # None}
           S == Places(b)
           keys == InOrder(S, LAMBDA i, j : i < j)
           worst == CHOOSE i \in bad : \A j \in bad : i <= j
<1>1. made = IF bad = {}
               THEN [specs |-> [k \in DOMAIN keys |-> extendSpec(specs, b[keys[k]].id)], error |-> None]
               ELSE [specs |-> <<>>, error |-> end(worst)]
  BY DEF normalizeSpecs
<1>2. /\ IsSpecs(specs) /\ DOMAIN specs = {b[i].id : i \in DOMAIN b}
      /\ \A x \in DOMAIN specs : specs[x].id = x
      /\ \A x \in DOMAIN specs : \E i \in S : b[i].id = x
      /\ S \subseteq DOMAIN b /\ IsFiniteSet(S)
  BY SpecsOfBatch
<1>3. \A i \in S : b[i].id \in DOMAIN specs
  BY <1>2
<1>4. keys \in Seq(S)
  <2> DEFINE R == {p \in S \X S : p[1] < p[2]}
  <2>1. keys = [k \in 1 .. Cardinality(S) |-> CHOOSE i \in S : Cardinality({j \in S : j < i}) = k - 1]
    BY DEF InOrder
  <2>2. \A i \in S : {j \in S : j < i} = {j \in S : <<j, i>> \in R}
    OBVIOUS
  <2>3. S \subseteq Nat
    BY <1>2
  <2>4. IsOrder(S, R)
    BY <2>3 DEF IsOrder
  <2> HIDE DEF R, S, keys
  <2>5. \A i \in S : Cardinality({j \in S : j < i}) = Rank(S, R, i)
    BY <2>2 DEF Rank
  <2>6. keys = Ranked(S, R)
    BY <2>1, <2>5 DEF Ranked
  <2>7. QED
    BY <1>2, <2>4, <2>6, Enumerates
<1> HIDE DEF specs, S, keys, worst
<1>5. ASSUME NEW i \in S
      PROVE  /\ end(i) \in {None, "missing", "circle"}
             /\ end(i) # None => ~IsSound(specs)
  BY <1>2, <1>3, EndTells
<1>6. bad = {} => IsSound(specs)
  <2>1. SUFFICES ASSUME bad = {}, NEW x \in DOMAIN specs
                 PROVE  x \notin Over(specs, x) /\ specs[x].parent \in DOMAIN specs \cup {None}
    BY DEF IsSound
  <2>2. PICK i \in S : b[i].id = x
    BY <1>2
  <2>3. getAncestors(specs, x).parent = None
    BY <2>1, <2>2 DEF S
  <2>4. QED
    BY <1>2, <2>3, EndTells
<1>7. Sound(b) <=> IsSound(specs)
  BY BatchWords DEF specs
<1>8. CASE bad = {}
  <2>1. made.error = None /\ made.specs = [k \in DOMAIN keys |-> extendSpec(specs, b[keys[k]].id)]
    BY <1>1, <1>8
  <2>2. Sound(b)
    BY <1>6, <1>7, <1>8
  <2>3. ASSUME NEW k \in DOMAIN keys
        PROVE  /\ made.specs[k] \in Items
               /\ made.specs[k].select = Inherits(b, made.specs[k].id)
    <3> DEFINE x == b[keys[k]].id
    <3>1. keys[k] \in S
      BY <1>4
    <3>2. x \in DOMAIN specs /\ getAncestors(specs, x).parent = None
      BY <1>3, <1>8, <3>1 DEF S
    <3>3. specs[x].id = x
      BY <1>2, <3>2
    <3> HIDE DEF x
    <3>4. /\ extendSpec(specs, x) \in Items /\ extendSpec(specs, x).id = x
          /\ extendSpec(specs, x).select = SelectOf(specs, x)
      BY <1>2, <3>2, <3>3, ExtendSpec
    <3>5. made.specs[k] = extendSpec(specs, x)
      BY <2>1 DEF x
    <3>6. Inherits(b, x) = SelectOf(specs, x)
      BY BatchWords DEF specs
    <3>7. QED
      BY <3>4, <3>5, <3>6
  <2>4. made.specs \in Seq(Items)
    <3>1. Len(keys) \in Nat /\ DOMAIN keys = 1 .. Len(keys)
      BY <1>4
    <3>2. made.specs \in [1 .. Len(keys) -> Items]
      BY <2>1, <2>3, <3>1
    <3>3. QED
      BY <3>1, <3>2, SeqTyped
  <2>5. DOMAIN made.specs = DOMAIN keys
    BY <2>1
  <2>6. QED
    BY <2>1, <2>2, <2>3, <2>4, <2>5
<1>9. CASE bad # {}
  <2>1. worst \in S /\ end(worst) # None
    <3>1. bad \subseteq Nat
      BY <1>2 DEF S
    <3>2. PICK i \in bad : \A j \in bad : ~(j < i)
      BY <1>9, <3>1, LeastNumber
    <3>3. \A j \in bad : i <= j
      BY <3>1, <3>2
    <3> HIDE DEF bad
    <3>4. worst \in bad
      BY <3>3 DEF worst
    <3>5. QED
      BY <3>4 DEF bad, S
  <2>2. made.specs = <<>> /\ made.error = end(worst)
    BY <1>1, <1>9
  <2>3. ~Sound(b) /\ made.error \in {None, "missing", "circle"} /\ made.error # None
    BY <1>5, <1>7, <2>1, <2>2
  <2>4. QED
    BY <2>2, <2>3
<1>10. QED
  BY <1>8, <1>9

-----------------------------------------------------------------------------
(* The batch that is being added *)

\* Between two calls of addEntities nothing is kept of the last one.
AddingInv ==
  /\ CoreTypeOK
  /\ adding \in [busy : BOOLEAN, source : Batches \cup FirstBatches \cup {<<>>},
                 specs : Seq(Items), error : Errors \cup {None}]
  /\ ~Adding => adding = NotAdding
  /\ ExtensionRight

\* Where addEntities starts, whatever the batch.
LEMMA AddingStarts ==
  ASSUME NEW b \in Batches \cup FirstBatches, addEntities(b)
  PROVE  /\ adding' \in [busy : BOOLEAN, source : Batches \cup FirstBatches \cup {<<>>},
                         specs : Seq(Items), error : Errors \cup {None}]
         /\ Adding' /\ ExtensionRight'
<1> DEFINE made == normalizeSpecs(b)
<1>1. b \in Seq(Items)
  BY CoreAssumption
<1>2. /\ made.error \in {None, "missing", "circle"}
      /\ made.error = None <=> Sound(b)
      /\ made.error # None => made.specs = <<>>
      /\ made.specs \in Seq(Items)
      /\ \A k \in DOMAIN made.specs : made.specs[k].select = Inherits(b, made.specs[k].id)
  BY <1>1, NormalizeSpecs
<1> HIDE DEF made
<1>3. adding' = [busy |-> TRUE, source |-> b, specs |-> made.specs, error |-> made.error]
  BY DEF addEntities, Normalized, made
<1>4. made.error \in Errors \cup {None}
  BY <1>2 DEF Errors
<1>5. adding' \in [busy : BOOLEAN, source : Batches \cup FirstBatches \cup {<<>>},
                   specs : Seq(Items), error : Errors \cup {None}]
  BY <1>2, <1>3, <1>4
<1>6. Adding'
  BY <1>3 DEF Adding
<1>7. /\ adding'.error = made.error /\ adding'.specs = made.specs
      /\ adding'.source = b
  BY <1>3
<1>8. ExtensionRight'
  BY <1>2, <1>7 DEF ExtensionRight, None
<1>9. QED
  BY <1>5, <1>6, <1>8

\* One store.add takes the first of the specs away, or leaves them and an error.
LEMMA AddingGoesOn ==
  ASSUME AddingInv, AddEntity
  PROVE  /\ adding' \in [busy : BOOLEAN, source : Batches \cup FirstBatches \cup {<<>>},
                         specs : Seq(Items), error : Errors \cup {None}]
         /\ Adding' /\ ExtensionRight'
<1>1. /\ adding \in [busy : BOOLEAN, source : Batches \cup FirstBatches \cup {<<>>},
                     specs : Seq(Items), error : Errors \cup {None}]
      /\ adding.specs # <<>> /\ adding.error = None
  BY DEF AddingInv, AddEntity
<1>2. Adding
  BY <1>1 DEF AddingInv, NotAdding
<1>3. /\ Sound(adding.source)
      /\ \A i \in DOMAIN adding.specs :
           adding.specs[i].select = Inherits(adding.source, adding.specs[i].id)
  BY <1>1, <1>2 DEF AddingInv, ExtensionRight, None
<1>4. CASE adding' = [adding EXCEPT !.specs = Tail(adding.specs)]
  <2> DEFINE rest == Tail(adding.specs)
  <2>1. rest \in Seq(Items) /\ \A i \in DOMAIN rest : i + 1 \in DOMAIN adding.specs /\ rest[i] = adding.specs[i + 1]
    BY <1>1
  <2> HIDE DEF rest
  <2>2. /\ adding'.specs = rest /\ adding'.source = adding.source
        /\ adding'.error = None /\ adding'.busy = adding.busy
    BY <1>1, <1>4 DEF rest
  <2>3. adding' \in [busy : BOOLEAN, source : Batches \cup FirstBatches \cup {<<>>},
                     specs : Seq(Items), error : Errors \cup {None}]
    BY <1>1, <1>4, <2>1 DEF rest
  <2>4. \A i \in DOMAIN rest : rest[i].select = Inherits(adding.source, rest[i].id)
    BY <1>3, <2>1
  <2>5. ExtensionRight'
    BY <1>3, <2>2, <2>4 DEF ExtensionRight, None
  <2>6. QED
    BY <1>2, <2>2, <2>3, <2>5 DEF Adding
<1>5. ASSUME NEW e \in {"exists", "factory"}, adding' = [adding EXCEPT !.error = e]
      PROVE  /\ adding' \in [busy : BOOLEAN, source : Batches \cup FirstBatches \cup {<<>>},
                             specs : Seq(Items), error : Errors \cup {None}]
             /\ Adding' /\ ExtensionRight'
  <2>1. /\ adding'.specs = adding.specs /\ adding'.source = adding.source
        /\ adding'.error = e /\ adding'.busy = adding.busy
    BY <1>1, <1>5
  <2>2. adding' \in [busy : BOOLEAN, source : Batches \cup FirstBatches \cup {<<>>},
                     specs : Seq(Items), error : Errors \cup {None}]
    BY <1>1, <1>5 DEF Errors
  <2>3. ExtensionRight'
    BY <1>3, <2>1 DEF ExtensionRight
  <2>4. QED
    BY <1>2, <2>1, <2>2, <2>3 DEF Adding
<1>6. QED
  BY <1>4, <1>5 DEF AddEntity

LEMMA AddingInit == CoreInit => AddingInv
<1> SUFFICES ASSUME CoreInit PROVE AddingInv
  OBVIOUS
<1>1. adding = NotAdding /\ <<>> \in Seq(Items) /\ adding.specs = <<>>
  BY DEF CoreInit, NotAdding
<1>2. ExtensionRight
  BY <1>1 DEF ExtensionRight, NotAdding, Adding, None
<1>3. CoreTypeOK
  <2>1. types \in [TypeName -> Makers \cup {None}] /\ entities \in [Id -> Entities \cup {NoEntity}]
    BY DEF CoreInit
  <2>2. values \in Values /\ call \in [Request -> Calls \cup {NoCall}]
    BY NoValuesTyped DEF CoreInit
  <2>3. QED
    BY <1>1, <2>1, <2>2 DEF CoreInit, CoreTypeOK, NotAdding
<1>4. QED
  BY <1>1, <1>2, <1>3 DEF AddingInv, NotAdding

LEMMA AddingStep == AddingInv /\ StoreInv' /\ [CoreNext]_coreVars => AddingInv'
<1> SUFFICES ASSUME AddingInv, StoreInv', [CoreNext]_coreVars
             PROVE  AddingInv'
  OBVIOUS
<1> DEFINE Typed ==
      /\ manager \in {None, "creating", "ready", "failed"}
      /\ types \in [TypeName -> Makers \cup {None}]
      /\ entities \in [Id -> Entities \cup {NoEntity}]
      /\ whole \subseteq Select
    Rest ==
      /\ adding \in [busy : BOOLEAN, source : Batches \cup FirstBatches \cup {<<>>},
                     specs : Seq(Items), error : Errors \cup {None}]
      /\ ~Adding => adding = NotAdding
      /\ ExtensionRight
<1>1. Typed /\ Rest
  BY DEF AddingInv, CoreTypeOK
<1>2. SUFFICES Typed' /\ Rest'
  BY DEF AddingInv, CoreTypeOK, StoreInv
<1>3. ASSUME UNCHANGED adding PROVE Rest'
  BY <1>1, <1>3 DEF Adding, ExtensionRight
<1>4. ASSUME NEW b \in FirstBatches, NEW v \in FirstValues, NEW own \in OwnTypes, Create(b, v, own)
      PROVE  Typed' /\ Rest'
  <2>1. Rest'
    BY <1>4, AddingStarts DEF Create
  <2>2. types' \in [TypeName -> Makers \cup {None}]
    BY <1>4 DEF Create, Makers
  <2>3. QED
    BY <1>1, <1>4, <2>1, <2>2 DEF Create
<1>5. CASE AddEntity
  <2>1. Rest'
    BY <1>5, AddingGoesOn
  <2>2. UNCHANGED <<manager, types>> /\ Head(adding.specs) \in Items
    BY <1>1, <1>5 DEF AddEntity
  <2>3. entities' \in [Id -> Entities \cup {NoEntity}] /\ whole' \subseteq Select
    <3> DEFINE item == Head(adding.specs)
    <3>1. CASE UNCHANGED <<entities, whole>>
      BY <1>1, <3>1
    <3>2. CASE /\ Creatable(item)
               /\ entities' = [entities EXCEPT ![item.id] = createEntity(item)]
               /\ whole' = IF item.type = "control" THEN whole \ {item.select} ELSE whole
      <4> HIDE DEF item
      <4>1. item \in Items
        BY <2>2 DEF item
      <4>2. item.type \in TypeName /\ item.select \in Select \cup {None}
        BY <4>1 DEF Items
      <4>3. types[item.type] \in Makers
        BY <1>1, <3>2, <4>2 DEF Creatable
      <4>4. createEntity(item) \in Entities
        BY <4>2, <4>3 DEF createEntity, Entities
      <4>5. QED
        BY <1>1, <3>2, <4>4
    <3>3. QED
      BY <1>5, <3>1, <3>2 DEF AddEntity
  <2>4. QED
    BY <1>1, <2>1, <2>2, <2>3
<1>6. CASE AddEntitiesEnds
  <2>1. adding' = NotAdding
    BY <1>6 DEF AddEntitiesEnds
  <2>2. Rest'
    BY <2>1 DEF NotAdding, Adding, ExtensionRight, None
  <2>3. manager' \in {None, "creating", "ready", "failed"}
    BY <1>1, <1>6 DEF AddEntitiesEnds, Created
  <2>4. QED
    BY <1>1, <1>6, <2>2, <2>3 DEF AddEntitiesEnds
<1>7. CASE ChangeEntities
  <2>1. CASE ClearEntities
    BY <1>1, <1>3, <2>1 DEF ClearEntities
  <2>2. ASSUME NEW b \in Batches, AddEntities(b) PROVE Typed' /\ Rest'
    BY <1>1, <2>2, AddingStarts DEF AddEntities
  <2>3. QED
    BY <1>7, <2>1, <2>2 DEF ChangeEntities
<1>8. CASE ChangeTypes
  <2>1. UNCHANGED <<manager, entities, whole, adding>> /\ types' \in [TypeName -> Makers \cup {None}]
    BY <1>1, <1>8 DEF ChangeTypes, AddEntityType, Makers
  <2>2. QED
    BY <1>1, <1>3, <2>1
<1>9. CASE ChangeValues
  BY <1>1, <1>3, <1>9 DEF ChangeValues, ClearValues, AddValue
<1>10. ASSUME NEW r \in Request, CallStep(r) PROVE Typed' /\ Rest'
  BY <1>1, <1>3, <1>10 DEF CallStep, Ends, Transform, LookUp, registryVars
<1>11. CASE UNCHANGED coreVars
  BY <1>1, <1>3, <1>11 DEF coreVars
<1>12. QED
  BY <1>4, <1>5, <1>6, <1>7, <1>8, <1>9, <1>10, <1>11 DEF CoreNext, RegistryStep

LEMMA AddingInductive == CoreSpec => [](StoreInv /\ AddingInv)
<1>1. CoreInit => StoreInv /\ AddingInv
  BY CoreInitHolds, AddingInit
<1>2. (StoreInv /\ AddingInv) /\ [CoreNext]_coreVars => (StoreInv /\ AddingInv)'
  BY CoreStepKeeps, AddingStep
<1>3. QED
  BY <1>1, <1>2, PTL DEF CoreSpec

\* The stores, the batch under way and the transforms have their types.
THEOREM CoreTyped == CoreSpec => []CoreTypeOK
BY AddingInductive, PTL DEF AddingInv

\* For every set of specs, however long its chains and wherever they close: addEntities
\* throws before it has added anything if some entity extends itself or one that is not
\* there, only then does it throw "missing" or "circle", and every entity it adds has the
\* select of the nearest spec above it that has one.
THEOREM EntitiesExtendRight == CoreSpec => []ExtensionRight
BY AddingInductive, PTL DEF AddingInv
=============================================================================
