---------------------------- MODULE ReducerTrace ----------------------------
(***************************************************************************)
(* The trace of a transform with the option trace: resolveReducer adds a   *)
(* node for every reducer to the graph that the accumulators share, with   *)
(* the node of the accumulator it was given as its parent.  When the       *)
(* transform has resolved, the graph is written as a tree.                 *)
(*                                                                         *)
(* A node is known by the path of its task.  Times are left out, but for   *)
(* whether a node has got its duration.                                    *)
(***************************************************************************)
EXTENDS Reducers

\* Calls of Reducers that are no calls of resolveReducer: parts of the entities,
\* and the items that a condition skips.
EntityParts == {"entity", "control", "entry", "request", "rp", "schema"}

\* What is resolved is a reducer that the user can write.
ASSUME RootsAssumption == \A i \in DOMAIN Roots : Roots[i].type \notin EntityParts

IsSkippedItem(p) ==
  /\ p # <<>>
  /\ task[p].reducer.type = "constant"
  /\ task[Front(p)].reducer.type \in {"entity id", "entity instance"}
IsTraced(p) == task[p].reducer.type \notin EntityParts /\ ~IsSkippedItem(p)
Traced == {p \in DOMAIN task : IsTraced(p)}

NoNode == <<0>>                               \* calls are counted from 1

\* The calls that led to p, from the outermost on, and p.
WayTo(p) == {SubSeq(p, 1, n) : n \in 0 .. Len(p)}

\* The node in the accumulator that a task works with: its own, or that of the
\* nearest task above, which handed the accumulator on.
AccumulatorNode(p) ==
  LET traced == {n \in 0 .. Len(p) : IsTraced(SubSeq(p, 1, n))}
  IN  IF traced = {} THEN NoNode ELSE SubSeq(p, 1, Max(traced))

\* augmentTraceNodeDuration: when the reducer, and its default, have resolved.
Timed(p) == IsOk(task[p].result)

\* The accumulator is copied, so that a call does not change the one of its caller.
FaultyCreateTracedAccumulator(p) ==           \* sets the node on the caller's own
  [id |-> p, timed |-> Timed(p),
   parent |-> IF p = <<>> THEN NoNode
              ELSE AccumulatorNode(IF Last(p) = 1 THEN Front(p)
                                   ELSE [p EXCEPT ![Len(p)] = @ - 1])]
createTracedAccumulator(p) ==
  [id |-> p, timed |-> Timed(p),
   parent |-> IF p = <<>> THEN NoNode ELSE AccumulatorNode(Front(p))]

traceGraph == {createTracedAccumulator(p) : p \in Traced}

\* The nodes n levels below the root.
Level(root, n) ==
  LET level[k \in 0 .. n] ==
        IF k = 0 THEN {root}
        ELSE UNION {{child \in traceGraph : child.parent = node.id} : node \in level[k - 1]}
  IN  level[n]

\* The root and all below it, each with how deep it lies: no deeper than some path
\* is long.
createTree(root) ==
  UNION {{[id |-> node.id, timed |-> node.timed, nestingLevel |-> n] : node \in Level(root, n)} :
           n \in {Len(p) : p \in DOMAIN task}}

\* traceReducer, of a transform that has resolved: one that fails writes nothing.
Written == IsOk(task[<<>>].result)
writeTraceGraph == createTree(CHOOSE node \in traceGraph : node.parent = NoNode)

-----------------------------------------------------------------------------
(* Properties *)

Above(p) == WayTo(p) \ {p}

\* What is written when a transform has resolved, in whatever order its calls ran
\* and whichever of them failed: every reducer that was called has its place in the
\* tree, below the reducers whose calls led to it and no others; and a node that has
\* no duration, because its reducer failed or is still under way, lies at or below
\* a call whose failure an entity has caught.
TraceWhole ==
  Written =>
    /\ {node.id : node \in writeTraceGraph} = Traced
    /\ \A node \in writeTraceGraph :
         /\ node.nestingLevel = Cardinality(Above(node.id) \cap Traced)
         /\ ~node.timed =>
              \E p \in (Above(node.id) \cup {node.id}) \ {<<>>} :
                Catches(task[Front(p)].reducer) /\ IsError(task[p].result)
=============================================================================
