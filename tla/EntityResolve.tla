--------------------------- MODULE EntityResolve ---------------------------
(***************************************************************************)
(* The resolution of one entity (base-entity/resolve.js of data-point):    *)
(* input type, middleware "before", the entity's reducers, middleware      *)
(* "after", output type, and the error reducer that any failure leads to.  *)
(* Each middleware name runs its stack through MiddlewareControl.          *)
(*                                                                         *)
(* A value is known by how it stands to the outputType.  What the types    *)
(* and reducers compute is left open: each may fail, and each reducer may  *)
(* return any value.                                                       *)
(***************************************************************************)
EXTENDS MiddlewareControl

VARIABLES
  pc,       \* the stage; those in Chains run a stack
  value,    \* the local variable value
  byPass,   \* the local variable byPass
  running,  \* is the stack of the stage running?
  spec      \* which of the optional parts the entity has

entityVars == <<pc, value, byPass, running, spec>>
vars == <<chainVars, entityVars>>

ASSUME ValueAssumption == Value = {"conforms", "violates"}

\* The reducers of the entity, one await each.
Reducers == <<"spec.before", "spec.value", "resolve", "spec.after">>
Chains == {"before", "type:before", "type:after", "after"}
Stages ==
  {"inputType", "outputType", "error", "error:outputType", "resolved", "rejected"}
    \cup Chains \cup {Reducers[i] : i \in 1 .. 4}
Over == pc \in {"resolved", "rejected"}

TypeOK ==
  /\ ChainTypeOK
  /\ pc \in Stages
  /\ value \in Value
  /\ byPass \in BOOLEAN
  /\ running \in BOOLEAN
  /\ running => pc \in Chains
  /\ spec \in [error : BOOLEAN, outputType : BOOLEAN]

Init ==
  /\ ChainInit
  /\ pc = "inputType"
  /\ value \in Value
  /\ byPass = FALSE
  /\ running = FALSE
  /\ spec \in [error : BOOLEAN, outputType : BOOLEAN]

-----------------------------------------------------------------------------
\* The stage after one that succeeds.
FaultyFollowing(stage, skip) ==  \* the last middleware runs for a value served too
  CASE stage = "inputType"   -> "before"
    [] stage = "before"      -> IF skip THEN "type:after" ELSE "type:before"
    [] stage = "type:before" -> IF skip THEN "type:after" ELSE Reducers[1]
    [] stage = Reducers[1]   -> Reducers[2]
    [] stage = Reducers[2]   -> Reducers[3]
    [] stage = Reducers[3]   -> Reducers[4]
    [] stage = Reducers[4]   -> "type:after"
    [] stage = "type:after"  -> "after"
    [] stage = "after"       -> "outputType"
Following(stage, skip) ==
  CASE stage = "inputType"   -> "before"
    [] stage = "before"      -> IF skip THEN "type:after" ELSE "type:before"
    [] stage = "type:before" -> IF skip THEN "type:after" ELSE Reducers[1]
    [] stage = Reducers[1]   -> Reducers[2]
    [] stage = Reducers[2]   -> Reducers[3]
    [] stage = Reducers[3]   -> Reducers[4]
    [] stage = Reducers[4]   -> "type:after"
    [] stage = "type:after"  -> IF skip THEN "outputType" ELSE "after"
    [] stage = "after"       -> "outputType"

\* The catch clause: without an error reducer the error is thrown again.
Catch == pc' = IF spec.error THEN "error" ELSE "rejected"

\* A type or reducer of the application fails, with an error or with undefined or
\* null: to write entityId on those throws, in the catch clause itself.
Fail == Catch \/ pc' = "rejected"

InputType ==
  /\ pc = "inputType"
  /\ pc' = Following(pc, byPass) \/ Fail
  /\ UNCHANGED <<chainVars, value, byPass, running, spec>>

\* A name under which no middleware is registered is passed over.
SkipChain ==
  /\ pc \in Chains /\ ~running
  /\ pc' = Following(pc, byPass)
  /\ UNCHANGED <<chainVars, value, byPass, running, spec>>

EnterChain ==
  /\ pc \in Chains /\ ~running
  /\ \E n \in 1 .. MaxLen : Run(n, value)
  /\ running' = TRUE
  /\ UNCHANGED <<pc, value, byPass, spec>>

ChainStep(h) ==
  /\ running
  /\ HandlerStep(h)
  /\ UNCHANGED entityVars

\* The promise of the stack settles.
LeaveChain ==
  /\ running /\ Settled
  /\ running' = FALSE
  /\ IF outcome = "error"
       THEN Catch /\ UNCHANGED <<value, byPass>>
       ELSE /\ byPass' = (byPass \/ ctx.resolve)
            /\ value' = IF ctx.resolve THEN ctx.value ELSE value
            /\ pc' = Following(pc, byPass')
  /\ UNCHANGED <<chainVars, spec>>

Reduce ==
  /\ \E i \in 1 .. 4 : pc = Reducers[i]
  /\ \/ \E v \in Value : value' = v /\ pc' = Following(pc, byPass)
     \/ UNCHANGED value /\ Fail
  /\ UNCHANGED <<chainVars, byPass, running, spec>>

Passes == spec.outputType => value = "conforms"

OutputType ==
  /\ pc = "outputType"
  /\ IF Passes THEN pc' = "resolved" ELSE Fail
  /\ UNCHANGED <<chainVars, value, byPass, running, spec>>

ErrorReducer ==
  /\ pc = "error"
  /\ \/ \E v \in Value : value' = v /\ pc' = "error:outputType"
     \/ UNCHANGED value /\ pc' = "rejected"
  /\ UNCHANGED <<chainVars, byPass, running, spec>>

FaultyErrorOutputType ==         \* the value of the error reducer is not checked
  /\ pc = "error:outputType"
  /\ pc' = "resolved"
  /\ UNCHANGED <<chainVars, value, byPass, running, spec>>
ErrorOutputType ==
  /\ pc = "error:outputType"
  /\ pc' = IF Passes THEN "resolved" ELSE "rejected"
  /\ UNCHANGED <<chainVars, value, byPass, running, spec>>

-----------------------------------------------------------------------------
Step ==
  \/ InputType \/ SkipChain \/ EnterChain \/ LeaveChain
  \/ Reduce \/ OutputType \/ ErrorReducer \/ ErrorOutputType

Next == Step \/ \E h \in Handler : ChainStep(h)

Spec == Init /\ [][Next]_vars

\* Reducers settle, and every handler ends its turn, as the contract of the
\* middleware asks: it returns when it runs, and calls next unless it throws.
TakesTurn(h) ==
  /\ running /\ calls[h] = 0 /\ h \notin threw /\ UNCHANGED entityVars
  /\ Throw(h) \/ \E arg \in Args : CallNext(h, arg)
Returns(h) == running /\ Return(h) /\ UNCHANGED entityVars

Fairness ==
  /\ WF_vars(Step)
  /\ \A h \in Handler : WF_vars(TakesTurn(h)) /\ WF_vars(Returns(h))

FairSpec == Spec /\ Fairness

-----------------------------------------------------------------------------
(* Properties *)

\* An entity resolves only to a value that its outputType lets through, whether
\* it comes from its reducers, from a middleware that ends the chain (a cached
\* value, for one) or from its error reducer.
ResolvesConforming == pc = "resolved" => Passes

\* What done was first called with stays.  Unless that is the error of a handler
\* that threw, no handler of the stack starts after it and the value in the context
\* stays too, however the handlers nest or return late: the caller, a turn of
\* the event loop later, reads that value.  (A handler may throw after it has called
\* next; the one below it, if it is still pending, may then start others.)
EndsOnce ==
  [][running /\ running' /\ outcome # "none" =>
       /\ UNCHANGED outcome
       /\ outcome = "ok" \/ threw = {} => UNCHANGED <<shifted, ctx>>]_vars

\* A value that a "before" middleware served, or a "type:after" one put in its
\* place, never reaches "after": what the cache serves is not stored again, or
\* its ttl would start anew with every hit.
ServedNotStoredAgain == pc = "after" => ~byPass

\* An error that a handler passes to next, or throws before or after it has called
\* next, fails the entity if the run still waits for a handler: without an error
\* reducer, no value comes of it.  The throw of a handler after all have called
\* next is too late, and nothing else fails the entity here.
ErrorFails ==
  [][running /\ ~running' => (pc' \in {"error", "rejected"} <=> failed # {})]_vars

\* Every entity resolves or is rejected.
Settles == <>Over
=============================================================================
