----------------------------- MODULE Application -----------------------------
(***************************************************************************)
(* A whole application of data-point-express: the service starts           *)
(* (ServiceStart) and creates its DataPoint instance (DataPointCore), the  *)
(* router is made (ExpressRoutes), and requests are answered by transforms *)
(* while redis comes and goes and the stores change.                       *)
(*                                                                         *)
(* createMiddleware of data-point-express hands out the router once the    *)
(* service is created; a request that reaches an entity is a transform.    *)
(***************************************************************************)
EXTENDS ServiceStart, ExpressRoutes

CONSTANT Programs  \* the applications

VARIABLE program   \* the one that runs

vars == <<startVars, routeVars, coreVars, program>>

\* What a program passes to create and to router, and what goes on changing while
\* it runs: the connection to redis, its middleware, or one of the stores.
Changes == {"redis", "middleware", "entities", "types", "values"}

ASSUME ApplicationAssumption == \A p \in Programs :
  /\ p.options \in Options /\ p.entities \in FirstBatches
  /\ p.types \in OwnTypes /\ p.values \in FirstValues
  /\ p.routes \in RouteMaps /\ p.changes \subseteq Changes

TypeOK == StartTypeOK /\ CoreTypeOK /\ RouteTypeOK

Init ==
  /\ program \in Programs
  /\ StartInit /\ options = program.options
  /\ CoreInit
  /\ RouteInit

\* A synchronous call is under way: no event, and no other call, comes between.
Busy == Adding \/ router = "adding"
Serving == stage = "created" /\ ~Busy

-----------------------------------------------------------------------------
othersThanStart == <<coreVars, routeVars, program>>
othersThanCore == <<startVars, routeVars, program>>
othersThanRoute == <<startVars, program>>

RedisEvent ==
  /\ ~Busy /\ (stage = "created" => "redis" \in program.changes)
  /\ LinkStep
  /\ UNCHANGED othersThanStart

Start == (Begin \/ CreateCache) /\ UNCHANGED othersThanStart

\* DataPointFactory.create: verify, DataPoint.create, and what follows in the
\* service when it has returned or thrown.
CreateManager ==
  /\ stage = "dataPoint" /\ options.DataPoint
  /\ Create(program.entities, program.values, program.types)
  /\ UNCHANGED othersThanCore
CreateEnds ==
  /\ options.DataPoint => manager \in {"ready", "failed"} /\ ~Adding
  /\ CreateDataPoint(manager = "ready")
  /\ UNCHANGED othersThanStart

Register == RegistryStep /\ UNCHANGED othersThanCore

\* The application changes the stores, or its middleware.
ChangeStores ==
  /\ Serving
  /\ \/ "entities" \in program.changes /\ ChangeEntities
     \/ "types" \in program.changes /\ ChangeTypes
     \/ "values" \in program.changes /\ ChangeValues
  /\ UNCHANGED othersThanCore
ChangeMiddleware ==
  /\ Serving /\ "middleware" \in program.changes
  /\ ClearMiddleware \/ \E name \in Names : Use(name)
  /\ UNCHANGED othersThanStart

\* The router is made once.
MakeRouter == Serving /\ Router(program.routes) /\ UNCHANGED othersThanRoute
AddRoutes == AddRoute /\ UNCHANGED othersThanRoute

\* A request, up to its entity; the transform of that, and the answer.
Route(r) ==
  /\ Serving
  /\ RunFunction(r) \/ NotFound(r) \/ \E x \in Id : RunEntity(r, x)
  /\ UNCHANGED othersThanRoute
Respond(r) == Serving /\ (\E how \in Outcomes : Reply(r, how)) /\ UNCHANGED othersThanRoute
Miss(r) == Serving /\ (\E x \in Id : LookUp(r, x)) /\ UNCHANGED othersThanCore
Client(r) ==
  /\ Serving
  /\ Close(r) \/ (\E q \in Queries : Arrive(r, q)) \/ \E x \in Id : Direct(r, x)
  /\ UNCHANGED othersThanRoute

Serve(r) == Route(r) \/ Respond(r)

Next ==
  \/ RedisEvent \/ Start \/ CreateManager \/ CreateEnds \/ Register
  \/ ChangeStores \/ ChangeMiddleware \/ MakeRouter \/ AddRoutes
  \/ \E r \in Request : Serve(r) \/ Miss(r) \/ Client(r)

Spec == Init /\ [][Next]_vars

\* The event loop is a queue: what is due has its turn, however much the application
\* does in between.  A function of the application calls next, answers or fails,
\* and a transform ends.  For redis see StartFairness.
Fairness ==
  /\ WF_vars(Start \/ CreateManager \/ CreateEnds \/ Register \/ AddRoutes)
  /\ \A r \in Request : SF_vars(Serve(r))
  /\ WF_vars(RedisEvent /\ Reconnect)
  /\ WF_vars(RedisEvent /\ (OnConnect \/ (link = "connecting" /\ OnError)))
  /\ SF_vars(RedisEvent /\ OnConnect)
  /\ SF_vars(RedisEvent /\ OnReady)

FairSpec == Spec /\ Fairness
=============================================================================
