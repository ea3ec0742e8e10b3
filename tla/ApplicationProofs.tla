------------------------- MODULE ApplicationProofs -------------------------
(***************************************************************************)
(* Proofs about Application and the two components that only it has: the   *)
(* start of the service (ServiceStart) and the router (ExpressRoutes).     *)
(*                                                                         *)
(* Seen from the service alone, and from the DataPoint instance alone, the *)
(* application makes only the steps of ServiceStart and of DataPointCore.  *)
(* What holds of those specifications holds of it.                         *)
(***************************************************************************)
EXTENDS Application, DataPointCoreProofs

-----------------------------------------------------------------------------
(* The start of the service.  LinkInv ties the client to the local variable *)
(* wasConnected: only before the first connect does an error close the     *)
(* client, and it is then the error that rejects the promise.              *)

LinkInv ==
  /\ link = "none" <=> client = "none"
  /\ link \in {"connected", "ready", "waiting"} => wasConnected
  /\ link = "closed" => ~wasConnected
  /\ client = "resolved" => wasConnected
  /\ client = "rejected" <=> link = "closed"

StageInv ==
  /\ stage = "called" <=> client = "none" /\ stage # "failed"
  /\ stage \in {"dataPoint", "created"} => client \in {"resolved", "rejected"}
  /\ stage \in {"called", "cache"} => ~service.isCacheAvailable
  /\ service.isCacheAvailable => client = "resolved"
  /\ stage = "dataPoint" /\ isCacheRequired => service.isCacheAvailable

HandlersInv ==
  /\ \A name \in Names : middleware[name] \in Seq({"cache", "own"})
  /\ ~service.isCacheAvailable =>
       \A name \in Names : \A i \in 1 .. Len(middleware[name]) : middleware[name][i] = "own"
  /\ stage = "created" /\ isCacheRequired => service.isCacheAvailable

StartInv == StartTypeOK /\ LinkInv /\ StageInv /\ HandlersInv

\* The empty middleware, and the one that setupMiddleware makes.
LEMMA NoHandlersTyped ==
  /\ NoHandlers \in [Names -> Seq({"cache", "own"})]
  /\ \A name \in Names : NoHandlers[name] = <<>> /\ Len(NoHandlers[name]) = 0
<1>1. <<>> \in Seq({"cache", "own"}) /\ Len(<<>>) = 0
  OBVIOUS
<1>2. QED BY <1>1 DEF NoHandlers

LEMMA MiddlewareTyped ==
  ASSUME NEW m \in [Names -> {"cache", "own"}],
         middleware' = [before |-> <<m["before"]>>, after |-> <<m["after"]>>]
  PROVE  middleware' \in [Names -> Seq({"cache", "own"})]
<1> DEFINE Stacks == Seq({"cache", "own"})
<1> DEFINE Stack(name) == <<m[name]>>
<1>1. \A name \in Names : Stack(name) \in Stacks
  OBVIOUS
<1>2. middleware' = [name \in Names |-> Stack(name)]
  BY DEF Names
<1> HIDE DEF Stack, Stacks
<1>3. [name \in Names |-> Stack(name)] \in [Names -> Stacks]
  BY <1>1
<1>4. middleware' \in [Names -> Stacks]
  BY <1>2, <1>3
<1>5. QED BY <1>4 DEF Stacks

LEMMA InitHolds == StartInit => StartInv
<1> SUFFICES ASSUME StartInit PROVE StartInv
  OBVIOUS
<1>1. middleware \in [Names -> Seq({"cache", "own"})]
  BY NoHandlersTyped DEF StartInit
<1>2. StartTypeOK
  BY <1>1 DEF StartInit, StartTypeOK
<1>3. LinkInv /\ StageInv
  BY DEF StartInit, LinkInv, StageInv
<1>4. HandlersInv
  <2>1. \A name \in Names : \A i \in 1 .. Len(middleware[name]) : FALSE
    BY NoHandlersTyped DEF StartInit
  <2>2. QED BY <1>1, <2>1 DEF StartInit, HandlersInv
<1>5. QED BY <1>2, <1>3, <1>4 DEF StartInv

-----------------------------------------------------------------------------
(* One lemma per group of actions. *)

LEMMA LinkKeeps ==
  ASSUME StartInv, LinkStep
  PROVE  StartInv'
<1> USE DEF StartInv, StartTypeOK, LinkInv, StageInv, HandlersInv, Idle, clientOnly, Settle,
            isCacheRequired
<1>1. CASE OnConnect BY <1>1 DEF OnConnect
<1>2. CASE OnReady BY <1>2 DEF OnReady
<1>3. CASE OnError BY <1>3 DEF OnError
<1>4. CASE Drop BY <1>4 DEF Drop
<1>5. CASE Reconnect BY <1>5 DEF Reconnect
<1>6. QED BY <1>1, <1>2, <1>3, <1>4, <1>5 DEF LinkStep

LEMMA CreateKeeps ==
  ASSUME StartInv, CreateStep
  PROVE  StartInv'
<1> USE DEF StartInv, StartTypeOK, LinkInv, StageInv, HandlersInv, isCacheRequired
<1>1. CASE Begin BY <1>1 DEF Begin
<1>2. CASE CreateCache BY <1>2 DEF CreateCache
<1>3. ASSUME NEW ok \in BOOLEAN, CreateDataPoint(ok) PROVE StartInv'
  <2>1. CASE options.DataPoint /\ ok /\ service.isCacheAvailable
    <3> DEFINE m == [name \in Names |-> HandlerOf(IF name = "before" THEN options.before ELSE options.after)]
    <3>1. m \in [Names -> {"cache", "own"}]
      BY DEF HandlerOf
    <3>2. middleware' = [before |-> <<m["before"]>>, after |-> <<m["after"]>>]
      BY <1>3, <2>1 DEF CreateDataPoint, setupMiddleware, Names
    <3>3. middleware' \in [Names -> Seq({"cache", "own"})]
      BY <3>1, <3>2, MiddlewareTyped
    <3>4. service' = [service EXCEPT !.dataPoint = TRUE]
      BY <1>3, <2>1 DEF CreateDataPoint
    <3>5. StartTypeOK' /\ LinkInv' /\ StageInv'
      BY <1>3, <2>1, <3>3, <3>4 DEF CreateDataPoint
    <3>6. HandlersInv'
      BY <1>3, <2>1, <3>3, <3>4 DEF CreateDataPoint
    <3>7. QED BY <3>5, <3>6
  <2>2. CASE ~(options.DataPoint /\ ok /\ service.isCacheAvailable)
    <3>1. UNCHANGED <<options, server, link, wasConnected, client, middleware>>
      BY <1>3, <2>2 DEF CreateDataPoint, setupMiddleware
    <3>2. CASE options.DataPoint /\ ok
      <4>1. service' = [service EXCEPT !.dataPoint = TRUE] /\ stage' = "created"
        BY <1>3, <3>2 DEF CreateDataPoint
      <4>2. stage = "dataPoint" /\ service'.isCacheAvailable = service.isCacheAvailable
        BY <1>3, <4>1 DEF CreateDataPoint
      <4>3. StartTypeOK' /\ LinkInv'
        BY <3>1, <4>1
      <4>4. StageInv' /\ HandlersInv'
        BY <3>1, <4>1, <4>2
      <4>5. QED BY <4>3, <4>4
    <3>3. CASE ~(options.DataPoint /\ ok)
      <4>1. stage' = "failed" /\ UNCHANGED service
        BY <1>3, <3>3 DEF CreateDataPoint
      <4>2. stage = "dataPoint"
        BY <1>3 DEF CreateDataPoint
      <4>3. StartTypeOK' /\ LinkInv'
        BY <3>1, <4>1
      <4>4. StageInv' /\ HandlersInv'
        BY <3>1, <4>1, <4>2
      <4>5. QED BY <4>3, <4>4
    <3>4. QED BY <3>2, <3>3
  <2>3. QED BY <2>1, <2>2
<1>4. QED BY <1>1, <1>2, <1>3 DEF CreateStep

LEMMA MiddlewareKeeps ==
  ASSUME StartInv, ClearMiddleware \/ \E name \in Names : Use(name)
  PROVE  StartInv'
<1> USE DEF StartInv, StartTypeOK, LinkInv, StageInv, HandlersInv, isCacheRequired
<1>1. CASE ClearMiddleware BY <1>1 DEF ClearMiddleware, NoHandlers, Names
<1>2. ASSUME NEW name \in Names, Use(name) PROVE StartInv'
  BY <1>2 DEF Use, Names
<1>3. QED BY <1>1, <1>2

LEMMA StepKeeps == StartInv /\ [StartNext]_startVars => StartInv'
<1> SUFFICES ASSUME StartInv, [StartNext]_startVars PROVE StartInv'
  OBVIOUS
<1>1. CASE StartNext
  BY <1>1, LinkKeeps, CreateKeeps, MiddlewareKeeps DEF StartNext
<1>2. CASE UNCHANGED startVars
  BY <1>2 DEF startVars, StartInv, StartTypeOK, LinkInv, StageInv, HandlersInv, isCacheRequired
<1>3. QED BY <1>1, <1>2

LEMMA Inductive == StartSpec => []StartInv
  BY InitHolds, StepKeeps, PTL DEF StartSpec

-----------------------------------------------------------------------------
\* The variables of the service and of its redis client keep their types.
THEOREM StartTyped == StartSpec => []StartTypeOK
  BY Inductive, PTL DEF StartInv

\* The redis client of a service that has a cache is never disconnected for good by
\* the events it hears.
THEOREM CacheNeverCutOff == StartSpec => []NeverCutOff
<1>1. StartInv => NeverCutOff
  BY DEF StartInv, StartTypeOK, LinkInv, StageInv, NeverCutOff
<1>2. QED BY <1>1, Inductive, PTL

\* A client is closed exactly when create has been told that it failed.
THEOREM ClosedWhenGivenUp == StartSpec => []GivenUpIsClosed
<1>1. StartInv => GivenUpIsClosed
  BY DEF StartInv, LinkInv, GivenUpIsClosed
<1>2. QED BY <1>1, Inductive, PTL

\* The cache handlers are on the middleware only of a service that has a cache, and
\* a cache that is required is there.
THEOREM HandlersFindCache == StartSpec => []HandlersHaveCache
<1>1. StartInv => HandlersHaveCache
  BY DEF StartInv, StartTypeOK, StageInv, HandlersInv, HandlersHaveCache, isCacheRequired
<1>2. QED BY <1>1, Inductive, PTL

-----------------------------------------------------------------------------
(* The application *)

LEMMA StartSteps == [Next]_vars => [StartNext]_startVars
<1> SUFFICES ASSUME [Next]_vars PROVE StartNext \/ UNCHANGED startVars
  OBVIOUS
<1>1. CASE RedisEvent
  BY <1>1 DEF RedisEvent, StartNext
<1>2. CASE Start
  BY <1>2 DEF Start, StartNext, CreateStep
<1>3. CASE CreateEnds
  <2>1. PICK ok \in BOOLEAN : CreateDataPoint(ok)
    BY <1>3 DEF CreateEnds
  <2>2. QED BY <2>1 DEF StartNext, CreateStep
<1>4. CASE ChangeMiddleware
  BY <1>4 DEF ChangeMiddleware, StartNext
<1>5. CASE CreateManager \/ Register \/ ChangeStores
  BY <1>5 DEF CreateManager, Register, ChangeStores, othersThanCore
<1>6. CASE MakeRouter \/ AddRoutes
  BY <1>6 DEF MakeRouter, AddRoutes, othersThanRoute
<1>7. ASSUME NEW r \in Request, Serve(r) \/ Miss(r) \/ Client(r)
      PROVE  UNCHANGED startVars
  BY <1>7 DEF Serve, Route, Respond, Miss, Client, othersThanRoute, othersThanCore
<1>8. CASE UNCHANGED vars
  BY <1>8 DEF vars
<1>9. QED
  BY <1>1, <1>2, <1>3, <1>4, <1>5, <1>6, <1>7, <1>8 DEF Next

\* The application implements the specification of the service's start.
THEOREM StartImplemented == Spec => StartSpec
<1>1. Init => StartInit
  BY DEF Init
<1>2. QED BY <1>1, StartSteps, PTL DEF Spec, StartSpec

\* So redis can be lost and found while requests are served, and the client of a
\* service that has a cache is still never disconnected for good.
THEOREM ApplicationNeverCutOff == Spec => []NeverCutOff
  BY StartImplemented, CacheNeverCutOff

\* And a request never comes to a cache handler that has no cache.
THEOREM ApplicationHandlersFindCache == Spec => []HandlersHaveCache
  BY StartImplemented, HandlersFindCache

-----------------------------------------------------------------------------
ProgramKnown == program \in Programs
LEMMA ProgramStays == Spec => []ProgramKnown
<1>1. Init => ProgramKnown
  BY DEF Init, ProgramKnown
<1>2. ProgramKnown /\ [Next]_vars => ProgramKnown'
  BY DEF ProgramKnown, Next, vars, RedisEvent, Start, CreateManager, CreateEnds, Register, ChangeStores, ChangeMiddleware,
     MakeRouter, AddRoutes, Serve, Route, Respond, Miss, Client,
     othersThanStart, othersThanCore, othersThanRoute
<1>3. QED BY <1>1, <1>2, PTL DEF Spec

LEMMA TransformIsCore ==
  ASSUME NEW r \in Request, NEW x \in Id, Transform(r, x)
  PROVE  CoreNext
  BY DEF CallStep, CoreNext

LEMMA CoreSteps == ProgramKnown /\ [Next]_vars => [CoreNext]_coreVars
<1> SUFFICES ASSUME ProgramKnown, [Next]_vars PROVE CoreNext \/ UNCHANGED coreVars
  OBVIOUS
<1>1. CASE CreateManager
  BY <1>1, ApplicationAssumption DEF ProgramKnown, CreateManager, CoreNext
<1>2. CASE Register
  BY <1>2 DEF Register, CoreNext
<1>3. CASE ChangeStores
  BY <1>3 DEF ChangeStores, CoreNext
<1>4. CASE RedisEvent \/ Start \/ CreateEnds \/ ChangeMiddleware
  BY <1>4 DEF RedisEvent, Start, CreateEnds, ChangeMiddleware, othersThanStart
<1>5. CASE MakeRouter \/ AddRoutes
  BY <1>5 DEF MakeRouter, AddRoutes, Router, AddRoute
<1>6. ASSUME NEW r \in Request, Route(r) PROVE CoreNext \/ UNCHANGED coreVars
  BY <1>6, TransformIsCore DEF Route, RunFunction, NotFound, RunEntity, setupVars
<1>7. ASSUME NEW r \in Request, Respond(r) PROVE CoreNext
  BY <1>7 DEF Respond, Reply, CallStep, CoreNext
<1>8. ASSUME NEW r \in Request, Miss(r) PROVE CoreNext
  BY <1>8 DEF Miss, CallStep, CoreNext
<1>9. ASSUME NEW r \in Request, Client(r) PROVE CoreNext \/ UNCHANGED coreVars
  BY <1>9, TransformIsCore DEF Client, Close, Arrive, Direct, setupVars
<1>10. CASE UNCHANGED vars
  BY <1>10 DEF vars
<1>11. QED
  BY <1>1, <1>2, <1>3, <1>4, <1>5, <1>6, <1>7, <1>8, <1>9, <1>10 DEF Next, Serve

\* And it implements the specification of the DataPoint instance: requests are
\* transforms, and the router touches no store.
THEOREM CoreImplemented == Spec => CoreSpec
<1>1. Init => CoreInit
  BY DEF Init
<1>2. QED BY <1>1, CoreSteps, ProgramStays, PTL DEF Spec, CoreSpec

\* While requests are served, nothing but clear takes an entity away from them.
THEOREM ApplicationEntitiesStay == Spec => EntitiesStay
  BY CoreImplemented, EntitiesAreKept

\* A request that is being answered keeps the values it reads, unless one is overridden.
THEOREM ApplicationValuesStay == Spec => ValuesStay
  BY CoreImplemented, ValuesAreKept

\* The types of the stores, with the entities that the application adds while it serves.
THEOREM ApplicationCoreTyped == Spec => []CoreTypeOK
  BY CoreImplemented, CoreTyped

\* Whichever batches the application is created with and adds later, each is refused or
\* extended as it should be.
THEOREM ApplicationExtendsRight == Spec => []ExtensionRight
  BY CoreImplemented, EntitiesExtendRight

-----------------------------------------------------------------------------
(* The router *)

IsBefore(map, i, j) ==
  map[i].priority < map[j].priority \/ (map[i].priority = map[j].priority /\ i < j)

\* The normalised routes: those that are enabled, each after those that are earlier.
LEMMA NormalizeRoutes ==
  ASSUME NEW map \in Seq(Routes), NEW made, made = normalize(map)
  PROVE  /\ made \in Seq(Routes)
         /\ \E keys \in [DOMAIN made -> {i \in DOMAIN map : map[i].enabled}] :
              /\ \A k \in DOMAIN made : made[k] = map[keys[k]]
              /\ \A i \in DOMAIN map : map[i].enabled => \E k \in DOMAIN made : keys[k] = i
              /\ \A k, l \in DOMAIN made : IsBefore(map, keys[k], keys[l]) => k < l
<1> DEFINE enabled == {i \in DOMAIN map : map[i].enabled}
           keys == InOrder(enabled, LAMBDA i, j : IsBefore(map, i, j))
           R == {p \in enabled \X enabled : IsBefore(map, p[1], p[2])}
<1>1. made = [k \in DOMAIN keys |-> map[keys[k]]]
  BY DEF normalize, IsBefore
<1>2. Len(map) \in Nat /\ DOMAIN map = 1 .. Len(map) /\ \A i \in DOMAIN map : map[i] \in Routes
  OBVIOUS
<1>3. IsFiniteSet(enabled)
  <2>1. 1 \in Int /\ Len(map) \in Int
    BY <1>2
  <2>2. IsFiniteSet(DOMAIN map)
    BY <1>2, <2>1, FS_Interval
  <2>3. QED
    BY <2>2, FS_Subset
<1>4. \A i, j \in enabled : IsBefore(map, i, j) <=> <<i, j>> \in R
  OBVIOUS
<1>5. IsOrder(enabled, R)
  <2>1. \A i \in enabled : i \in Nat /\ map[i].priority \in Nat
    BY <1>2 DEF Routes
  <2>2. \A i \in enabled : ~IsBefore(map, i, i)
    BY <2>1 DEF IsBefore
  <2>3. \A i, j \in enabled : i # j => IsBefore(map, i, j) \/ IsBefore(map, j, i)
    BY <2>1 DEF IsBefore
  <2>4. \A i, j, k \in enabled : IsBefore(map, i, j) /\ IsBefore(map, j, k) => IsBefore(map, i, k)
    BY <2>1 DEF IsBefore
  <2> HIDE DEF enabled, R
  <2>5. QED
    BY <1>4, <2>2, <2>3, <2>4 DEF IsOrder
<1>6. keys = [k \in 1 .. Cardinality(enabled) |->
                CHOOSE i \in enabled : Cardinality({j \in enabled : IsBefore(map, j, i)}) = k - 1]
  BY DEF InOrder
<1> HIDE DEF enabled, R, keys
<1>7. \A i \in enabled : Cardinality({j \in enabled : IsBefore(map, j, i)}) = Rank(enabled, R, i)
  <2> TAKE i \in enabled
  <2>1. {j \in enabled : IsBefore(map, j, i)} = {j \in enabled : <<j, i>> \in R}
    BY <1>4
  <2>2. QED
    BY <2>1 DEF Rank
<1>8. keys = Ranked(enabled, R)
  BY <1>6, <1>7 DEF Ranked
<1>9. /\ keys \in Seq(enabled)
      /\ \A i \in enabled : \E k \in DOMAIN keys : keys[k] = i
      /\ \A k, l \in DOMAIN keys : <<keys[k], keys[l]>> \in R => k < l
  BY <1>3, <1>5, <1>8, Enumerates
<1>10. Len(keys) \in Nat /\ DOMAIN keys = 1 .. Len(keys) /\ keys \in [DOMAIN keys -> enabled]
  BY <1>9
<1>11. DOMAIN made = DOMAIN keys /\ \A k \in DOMAIN made : made[k] = map[keys[k]]
  BY <1>1
<1>12. made \in Seq(Routes)
  <2>1. \A k \in 1 .. Len(keys) : map[keys[k]] \in Routes
    BY <1>2, <1>10 DEF enabled
  <2>2. made \in [1 .. Len(keys) -> Routes]
    BY <1>1, <1>10, <2>1
  <2>3. QED
    BY <1>10, <2>2, SeqTyped
<1>13. keys \in [DOMAIN made -> {i \in DOMAIN map : map[i].enabled}]
  BY <1>10, <1>11 DEF enabled
<1>14. \A i \in DOMAIN map : map[i].enabled => \E k \in DOMAIN made : keys[k] = i
  BY <1>9, <1>11 DEF enabled
<1>15. \A k, l \in DOMAIN made : IsBefore(map, keys[k], keys[l]) => k < l
  BY <1>4, <1>9, <1>10, <1>11
<1>16. QED
  BY <1>11, <1>12, <1>13, <1>14, <1>15

-----------------------------------------------------------------------------
(* The way of a request.  The routes that are there while the router is    *)
(* made, and those still to come, are together the normalised map.  A      *)
(* request stands at a handler of a route that matches it, and has seen    *)
(* nothing but functions on its way there.                                 *)

OnlyFunctions(route) == \A h \in DOMAIN route.middleware : route.middleware[h] = Function
Requests == [stage : {"idle", "routing", "entity", "over"}, query : Queries,
             route : Nat, handler : Nat, answer : Answers]

Come(q) ==
  /\ \A k \in DOMAIN routes : k < q.route /\ Matches(routes[k], q.query) => OnlyFunctions(routes[k])
  /\ q.route \in DOMAIN routes =>
       /\ Matches(routes[q.route], q.query)
       /\ q.handler \in DOMAIN routes[q.route].middleware
       /\ \A h \in 1 .. q.handler - 1 : routes[q.route].middleware[h] = Function
RequestInv(q) ==
  /\ q \in Requests
  /\ q.stage = "idle" => q.route = 0
  /\ q.stage = "routing" => q.route # 0
  /\ q.route # 0 => router = "ready" /\ Come(q)

SetupInv ==
  /\ routeMap \in RouteMaps \cup {<<>>}
  /\ router \in {"none", "adding", "ready", "failed"}
  /\ routes \in Seq(Routes) /\ todo \in Seq(Routes)
  /\ router = "none" => routes = <<>>
  /\ router = "adding" => routes \o todo = normalize(routeMap)
  /\ router = "ready" => routes = normalize(routeMap)
  /\ \A k \in DOMAIN routes : verifyMiddlewareFormat(routes[k])
RequestsInv ==
  /\ request \in [Request -> Requests]
  /\ \A r \in Request : RequestInv(request[r])
RouteInv == SetupInv /\ RequestsInv

\* NextMatch is the first of the routes from i on that match, or the end.
LEMMA NextMatches ==
  ASSUME routes \in Seq(Routes), NEW q, NEW i \in Nat \ {0}, NEW n, n = NextMatch(q, i)
  PROVE  /\ n \in Nat \ {0}
         /\ n \in DOMAIN routes => Matches(routes[n], q)
         /\ \A k \in DOMAIN routes : i <= k /\ k < n => ~Matches(routes[k], q)
<1> DEFINE at == {j \in i .. Len(routes) : Matches(routes[j], q)}
<1>1. Len(routes) \in Nat /\ DOMAIN routes = 1 .. Len(routes)
  OBVIOUS
<1>2. n = IF at = {} THEN Len(routes) + 1 ELSE CHOOSE j \in at : \A k \in at : j <= k
  BY DEF NextMatch
<1>3. at \subseteq Nat
  BY <1>1
<1>4. \A k \in DOMAIN routes : i <= k /\ Matches(routes[k], q) => k \in at
  BY <1>1
<1>5. \A k \in at : k \in Nat \ {0} /\ Matches(routes[k], q)
  BY <1>1
<1> HIDE DEF at
<1>6. CASE at = {}
  <2>1. n = Len(routes) + 1
    BY <1>2, <1>6
  <2>2. QED
    BY <1>1, <1>4, <1>6, <2>1
<1>7. CASE at # {}
  <2>1. PICK j \in at : \A k \in at : ~(k < j)
    BY <1>3, <1>7, LeastNumber
  <2>2. \A k \in at : j <= k
    BY <1>3, <2>1
  <2>3. n \in at /\ \A k \in at : n <= k
    BY <1>2, <1>7, <2>2
  <2>4. ASSUME NEW k \in DOMAIN routes, i <= k, k < n, Matches(routes[k], q)
        PROVE  FALSE
    BY <1>3, <1>4, <2>3, <2>4
  <2>5. QED
    BY <1>5, <2>3, <2>4
<1>8. QED
  BY <1>6, <1>7

\* Where a request goes on to, if it has come so far that the routes before i are past.
LEMMA GoesTo ==
  ASSUME SetupInv, router = "ready", NEW q \in Queries, NEW i \in Nat \ {0},
         \A k \in DOMAIN routes : k < i /\ Matches(routes[k], q) => OnlyFunctions(routes[k])
  PROVE  RequestInv([stage |-> "routing", query |-> q, route |-> NextMatch(q, i),
                     handler |-> 1, answer |-> "none"])
<1> DEFINE n == NextMatch(q, i)
           new == [stage |-> "routing", query |-> q, route |-> n, handler |-> 1, answer |-> "none"]
<1>1. routes \in Seq(Routes)
  BY DEF SetupInv
<1>2. /\ n \in Nat \ {0}
      /\ n \in DOMAIN routes => Matches(routes[n], q)
      /\ \A k \in DOMAIN routes : i <= k /\ k < n => ~Matches(routes[k], q)
  BY <1>1, NextMatches
<1> HIDE DEF n
<1>3. new \in Requests
  BY <1>2 DEF Requests, Answers
<1>4. \A k \in DOMAIN routes : k < n /\ Matches(routes[k], q) => OnlyFunctions(routes[k])
  <2>1. \A k \in DOMAIN routes : k \in Nat
    BY <1>1
  <2>2. QED
    BY <1>2, <2>1
<1>5. n \in DOMAIN routes => 1 \in DOMAIN routes[n].middleware
  <2>1. SUFFICES ASSUME n \in DOMAIN routes PROVE 1 \in DOMAIN routes[n].middleware
    OBVIOUS
  <2>2. routes[n] \in Routes /\ routes[n].middleware # <<>>
    BY <1>1, <2>1 DEF SetupInv, verifyMiddlewareFormat
  <2>3. routes[n].middleware \in Seq(Id \cup {Function})
    BY <2>2 DEF Routes
  <2>4. QED
    BY <2>2, <2>3
<1>6. \A h \in 1 .. 1 - 1 : routes[n].middleware[h] = Function
  OBVIOUS
<1>7. Come(new)
  BY <1>2, <1>4, <1>5, <1>6 DEF Come
<1>8. RequestInv(new)
  BY <1>2, <1>3, <1>7 DEF RequestInv
<1>9. QED
  BY <1>8 DEF n

\* A step that leaves the routes alone, and gives one request a state as it may be.
LEMMA RequestKeeps ==
  ASSUME RouteInv, NEW r \in Request, NEW q, RequestInv(q),
         request' = [request EXCEPT ![r] = q], UNCHANGED <<routeMap, router, routes, todo>>
  PROVE  RouteInv'
<1>1. SetupInv'
  BY DEF RouteInv, SetupInv
<1>2. q \in Requests /\ request \in [Request -> Requests] /\ \A s \in Request : RequestInv(request[s])
  BY DEF RequestInv, RouteInv, RequestsInv
<1>3. request' \in [Request -> Requests]
  BY <1>2
<1>4. ASSUME NEW s \in Request PROVE RequestInv(request[s])'
  <2>1. request'[s] = q \/ request'[s] = request[s]
    BY <1>2
  <2>2. RequestInv(request'[s])
    BY <1>2, <2>1
  <2>3. QED
    BY <2>2 DEF RequestInv, Come
<1>5. QED
  BY <1>1, <1>3, <1>4 DEF RouteInv, RequestsInv

\* The answer, and the transform of an entity, leave a request where it is.
LEMMA StaysAtRoute ==
  ASSUME RouteInv, NEW r \in Request, request[r].stage # "idle",
         NEW s \in {"entity", "over"}, NEW what \in Answers
  PROVE  RequestInv([request[r] EXCEPT !.stage = s, !.answer = what])
<1> DEFINE q == request[r]
           new == [q EXCEPT !.stage = s, !.answer = what]
<1>1. RequestInv(q)
  BY DEF RouteInv, RequestsInv
<1>2. q \in Requests
  BY <1>1 DEF RequestInv
<1> HIDE DEF q
<1>3. /\ new \in Requests /\ new.stage = s
      /\ new.route = q.route /\ new.handler = q.handler /\ new.query = q.query
  BY <1>2 DEF Requests
<1> HIDE DEF new
<1>4. RequestInv(new)
  BY <1>1, <1>3 DEF RequestInv, Come
<1>5. QED
  BY <1>4 DEF new, q

LEMMA AnswerKeeps ==
  ASSUME RouteInv, NEW r \in Request, request[r].stage # "idle", NEW what \in Answers, Answer(r, what),
         UNCHANGED <<routeMap, router, routes, todo>>
  PROVE  RouteInv'
<1> DEFINE new == [request[r] EXCEPT !.stage = "over", !.answer = what]
<1>1. RequestInv(new)
  BY StaysAtRoute
<1>2. request[r] \in Requests /\ request \in [Request -> Requests]
  BY DEF RouteInv, RequestsInv
<1>3. request' = [request EXCEPT ![r] = new]
  BY <1>2 DEF Answer, Requests
<1> HIDE DEF new
<1>4. QED
  BY <1>1, <1>3, RequestKeeps

\* A request for an entity, at a handler or outside the router.
LEMMA EntityKeeps ==
  ASSUME RouteInv, NEW r \in Request, request' = [request EXCEPT ![r].stage = "entity"],
         UNCHANGED <<routeMap, router, routes, todo>>
  PROVE  RouteInv'
<1> DEFINE q == request[r]
           new == [q EXCEPT !.stage = "entity"]
<1>1. RequestInv(q)
  BY DEF RouteInv, RequestsInv
<1>2. q \in Requests
  BY <1>1 DEF RequestInv
<1>3. request' = [request EXCEPT ![r] = new]
  OBVIOUS
<1> HIDE DEF q
<1>4. /\ new \in Requests /\ new.stage = "entity"
      /\ new.route = q.route /\ new.handler = q.handler /\ new.query = q.query
  BY <1>2 DEF Requests
<1> HIDE DEF new
<1>5. RequestInv(new)
  BY <1>1, <1>4 DEF RequestInv, Come
<1>6. QED
  BY <1>3, <1>5, RequestKeeps

\* A function answers, or the request goes on to the next handler, and past the last to
\* the next route.
LEMMA FunctionKeeps ==
  ASSUME RouteInv, NEW r \in Request, RunFunction(r)
  PROVE  RouteInv'
<1> DEFINE q == request[r]
           list == routes[q.route].middleware
<1>1. RequestInv(q) /\ SetupInv
  BY DEF RouteInv, RequestsInv
<1>2. /\ q.stage = "routing" /\ q.route <= Len(routes) /\ list[q.handler] = Function
      /\ UNCHANGED <<routeMap, router, routes, todo>>
  BY DEF RunFunction, AtHandler, Handlers, setupVars
<1>3. q \in Requests /\ q.route \in DOMAIN routes /\ router = "ready" /\ Come(q)
  <2>1. q \in Requests /\ q.route # 0 /\ router = "ready" /\ Come(q) /\ routes \in Seq(Routes)
    BY <1>1, <1>2 DEF RequestInv, SetupInv
  <2>2. q.route \in Nat
    BY <2>1 DEF Requests
  <2>3. QED
    BY <1>2, <2>1, <2>2
<1>4. /\ Matches(routes[q.route], q.query)
      /\ q.handler \in DOMAIN list /\ \A h \in 1 .. q.handler - 1 : list[h] = Function
      /\ q.route \in Nat \ {0} /\ q.query \in Queries
  BY <1>1, <1>3 DEF Come, Requests, SetupInv
<1>5. list \in Seq(Id \cup {Function})
  <2>1. routes[q.route] \in Routes
    BY <1>1, <1>3 DEF SetupInv
  <2>2. QED
    BY <2>1 DEF Routes
<1>6. \A h \in 1 .. q.handler : list[h] = Function
  <2>1. q.handler \in Nat
    BY <1>4, <1>5
  <2>2. \A h \in 1 .. q.handler : h = q.handler \/ h \in 1 .. q.handler - 1
    BY <2>1
  <2>3. QED
    BY <1>2, <1>4, <2>2
<1>7. ASSUME NEW what \in {"own", "500"}, Answer(r, what) PROVE RouteInv'
  BY <1>2, <1>7, AnswerKeeps DEF Answers
<1>8. ASSUME q.handler < Len(list), request' = [request EXCEPT ![r].handler = q.handler + 1]
      PROVE  RouteInv'
  <2> DEFINE new == [q EXCEPT !.handler = q.handler + 1]
  <2>1. request' = [request EXCEPT ![r] = new]
    BY <1>8
  <2> HIDE DEF list, q
  <2>2. q.handler \in Nat /\ q.handler + 1 \in DOMAIN list
    BY <1>4, <1>5, <1>8
  <2>3. /\ new \in Requests /\ new.stage = q.stage
        /\ new.route = q.route /\ new.handler = q.handler + 1 /\ new.query = q.query
    BY <1>3, <2>2 DEF Requests
  <2> HIDE DEF new
  <2>4. Come(new)
    <3>1. \A k \in DOMAIN routes :
            k < new.route /\ Matches(routes[k], new.query) => OnlyFunctions(routes[k])
      BY <1>3, <2>3 DEF Come
    <3>2. Matches(routes[new.route], new.query)
      BY <1>4, <2>3
    <3>3. /\ new.handler \in DOMAIN routes[new.route].middleware
          /\ \A h \in 1 .. new.handler - 1 : routes[new.route].middleware[h] = Function
      <4>1. routes[new.route].middleware = list
        BY <2>3 DEF list
      <4>2. new.handler - 1 = q.handler
        BY <2>2, <2>3
      <4>3. QED
        BY <1>6, <2>2, <2>3, <4>1, <4>2
    <3>4. QED
      BY <3>1, <3>2, <3>3 DEF Come
  <2>5. RequestInv(new)
    BY <1>1, <1>2, <1>3, <2>3, <2>4 DEF RequestInv
  <2>6. QED
    BY <1>2, <2>1, <2>5, RequestKeeps
<1>9. ASSUME ~(q.handler < Len(list)), GoTo(r, q.query, q.route + 1)
      PROVE  RouteInv'
  <2>1. request' = [request EXCEPT ![r] =
                      [stage |-> "routing", query |-> q.query, route |-> NextMatch(q.query, q.route + 1),
                       handler |-> 1, answer |-> "none"]]
    BY <1>9 DEF GoTo
  <2> HIDE DEF list, q
  <2>2. OnlyFunctions(routes[q.route])
    <3>1. DOMAIN list = 1 .. Len(list) /\ Len(list) \in Nat /\ q.handler \in Nat
      BY <1>4, <1>5
    <3>2. \A h \in DOMAIN list : h \in 1 .. q.handler
      BY <1>9, <3>1
    <3>3. QED
      BY <1>6, <3>2 DEF OnlyFunctions, list
  <2>3. \A k \in DOMAIN routes : k < q.route + 1 /\ Matches(routes[k], q.query) => OnlyFunctions(routes[k])
    <3>1. \A k \in DOMAIN routes : k < q.route + 1 => k < q.route \/ k = q.route
      BY <1>1, <1>4 DEF SetupInv
    <3>2. QED
      BY <1>3, <2>2, <3>1 DEF Come
  <2>4. q.route + 1 \in Nat \ {0}
    BY <1>4
  <2>5. RequestInv([stage |-> "routing", query |-> q.query, route |-> NextMatch(q.query, q.route + 1),
                    handler |-> 1, answer |-> "none"])
    BY <1>1, <1>3, <1>4, <2>3, <2>4, GoesTo
  <2>6. QED
    BY <1>2, <2>1, <2>5, RequestKeeps
<1>10. QED
  BY <1>7, <1>8, <1>9 DEF RunFunction, Handlers

\* The router is made while no request has come yet.
LEMMA SetupKeeps ==
  ASSUME RouteInv, UNCHANGED request, router # "ready",
         (\E map \in RouteMaps : Router(map)) \/ AddRoute
  PROVE  RouteInv'
<1>1. SetupInv /\ request \in [Request -> Requests] /\ \A r \in Request : RequestInv(request[r])
  BY DEF RouteInv, RequestsInv
<1>2. RequestsInv'
  BY <1>1 DEF RequestsInv, RequestInv
<1>3. ASSUME NEW map \in RouteMaps, Router(map) PROVE SetupInv'
  <2>1. map \in Seq(Routes)
    BY RouteAssumption
  <2>2. routes = <<>> /\ routes' = <<>>
    BY <1>1, <1>3 DEF Router, SetupInv
  <2>3. todo' = normalize(map) /\ todo' \in Seq(Routes) /\ routeMap' = map
    BY <1>3, <2>1, NormalizeRoutes DEF Router
  <2>4. routes' \o todo' = todo'
    BY <2>2, <2>3
  <2>5. router' \in {"failed", "adding"}
    BY <1>3 DEF Router
  <2>6. QED
    BY <2>2, <2>3, <2>4, <2>5 DEF SetupInv
<1>4. ASSUME AddRoute PROVE SetupInv'
  <2>1. /\ router = "adding" /\ routes \in Seq(Routes) /\ todo \in Seq(Routes)
        /\ routes \o todo = normalize(routeMap) /\ UNCHANGED routeMap
        /\ \A k \in DOMAIN routes : verifyMiddlewareFormat(routes[k])
    BY <1>1, <1>4 DEF AddRoute, SetupInv
  <2>2. CASE todo = <<>>
    <3>1. router' = "ready" /\ UNCHANGED <<routes, todo>>
      BY <1>4, <2>2 DEF AddRoute
    <3>2. routes \o todo = routes
      BY <2>1, <2>2
    <3>3. routes' = normalize(routeMap')
      BY <2>1, <3>1, <3>2
    <3>4. QED
      BY <1>1, <2>1, <3>1, <3>3 DEF SetupInv
  <2>3. CASE todo # <<>> /\ (Head(todo).method = "trace" \/ ~verifyMiddlewareFormat(Head(todo)))
    <3>1. router' = "failed" /\ todo' = <<>> /\ routes' = <<>>
      BY <1>4, <2>3 DEF AddRoute
    <3>2. QED
      BY <1>1, <2>1, <3>1 DEF SetupInv
  <2>4. CASE todo # <<>> /\ ~(Head(todo).method = "trace" \/ ~verifyMiddlewareFormat(Head(todo)))
    <3> DEFINE route == Head(todo)
               rest == Tail(todo)
    <3>1. routes' = Append(routes, route) /\ todo' = rest /\ UNCHANGED router
      BY <1>4, <2>4 DEF AddRoute
    <3>2. verifyMiddlewareFormat(route)
      BY <2>4
    <3>3. route \in Routes /\ rest \in Seq(Routes) /\ todo = <<route>> \o rest
      BY <2>1, <2>4
    <3> HIDE DEF route, rest
    <3>4. routes' \in Seq(Routes) /\ todo' \in Seq(Routes)
      BY <2>1, <3>1, <3>3
    <3>5. Append(routes, route) \o rest = routes \o (<<route>> \o rest)
      BY <2>1, <3>3
    <3>6. routes' \o todo' = normalize(routeMap')
      BY <2>1, <3>1, <3>3, <3>5
    <3>7. \A k \in DOMAIN routes' : verifyMiddlewareFormat(routes'[k])
      <4>1. \A k \in DOMAIN routes' : IF k \in DOMAIN routes THEN routes'[k] = routes[k] ELSE routes'[k] = route
        BY <2>1, <3>1, <3>3
      <4>2. QED
        BY <2>1, <3>2, <4>1
    <3>8. QED
      BY <1>1, <2>1, <3>1, <3>4, <3>6, <3>7 DEF SetupInv
  <2>5. QED
    BY <2>2, <2>3, <2>4
<1>5. QED
  BY <1>2, <1>3, <1>4 DEF RouteInv

LEMMA RouteStarts == Init => RouteInv
<1> SUFFICES ASSUME Init PROVE RouteInv
  OBVIOUS
<1>1. NoRequest \in Requests /\ NoRequest.route = 0 /\ NoRequest.stage = "idle"
  BY DEF NoRequest, Requests, Queries, Answers
<1>2. routes = <<>> /\ todo = <<>> /\ routeMap = <<>> /\ router = "none"
  BY DEF Init, RouteInit
<1>3. SetupInv
  BY <1>2 DEF SetupInv
<1>4. request \in [Request -> Requests] /\ \A r \in Request : request[r] = NoRequest
  BY <1>1 DEF Init, RouteInit
<1>5. QED
  BY <1>1, <1>3, <1>4 DEF RouteInv, RequestsInv, RequestInv

LEMMA RouteSteps ==
  ASSUME ProgramKnown, RouteInv, [Next]_vars
  PROVE  RouteInv'
<1>1. ASSUME UNCHANGED routeVars PROVE RouteInv'
  BY <1>1 DEF routeVars, RouteInv, SetupInv, RequestsInv, RequestInv, Come
<1>2. CASE RedisEvent \/ Start \/ CreateEnds \/ ChangeMiddleware
  BY <1>1, <1>2 DEF RedisEvent, Start, CreateEnds, ChangeMiddleware, othersThanStart
<1>3. CASE CreateManager \/ Register \/ ChangeStores
  BY <1>1, <1>3 DEF CreateManager, Register, ChangeStores, othersThanCore
<1>4. CASE MakeRouter
  <2>1. program.routes \in RouteMaps
    BY ApplicationAssumption DEF ProgramKnown
  <2>2. Router(program.routes) /\ router # "ready" /\ UNCHANGED request
    BY <1>4 DEF MakeRouter, Router
  <2>3. QED
    BY <2>1, <2>2, SetupKeeps
<1>5. CASE AddRoutes
  <2>1. AddRoute /\ router # "ready" /\ UNCHANGED request
    BY <1>5 DEF AddRoutes, AddRoute
  <2>2. QED
    BY <2>1, SetupKeeps
<1>6. ASSUME NEW r \in Request, Route(r) PROVE RouteInv'
  <2>1. CASE RunFunction(r)
    BY <2>1, FunctionKeeps
  <2>2. CASE NotFound(r)
    <3>1. request[r].stage # "idle" /\ Answer(r, "404") /\ UNCHANGED <<routeMap, router, routes, todo>>
      BY <2>2 DEF NotFound, setupVars
    <3>2. QED
      BY <3>1, AnswerKeeps DEF Answers
  <2>3. ASSUME NEW x \in Id, RunEntity(r, x) PROVE RouteInv'
    BY <2>3, EntityKeeps DEF RunEntity
  <2>4. QED
    BY <1>6, <2>1, <2>2, <2>3 DEF Route
<1>7. ASSUME NEW r \in Request, Respond(r) PROVE RouteInv'
  <2>1. PICK how \in Outcomes : Reply(r, how)
    BY <1>7 DEF Respond
  <2>2. how \in {"text", "json", "circular", "error", "undefined"}
    BY RouteAssumption
  <2>3. Answer(r, "value") \/ Answer(r, "400") \/ Answer(r, "never")
    BY <2>1, <2>2 DEF Reply
  <2>4. request[r].stage # "idle" /\ UNCHANGED <<routeMap, router, routes, todo>>
    BY <2>1 DEF Reply
  <2>5. QED
    BY <2>3, <2>4, AnswerKeeps DEF Answers
<1>8. ASSUME NEW r \in Request, Miss(r) PROVE RouteInv'
  BY <1>1, <1>8 DEF Miss, othersThanCore
<1>9. ASSUME NEW r \in Request, Client(r) PROVE RouteInv'
  <2>1. CASE Close(r)
    <3>1. request' = [request EXCEPT ![r] = NoRequest] /\ UNCHANGED <<routeMap, router, routes, todo>>
      BY <2>1 DEF Close, setupVars
    <3>2. RequestInv(NoRequest)
      BY DEF RequestInv, NoRequest, Requests, Queries, Answers
    <3>3. QED
      BY <3>1, <3>2, RequestKeeps
  <2>2. ASSUME NEW q \in Queries, Arrive(r, q) PROVE RouteInv'
    <3>1. router = "ready" /\ GoTo(r, q, 1) /\ UNCHANGED <<routeMap, router, routes, todo>>
      BY <2>2 DEF Arrive, setupVars
    <3>2. SetupInv
      BY DEF RouteInv
    <3>3. \A k \in DOMAIN routes : ~(k < 1)
      BY <3>2 DEF SetupInv
    <3>4. RequestInv([stage |-> "routing", query |-> q, route |-> NextMatch(q, 1),
                      handler |-> 1, answer |-> "none"])
      BY <3>1, <3>2, <3>3, GoesTo
    <3>5. QED
      BY <3>1, <3>4, RequestKeeps DEF GoTo
  <2>3. ASSUME NEW x \in Id, Direct(r, x) PROVE RouteInv'
    BY <2>3, EntityKeeps DEF Direct
  <2>4. QED
    BY <1>9, <2>1, <2>2, <2>3 DEF Client
<1>10. CASE UNCHANGED vars
  BY <1>1, <1>10 DEF vars
<1>11. QED
  BY <1>2, <1>3, <1>4, <1>5, <1>6, <1>7, <1>8, <1>9, <1>10 DEF Next, Serve

LEMMA RouteInductive == Spec => []RouteInv
<1>1. ProgramKnown /\ RouteInv /\ [Next]_vars => RouteInv'
  BY RouteSteps
<1>2. QED
  BY <1>1, RouteStarts, ProgramStays, PTL DEF Spec

-----------------------------------------------------------------------------
\* Every variable of the application has its type: those of the service and its client,
\* of the DataPoint instance, and of the router and its requests.
THEOREM ApplicationTyped == Spec => []TypeOK
<1>1. RouteInv => RouteTypeOK
  BY DEF RouteInv, SetupInv, RequestsInv, RouteTypeOK, Requests
<1>2. Spec => []StartTypeOK
  BY StartImplemented, StartTyped
<1>3. QED
  BY <1>1, <1>2, RouteInductive, ApplicationCoreTyped, PTL DEF TypeOK

LEMMA RightByPriority ==
  ASSUME RouteInv, NEW r \in Request, NEW q, q = request[r], q.route # 0,
         NEW candidates,
         candidates = {i \in DOMAIN routeMap : routeMap[i].enabled /\ Matches(routeMap[i], q.query)}
  PROVE  IF q.route > Len(routes) THEN \A i \in candidates : OnlyFunctions(routeMap[i])
         ELSE \E i \in candidates :
                /\ routeMap[i] = routes[q.route]
                /\ \A j \in candidates : Earlier(j, i) => OnlyFunctions(routeMap[j])
<1>1. /\ SetupInv /\ routes = normalize(routeMap) /\ Come(q)
      /\ q.route \in Nat \ {0}
  BY DEF RouteInv, RequestsInv, RequestInv, SetupInv, Requests
<1>2. routeMap \in Seq(Routes)
  <2>1. <<>> \in Seq(Routes)
    OBVIOUS
  <2>2. routeMap \in RouteMaps \/ routeMap = <<>>
    BY <1>1 DEF SetupInv
  <2>3. QED
    BY <2>1, <2>2, RouteAssumption
<1>3. routes \in Seq(Routes) /\ DOMAIN routes = 1 .. Len(routes) /\ Len(routes) \in Nat
  BY <1>1 DEF SetupInv
<1>4. PICK keys \in [DOMAIN routes -> {i \in DOMAIN routeMap : routeMap[i].enabled}] :
        /\ \A k \in DOMAIN routes : routes[k] = routeMap[keys[k]]
        /\ \A i \in DOMAIN routeMap : routeMap[i].enabled => \E k \in DOMAIN routes : keys[k] = i
        /\ \A k, l \in DOMAIN routes : IsBefore(routeMap, keys[k], keys[l]) => k < l
  <2>1. routes = normalize(routeMap)
    BY <1>1
  <2>2. QED
    BY ONLY <1>2, <2>1, NormalizeRoutes
<1>5. ASSUME NEW i \in candidates, NEW k \in DOMAIN routes, keys[k] = i, k < q.route
      PROVE  OnlyFunctions(routeMap[i])
  BY <1>1, <1>4, <1>5 DEF Come
<1>6. \A i \in candidates : \E k \in DOMAIN routes : keys[k] = i
  BY <1>4
<1>7. CASE q.route > Len(routes)
  <2>1. \A k \in DOMAIN routes : k < q.route
    BY <1>1, <1>3, <1>7
  <2>2. QED
    BY <1>5, <1>6, <1>7, <2>1
<1>8. CASE ~(q.route > Len(routes))
  <2> DEFINE i == keys[q.route]
  <2>1. q.route \in DOMAIN routes
    BY <1>1, <1>3, <1>8
  <2>2. i \in candidates /\ routeMap[i] = routes[q.route]
    BY <1>1, <1>4, <2>1 DEF Come
  <2>3. ASSUME NEW j \in candidates, Earlier(j, i)
        PROVE  OnlyFunctions(routeMap[j])
    <3>1. PICK k \in DOMAIN routes : keys[k] = j
      BY <1>6
    <3>2. IsBefore(routeMap, keys[k], keys[q.route])
      BY <2>3, <3>1 DEF Earlier, IsBefore
    <3>3. k < q.route
      BY <1>4, <2>1, <3>2
    <3>4. QED
      BY <1>5, <3>1, <3>3
  <2>4. QED
    BY <1>8, <2>2, <2>3
<1>9. QED
  BY <1>7, <1>8

\* For every map of routes, whatever their priorities, and however often a request is
\* passed on: it is never at a route while an earlier one that matches and is enabled would
\* have answered, and is past them all only if none would.
THEOREM RoutesByPriority == Spec => []ByPriority
<1>1. RouteInv => ByPriority
  <2> SUFFICES ASSUME RouteInv, NEW r \in Request, request[r].route # 0
               PROVE  LET q == request[r]
                          candidates == {i \in DOMAIN routeMap :
                                           routeMap[i].enabled /\ Matches(routeMap[i], q.query)}
                      IN  IF q.route > Len(routes) THEN \A i \in candidates : OnlyFunctions(routeMap[i])
                          ELSE \E i \in candidates :
                                 /\ routeMap[i] = routes[q.route]
                                 /\ \A j \in candidates : Earlier(j, i) => OnlyFunctions(routeMap[j])
    BY DEF ByPriority, OnlyFunctions
  <2>1. QED
    BY RightByPriority
<1>2. QED
  BY <1>1, RouteInductive, PTL
=============================================================================
