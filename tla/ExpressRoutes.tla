---------------------------- MODULE ExpressRoutes ----------------------------
(***************************************************************************)
(* The router of data-point-express: the normalisation of a map of routes  *)
(* (route-map.js), the way of a request through the routes, as express     *)
(* dispatches it, and the answer that resolveReducer makes of the          *)
(* transform (DataPointCore) of an entity (middleware.js).                 *)
(*                                                                         *)
(* Of a path the model knows which of the requests it matches: "any" is a  *)
(* path with a parameter.  A handler is an entity id, or a function of the *)
(* application that answers, fails, or calls next.                         *)
(***************************************************************************)
EXTENDS DataPointCore

CONSTANTS
  RouteMaps,  \* arguments of router: sequences of Routes, in the order of the keys
  Outcomes    \* how a transform may end: see Reply

VARIABLES
  routeMap,  \* the argument router is called with
  router,    \* where its set-up stands
  routes,    \* the routes added so far, in the order express tries them
  todo,      \* the normalised routes still to be added
  request    \* [Request -> request]

routeVars == <<routeMap, router, routes, todo, request>>

Function == "function"
Methods == {"get", "post", "trace"}      \* express has app.trace, the router refuses it
RoutePaths == {"home", "item", "any"}
Undefined == 99                         \* a priority that is left out

Routes == [method : Methods, path : RoutePaths, priority : Nat, enabled : BOOLEAN,
           middleware : Seq(Id \cup {Function})]

ASSUME RouteAssumption ==
  /\ Outcomes \subseteq {"text", "json", "circular", "error", "undefined"}
  /\ RouteMaps \subseteq Seq(Routes)
  /\ Function \notin Id

Matches(route, q) == route.method = q.method /\ route.path \in {q.path, "any"}
Queries == [method : {"get", "post"}, path : {"home", "item"}]

\* route, handler: the next one to run.  answer: what the client receives.
Answers == {"none", "value", "400", "404", "500", "own", "never"}
NoRequest == [stage |-> "idle", query |-> [method |-> "get", path |-> "home"],
              route |-> 0, handler |-> 0, answer |-> "none"]
RouteTypeOK ==
  /\ routeMap \in RouteMaps \cup {<<>>}
  /\ router \in {"none", "adding", "ready", "failed"}
  /\ routes \in Seq(Routes) /\ todo \in Seq(Routes)
  /\ request \in [Request -> [stage : {"idle", "routing", "entity", "over"}, query : Queries,
                              route : Nat, handler : Nat, answer : Answers]]

RouteInit ==
  /\ routeMap = <<>>
  /\ router = "none"
  /\ routes = <<>>
  /\ todo = <<>>
  /\ request = [r \in Request |-> NoRequest]

-----------------------------------------------------------------------------
(* router *)

\* filterEnabled, and sortByPriority: ascending, in the order of the keys where
\* it is equal, and last where it is left out.
FaultyNormalize(map) ==          \* the order of the keys
  SelectSeq(map, LAMBDA route : route.enabled)
normalize(map) ==
  LET enabled == {i \in DOMAIN map : map[i].enabled}
      Before(i, j) == map[i].priority < map[j].priority \/ (map[i].priority = map[j].priority /\ i < j)
      keys == InOrder(enabled, Before)
  IN  [k \in DOMAIN keys |-> map[keys[k]]]

\* verifyMiddlewareFormat: handlers, and at most one entity, at the end.
verifyMiddlewareFormat(route) ==
  /\ route.middleware # <<>>
  /\ \A i \in 1 .. Len(route.middleware) - 1 : route.middleware[i] = Function

\* setupRouter refuses an empty map.
Router(map) ==
  /\ router = "none"
  /\ routeMap' = map
  /\ router' = IF map = <<>> THEN "failed" ELSE "adding"
  /\ todo' = normalize(map)
  /\ UNCHANGED <<coreVars, routes, request>>

\* addRoute.  A route it refuses makes router throw: the router is lost with the
\* routes it has.
AddRoute ==
  /\ router = "adding"
  /\ IF todo = <<>> THEN router' = "ready" /\ UNCHANGED <<routes, todo>>
     ELSE IF Head(todo).method = "trace" \/ ~verifyMiddlewareFormat(Head(todo))
       THEN router' = "failed" /\ todo' = <<>> /\ routes' = <<>>
       ELSE routes' = Append(routes, Head(todo)) /\ todo' = Tail(todo) /\ UNCHANGED router
  /\ UNCHANGED <<coreVars, routeMap, request>>

-----------------------------------------------------------------------------
(* A request *)

setupVars == <<coreVars, routeMap, router, routes, todo>>
Handlers(r) == routes[request[r].route].middleware

\* The first route from i on that matches; beyond the last, none does.
NextMatch(q, i) ==
  LET at == {j \in i .. Len(routes) : Matches(routes[j], q)}
  IN  IF at = {} THEN Len(routes) + 1 ELSE CHOOSE j \in at : \A k \in at : j <= k
GoTo(r, q, i) ==
  request' = [request EXCEPT ![r] =
    [stage |-> "routing", query |-> q, route |-> NextMatch(q, i), handler |-> 1, answer |-> "none"]]

\* A request for a handler outside the router: mapTo, or the inspector.
Direct(r, x) ==
  /\ request[r].stage = "idle"
  /\ request' = [request EXCEPT ![r].stage = "entity"]
  /\ Transform(r, x)
  /\ UNCHANGED <<routeMap, router, routes, todo>>

Arrive(r, q) ==
  /\ router = "ready" /\ request[r].stage = "idle"
  /\ GoTo(r, q, 1)
  /\ UNCHANGED setupVars

Answer(r, what) ==
  request' = [request EXCEPT ![r].stage = "over", ![r].answer = what]

\* A function of the application calls next, answers, or fails (express answers
\* 500 then).  next leads to the next handler, or to the next route that matches.
AtHandler(r) == request[r].stage = "routing" /\ request[r].route <= Len(routes)
RunFunction(r) ==
  /\ AtHandler(r) /\ Handlers(r)[request[r].handler] = Function
  /\ \/ \E what \in {"own", "500"} : Answer(r, what)
     \/ IF request[r].handler < Len(Handlers(r))
          THEN request' = [request EXCEPT ![r].handler = @ + 1]
          ELSE GoTo(r, request[r].query, request[r].route + 1)
  /\ UNCHANGED setupVars

NotFound(r) ==
  /\ request[r].stage = "routing" /\ request[r].route > Len(routes)
  /\ Answer(r, "404")
  /\ UNCHANGED setupVars

\* createDataPointRoute: the entity is transformed, and next is not called.
RunEntity(r, x) ==
  /\ AtHandler(r) /\ Handlers(r)[request[r].handler] = x
  /\ request' = [request EXCEPT ![r].stage = "entity"]
  /\ Transform(r, x)
  /\ UNCHANGED <<routeMap, router, routes, todo>>

\* resolveReducer: a value is sent as text or as json; one that cannot be sent
\* (json of a circle) throws inside the try block and is answered like an error.
\* createErrorMessage reads err.name: for a transform rejected with undefined it
\* throws outside the try block, and the request is not answered.
FaultyReply(r, how) ==           \* the reducer is resolved outside the try block
  /\ request[r].stage = "entity"
  /\ call[r].stage = "failing" => how = "error"
  /\ CASE how = "text" \/ how = "json" -> Answer(r, "value")
       [] how = "circular" -> Answer(r, "400")
       [] how = "error" \/ how = "undefined" -> Answer(r, "never")
  /\ Ends(r)
  /\ UNCHANGED <<routeMap, router, routes, todo>>
Reply(r, how) ==
  /\ request[r].stage = "entity"
  /\ call[r].stage = "failing" => how = "error"
  /\ CASE how = "text" \/ how = "json" -> Answer(r, "value")
       [] how = "circular" \/ how = "error" -> Answer(r, "400")
       [] how = "undefined" -> Answer(r, "never")
  /\ Ends(r)
  /\ UNCHANGED <<routeMap, router, routes, todo>>

\* The connection is done with.
Close(r) ==
  /\ request[r].stage = "over"
  /\ request' = [request EXCEPT ![r] = NoRequest]
  /\ UNCHANGED setupVars

-----------------------------------------------------------------------------
(* Properties *)

\* A request comes to a route only past the routes before it, by priority and then
\* by the order of the map: each of them that matches, if it is enabled, has
\* nothing but functions, for an entity answers.  It is answered "not found" only
\* past all of them.
Earlier(i, j) ==
  \/ routeMap[i].priority < routeMap[j].priority
  \/ routeMap[i].priority = routeMap[j].priority /\ i < j
ByPriority ==
  \A r \in Request : request[r].route # 0 =>
    LET candidates == {i \in DOMAIN routeMap : routeMap[i].enabled /\ Matches(routeMap[i], request[r].query)}
        passed(i) == \A h \in DOMAIN routeMap[i].middleware : routeMap[i].middleware[h] = Function
    IN  IF request[r].route > Len(routes) THEN \A i \in candidates : passed(i)
        ELSE \E i \in candidates :
               /\ routeMap[i] = routes[request[r].route]
               /\ \A j \in candidates : Earlier(j, i) => passed(j)

\* Every request is answered: whatever the functions before the entity do, whether
\* its transform resolves or fails, and whether or not its value can be sent.
Answered ==
  \A r \in Request : request[r].stage \in {"routing", "entity"} ~> request[r].answer \notin {"none", "never"}
=============================================================================
