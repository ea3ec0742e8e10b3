---------------------------- MODULE ServiceStart ----------------------------
(***************************************************************************)
(* Service.create (factory.js of data-point-service) and the events of its *)
(* redis client that decide it (redisDecorator in redis-client.js of       *)
(* data-point-cache): the service object, the cache, the DataPoint         *)
(* instance and the two cache handlers put on its middleware.              *)
(*                                                                         *)
(* The events of the client are the environment.  The continuations of the *)
(* promise it settles are microtasks: no event comes between them.         *)
(***************************************************************************)
EXTENDS Naturals, Sequences

VARIABLES
  options,       \* what create is called with
  server,        \* "up", "down", or "locked": it accepts the connection and
                 \* reports an error in the place of ready (wrong password)
  link,          \* where the ioredis client stands
  wasConnected,  \* the local variable of redisDecorator
  client,        \* the promise of the client (redis-client.js, factory)
  service,       \* the service object
  middleware,    \* [name -> handlers] the middleware store of the DataPoint
  stage          \* where create stands

startVars == <<options, server, link, wasConnected, client, service, middleware, stage>>

\* prefix: the deprecated cache.prefix is set.  DataPoint: the module is given.
\* before, after: the application brings its own handler.
Options == [isRequired : {"absent", "null", "no", "yes"}, prefix : BOOLEAN,
            DataPoint : BOOLEAN, before : BOOLEAN, after : BOOLEAN]

Names == {"before", "after"}
NoHandlers == [name \in Names |-> <<>>]

StartTypeOK ==
  /\ options \in Options
  /\ server \in {"up", "down", "locked"}
  /\ link \in {"none", "connecting", "connected", "ready", "waiting", "closed"}
  /\ wasConnected \in BOOLEAN
  /\ client \in {"none", "pending", "resolved", "rejected"}
  /\ service \in [isCacheAvailable : BOOLEAN, dataPoint : BOOLEAN]
  /\ middleware \in [Names -> Seq({"cache", "own"})]
  /\ stage \in {"called", "cache", "dataPoint", "created", "failed"}

StartInit ==
  /\ options \in Options
  /\ server \in {"up", "down", "locked"}
  /\ link = "none"
  /\ wasConnected = FALSE
  /\ client = "none"
  /\ service = [isCacheAvailable |-> FALSE, dataPoint |-> FALSE]
  /\ middleware = NoHandlers
  /\ stage = "called"

-----------------------------------------------------------------------------
(* The redis client *)

Settle(how) == client' = IF client = "pending" THEN how ELSE client
clientOnly == <<options, server, service, middleware, stage>>

\* The continuations of a settled client, up to the end of create, run first.
Idle == ~(stage = "cache" /\ client # "pending") /\ stage # "dataPoint"

FaultyOnConnect ==            \* wasConnected is left unset
  /\ Idle /\ link = "connecting" /\ server # "down"
  /\ link' = "connected"
  /\ UNCHANGED <<wasConnected, client, clientOnly>>
OnConnect ==
  /\ Idle /\ link = "connecting" /\ server # "down"
  /\ link' = "connected"
  /\ wasConnected' = TRUE
  /\ UNCHANGED <<client, clientOnly>>

OnReady ==
  /\ Idle /\ link = "connected" /\ server = "up"
  /\ link' = "ready"
  /\ Settle("resolved")
  /\ UNCHANGED <<wasConnected, clientOnly>>

\* Before the first connect an error ends the client; later ones leave it to
\* reconnect (reconnectOnError).
FaultyOnErrorKeeps ==         \* the client is not disconnected
  /\ Idle /\ link \in {"connecting", "connected", "ready"}
  /\ link' = "waiting"
  /\ IF wasConnected THEN UNCHANGED client ELSE Settle("rejected")
  /\ UNCHANGED <<wasConnected, clientOnly>>
FaultyOnErrorRetries ==       \* the first error is retried like the others
  /\ Idle /\ link \in {"connecting", "connected", "ready"}
  /\ link' = "waiting"
  /\ UNCHANGED <<client, wasConnected, clientOnly>>
OnError ==
  /\ Idle /\ link \in {"connecting", "connected", "ready"}
  /\ IF wasConnected
       THEN link' = "waiting" /\ UNCHANGED client
       ELSE link' = "closed" /\ Settle("rejected")
  /\ UNCHANGED <<wasConnected, clientOnly>>

\* The connection is lost without an error event, and made again later.
Drop ==
  /\ Idle /\ link \in {"connected", "ready"}
  /\ link' = "waiting"
  /\ UNCHANGED <<wasConnected, client, clientOnly>>
Reconnect ==
  /\ Idle /\ link = "waiting"
  /\ link' = "connecting"
  /\ UNCHANGED <<wasConnected, client, clientOnly>>

-----------------------------------------------------------------------------
(* Service.create *)

\* createServiceObject: a null isRequired survives the merge with the default,
\* false, and counts as true.
isCacheRequired == options.isRequired \in {"null", "yes"}

\* createServiceObject, and Cache.create up to the promise of the client.
Begin ==
  /\ stage = "called"
  /\ IF options.prefix
       THEN stage' = "failed" /\ UNCHANGED <<link, client>>
       ELSE stage' = "cache" /\ link' = "connecting" /\ client' = "pending"
  /\ UNCHANGED <<options, server, wasConnected, service, middleware>>

\* successCreateCache, or handleCacheError.
CreateCache ==
  /\ stage = "cache" /\ client # "pending"
  /\ service' = [service EXCEPT !.isCacheAvailable = client = "resolved"]
  /\ stage' = IF client = "rejected" /\ isCacheRequired THEN "failed" ELSE "dataPoint"
  /\ UNCHANGED <<options, server, link, wasConnected, client, middleware>>

\* setupMiddleware: a handler of the application takes the place of ours.
HandlerOf(own) == IF own THEN "own" ELSE "cache"
FaultySetupMiddleware ==      \* bootstrapDataPoint without its test
  middleware' = [before |-> <<HandlerOf(options.before)>>, after |-> <<HandlerOf(options.after)>>]
setupMiddleware ==
  IF service.isCacheAvailable
    THEN middleware' = [before |-> <<HandlerOf(options.before)>>,
                        after |-> <<HandlerOf(options.after)>>]
    ELSE UNCHANGED middleware

\* createDataPoint; DataPoint.create itself may throw (ok).
CreateDataPoint(ok) ==
  /\ stage = "dataPoint"
  /\ IF options.DataPoint /\ ok
       THEN /\ service' = [service EXCEPT !.dataPoint = TRUE]
            /\ setupMiddleware
            /\ stage' = "created"
       ELSE stage' = "failed" /\ UNCHANGED <<service, middleware>>
  /\ UNCHANGED <<options, server, link, wasConnected, client>>

\* dataPoint.middleware.use, by the application (after create has resolved).
MaxHandlers == 2  \* bound on a stack
Use(name) ==
  /\ stage = "created" /\ Len(middleware[name]) < MaxHandlers
  /\ middleware' = [middleware EXCEPT ![name] = Append(@, "own")]
  /\ UNCHANGED <<options, server, link, wasConnected, client, service, stage>>
ClearMiddleware ==
  /\ stage = "created"
  /\ middleware' = NoHandlers
  /\ UNCHANGED <<options, server, link, wasConnected, client, service, stage>>

-----------------------------------------------------------------------------
LinkStep == OnConnect \/ OnReady \/ OnError \/ Drop \/ Reconnect
CreateStep == Begin \/ CreateCache \/ \E ok \in BOOLEAN : CreateDataPoint(ok)
StartNext == LinkStep \/ CreateStep \/ ClearMiddleware \/ \E name \in Names : Use(name)

StartSpec == StartInit /\ [][StartNext]_startVars

\* create runs on and the client keeps trying; each attempt connects or fails, and
\* of the attempts on a server that is up not every one fails.
StartFairness ==
  /\ WF_startVars(CreateStep)
  /\ WF_startVars(Reconnect)
  /\ WF_startVars(OnConnect \/ (link = "connecting" /\ OnError))
  /\ SF_startVars(OnConnect)
  /\ SF_startVars(OnReady)

StartFairSpec == StartSpec /\ StartFairness

-----------------------------------------------------------------------------
(* Properties *)

Settled == stage \in {"created", "failed"}

\* Once the service says that it has a cache, no event makes redisDecorator
\* disconnect the client for good: errors lead to a reconnection.
NeverCutOff == service.isCacheAvailable => link \notin {"none", "closed"}

\* A client that create gives up leaves no connection behind that goes on
\* retrying, whether or not create goes on without a cache.
GivenUpIsClosed == client = "rejected" <=> link = "closed"

\* The cache handlers use service.cache without a test: they are on the
\* middleware only of a service that has one, and a service that requires a
\* cache is not created without it.
HandlersHaveCache ==
  /\ \A name \in Names : \A i \in 1 .. Len(middleware[name]) :
       middleware[name][i] = "cache" => service.isCacheAvailable
  /\ stage = "created" /\ options.isRequired \in {"null", "yes"} => service.isCacheAvailable

\* create resolves or rejects, however the connection fails and returns.  A
\* server that accepts the connection and then refuses the client is left out:
\* its error comes after connect and is neither answered nor given up.
StartSettles == server # "locked" ~> Settled
=============================================================================
