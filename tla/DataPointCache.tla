--------------------------- MODULE DataPointCache ---------------------------
(***************************************************************************)
(* The two layers of data-point-cache, for ONE key: the redis store that   *)
(* all node instances share (redis-client.js), and the short-lived copy in *)
(* the memory of each (in-memory.js).  A call of cache.get, cache.set or   *)
(* cache.del (cache.js) is a sequence of steps between which others run.   *)
(*                                                                         *)
(* Values have no names.  A copy carries what the properties ask of it:    *)
(*   value    "current" when redis holds this very value, else "past"       *)
(*   lag      time since redis last held it, or since it was to be stored  *)
(*   age      time since it was put in local memory                        *)
(* The unit of time is the interval of the swipe, one second.              *)
(***************************************************************************)
EXTENDS Naturals

CONSTANTS
  Node,         \* node instances
  Call,         \* concurrent calls
  LocalTTL,     \* settings.localTTL, in units
  Latency,      \* units a redis reply may take
  RedisReplies  \* as in StaleWhileRevalidate

VARIABLES
  redis,  \* is there a value under the key?
  local,  \* [Node -> copy] cache.local
  due,    \* [Node -> BOOLEAN] has the swipe of this unit still to run?
  pc,     \* [Call -> step]
  at,     \* [Call -> Node] where the call runs
  copy,   \* [Call -> copy] the value a call has in hand
  wait,   \* [Call -> Nat] how long it has been there
  saw     \* [Call -> BOOLEAN] has redis held the key since the call began?

vars == <<redis, local, due, pc, at, copy, wait, saw>>

ASSUME CacheAssumption ==
  /\ LocalTTL \in Nat
  /\ Latency \in Nat
  /\ RedisReplies \subseteq {"ok", "lost", "rejected", "unconfirmed"}
  /\ "ok" \in RedisReplies

Applied(reply) == reply \in {"ok", "unconfirmed"}
Resolved(reply) == reply \in {"ok", "lost"}

\* Bound on lag and age: beyond it the model no longer counts.
Horizon == LocalTTL + Latency + 2

NoCopy == [value |-> "past", lag |-> 0, age |-> Horizon + 1]
Copies == [value : {"current", "past"}, lag : 0 .. Horizon, age : 0 .. Horizon]
Fresh == [value |-> "current", lag |-> 0, age |-> 0]

Steps == {"idle", "exists", "missing", "lookup", "fetch", "fill", "write", "store", "delete"}

TypeOK ==
  /\ redis \in BOOLEAN
  /\ local \in [Node -> Copies \cup {NoCopy}]
  /\ due \in [Node -> BOOLEAN]
  /\ pc \in [Call -> Steps]
  /\ at \in [Call -> Node]
  /\ copy \in [Call -> Copies \cup {NoCopy}]
  /\ wait \in [Call -> 0 .. Latency]
  /\ saw \in [Call -> BOOLEAN]
  /\ \A c \in Call : copy[c] # NoCopy <=> pc[c] \in {"fill", "store"}

Init ==
  /\ redis \in BOOLEAN
  /\ local = [n \in Node |-> NoCopy]
  /\ due = [n \in Node |-> FALSE]
  /\ pc = [c \in Call |-> "idle"]
  /\ at \in [Call -> Node]
  /\ copy = [c \in Call |-> NoCopy]
  /\ wait = [c \in Call |-> 0]
  /\ saw = [c \in Call |-> FALSE]

-----------------------------------------------------------------------------
Holding(c) == copy[c] # NoCopy

\* Another value, or none, takes the place of the one in redis.
Outdated(e) == [e EXCEPT !.value = "past"]
Replace(present) ==
  /\ redis' = present
  /\ local' = [n \in Node |-> Outdated(local[n])]

\* The history of a call that is under way.
Watch == saw' = [c \in Call |-> pc'[c] # "idle" /\ (saw[c] \/ redis')]

\* The next step of a call, with the value e in hand.
Goto(c, step, e) ==
  /\ pc' = [pc EXCEPT ![c] = step]
  /\ copy' = [copy EXCEPT ![c] = e]
  /\ wait' = [wait EXCEPT ![c] = 0]

Return(c) == Goto(c, "idle", NoCopy)

\* local.set: the copy is dated from now.
SetLocal(n, e) == local' = [local EXCEPT ![n] = [e EXCEPT !.age = 0]]

-----------------------------------------------------------------------------
(* get *)

Get(c, n) ==
  /\ pc[c] = "idle"
  /\ at' = [at EXCEPT ![c] = n]
  /\ Goto(c, "exists", NoCopy)
  /\ UNCHANGED <<redis, local, due>>

\* A failed EXISTS reads as "does not exist"; a rejected one rejects get.
FaultyRedisExists(c) ==       \* local memory is looked up first
  /\ pc[c] = "exists"
  /\ Goto(c, "lookup", NoCopy)
  /\ UNCHANGED <<redis, local, due, at>>
RedisExists(c) ==
  /\ pc[c] = "exists"
  /\ \E reply \in RedisReplies :
       Goto(c, IF ~Resolved(reply) THEN "idle"
               ELSE IF Applied(reply) /\ redis THEN "lookup" ELSE "missing", NoCopy)
  /\ UNCHANGED <<redis, local, due, at>>

\* The key is gone, so the local copy goes too.
LocalDel(c) ==
  /\ pc[c] = "missing"
  /\ local' = [local EXCEPT ![at[c]] = NoCopy]
  /\ Return(c)
  /\ UNCHANGED <<redis, due, at>>

\* A local copy is served as it is; its date does not change.
ServesLocal(c) == pc[c] = "lookup" /\ local[at[c]] # NoCopy
FaultyLocalGet(c) ==          \* the copy that is read is put back
  /\ pc[c] = "lookup"
  /\ IF ServesLocal(c) THEN Return(c) /\ SetLocal(at[c], local[at[c]])
                       ELSE Goto(c, "fetch", NoCopy) /\ UNCHANGED local
  /\ UNCHANGED <<redis, due, at>>
LocalGet(c) ==
  /\ pc[c] = "lookup"
  /\ IF ServesLocal(c) THEN Return(c) ELSE Goto(c, "fetch", NoCopy)
  /\ UNCHANGED <<redis, local, due, at>>

\* The value may be gone since EXISTS: get resolves to undefined.
FaultyRedisGet(c) ==          \* undefined is kept in memory
  /\ pc[c] = "fetch"
  /\ \E reply \in RedisReplies :
       IF Resolved(reply)
         THEN Goto(c, "fill", IF Applied(reply) /\ redis THEN Fresh ELSE NoCopy)
         ELSE Return(c)
  /\ UNCHANGED <<redis, local, due, at>>
RedisGet(c) ==
  /\ pc[c] = "fetch"
  /\ \E reply \in RedisReplies :
       IF Resolved(reply) /\ Applied(reply) /\ redis
         THEN Goto(c, "fill", Fresh)
         ELSE Return(c)
  /\ UNCHANGED <<redis, local, due, at>>

\* The reply is in: the value is kept in memory and served.
LocalFill(c) ==
  /\ pc[c] = "fill"
  /\ SetLocal(at[c], copy[c])
  /\ Return(c)
  /\ UNCHANGED <<redis, due, at>>

-----------------------------------------------------------------------------
(* set and del *)

Set(c, n) ==
  /\ pc[c] = "idle"
  /\ at' = [at EXCEPT ![c] = n]
  /\ Goto(c, "write", NoCopy)
  /\ UNCHANGED <<redis, local, due>>

\* SET and PEXPIRE are one pipeline.  When it resolves although SET failed, the
\* value is kept in memory all the same.
RedisSet(c) ==
  /\ pc[c] = "write"
  /\ \E reply \in RedisReplies :
       LET e == IF Applied(reply) THEN Fresh ELSE Outdated(Fresh)
           others == [d \in Call |-> IF Applied(reply) THEN Outdated(copy[d]) ELSE copy[d]]
       IN  /\ IF Applied(reply) THEN Replace(TRUE) ELSE UNCHANGED <<redis, local>>
           /\ pc' = [pc EXCEPT ![c] = IF Resolved(reply) THEN "store" ELSE "idle"]
           /\ copy' = [others EXCEPT ![c] = IF Resolved(reply) THEN e ELSE NoCopy]
           /\ wait' = [wait EXCEPT ![c] = 0]
  /\ UNCHANGED <<due, at>>

LocalSet(c) ==
  /\ pc[c] = "store"
  /\ SetLocal(at[c], copy[c])
  /\ Return(c)
  /\ UNCHANGED <<redis, due, at>>

Del(c, n) ==
  /\ pc[c] = "idle"
  /\ at' = [at EXCEPT ![c] = n]
  /\ Goto(c, "delete", NoCopy)
  /\ UNCHANGED <<redis, local, due>>

\* del leaves the copies in memory alone, the one of its own node included.
RedisDel(c) ==
  /\ pc[c] = "delete"
  /\ \E reply \in RedisReplies :
       IF Applied(reply)
         THEN Replace(FALSE) /\ copy' = [d \in Call |-> Outdated(copy[d])]
         ELSE UNCHANGED <<redis, local, copy>>
  /\ pc' = [pc EXCEPT ![c] = "idle"]
  /\ wait' = [wait EXCEPT ![c] = 0]
  /\ UNCHANGED <<due, at>>

-----------------------------------------------------------------------------
(* the swipe, and the environment *)

\* swipeTick drops the copies older than their ttl, or everything when the
\* memory holds more than 10000 keys.
Expired(e) == e.age > LocalTTL
SwipeTick(n) ==
  /\ due[n]
  /\ \E full \in BOOLEAN :
       local' = [local EXCEPT ![n] = IF full \/ Expired(@) THEN NoCopy ELSE @]
  /\ due' = [due EXCEPT ![n] = FALSE]
  /\ UNCHANGED <<redis, pc, at, copy, wait>>

\* The ttl of the key runs out in redis.
Expire ==
  /\ redis
  /\ Replace(FALSE)
  /\ copy' = [d \in Call |-> Outdated(copy[d])]
  /\ UNCHANGED <<due, pc, at, wait>>

\* A node instance restarts.
Crash(n) ==
  /\ local' = [local EXCEPT ![n] = NoCopy]
  /\ pc' = [c \in Call |-> IF at[c] = n THEN "idle" ELSE pc[c]]
  /\ copy' = [c \in Call |-> IF at[c] = n THEN NoCopy ELSE copy[c]]
  /\ wait' = [c \in Call |-> IF at[c] = n THEN 0 ELSE wait[c]]
  /\ UNCHANGED <<redis, due, at>>

\* Time passes, for what is not current.
Capped(t) == IF t < Horizon THEN t + 1 ELSE Horizon
Late(e) == IF e = NoCopy \/ e.value = "current" THEN e ELSE [e EXCEPT !.lag = Capped(@)]
Older(e) == IF e = NoCopy THEN e ELSE [e EXCEPT !.age = Capped(@)]
Tick ==
  /\ \A n \in Node : ~due[n]
  /\ \A c \in Call : Holding(c) => wait[c] < Latency
  /\ due' = [n \in Node |-> TRUE]
  /\ local' = [n \in Node |-> Older(Late(local[n]))]
  /\ copy' = [c \in Call |-> Late(copy[c])]
  /\ wait' = [c \in Call |-> IF Holding(c) THEN wait[c] + 1 ELSE wait[c]]
  /\ UNCHANGED <<redis, pc, at>>

-----------------------------------------------------------------------------
Step(c) ==
  /\ \/ RedisExists(c) \/ LocalDel(c) \/ LocalGet(c) \/ RedisGet(c) \/ LocalFill(c)
     \/ RedisSet(c) \/ LocalSet(c) \/ RedisDel(c)
  /\ Watch
Begin(c) == (\E n \in Node : Get(c, n) \/ Set(c, n) \/ Del(c, n)) /\ Watch
Swipe(n) == SwipeTick(n) /\ Watch
Pass == Tick /\ Watch
Mishap == (Expire \/ \E n \in Node : Crash(n)) /\ Watch

Next ==
  \/ \E c \in Call : Begin(c) \/ Step(c)
  \/ \E n \in Node : Swipe(n)
  \/ Pass \/ Mishap

Spec == Init /\ [][Next]_vars

-----------------------------------------------------------------------------
(* Properties *)

\* What a node serves from memory is never further behind redis than localTTL,
\* one swipe and one redis round trip, whatever sets, deletes, expiries and late
\* replies cross (getFromStore, set, swipeTick; README of data-point-cache: "be
\* careful not to store for too long in the in-memory layer").
BoundedStaleness ==
  \A n \in Node : local[n] # NoCopy => local[n].lag <= LocalTTL + 1 + Latency

\* get serves a value only if redis has held the key at some time during the
\* call: a copy that outlives its key in memory is not served (first step of get).
ServedWasPresent == \A c \in Call : ServesLocal(c) \/ pc[c] = "fill" => saw[c]
=============================================================================
