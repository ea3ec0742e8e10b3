------------------------ MODULE StaleWhileRevalidate ------------------------
(***************************************************************************)
(* The state that data-point-service keeps about ONE cache key, and the    *)
(* operations of stale-while-revalidate.js on it.  A definition Faulty...  *)
(* is a variant with a mistake, which some property must notice.           *)
(*                                                                         *)
(* Shared by every node instance, in redis:                                *)
(*   stale    the entry "<key>:swr.stale", the value that is served        *)
(*   control  the entry "<key>:swr.control", SWR-CONTROL-STALE or          *)
(*            SWR-CONTROL-REVALIDATING                                     *)
(*   entry    the plain entry "<key>", used without staleWhileRevalidate   *)
(* Private to a node instance, in memory:                                  *)
(*   flag     its local revalidation flag for the key                      *)
(*                                                                         *)
(* Time is a countdown: "left" is the time to live that remains, 0 means   *)
(* absent or expired.  One unit stands for any period during which a redis *)
(* round trip fits many times.                                             *)
(***************************************************************************)
EXTENDS Naturals

CONSTANTS
  Node,               \* node instances that share the redis store
  TTL,                \* cache.ttl
  StaleTTL,           \* cache.staleWhileRevalidateTtl
  RevalidateTimeout,  \* cache.revalidateTimeout
  DefaultTTL,         \* the "20m" that cache.set falls back to
  RedisReplies        \* what a redis call may come to, see Applied, Resolved

VARIABLES control, stale, entry, flag

keyVars == <<control, stale, entry, flag>>

\* getStaleWhileRevalidateTtl adds a positive delta to ttl, or doubles it.
ASSUME TimesAssumption ==
  /\ TTL \in Nat \ {0}
  /\ StaleTTL \in Nat
  /\ StaleTTL > TTL
  /\ RevalidateTimeout \in Nat \ {0}
  /\ DefaultTTL \in Nat \ {0}

\* "lost": the pipeline resolves although its command failed, and no caller
\* looks at the error in the result.  "rejected", "unconfirmed": the promise
\* rejects, without or with the command having been carried out.
ASSUME RedisAssumption ==
  /\ RedisReplies \subseteq {"ok", "lost", "rejected", "unconfirmed"}
  /\ "ok" \in RedisReplies

Applied(reply) == reply \in {"ok", "unconfirmed"}
Resolved(reply) == reply \in {"ok", "lost"}

-----------------------------------------------------------------------------
\* A value is known by how it stands to the entity's outputType: "legacy" was
\* written by an earlier release, under another outputType.
StoredValues == {"legacy", "valid", "invalid"}
FaultyConforms(v) == TRUE                     \* the check is dropped
Conforms(v) == v = "valid"

None == [value |-> "none", left |-> 0]
Cached == {None} \cup [value : StoredValues, left : 1 .. (StaleTTL + DefaultTTL)]

NoControl == [status |-> "none", left |-> 0]
Controls ==
  {NoControl}
    \cup [status : {"STALE"}, left : 1 .. TTL]
    \cup [status : {"REVALIDATING"}, left : 1 .. RevalidateTimeout]

KeyTypeOK ==
  /\ control \in Controls
  /\ stale \in Cached
  /\ entry \in Cached
  /\ flag \in [Node -> 0 .. RevalidateTimeout]

-----------------------------------------------------------------------------
\* The redis commands of addEntry and of the external flag; each is applied or
\* not according to the reply.
FaultySetStale(v, reply) ==                   \* the value gets the ttl of the control
  stale' = IF Applied(reply) THEN [value |-> v, left |-> TTL] ELSE stale
SetStale(v, reply) ==
  stale' = IF Applied(reply) THEN [value |-> v, left |-> StaleTTL] ELSE stale

SetControl(status, ttl, reply) ==
  control' = IF Applied(reply) THEN [status |-> status, left |-> ttl] ELSE control

DeleteControl(reply) == control' = IF Applied(reply) THEN NoControl ELSE control

SetEntry(v, ttl, reply) ==
  entry' = IF Applied(reply) THEN [value |-> v, left |-> ttl] ELSE entry

\* cache.get: the control entry exists, whatever its status; a failed EXISTS
\* reads as "does not exist".
ExternalExpired(reply) == control.left = 0 \/ ~Applied(reply)
Lookup(e, reply) == IF Applied(reply) THEN e.value ELSE "none"

\* The local flags: add is refused when the store of the node is full.
FaultyAddFlag(n, room) == UNCHANGED flag      \* only the external flag is set
AddFlag(n, room) == flag' = IF room THEN [flag EXCEPT ![n] = RevalidateTimeout] ELSE flag
FaultyRemoveFlag(n) == UNCHANGED flag         \* left to time out
RemoveFlag(n) == flag' = [flag EXCEPT ![n] = 0]
RevalidatingLocally(n) == flag[n] > 0

-----------------------------------------------------------------------------
\* One unit of time for the key: redis drops what expires, and the local flags
\* that reach their ttl no longer count as existing.
Minus1(t) == IF t = 0 THEN 0 ELSE t - 1
Aged(e) == IF e.left <= 1 THEN None ELSE [e EXCEPT !.left = @ - 1]
FaultyAgedControl(c) ==                       \* REVALIDATING is set without a ttl
  IF c.status = "STALE" THEN [c EXCEPT !.left = @ - 1] ELSE c
AgedControl(c) == IF c.left <= 1 THEN NoControl ELSE [c EXCEPT !.left = @ - 1]

FaultyAgeKey ==                               \* exists does not look at the ttl
  /\ control' = AgedControl(control)
  /\ stale' = Aged(stale)
  /\ entry' = Aged(entry)
  /\ UNCHANGED flag

AgeKey ==
  /\ control' = AgedControl(control)
  /\ stale' = Aged(stale)
  /\ entry' = Aged(entry)
  /\ flag' = [n \in Node |-> Minus1(flag[n])]
=============================================================================
