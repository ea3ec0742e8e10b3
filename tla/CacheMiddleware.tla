-------------------------- MODULE CacheMiddleware --------------------------
(***************************************************************************)
(* The cache middleware of data-point-service (cache-middleware.js): the   *)
(* "before" and "after" handlers that run around every resolution of an    *)
(* entity, and the background revalidation that "before" may start.        *)
(*                                                                         *)
(* A slot is one request for the entity, on one node instance.  Three      *)
(* threads of control hang off it:                                         *)
(*   pc   the request itself: read the cache, resolve, wait for "after"    *)
(*   wr   the handler "after", which writes the cache; the request does    *)
(*        not wait for it when the handler has already called next()       *)
(*   bg   revalidateEntry, never awaited by the request                    *)
(* Each step below ends where the code awaits.                             *)
(***************************************************************************)
EXTENDS StaleWhileRevalidate

CONSTANTS
  Slot,         \* concurrent requests
  Modes,        \* how the entity may be configured, see mode
  Legacy,       \* may redis hold an entry written by an earlier release?
  RoomChoices,  \* may the node's flag store take the key? (see RevalidationStore)
  Timely        \* revalidations end within revalidateTimeout

VARIABLES
  mode,    \* "none": no ttl, "plain": ttl, "swr": staleWhileRevalidate
  node,    \* [Slot -> Node] where the request runs
  pc, wr, bg,
  ctl,     \* what the request saw of the control entry
  hit,     \* what it saw of the stale entry
  wval,    \* the value that "after" is about to store
  budget   \* time left to the revalidation before its timeout

slotVars == <<mode, node, pc, wr, bg, ctl, hit, wval, budget>>
vars == <<control, stale, entry, flag, mode, node, pc, wr, bg, ctl, hit, wval, budget>>

ASSUME SlotAssumption ==
  /\ Modes \subseteq {"none", "plain", "swr"}
  /\ Legacy \in BOOLEAN
  /\ Timely \in BOOLEAN
  /\ RoomChoices \subseteq BOOLEAN
  /\ TRUE \in RoomChoices

PcStates == {"idle", "read", "entry", "resolve", "after"}
WrStates == {"none", "check", "stale", "control", "entry"}
BgStates == {"none", "flag", "resolve", "check", "stale", "control", "success", "clear"}

TypeOK ==
  /\ KeyTypeOK
  /\ mode \in Modes
  /\ node \in [Slot -> Node]
  /\ pc \in [Slot -> PcStates]
  /\ wr \in [Slot -> WrStates]
  /\ bg \in [Slot -> BgStates]
  /\ ctl \in [Slot -> {"pending", "expired", "live"}]
  /\ hit \in [Slot -> {"pending", "none"} \cup StoredValues]
  /\ wval \in [Slot -> {"valid", "invalid"}]
  /\ budget \in [Slot -> 0 .. RevalidateTimeout]

\* A revalidation that has not reached its end or its catch clause.
Active(r) == bg[r] \notin {"none", "clear"}

Init ==
  /\ control = NoControl
  /\ stale \in {None} \cup
       (IF Legacy THEN {[value |-> "legacy", left |-> StaleTTL]} ELSE {})
  /\ entry = None
  /\ flag = [n \in Node |-> 0]
  /\ mode \in Modes
  /\ node \in [Slot -> Node]
  /\ pc = [r \in Slot |-> "idle"]
  /\ wr = [r \in Slot |-> "none"]
  /\ bg = [r \in Slot |-> "none"]
  /\ ctl = [r \in Slot |-> "pending"]
  /\ hit = [r \in Slot |-> "pending"]
  /\ wval = [r \in Slot |-> "valid"]
  /\ budget = [r \in Slot |-> 0]

-----------------------------------------------------------------------------
(* before *)

\* A request for the entity comes in.  Without ttl, or with locals.resetCache,
\* "before" calls next() and the entity resolves.
Arrive(r, n, reset) ==
  /\ pc[r] = "idle" /\ wr[r] = "none" /\ bg[r] = "none"
  /\ node' = [node EXCEPT ![r] = n]
  /\ pc' = [pc EXCEPT ![r] = CASE mode = "none" \/ reset -> "resolve"
                               [] mode = "plain" /\ ~reset -> "entry"
                               [] mode = "swr" /\ ~reset -> "read"]
  /\ UNCHANGED <<keyVars, mode, wr, bg, ctl, hit, wval, budget>>

\* Both lookups of resolveStaleWhileRevalidateEntry are in flight at once and
\* may be answered in either order.
ReadControl(r) ==
  /\ pc[r] = "read" /\ ctl[r] = "pending"
  /\ \E reply \in RedisReplies :
       /\ Resolved(reply)
       /\ ctl' = [ctl EXCEPT ![r] = IF ExternalExpired(reply) THEN "expired" ELSE "live"]
  /\ UNCHANGED <<keyVars, mode, node, pc, wr, bg, hit, wval, budget>>

ReadStale(r) ==
  /\ pc[r] = "read" /\ hit[r] = "pending"
  /\ \E reply \in RedisReplies :
       /\ Resolved(reply)
       /\ hit' = [hit EXCEPT ![r] = Lookup(stale, reply)]
  /\ UNCHANGED <<keyVars, mode, node, pc, wr, bg, ctl, wval, budget>>

\* One that rejects ends the request with an error.
ReadFails(r) ==
  /\ pc[r] = "read" /\ (ctl[r] = "pending" \/ hit[r] = "pending")
  /\ \E reply \in RedisReplies : ~Resolved(reply)
  /\ pc' = [pc EXCEPT ![r] = "idle"]
  /\ ctl' = [ctl EXCEPT ![r] = "pending"]
  /\ hit' = [hit EXCEPT ![r] = "pending"]
  /\ UNCHANGED <<keyVars, mode, node, wr, bg, wval, budget>>

\* shouldTriggerRevalidate: the control entry as it was read, the local flag as
\* it is now.
FaultyTriggersRevalidate(r) == hit[r] # "none" /\ ctl[r] = "expired"
TriggersRevalidate(r) ==
  /\ hit[r] # "none"
  /\ ctl[r] = "expired"
  /\ ~RevalidatingLocally(node[r])

\* Both lookups are in.  A hit is served whatever else happens; revalidateEntry
\* runs up to its first await, which puts the local flag in place.
Serve(r) ==
  /\ pc[r] = "read" /\ ctl[r] # "pending" /\ hit[r] # "pending"
  /\ pc' = [pc EXCEPT ![r] = IF hit[r] = "none" THEN "resolve" ELSE "idle"]
  /\ ctl' = [ctl EXCEPT ![r] = "pending"]
  /\ hit' = [hit EXCEPT ![r] = IF TriggersRevalidate(r) THEN @ ELSE "pending"]
  /\ IF TriggersRevalidate(r)
       THEN /\ bg' = [bg EXCEPT ![r] = "flag"]
            /\ budget' = [budget EXCEPT ![r] = RevalidateTimeout]
            /\ \E room \in RoomChoices : AddFlag(node[r], room)
       ELSE UNCHANGED <<bg, budget, flag>>
  /\ UNCHANGED <<control, stale, entry, mode, node, wr, wval>>

ReadEntry(r) ==
  /\ pc[r] = "entry"
  /\ \E reply \in RedisReplies :
       pc' = [pc EXCEPT ![r] = IF Resolved(reply) /\ Lookup(entry, reply) = "none"
                                 THEN "resolve" ELSE "idle"]
  /\ UNCHANGED <<keyVars, mode, node, wr, bg, ctl, hit, wval, budget>>

-----------------------------------------------------------------------------
(* the entity resolves, then "after" *)

\* "after" calls next() at once without ttl, and carries on: the request is
\* answered while the handler goes on to write.  Its ttl is undefined here: with a ttl
\* of 0, false or null beside staleWhileRevalidate, which no documentation has, it goes
\* on to the two writes of "swr", and no entity of the kind ever reads them.
DoesNothing == mode = "none"

\* "throws" includes a value made by the entity's error reducer: the "after"
\* middleware runs for neither.
Resolve(r) ==
  /\ pc[r] = "resolve"
  /\ \/ /\ pc' = [pc EXCEPT ![r] = "idle"]          \* throws
        /\ UNCHANGED <<wr, wval>>
     \/ \E v \in {"valid", "invalid"} :
          /\ wval' = [wval EXCEPT ![r] = v]
          /\ wr' = [wr EXCEPT ![r] = "check"]
          /\ pc' = [pc EXCEPT ![r] = IF DoesNothing THEN "idle" ELSE "after"]
  /\ UNCHANGED <<keyVars, mode, node, bg, ctl, hit, budget>>

\* The handler has called next for good: a request that waited is answered.
FaultyFinishWrite(r) ==      \* next is forgotten
  /\ wr' = [wr EXCEPT ![r] = "none"]
  /\ wval' = [wval EXCEPT ![r] = "valid"]
  /\ UNCHANGED pc
FinishWrite(r) ==
  /\ wr' = [wr EXCEPT ![r] = "none"]
  /\ wval' = [wval EXCEPT ![r] = "valid"]
  /\ pc' = [pc EXCEPT ![r] = IF @ = "after" THEN "idle" ELSE @]

\* The outputType runs over ctx.value, the value that is about to be stored.
WriteCheck(r) ==
  /\ wr[r] = "check"
  /\ IF Conforms(wval[r])
       THEN /\ wr' = [wr EXCEPT ![r] = IF mode = "swr" THEN "stale" ELSE "entry"]
            /\ UNCHANGED <<pc, wval>>
       ELSE FinishWrite(r)
  /\ UNCHANGED <<keyVars, mode, node, bg, ctl, hit, budget>>

WriteStale(r) ==
  /\ wr[r] = "stale"
  /\ \E reply \in RedisReplies :
       /\ SetStale(wval[r], reply)
       /\ IF Resolved(reply)
            THEN wr' = [wr EXCEPT ![r] = "control"] /\ UNCHANGED <<pc, wval>>
            ELSE FinishWrite(r)
  /\ UNCHANGED <<control, entry, flag, mode, node, bg, ctl, hit, budget>>

WriteControl(r) ==
  /\ wr[r] = "control"
  /\ \E reply \in RedisReplies : SetControl("STALE", TTL, reply)
  /\ FinishWrite(r)
  /\ UNCHANGED <<stale, entry, flag, mode, node, bg, ctl, hit, budget>>

\* Without ttl, setEntry passes undefined on and cache.set takes its default.
WriteEntry(r) ==
  /\ wr[r] = "entry"
  /\ \E reply \in RedisReplies :
       SetEntry(wval[r], IF mode = "plain" THEN TTL ELSE DefaultTTL, reply)
  /\ FinishWrite(r)
  /\ UNCHANGED <<control, stale, flag, mode, node, bg, ctl, hit, budget>>

-----------------------------------------------------------------------------
(* revalidateEntry *)

\* The catch clause: catchRevalidateError removes the local flag at once and
\* sends the removal of the external one.
FaultyFail(r) ==             \* only the external flag is removed
  /\ bg' = [bg EXCEPT ![r] = "clear"]
  /\ budget' = [budget EXCEPT ![r] = 0]
  /\ UNCHANGED flag
Fail(r) ==
  /\ bg' = [bg EXCEPT ![r] = "clear"]
  /\ budget' = [budget EXCEPT ![r] = 0]
  /\ RemoveFlag(node[r])

\* On to the next step of the try block, or to the catch clause.
Proceed(r, ok, next) ==
  IF ok THEN bg' = [bg EXCEPT ![r] = next] /\ UNCHANGED <<budget, flag>>
        ELSE Fail(r)

RevalidateFlag(r) ==
  /\ bg[r] = "flag"
  /\ \E reply \in RedisReplies :
       /\ SetControl("REVALIDATING", RevalidateTimeout, reply)
       /\ Proceed(r, Resolved(reply), "resolve")
  /\ UNCHANGED <<stale, entry, mode, node, pc, wr, ctl, hit, wval>>

\* The entity resolves again, with locals.revalidatingCache: "before" lets it
\* through, and "after", if it comes to that, calls next() and writes all the same.
\* Whatever "after" was given, the resolution may fail later (in another handler, or
\* at the outputType), and then throw or return what the entity's error reducer
\* makes; resolveEntity runs the outputType, so what it returns conforms.
RevalidateResolve(r) ==
  /\ bg[r] = "resolve"
  /\ \/ UNCHANGED <<wr, wval>>
     \/ \E v \in {"valid", "invalid"} :
          /\ wval' = [wval EXCEPT ![r] = v]
          /\ wr' = [wr EXCEPT ![r] = "check"]
  /\ \E returns \in BOOLEAN : Proceed(r, returns, "check")
  /\ UNCHANGED <<control, stale, entry, mode, node, pc, ctl, hit>>

\* The outputType runs over ctx, the accumulator of the request, in which
\* next(null, staleEntry) has put the value that was served.
RevalidateCheck(r) ==
  /\ bg[r] = "check"
  /\ Proceed(r, Conforms(hit[r]), "stale")
  /\ UNCHANGED <<control, stale, entry, mode, node, pc, wr, ctl, hit, wval>>

RevalidateStale(r) ==
  /\ bg[r] = "stale"
  /\ \E reply \in RedisReplies :
       /\ SetStale("valid", reply)
       /\ Proceed(r, Resolved(reply), "control")
  /\ UNCHANGED <<control, entry, mode, node, pc, wr, ctl, hit, wval>>

RevalidateControl(r) ==
  /\ bg[r] = "control"
  /\ \E reply \in RedisReplies :
       /\ SetControl("STALE", TTL, reply)
       /\ Proceed(r, Resolved(reply), "success")
  /\ UNCHANGED <<stale, entry, mode, node, pc, wr, ctl, hit, wval>>

RevalidateSuccess(r) ==
  /\ bg[r] = "success"
  /\ bg' = [bg EXCEPT ![r] = "none"]
  /\ hit' = [hit EXCEPT ![r] = "pending"]
  /\ budget' = [budget EXCEPT ![r] = 0]
  /\ RemoveFlag(node[r])
  /\ UNCHANGED <<control, stale, entry, mode, node, pc, wr, ctl, wval>>

RevalidateClear(r) ==
  /\ bg[r] = "clear"
  /\ \E reply \in RedisReplies : DeleteControl(reply)
  /\ bg' = [bg EXCEPT ![r] = "none"]
  /\ hit' = [hit EXCEPT ![r] = "pending"]
  /\ UNCHANGED <<stale, entry, flag, mode, node, pc, wr, ctl, wval, budget>>

-----------------------------------------------------------------------------
(* the environment *)

\* A node instance dies and restarts: its memory is gone, redis is not.
Crash(n) ==
  /\ \E r \in Slot : node[r] = n /\ (pc[r] # "idle" \/ wr[r] # "none" \/ bg[r] # "none")
  /\ RemoveFlag(n)
  /\ pc' = [r \in Slot |-> IF node[r] = n THEN "idle" ELSE pc[r]]
  /\ wr' = [r \in Slot |-> IF node[r] = n THEN "none" ELSE wr[r]]
  /\ bg' = [r \in Slot |-> IF node[r] = n THEN "none" ELSE bg[r]]
  /\ ctl' = [r \in Slot |-> IF node[r] = n THEN "pending" ELSE ctl[r]]
  /\ hit' = [r \in Slot |-> IF node[r] = n THEN "pending" ELSE hit[r]]
  /\ wval' = [r \in Slot |-> IF node[r] = n THEN "valid" ELSE wval[r]]
  /\ budget' = [r \in Slot |-> IF node[r] = n THEN 0 ELSE budget[r]]
  /\ UNCHANGED <<control, stale, entry, mode, node>>

\* Between the two writes of addEntry there is one redis round trip, less than
\* a unit of time when things go well.
InTime(r) ==
  /\ Active(r) => budget[r] > 1
  /\ wr[r] # "control" /\ bg[r] # "control"

Tick ==
  /\ Timely => \A r \in Slot : InTime(r)
  /\ \/ control # NoControl \/ stale # None \/ entry # None
     \/ \E n \in Node : flag[n] > 0
     \/ \E r \in Slot : budget[r] > 0
  /\ AgeKey
  /\ budget' = [r \in Slot |-> Minus1(budget[r])]
  /\ UNCHANGED <<mode, node, pc, wr, bg, ctl, hit, wval>>

-----------------------------------------------------------------------------
Request(r) ==
  \/ ReadControl(r) \/ ReadStale(r) \/ ReadFails(r) \/ Serve(r)
  \/ ReadEntry(r) \/ Resolve(r)
Writer(r) == WriteCheck(r) \/ WriteStale(r) \/ WriteControl(r) \/ WriteEntry(r)
Revalidation(r) ==
  \/ RevalidateFlag(r) \/ RevalidateResolve(r) \/ RevalidateCheck(r)
  \/ RevalidateStale(r) \/ RevalidateControl(r)
  \/ RevalidateSuccess(r) \/ RevalidateClear(r)

Next ==
  \/ \E r \in Slot :
       \/ \E n \in Node, reset \in BOOLEAN : Arrive(r, n, reset)
       \/ Request(r) \/ Writer(r) \/ Revalidation(r)
  \/ \E n \in Node : Crash(n)
  \/ Tick

Spec == Init /\ [][Next]_vars

\* The event loop runs what is ready, redis answers, the reducers of a request
\* settle and time passes.  Requests need not come, instances need not crash,
\* and a revalidation may hang for good: nothing is to wait for it.
Fairness ==
  /\ \A r \in Slot : WF_vars(Request(r)) /\ WF_vars(Writer(r))
  /\ WF_vars(Tick)

FairSpec == Spec /\ Fairness

-----------------------------------------------------------------------------
(* Properties *)

\* A revalidation within its timeout.
Revalidating(r) == Active(r) /\ budget[r] > 0

\* The local flag keeps one instance from revalidating the key twice at a time:
\* no two revalidations of a node are both within their timeout.  (Test of the
\* flag in shouldTriggerRevalidate, setting of it in addRevalidationFlags, and
\* every path of revalidateEntry that removes it.)
OneRevalidationPerInstance ==
  \A r, s \in Slot :
    (r # s /\ node[r] = node[s]) => ~(Revalidating(r) /\ Revalidating(s))

\* A local flag that still blocks the key is that of a revalidation that is
\* running: no outcome of revalidateEntry, no lost reply and no restart leaves
\* one behind.
LocalFlagOwned ==
  \A n \in Node : flag[n] > 0 => \E r \in Slot : node[r] = n /\ Active(r)

\* While the control entry says SWR-CONTROL-STALE there is a value to serve, and
\* it outlives the control entry: addEntry writes the value first, with the
\* longer ttl, whoever else writes or clears the key meanwhile.
FreshIsServable ==
  control.status = "STALE" => stale.left >= control.left + (StaleTTL - TTL)

\* No value that fails the entity's outputType is stored, whatever the path:
\* cold resolution, reset, revalidation, or the writer that outlives its request.
StoredConforms == stale.value # "invalid" /\ entry.value # "invalid"

\* "after" does nothing when the entity has no ttl (comment in after).
WritesOnlyWhenCaching == \A r \in Slot : wr[r] # "none" => pc[r] = "after"

\* A revalidation is given up at its outputType check only for the value that
\* would have been stored (comment in revalidateEntry).  The value it holds at
\* that point is one that resolveEntity has let through, so it conforms.
RejectsOnlyFailing ==
  [][\A r \in Slot : bg[r] = "check" => bg'[r] # "clear"]_vars

\* Every request for the entity is answered, with a value or an error, whatever
\* becomes of the revalidations around it.
Answered == \A r \in Slot : pc[r] # "idle" ~> pc[r] = "idle"

\* A local flag is lifted, also when the revalidation that set it never ends.
FlagLifted == \A n \in Node : flag[n] > 0 ~> flag[n] = 0

\* No key stays blocked for all instances: as long as no reply that resolves hides
\* a failed command, a REVALIDATING control entry goes away, also when the
\* revalidation that set it hangs or its instance has died.
Unblocked == control.status = "REVALIDATING" ~> control.status # "REVALIDATING"

-----------------------------------------------------------------------------
(* The contract *)

Nobody == "nobody"
Phase == IF control.status = "STALE" THEN "fresh"
         ELSE IF stale # None THEN "stale" ELSE "gone"
Holder == [n \in Node |->
             IF \E r \in Slot : node[r] = n /\ Active(r)
               THEN CHOOSE r \in Slot : node[r] = n /\ Active(r) ELSE Nobody]

Contract == INSTANCE SwrContract WITH phase <- Phase, holder <- Holder

\* The middleware keeps the promises of stale-while-revalidate.
KeepsContract == Contract!Spec
=============================================================================
