------------------------- MODULE RevalidationStore -------------------------
(***************************************************************************)
(* The local revalidation flags of one node instance                       *)
(* (revalidation-store.js of data-point-service): a Map from cache keys to *)
(* { created, ttl }, capped in size and cleaned by a throttled sweep.      *)
(*                                                                         *)
(* store maps the keys in the Map to the time left to them: positive while *)
(* the flag is up, 0 when the timeout is reached, -1 any time later.  The  *)
(* single-key view of StaleWhileRevalidate, flag[n], is the time left when *)
(* it is positive and 0 otherwise.                                         *)
(***************************************************************************)
EXTENDS Integers, FiniteSets

CONSTANTS
  Key,           \* cache keys under revalidation
  Timeout,       \* ttl given to add: cache.revalidateTimeout
  MaxStoreSize,  \* MAX_STORE_SIZE, 10000 in the code
  ThrottleWait   \* THROTTLE_WAIT

VARIABLES
  store,    \* the Map
  wait,     \* throttle: time before the sweep may run again
  pending   \* throttle: a call came in while waiting

vars == <<store, wait, pending>>

ASSUME StoreAssumption ==
  /\ Timeout \in Nat \ {0}
  /\ MaxStoreSize \in Nat
  /\ ThrottleWait \in Nat \ {0}

Keys == DOMAIN store
Size == Cardinality(Keys)
Left == -1 .. Timeout

TypeOK ==
  /\ store \in UNION {[ks -> Left] : ks \in SUBSET Key}
  /\ wait \in 0 .. ThrottleWait
  /\ pending \in BOOLEAN

\* True if a key exists, and it has not expired.
Exists(k) == k \in Keys /\ store[k] > 0

Init ==
  /\ store = [k \in {} |-> 0]
  /\ wait = 0
  /\ pending = FALSE

-----------------------------------------------------------------------------
\* add refuses every key, a new one or one it already has, once the store is
\* above the limit.
FaultyAdd(k) ==              \* one key too many, and a ttl too long
  /\ ~(Size > MaxStoreSize + 1)
  /\ store' = [j \in Keys \cup {k} |-> IF j = k THEN Timeout + 1 ELSE store[j]]
  /\ UNCHANGED <<wait, pending>>

Add(k) ==
  /\ ~(Size > MaxStoreSize)
  /\ store' = [j \in Keys \cup {k} |-> IF j = k THEN Timeout ELSE store[j]]
  /\ UNCHANGED <<wait, pending>>

Remove(k) ==
  /\ store' = [j \in Keys \ {k} |-> store[j]]
  /\ UNCHANGED <<wait, pending>>

\* clear: the sweep drops the entries older than their ttl.
FaultyKeptAll == Keys                         \* nothing is marked for deletion
FaultyKept == {k \in Keys : store[k] < 0}     \* the comparison is reversed
Kept == {k \in Keys : store[k] >= 0}
Sweep == store' = [k \in Kept |-> store[k]]

\* A request for the key schedules a call of the throttled clear.  The throttle
\* runs the first call at once; a call that comes too early waits its turn.
Clear ==
  \/ /\ wait = 0
     /\ Sweep
     /\ wait' = ThrottleWait
     /\ pending' = FALSE
  \/ /\ wait > 0
     /\ pending' = TRUE
     /\ UNCHANGED <<store, wait>>

\* The timer of the throttle runs out with a call waiting.
TrailingClear ==
  /\ wait = 0 /\ pending
  /\ Sweep
  /\ wait' = ThrottleWait
  /\ pending' = FALSE

Tick ==
  /\ \/ \E k \in Keys : store[k] >= 0
     \/ wait > 0
  /\ store' = [k \in Keys |-> IF store[k] >= 0 THEN store[k] - 1 ELSE -1]
  /\ wait' = IF wait > 0 THEN wait - 1 ELSE 0
  /\ UNCHANGED pending

Next ==
  \/ \E k \in Key : Add(k) \/ Remove(k)
  \/ Clear \/ TrailingClear \/ Tick

Spec == Init /\ [][Next]_vars

\* Time passes and the throttle's timer fires.  Nothing makes requests come.
Fairness == WF_vars(Tick) /\ WF_vars(TrailingClear)

FairSpec == Spec /\ Fairness

-----------------------------------------------------------------------------
(* Properties *)

\* The store goes past its limit by one key and never by more, however additions,
\* removals, sweeps and expiries interleave.  This is not what the comments of
\* revalidation-store.js promise (MAX_STORE_SIZE as the "Maximum number of entries to
\* store", "do not add more than 10000 keys"): add compares the size with the limit
\* before it inserts, and a store that holds just the limit takes one key more.
Bounded == Size <= MaxStoreSize + 1

\* The sweep never lifts a flag that is up: the concurrent requests that rely on
\* it do not start a second revalidation.
SweepKeepsLive ==
  [][Clear \/ TrailingClear => \A k \in Key : Exists(k) => Exists(k)']_vars

\* A store that refuses keys takes them again, if requests keep coming, each with
\* its call of clear: the flags whose revalidation never ended time out and are
\* swept.
RoomAgain == []<><<Clear>>_vars => (Size > MaxStoreSize ~> Size <= MaxStoreSize)
=============================================================================
