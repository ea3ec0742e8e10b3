---------------------------- MODULE SwrContract ----------------------------
(***************************************************************************)
(* What stale-while-revalidate promises for one cache key, without redis,  *)
(* timers or middleware (README of data-point-service, "Revalidation and   *)
(* concurrency"):                                                          *)
(*   - an entry is fresh, then stale but still served, then gone; it never *)
(*     goes from fresh to gone, so a key that has just been fresh is never *)
(*     resolved cold;                                                      *)
(*   - nothing is announced fresh that cannot be served;                   *)
(*   - each node instance runs one revalidation of the key at a time, and  *)
(*     holds the key's lease exactly while it does.                        *)
(***************************************************************************)
CONSTANTS
  Node, Slot,
  Nobody  \* not a Slot

VARIABLES
  phase,   \* "gone", "stale" or "fresh"
  holder   \* [Node -> Slot \cup {Nobody}], the request revalidating on a node

Init ==
  /\ phase \in {"gone", "stale"}
  /\ holder = [n \in Node |-> Nobody]

\* The value is written: it can be served, but nothing says it is fresh yet.
Store == phase = "gone" /\ phase' = "stale" /\ UNCHANGED holder

\* A value that can be served is announced fresh.
Announce == phase = "stale" /\ phase' = "fresh" /\ UNCHANGED holder

\* Time passes, or the announcement is withdrawn.
Wither ==
  /\ \/ phase = "fresh" /\ phase' = "stale"
     \/ phase = "stale" /\ phase' = "gone"
  /\ UNCHANGED holder

Acquire(n, r) ==
  /\ holder[n] = Nobody
  /\ holder' = [holder EXCEPT ![n] = r]
  /\ UNCHANGED phase

\* The revalidation ends, or the instance dies.
Release(n) ==
  /\ holder[n] # Nobody
  /\ holder' = [holder EXCEPT ![n] = Nobody]
  /\ UNCHANGED phase

Next ==
  \/ Store \/ Announce \/ Wither
  \/ \E n \in Node : Release(n) \/ \E r \in Slot : Acquire(n, r)

Spec == Init /\ [][Next]_<<phase, holder>>
=============================================================================
