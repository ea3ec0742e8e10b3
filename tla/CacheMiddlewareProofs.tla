----------------------- MODULE CacheMiddlewareProofs -----------------------
(***************************************************************************)
(* What the cache middleware guarantees for any number of node instances,  *)
(* of concurrent requests and for any ttl.                                 *)
(***************************************************************************)
EXTENDS CacheMiddleware, CacheParams, TLAPS

-----------------------------------------------------------------------------
(* Typing *)

\* The operations of StaleWhileRevalidate keep the type of the key's state.
LEMMA KeyTypes ==
  ASSUME KeyTypeOK
  PROVE  /\ None \in Cached
         /\ NoControl \in Controls
         /\ \A v \in StoredValues : [value |-> v, left |-> StaleTTL] \in Cached
         /\ \A v \in StoredValues : [value |-> v, left |-> TTL] \in Cached
         /\ \A v \in StoredValues : [value |-> v, left |-> DefaultTTL] \in Cached
         /\ [status |-> "STALE", left |-> TTL] \in Controls
         /\ [status |-> "REVALIDATING", left |-> RevalidateTimeout] \in Controls
  BY TimesAssumption DEF Cached, Controls, None, NoControl

LEMMA AgeKeyTypes == KeyTypeOK /\ AgeKey => KeyTypeOK'
  <1> SUFFICES ASSUME KeyTypeOK, AgeKey PROVE KeyTypeOK'
    OBVIOUS
  <1> USE TimesAssumption DEF KeyTypeOK, AgeKey
  <1>1. control' \in Controls
    BY DEF AgedControl, Controls, NoControl
  <1>2. stale' \in Cached
    BY DEF Aged, Cached, None
  <1>3. entry' \in Cached
    BY DEF Aged, Cached, None
  <1>4. flag' \in [Node -> 0 .. RevalidateTimeout]
    BY DEF Minus1
  <1>5. QED
    BY <1>1, <1>2, <1>3, <1>4

THEOREM TypeInit == Init => TypeOK
  BY TimesAssumption
     DEF Init, TypeOK, KeyTypeOK, Cached, Controls, None, NoControl, StoredValues,
         PcStates, WrStates, BgStates

LEMMA FailTypes ==
  ASSUME TypeOK, NEW r \in Slot, Fail(r)
  PROVE  /\ bg' \in [Slot -> BgStates]
         /\ budget' \in [Slot -> 0 .. RevalidateTimeout]
         /\ flag' \in [Node -> 0 .. RevalidateTimeout]
  BY TimesAssumption DEF Fail, RemoveFlag, TypeOK, KeyTypeOK, BgStates

LEMMA ProceedTypes ==
  ASSUME TypeOK, NEW r \in Slot, NEW ok, NEW next \in BgStates, Proceed(r, ok, next)
  PROVE  /\ bg' \in [Slot -> BgStates]
         /\ budget' \in [Slot -> 0 .. RevalidateTimeout]
         /\ flag' \in [Node -> 0 .. RevalidateTimeout]
  BY FailTypes DEF Proceed, TypeOK, KeyTypeOK

\* The type of every variable is kept by every step.
THEOREM TypeNext == TypeOK /\ [Next]_vars => TypeOK'
  <1> SUFFICES ASSUME TypeOK, [Next]_vars PROVE TypeOK'
    OBVIOUS
  <1> USE TimesAssumption DEF TypeOK, keyVars
  <1>1. ASSUME NEW r \in Slot, NEW n \in Node, NEW reset \in BOOLEAN, Arrive(r, n, reset)
        PROVE  TypeOK'
    BY <1>1, SlotAssumption DEF Arrive, KeyTypeOK, PcStates
  <1>2. ASSUME NEW r \in Slot, Request(r) PROVE TypeOK'
    <2>1. CASE ReadControl(r)
      BY <2>1 DEF ReadControl, KeyTypeOK
    <2>2. CASE ReadStale(r)
      <3>1. stale.value \in {"none"} \cup StoredValues
        BY DEF KeyTypeOK, Cached, None
      <3>2. QED
        BY <2>2, <3>1 DEF ReadStale, KeyTypeOK, Lookup
    <2>3. CASE ReadFails(r)
      BY <2>3 DEF ReadFails, KeyTypeOK, PcStates
    <2>4. CASE Serve(r)
      <3>1. pc' \in [Slot -> PcStates]
        BY <2>4 DEF Serve, PcStates
      <3>2. ctl' \in [Slot -> {"pending", "expired", "live"}]
        BY <2>4 DEF Serve
      <3>3. hit' \in [Slot -> {"pending", "none"} \cup StoredValues]
        BY <2>4 DEF Serve
      <3>4. bg' \in [Slot -> BgStates]
        BY <2>4 DEF Serve, BgStates
      <3>5. budget' \in [Slot -> 0 .. RevalidateTimeout]
        BY <2>4 DEF Serve
      <3>6. flag' \in [Node -> 0 .. RevalidateTimeout]
        BY <2>4 DEF Serve, AddFlag, KeyTypeOK
      <3>7. QED
        BY <2>4, <3>1, <3>2, <3>3, <3>4, <3>5, <3>6 DEF Serve, KeyTypeOK
    <2>5. CASE ReadEntry(r)
      BY <2>5 DEF ReadEntry, KeyTypeOK, PcStates
    <2>6. CASE Resolve(r)
      BY <2>6 DEF Resolve, KeyTypeOK, PcStates, WrStates
    <2>7. QED
      BY <1>2, <2>1, <2>2, <2>3, <2>4, <2>5, <2>6 DEF Request
  <1>3. ASSUME NEW r \in Slot, Writer(r) PROVE TypeOK'
    <2> wval[r] \in StoredValues
      BY DEF StoredValues
    <2>1. CASE WriteCheck(r)
      BY <2>1 DEF WriteCheck, FinishWrite, KeyTypeOK, PcStates, WrStates
    <2>2. CASE WriteStale(r)
      BY <2>2, KeyTypes DEF WriteStale, SetStale, FinishWrite, KeyTypeOK, PcStates, WrStates
    <2>3. CASE WriteControl(r)
      BY <2>3, KeyTypes DEF WriteControl, SetControl, FinishWrite, KeyTypeOK, PcStates, WrStates
    <2>4. CASE WriteEntry(r)
      BY <2>4, KeyTypes DEF WriteEntry, SetEntry, FinishWrite, KeyTypeOK, PcStates, WrStates
    <2>5. QED
      BY <1>3, <2>1, <2>2, <2>3, <2>4 DEF Writer
  <1>4. ASSUME NEW r \in Slot, Revalidation(r) PROVE TypeOK'
    <2> USE KeyTypes
    <2>1. CASE RevalidateFlag(r)
      BY <2>1, ProceedTypes DEF RevalidateFlag, SetControl, KeyTypeOK, BgStates
    <2>2. CASE RevalidateResolve(r)
      BY <2>2, ProceedTypes DEF RevalidateResolve, KeyTypeOK, BgStates, WrStates
    <2>3. CASE RevalidateCheck(r)
      BY <2>3, ProceedTypes DEF RevalidateCheck, KeyTypeOK, BgStates
    <2>4. CASE RevalidateStale(r)
      <3> "valid" \in StoredValues
        BY DEF StoredValues
      <3> QED
        BY <2>4, ProceedTypes DEF RevalidateStale, SetStale, KeyTypeOK, BgStates
    <2>5. CASE RevalidateControl(r)
      BY <2>5, ProceedTypes DEF RevalidateControl, SetControl, KeyTypeOK, BgStates
    <2>6. CASE RevalidateSuccess(r)
      BY <2>6 DEF RevalidateSuccess, RemoveFlag, KeyTypeOK, BgStates
    <2>7. CASE RevalidateClear(r)
      BY <2>7 DEF RevalidateClear, DeleteControl, KeyTypeOK, BgStates
    <2>8. QED
      BY <1>4, <2>1, <2>2, <2>3, <2>4, <2>5, <2>6, <2>7 DEF Revalidation
  <1>5. ASSUME NEW n \in Node, Crash(n) PROVE TypeOK'
    BY <1>5 DEF Crash, RemoveFlag, KeyTypeOK, PcStates, WrStates, BgStates
  <1>6. CASE Tick
    BY <1>6, AgeKeyTypes DEF Tick, Minus1
  <1>7. CASE UNCHANGED vars
    BY <1>7 DEF vars, KeyTypeOK
  <1>8. QED
    BY <1>1, <1>2, <1>3, <1>4, <1>5, <1>6, <1>7 DEF Next

\* Every variable keeps its type: in particular no ttl exceeds what its write
\* asked for and no local flag outlives its timeout.
THEOREM TypeCorrect == Spec => []TypeOK
  BY TypeInit, TypeNext, PTL DEF Spec

-----------------------------------------------------------------------------
(* The local flag as a lease.  It protects the key only if revalidations end *)
(* within their timeout (Timely) and the flag store takes the key.           *)

LeaseAssumptions == Timely /\ RoomChoices = {TRUE}

\* The flag of a node and the time left to the revalidation that runs there are
\* the same number; a revalidation holds the flag of its node alone; a flag that
\* is up has an owner.
LeaseInv ==
  /\ \A r \in Slot : Active(r) => budget[r] > 0 /\ flag[node[r]] = budget[r]
  /\ \A r, s \in Slot : Active(r) /\ Active(s) /\ node[r] = node[s] => r = s
  /\ LocalFlagOwned

LEMMA LeaseInit == Init => LeaseInv
  BY DEF Init, LeaseInv, LocalFlagOwned, Active

\* A step that leaves every flag, revalidation and node alone.
LEMMA LeaseStutter ==
  ASSUME TypeOK, LeaseInv, UNCHANGED <<flag, budget>>,
         \A r \in Slot : Active(r)' = Active(r),
         \A r \in Slot : Active(r) => node'[r] = node[r]
  PROVE  LeaseInv'
  BY DEF LeaseInv, LocalFlagOwned, TypeOK, KeyTypeOK

\* A step that ends the revalidation of r, and lifts the flag of its node.
LEMMA LeaseRelease ==
  ASSUME TypeOK, LeaseInv, NEW r \in Slot, Active(r), RemoveFlag(node[r]),
         ~Active(r)', node' = node,
         \A s \in Slot : s # r => Active(s)' = Active(s) /\ budget'[s] = budget[s]
  PROVE  LeaseInv'
  BY DEF LeaseInv, LocalFlagOwned, RemoveFlag, TypeOK, KeyTypeOK

LEMMA LeaseProceed ==
  ASSUME TypeOK, LeaseInv, NEW r \in Slot, Active(r), NEW ok,
         NEW next \in {"resolve", "check", "stale", "control", "success"},
         Proceed(r, ok, next), node' = node
  PROVE  LeaseInv'
  <1>1. CASE Fail(r)
    <2>1. ~Active(r)'
      BY <1>1 DEF Fail, Active, TypeOK
    <2>2. \A s \in Slot : s # r => Active(s)' = Active(s) /\ budget'[s] = budget[s]
      BY <1>1 DEF Fail, Active, TypeOK
    <2>3. QED
      BY <1>1, <2>1, <2>2, LeaseRelease DEF Fail
  <1>2. CASE bg' = [bg EXCEPT ![r] = next] /\ UNCHANGED <<budget, flag>>
    <2>1. \A s \in Slot : Active(s)' = Active(s)
      BY <1>2 DEF Active, TypeOK
    <2>2. QED
      BY <1>2, <2>1, LeaseStutter
  <1>3. QED
    BY <1>1, <1>2 DEF Proceed

LEMMA LeaseServe ==
  ASSUME TypeOK, LeaseInv, RoomChoices = {TRUE}, NEW r \in Slot, Serve(r), bg[r] = "none"
  PROVE  LeaseInv'
  <1>1. CASE TriggersRevalidate(r)
    <2>1. /\ flag[node[r]] = 0
          /\ flag' = [flag EXCEPT ![node[r]] = RevalidateTimeout]
          /\ budget' = [budget EXCEPT ![r] = RevalidateTimeout]
          /\ bg' = [bg EXCEPT ![r] = "flag"]
          /\ node' = node
      BY <1>1 DEF Serve, TriggersRevalidate, RevalidatingLocally, AddFlag, TypeOK, KeyTypeOK
    <2>2. \A s \in Slot : Active(s) => node[s] # node[r]
      BY <2>1 DEF LeaseInv
    <2>3. \A s \in Slot : Active(s)' = (s = r \/ Active(s))
      BY <2>1 DEF Active, TypeOK
    <2>4. \A s \in Slot : Active(s)' => budget'[s] > 0 /\ flag'[node'[s]] = budget'[s]
      <3> SUFFICES ASSUME NEW s \in Slot, Active(s)'
                   PROVE  budget'[s] > 0 /\ flag'[node'[s]] = budget'[s]
        OBVIOUS
      <3>1. CASE s = r
        BY <2>1, <3>1, TimesAssumption DEF TypeOK, KeyTypeOK
      <3>2. CASE s # r
        BY <2>1, <2>2, <2>3, <3>2 DEF LeaseInv, TypeOK, KeyTypeOK
      <3>3. QED
        BY <3>1, <3>2
    <2>5. \A s, t \in Slot : Active(s)' /\ Active(t)' /\ node'[s] = node'[t] => s = t
      BY <2>1, <2>2, <2>3 DEF LeaseInv
    <2>6. LocalFlagOwned'
      BY <2>1, <2>3 DEF LeaseInv, LocalFlagOwned, TypeOK, KeyTypeOK
    <2>7. QED
      BY <2>4, <2>5, <2>6 DEF LeaseInv
  <1>2. CASE ~TriggersRevalidate(r)
    <2>1. UNCHANGED <<bg, budget, flag, node>>
      BY <1>2 DEF Serve
    <2>2. \A s \in Slot : Active(s)' = Active(s)
      BY <2>1 DEF Active
    <2>3. QED
      BY <2>1, <2>2, LeaseStutter
  <1>3. QED
    BY <1>1, <1>2

LEMMA LeaseCrash ==
  ASSUME TypeOK, LeaseInv, NEW n \in Node, Crash(n)
  PROVE  LeaseInv'
  <1>1. /\ flag' = [flag EXCEPT ![n] = 0]
        /\ budget' = [r \in Slot |-> IF node[r] = n THEN 0 ELSE budget[r]]
        /\ node' = node
    BY DEF Crash, RemoveFlag
  <1>2. \A r \in Slot : Active(r)' = (node[r] # n /\ Active(r))
    BY DEF Crash, Active
  <1>3. \A r \in Slot : Active(r)' => budget'[r] > 0 /\ flag'[node'[r]] = budget'[r]
    BY <1>1, <1>2 DEF LeaseInv, TypeOK, KeyTypeOK
  <1>4. \A r, s \in Slot : Active(r)' /\ Active(s)' /\ node'[r] = node'[s] => r = s
    BY <1>1, <1>2 DEF LeaseInv
  <1>5. LocalFlagOwned'
    <2> SUFFICES ASSUME NEW m \in Node, flag'[m] > 0
                 PROVE  \E r \in Slot : node'[r] = m /\ Active(r)'
      BY DEF LocalFlagOwned
    <2>1. m # n /\ flag[m] > 0
      BY <1>1 DEF TypeOK, KeyTypeOK
    <2>2. PICK r \in Slot : node[r] = m /\ Active(r)
      BY <2>1 DEF LeaseInv, LocalFlagOwned
    <2>3. QED
      BY <1>1, <1>2, <2>1, <2>2
  <1>6. QED
    BY <1>3, <1>4, <1>5 DEF LeaseInv

LEMMA LeaseTick ==
  ASSUME TypeOK, LeaseInv, Timely, Tick
  PROVE  LeaseInv'
  <1>1. /\ \A r \in Slot : Active(r) => budget[r] > 1
        /\ \A n \in Node : flag'[n] = Minus1(flag[n])
        /\ \A r \in Slot : budget'[r] = Minus1(budget[r])
        /\ UNCHANGED <<bg, node>>
    BY DEF Tick, InTime, AgeKey
  <1>2. \A r \in Slot : Active(r)' = Active(r)
    BY <1>1 DEF Active
  <1>3. QED
    BY <1>1, <1>2 DEF LeaseInv, LocalFlagOwned, Minus1, TypeOK, KeyTypeOK

\* A request that has not been answered has no revalidation yet: before serves
\* the value in the same step that starts one.
OneThread == \A r \in Slot : pc[r] # "idle" => bg[r] = "none"

LEMMA OneThreadNext == TypeOK /\ OneThread /\ [Next]_vars => OneThread'
  <1> SUFFICES ASSUME TypeOK, OneThread, [Next]_vars PROVE OneThread'
    OBVIOUS
  <1> USE DEF OneThread, TypeOK
  <1>1. ASSUME NEW r \in Slot, NEW n \in Node, NEW reset \in BOOLEAN, Arrive(r, n, reset)
        PROVE  OneThread'
    BY <1>1 DEF Arrive
  <1>2. ASSUME NEW r \in Slot, Request(r) PROVE OneThread'
    <2>1. CASE ReadControl(r) \/ ReadStale(r)
      BY <2>1 DEF ReadControl, ReadStale
    <2>2. CASE ReadFails(r)
      BY <2>2 DEF ReadFails
    <2>3. CASE Serve(r)
      BY <2>3 DEF Serve, TriggersRevalidate
    <2>4. CASE ReadEntry(r) \/ Resolve(r)
      BY <2>4 DEF ReadEntry, Resolve
    <2>5. QED
      BY <1>2, <2>1, <2>2, <2>3, <2>4 DEF Request
  <1>3. ASSUME NEW r \in Slot, Writer(r) PROVE OneThread'
    BY <1>3 DEF Writer, WriteCheck, WriteStale, WriteControl, WriteEntry, FinishWrite
  <1>4. ASSUME NEW r \in Slot, Revalidation(r) PROVE OneThread'
    <2>1. bg[r] # "none" /\ pc' = pc
      BY <1>4 DEF Revalidation, RevalidateFlag, RevalidateResolve, RevalidateCheck,
                  RevalidateStale, RevalidateControl, RevalidateSuccess, RevalidateClear
    <2>2. \A s \in Slot : s # r => bg'[s] = bg[s]
      BY <1>4 DEF Revalidation, RevalidateFlag, RevalidateResolve, RevalidateCheck,
                  RevalidateStale, RevalidateControl, RevalidateSuccess, RevalidateClear,
                  Proceed, Fail
    <2>3. QED
      BY <2>1, <2>2
  <1>5. ASSUME NEW n \in Node, Crash(n) PROVE OneThread'
    BY <1>5 DEF Crash
  <1>6. CASE Tick \/ UNCHANGED vars
    BY <1>6 DEF Tick, vars
  <1>7. QED
    BY <1>1, <1>2, <1>3, <1>4, <1>5, <1>6 DEF Next

\* Every step of the middleware keeps the lease.
THEOREM LeaseNext ==
  ASSUME LeaseAssumptions, TypeOK, OneThread, LeaseInv, [Next]_vars
  PROVE  LeaseInv'
  <1> USE DEF LeaseAssumptions
  <1>1. ASSUME NEW r \in Slot, NEW n \in Node, NEW reset \in BOOLEAN, Arrive(r, n, reset)
        PROVE  LeaseInv'
    <2>1. \A s \in Slot : Active(s)' = Active(s)
      BY <1>1 DEF Arrive, Active
    <2>2. \A s \in Slot : Active(s) => node'[s] = node[s]
      BY <1>1 DEF Arrive, Active, TypeOK
    <2>3. QED
      BY <1>1, <2>1, <2>2, LeaseStutter DEF Arrive, keyVars
  <1>2. ASSUME NEW r \in Slot, Request(r) PROVE LeaseInv'
    <2>1. CASE Serve(r)
      <3>1. bg[r] = "none"
        BY <2>1 DEF Serve, OneThread
      <3>2. QED
        BY <2>1, <3>1, LeaseServe
    <2>2. CASE ReadControl(r) \/ ReadStale(r) \/ ReadFails(r) \/ ReadEntry(r) \/ Resolve(r)
      <3>1. UNCHANGED <<bg, budget, flag, node>>
        BY <2>2 DEF ReadControl, ReadStale, ReadFails, ReadEntry, Resolve, keyVars
      <3>2. \A s \in Slot : Active(s)' = Active(s)
        BY <3>1 DEF Active
      <3>3. QED
        BY <3>1, <3>2, LeaseStutter
    <2>3. QED
      BY <1>2, <2>1, <2>2 DEF Request
  <1>3. ASSUME NEW r \in Slot, Writer(r) PROVE LeaseInv'
    <2>1. UNCHANGED <<bg, budget, flag, node>>
      BY <1>3 DEF Writer, WriteCheck, WriteStale, WriteControl, WriteEntry, keyVars
    <2>2. \A s \in Slot : Active(s)' = Active(s)
      BY <2>1 DEF Active
    <2>3. QED
      BY <2>1, <2>2, LeaseStutter
  <1>4. ASSUME NEW r \in Slot, Revalidation(r) PROVE LeaseInv'
    <2>1. CASE RevalidateFlag(r) \/ RevalidateStale(r) \/ RevalidateControl(r) \/ RevalidateCheck(r)
      <3>1. Active(r) /\ node' = node
        BY <2>1 DEF RevalidateFlag, RevalidateStale, RevalidateControl, RevalidateCheck, Active
      <3>2. CASE \E reply \in RedisReplies :
                   \/ Proceed(r, Resolved(reply), "resolve")
                   \/ Proceed(r, Resolved(reply), "control")
                   \/ Proceed(r, Resolved(reply), "success")
        BY <3>1, <3>2, LeaseProceed
      <3>3. CASE Proceed(r, Conforms(hit[r]), "stale")
        BY <3>1, <3>3, LeaseProceed
      <3>4. QED
        BY <2>1, <3>2, <3>3
           DEF RevalidateFlag, RevalidateStale, RevalidateControl, RevalidateCheck
    <2>2. CASE RevalidateResolve(r)
      <3>1. Active(r) /\ node' = node /\ \E ok \in BOOLEAN : Proceed(r, ok, "check")
        BY <2>2 DEF RevalidateResolve, Active
      <3>2. QED
        BY <3>1, LeaseProceed
    <2>3. CASE RevalidateSuccess(r)
      <3>1. /\ Active(r) /\ ~Active(r)' /\ node' = node
            /\ \A s \in Slot : s # r => Active(s)' = Active(s) /\ budget'[s] = budget[s]
        BY <2>3 DEF RevalidateSuccess, Active, TypeOK
      <3>2. QED
        BY <2>3, <3>1, LeaseRelease DEF RevalidateSuccess
    <2>4. CASE RevalidateClear(r)
      <3>1. \A s \in Slot : Active(s)' = Active(s)
        BY <2>4 DEF RevalidateClear, Active, TypeOK
      <3>2. QED
        BY <2>4, <3>1, LeaseStutter DEF RevalidateClear
    <2>5. QED
      BY <1>4, <2>1, <2>2, <2>3, <2>4 DEF Revalidation
  <1>5. ASSUME NEW n \in Node, Crash(n) PROVE LeaseInv'
    BY <1>5, LeaseCrash
  <1>6. CASE Tick
    BY <1>6, LeaseTick
  <1>7. CASE UNCHANGED vars
    <2>1. \A s \in Slot : Active(s)' = Active(s)
      BY <1>7 DEF vars, Active
    <2>2. QED
      BY <1>7, <2>1, LeaseStutter DEF vars
  <1>8. QED
    BY <1>1, <1>2, <1>3, <1>4, <1>5, <1>6, <1>7 DEF Next

\* If revalidations end in time and the flag store takes the key, an instance
\* never runs two revalidations of the key at once, whatever redis answers,
\* whichever instances restart, and however requests interleave.
THEOREM OneRevalidationAtATime ==
  ASSUME LeaseAssumptions
  PROVE  Spec => []OneRevalidationPerInstance
  <1>1. Init => OneThread
    BY DEF Init, OneThread
  <1>2. TypeOK /\ LeaseInv => OneRevalidationPerInstance
    BY DEF LeaseInv, OneRevalidationPerInstance, Revalidating
  <1>3. TypeOK /\ OneThread /\ LeaseInv /\ [Next]_vars => LeaseInv'
    BY LeaseNext
  <1>4. QED
    BY <1>1, <1>2, <1>3, TypeInit, TypeNext, OneThreadNext, LeaseInit, PTL DEF Spec

-----------------------------------------------------------------------------
(* The flags without those assumptions.  A revalidation that overruns its    *)
(* timeout may lift the flag of its successor, but none is left behind.      *)

\* A step that leaves the flags alone and ends no revalidation.
LEMMA OwnedKept ==
  ASSUME TypeOK, LocalFlagOwned, UNCHANGED flag,
         \A r \in Slot : Active(r) => Active(r)' /\ node'[r] = node[r]
  PROVE  LocalFlagOwned'
  BY DEF LocalFlagOwned

\* A step that lifts the flag of node n and ends revalidations there only.
LEMMA OwnedLifted ==
  ASSUME TypeOK, LocalFlagOwned, NEW n \in Node, RemoveFlag(n),
         \A r \in Slot : Active(r) /\ node[r] # n => Active(r)' /\ node'[r] = node[r]
  PROVE  LocalFlagOwned'
  <1> SUFFICES ASSUME NEW m \in Node, flag'[m] > 0
               PROVE  \E r \in Slot : node'[r] = m /\ Active(r)'
    BY DEF LocalFlagOwned
  <1>1. m # n /\ flag[m] > 0
    BY DEF RemoveFlag, TypeOK, KeyTypeOK
  <1>2. QED
    BY <1>1 DEF LocalFlagOwned

LEMMA OwnedProceed ==
  ASSUME TypeOK, LocalFlagOwned, NEW r \in Slot, Active(r), NEW ok,
         NEW next \in {"resolve", "check", "stale", "control", "success"},
         Proceed(r, ok, next), node' = node
  PROVE  LocalFlagOwned'
  <1>1. CASE Fail(r)
    <2>1. \A s \in Slot : Active(s) /\ s # r => Active(s)'
      BY <1>1 DEF Fail, Active, TypeOK
    <2>2. node[r] \in Node /\ RemoveFlag(node[r])
      BY <1>1 DEF Fail, TypeOK
    <2>3. QED
      BY <2>1, <2>2, OwnedLifted
  <1>2. CASE bg' = [bg EXCEPT ![r] = next] /\ UNCHANGED <<budget, flag>>
    <2>1. \A s \in Slot : Active(s) => Active(s)'
      BY <1>2 DEF Active, TypeOK
    <2>2. QED
      BY <1>2, <2>1, OwnedKept
  <1>3. QED
    BY <1>1, <1>2 DEF Proceed

LEMMA OwnedServe ==
  ASSUME TypeOK, LocalFlagOwned, NEW r \in Slot, Serve(r)
  PROVE  LocalFlagOwned'
  <1>1. CASE TriggersRevalidate(r)
    <2>1. /\ node' = node
          /\ bg' = [bg EXCEPT ![r] = "flag"]
          /\ \A n \in Node : n # node[r] => flag'[n] = flag[n]
      BY <1>1 DEF Serve, AddFlag, TypeOK, KeyTypeOK
    <2>2. \A s \in Slot : Active(s)' = (s = r \/ Active(s))
      BY <2>1 DEF Active, TypeOK
    <2>3. QED
      BY <2>1, <2>2 DEF LocalFlagOwned
  <1>2. CASE ~TriggersRevalidate(r)
    <2>1. UNCHANGED <<bg, flag, node>>
      BY <1>2 DEF Serve
    <2>2. QED
      BY <2>1, OwnedKept DEF Active
  <1>3. QED
    BY <1>1, <1>2

LEMMA OwnedNext == TypeOK /\ LocalFlagOwned /\ [Next]_vars => LocalFlagOwned'
  <1> SUFFICES ASSUME TypeOK, LocalFlagOwned, [Next]_vars PROVE LocalFlagOwned'
    OBVIOUS
  <1>1. ASSUME NEW r \in Slot, NEW n \in Node, NEW reset \in BOOLEAN, Arrive(r, n, reset)
        PROVE  LocalFlagOwned'
    <2>1. \A s \in Slot : Active(s) => Active(s)' /\ node'[s] = node[s]
      BY <1>1 DEF Arrive, Active, TypeOK
    <2>2. QED
      BY <1>1, <2>1, OwnedKept DEF Arrive, keyVars
  <1>2. ASSUME NEW r \in Slot, Request(r) PROVE LocalFlagOwned'
    <2>1. CASE Serve(r)
      BY <2>1, OwnedServe
    <2>2. CASE ReadControl(r) \/ ReadStale(r) \/ ReadFails(r) \/ ReadEntry(r) \/ Resolve(r)
      <3>1. UNCHANGED <<bg, flag, node>>
        BY <2>2 DEF ReadControl, ReadStale, ReadFails, ReadEntry, Resolve, keyVars
      <3>2. QED
        BY <3>1, OwnedKept DEF Active
    <2>3. QED
      BY <1>2, <2>1, <2>2 DEF Request
  <1>3. ASSUME NEW r \in Slot, Writer(r) PROVE LocalFlagOwned'
    <2>1. UNCHANGED <<bg, flag, node>>
      BY <1>3 DEF Writer, WriteCheck, WriteStale, WriteControl, WriteEntry, keyVars
    <2>2. QED
      BY <2>1, OwnedKept DEF Active
  <1>4. ASSUME NEW r \in Slot, Revalidation(r) PROVE LocalFlagOwned'
    <2>1. CASE RevalidateFlag(r) \/ RevalidateStale(r) \/ RevalidateControl(r) \/ RevalidateCheck(r)
      <3>1. Active(r) /\ node' = node
        BY <2>1 DEF RevalidateFlag, RevalidateStale, RevalidateControl, RevalidateCheck, Active
      <3>2. CASE \E reply \in RedisReplies :
                   \/ Proceed(r, Resolved(reply), "resolve")
                   \/ Proceed(r, Resolved(reply), "control")
                   \/ Proceed(r, Resolved(reply), "success")
        BY <3>1, <3>2, OwnedProceed
      <3>3. CASE Proceed(r, Conforms(hit[r]), "stale")
        BY <3>1, <3>3, OwnedProceed
      <3>4. QED
        BY <2>1, <3>2, <3>3
           DEF RevalidateFlag, RevalidateStale, RevalidateControl, RevalidateCheck
    <2>2. CASE RevalidateResolve(r)
      <3>1. Active(r) /\ node' = node /\ \E ok \in BOOLEAN : Proceed(r, ok, "check")
        BY <2>2 DEF RevalidateResolve, Active
      <3>2. QED
        BY <3>1, OwnedProceed
    <2>3. CASE RevalidateSuccess(r)
      <3>1. /\ node' = node /\ node[r] \in Node /\ RemoveFlag(node[r])
            /\ \A s \in Slot : s # r /\ Active(s) => Active(s)'
        BY <2>3 DEF RevalidateSuccess, Active, TypeOK
      <3>2. QED
        BY <3>1, OwnedLifted
    <2>4. CASE RevalidateClear(r)
      <3>1. \A s \in Slot : Active(s) => Active(s)'
        BY <2>4 DEF RevalidateClear, Active, TypeOK
      <3>2. QED
        BY <2>4, <3>1, OwnedKept DEF RevalidateClear
    <2>5. QED
      BY <1>4, <2>1, <2>2, <2>3, <2>4 DEF Revalidation
  <1>5. ASSUME NEW n \in Node, Crash(n) PROVE LocalFlagOwned'
    <2>1. /\ RemoveFlag(n) /\ node' = node
          /\ \A r \in Slot : Active(r) /\ node[r] # n => Active(r)'
      BY <1>5 DEF Crash, Active
    <2>2. QED
      BY <2>1, OwnedLifted
  <1>6. CASE Tick
    <2>1. /\ UNCHANGED <<bg, node>>
          /\ \A n \in Node : flag'[n] = Minus1(flag[n])
      BY <1>6 DEF Tick, AgeKey
    <2>2. QED
      BY <2>1 DEF LocalFlagOwned, Active, Minus1, TypeOK, KeyTypeOK
  <1>7. CASE UNCHANGED vars
    BY <1>7, OwnedKept DEF vars, Active
  <1>8. QED
    BY <1>1, <1>2, <1>3, <1>4, <1>5, <1>6, <1>7 DEF Next

\* Every local flag that blocks the key belongs to a revalidation that is
\* running, however late it is, whatever redis answers and the flag store does.
THEOREM FlagsHaveOwners == Spec => []LocalFlagOwned
  <1>1. Init => LocalFlagOwned
    BY DEF Init, LocalFlagOwned
  <1>2. QED
    BY <1>1, TypeInit, TypeNext, OwnedNext, PTL DEF Spec

-----------------------------------------------------------------------------
(* What gets stored *)

\* "after" writes only what its outputType check let through.
StoreInv ==
  /\ \A r \in Slot : wr[r] \in {"stale", "control", "entry"} => wval[r] = "valid"
  /\ StoredConforms

LEMMA StoreNext == TypeOK /\ StoreInv /\ [Next]_vars => StoreInv'
  <1> SUFFICES ASSUME TypeOK, StoreInv, [Next]_vars PROVE StoreInv'
    OBVIOUS
  <1> USE DEF StoreInv, StoredConforms, TypeOK
  <1>1. ASSUME NEW r \in Slot, NEW n \in Node, NEW reset \in BOOLEAN, Arrive(r, n, reset)
        PROVE  StoreInv'
    BY <1>1 DEF Arrive, keyVars
  <1>2. ASSUME NEW r \in Slot, Request(r) PROVE StoreInv'
    BY <1>2 DEF Request, ReadControl, ReadStale, ReadFails, Serve, ReadEntry, Resolve, keyVars
  <1>3. ASSUME NEW r \in Slot, Writer(r) PROVE StoreInv'
    <2>1. CASE WriteCheck(r)
      BY <2>1 DEF WriteCheck, Conforms, FinishWrite, keyVars
    <2>2. CASE WriteStale(r)
      BY <2>2 DEF WriteStale, SetStale, FinishWrite
    <2>3. CASE WriteControl(r)
      BY <2>3 DEF WriteControl, FinishWrite
    <2>4. CASE WriteEntry(r)
      BY <2>4 DEF WriteEntry, SetEntry, FinishWrite
    <2>5. QED
      BY <1>3, <2>1, <2>2, <2>3, <2>4 DEF Writer
  <1>4. ASSUME NEW r \in Slot, Revalidation(r) PROVE StoreInv'
    <2>1. CASE RevalidateStale(r)
      BY <2>1 DEF RevalidateStale, SetStale
    <2>2. CASE RevalidateResolve(r)
      BY <2>2 DEF RevalidateResolve
    <2>3. CASE ~RevalidateStale(r) /\ ~RevalidateResolve(r)
      BY <1>4, <2>3 DEF Revalidation, RevalidateFlag, RevalidateCheck, RevalidateControl,
                        RevalidateSuccess, RevalidateClear
    <2>4. QED
      BY <2>1, <2>2, <2>3
  <1>5. ASSUME NEW n \in Node, Crash(n) PROVE StoreInv'
    BY <1>5 DEF Crash
  <1>6. CASE Tick
    BY <1>6 DEF Tick, AgeKey, Aged, None
  <1>7. CASE UNCHANGED vars
    BY <1>7 DEF vars
  <1>8. QED
    BY <1>1, <1>2, <1>3, <1>4, <1>5, <1>6, <1>7 DEF Next

\* No value that fails the entity's outputType reaches the cache, whatever redis
\* answers: neither from "after", nor from a revalidation, which trusts the
\* check that resolveEntity has made.
THEOREM OnlyConformingStored == Spec => []StoredConforms
  <1>1. Init => StoreInv
    BY DEF Init, StoreInv, StoredConforms, None
  <1>2. StoreInv => StoredConforms
    BY DEF StoreInv
  <1>3. QED
    BY <1>1, <1>2, TypeInit, TypeNext, StoreNext, PTL DEF Spec

-----------------------------------------------------------------------------
(* The control entry and the value it announces.  The two writes of addEntry *)
(* must both be carried out, and without a unit of time between them.        *)

FreshAssumptions == Timely /\ RedisReplies = {"ok"}

\* Somebody is between the two writes of addEntry.
MidWrite(r) == wr[r] = "control" \/ bg[r] = "control"

FreshInv ==
  /\ FreshIsServable
  /\ \A r \in Slot : MidWrite(r) => stale.left = StaleTTL

\* The value is written: it now outlives any control entry.
LEMMA FreshSetStale ==
  ASSUME TypeOK, FreshInv, control' = control, stale'.left = StaleTTL
  PROVE  FreshInv'
  BY TimesAssumption
     DEF FreshInv, FreshIsServable, TypeOK, KeyTypeOK, Controls, NoControl, MidWrite

\* The control entry is written right after the value, or overwritten.
LEMMA FreshSetControl ==
  ASSUME TypeOK, FreshInv, stale' = stale,
         control'.status = "STALE" => control'.left = TTL /\ stale.left = StaleTTL,
         \A r \in Slot : MidWrite(r)' => MidWrite(r)
  PROVE  FreshInv'
  BY TimesAssumption DEF FreshInv, FreshIsServable

LEMMA FreshOther ==
  ASSUME FreshInv, stale' = stale, control' = control,
         \A r \in Slot : MidWrite(r)' => MidWrite(r)
  PROVE  FreshInv'
  BY DEF FreshInv, FreshIsServable

THEOREM FreshNext ==
  ASSUME FreshAssumptions, TypeOK, FreshInv, [Next]_vars
  PROVE  FreshInv'
  <1> USE DEF FreshAssumptions
  <1>0. \A reply \in RedisReplies : Applied(reply) /\ Resolved(reply)
    BY DEF Applied, Resolved
  <1>1. ASSUME NEW r \in Slot, NEW n \in Node, NEW reset \in BOOLEAN, Arrive(r, n, reset)
        PROVE  FreshInv'
    BY <1>1, FreshOther DEF Arrive, keyVars, MidWrite
  <1>2. ASSUME NEW r \in Slot, Request(r) PROVE FreshInv'
    <2>1. stale' = stale /\ control' = control
      BY <1>2 DEF Request, ReadControl, ReadStale, ReadFails, Serve, ReadEntry, Resolve, keyVars
    <2>2. \A s \in Slot : MidWrite(s)' => MidWrite(s)
      BY <1>2 DEF Request, ReadControl, ReadStale, ReadFails, Serve, ReadEntry, Resolve,
                  MidWrite, TypeOK
    <2>3. QED
      BY <2>1, <2>2, FreshOther
  <1>3. ASSUME NEW r \in Slot, Writer(r) PROVE FreshInv'
    <2>1. CASE WriteCheck(r) \/ WriteEntry(r)
      <3>1. \A s \in Slot : MidWrite(s)' => MidWrite(s)
        BY <2>1 DEF WriteCheck, WriteEntry, FinishWrite, MidWrite, TypeOK
      <3>2. QED
        BY <2>1, <3>1, FreshOther DEF WriteCheck, WriteEntry, keyVars
    <2>2. CASE WriteStale(r)
      BY <1>0, <2>2, FreshSetStale DEF WriteStale, SetStale
    <2>3. CASE WriteControl(r)
      <3>1. MidWrite(r) /\ stale' = stale /\ control' = [status |-> "STALE", left |-> TTL]
        BY <1>0, <2>3 DEF WriteControl, SetControl, MidWrite
      <3>2. \A s \in Slot : MidWrite(s)' => MidWrite(s)
        BY <2>3 DEF WriteControl, FinishWrite, MidWrite, TypeOK
      <3>3. QED
        BY <3>1, <3>2, FreshSetControl DEF FreshInv
    <2>4. QED
      BY <1>3, <2>1, <2>2, <2>3 DEF Writer
  <1>4. ASSUME NEW r \in Slot, Revalidation(r) PROVE FreshInv'
    <2>1. CASE RevalidateFlag(r) \/ RevalidateClear(r)
      <3>1. stale' = stale /\ control'.status # "STALE"
        BY <1>0, <2>1 DEF RevalidateFlag, RevalidateClear, SetControl, DeleteControl, NoControl
      <3>2. \A s \in Slot : MidWrite(s)' => MidWrite(s)
        BY <2>1 DEF RevalidateFlag, RevalidateClear, Proceed, Fail, MidWrite, TypeOK
      <3>3. QED
        BY <3>1, <3>2, FreshSetControl
    <2>2. CASE RevalidateResolve(r) \/ RevalidateCheck(r) \/ RevalidateSuccess(r)
      <3>1. stale' = stale /\ control' = control
        BY <2>2 DEF RevalidateResolve, RevalidateCheck, RevalidateSuccess
      <3>2. \A s \in Slot : MidWrite(s)' => MidWrite(s)
        BY <2>2 DEF RevalidateResolve, RevalidateCheck, RevalidateSuccess, Proceed, Fail,
                    MidWrite, TypeOK
      <3>3. QED
        BY <3>1, <3>2, FreshOther
    <2>3. CASE RevalidateStale(r)
      BY <1>0, <2>3, FreshSetStale DEF RevalidateStale, SetStale
    <2>4. CASE RevalidateControl(r)
      <3>1. MidWrite(r) /\ stale' = stale /\ control' = [status |-> "STALE", left |-> TTL]
        BY <1>0, <2>4 DEF RevalidateControl, SetControl, MidWrite
      <3>2. \A s \in Slot : MidWrite(s)' => MidWrite(s)
        BY <1>0, <2>4 DEF RevalidateControl, Proceed, MidWrite, TypeOK
      <3>3. QED
        BY <3>1, <3>2, FreshSetControl DEF FreshInv
    <2>5. QED
      BY <1>4, <2>1, <2>2, <2>3, <2>4 DEF Revalidation
  <1>5. ASSUME NEW n \in Node, Crash(n) PROVE FreshInv'
    BY <1>5, FreshOther DEF Crash, MidWrite
  <1>6. CASE Tick
    <2>1. \A s \in Slot : ~MidWrite(s)'
      BY <1>6 DEF Tick, InTime, MidWrite
    <2>2. control' = AgedControl(control) /\ stale' = Aged(stale)
      BY <1>6 DEF Tick, AgeKey
    <2>3. FreshIsServable'
      BY <2>2, TimesAssumption
         DEF FreshInv, FreshIsServable, AgedControl, Aged, TypeOK, KeyTypeOK,
             Controls, NoControl, Cached, None
    <2>4. QED
      BY <2>1, <2>3 DEF FreshInv
  <1>7. CASE UNCHANGED vars
    BY <1>7, FreshOther DEF vars, MidWrite
  <1>8. QED
    BY <1>1, <1>2, <1>3, <1>4, <1>5, <1>6, <1>7 DEF Next

\* A key that is announced fresh can be served, and stays so at least as long as
\* the announcement plus the staleWhileRevalidate delta.
THEOREM FreshServable ==
  ASSUME FreshAssumptions
  PROVE  Spec => []FreshIsServable
  <1>1. Init => FreshInv
    BY DEF Init, FreshInv, FreshIsServable, NoControl, MidWrite
  <1>2. FreshInv => FreshIsServable
    BY DEF FreshInv
  <1>3. TypeOK /\ FreshInv /\ [Next]_vars => FreshInv'
    BY FreshNext
  <1>4. QED
    BY <1>1, <1>2, <1>3, TypeInit, TypeNext, PTL DEF Spec

-----------------------------------------------------------------------------
(* The middleware implements SwrContract.                                    *)

\* Holder names the one revalidation of a node.
HolderOK ==
  \A n \in Node :
    /\ \A r \in Slot : node[r] = n /\ Active(r) => Holder[n] = r
    /\ (\A r \in Slot : ~(node[r] = n /\ Active(r))) => Holder[n] = Nobody

LEMMA HolderIs == LeaseInv => HolderOK
  <1> SUFFICES ASSUME LeaseInv, NEW n \in Node
               PROVE  /\ \A r \in Slot : node[r] = n /\ Active(r) => Holder[n] = r
                      /\ (\A r \in Slot : ~(node[r] = n /\ Active(r))) => Holder[n] = Nobody
    BY DEF HolderOK
  <1>1. ASSUME NEW r \in Slot, node[r] = n, Active(r) PROVE Holder[n] = r
    <2> DEFINE h == CHOOSE s \in Slot : node[s] = n /\ Active(s)
    <2>1. h \in Slot /\ node[h] = n /\ Active(h)
      BY <1>1
    <2>2. h = r
      BY <1>1, <2>1 DEF LeaseInv
    <2>3. QED
      BY <1>1, <2>2 DEF Holder
  <1>2. ASSUME \A r \in Slot : ~(node[r] = n /\ Active(r)) PROVE Holder[n] = Nobody
    BY <1>2 DEF Holder
  <1>3. QED
    BY <1>1, <1>2

LEMMA HolderIsNext == LeaseInv' => HolderOK'
  BY HolderIs, PTL

\* Two values of Holder that agree on every node are equal.
LEMMA HolderExt ==
  /\ DOMAIN Holder = Node
  /\ (\A n \in Node : Holder'[n] = Holder[n]) => Holder' = Holder
  /\ \A n \in Node : \A h :
       /\ Holder'[n] = h
       /\ \A m \in Node : m # n => Holder'[m] = Holder[m]
       => Holder' = [Holder EXCEPT ![n] = h]
  BY DEF Holder

\* A step that neither starts nor ends a revalidation leaves Holder alone.
LEMMA HolderKept ==
  ASSUME HolderOK, HolderOK',
         \A r \in Slot : Active(r)' = Active(r),
         \A r \in Slot : Active(r) => node'[r] = node[r]
  PROVE  Holder' = Holder
  <1>1. ASSUME NEW n \in Node PROVE Holder'[n] = Holder[n]
    <2>1. CASE \E r \in Slot : node[r] = n /\ Active(r)
      <3>1. PICK r \in Slot : node[r] = n /\ Active(r)
        BY <2>1
      <3>2. Holder[n] = r
        BY <3>1 DEF HolderOK
      <3>3. Holder'[n] = r
        BY <3>1 DEF HolderOK
      <3>4. QED
        BY <3>2, <3>3
    <2>2. CASE \A r \in Slot : ~(node[r] = n /\ Active(r))
      <3>1. Holder[n] = Nobody
        BY <2>2 DEF HolderOK
      <3>2. Holder'[n] = Nobody
        BY <2>2 DEF HolderOK
      <3>3. QED
        BY <3>1, <3>2
    <2>3. QED
      BY <2>1, <2>2
  <1>2. QED
    BY <1>1, HolderExt

\* A step that ends the revalidations of node n, and no other.
LEMMA HolderReleased ==
  ASSUME HolderOK, HolderOK', NEW n \in Node, Nobody \notin Slot, node' = node,
         \A r \in Slot : Active(r)' = (node[r] # n /\ Active(r)),
         Phase' = Phase
  PROVE  [Contract!Next]_<<Phase, Holder>>
  <1>1. Holder'[n] = Nobody
    BY DEF HolderOK
  <1>2. ASSUME NEW m \in Node, m # n PROVE Holder'[m] = Holder[m]
    <2>1. CASE \E r \in Slot : node[r] = m /\ Active(r)
      <3>1. PICK r \in Slot : node[r] = m /\ Active(r)
        BY <2>1
      <3>2. Holder[m] = r
        BY <3>1 DEF HolderOK
      <3>3. Holder'[m] = r
        BY <1>2, <3>1 DEF HolderOK
      <3>4. QED
        BY <3>2, <3>3
    <2>2. CASE \A r \in Slot : ~(node[r] = m /\ Active(r))
      <3>1. Holder[m] = Nobody
        BY <2>2 DEF HolderOK
      <3>2. Holder'[m] = Nobody
        BY <2>2 DEF HolderOK
      <3>3. QED
        BY <3>1, <3>2
    <2>3. QED
      BY <2>1, <2>2
  <1>3. Holder' = [Holder EXCEPT ![n] = Nobody]
    BY <1>1, <1>2, HolderExt
  <1>4. CASE Holder[n] = Nobody
    <2>1. Holder' = Holder
      BY <1>2, <1>1, <1>4, HolderExt
    <2>2. QED
      BY <2>1
  <1>5. CASE Holder[n] # Nobody
    BY <1>3, <1>5 DEF Contract!Next, Contract!Release
  <1>6. QED
    BY <1>4, <1>5

\* A step that starts the revalidation of r on a node that had none.
LEMMA HolderAcquired ==
  ASSUME TypeOK, HolderOK, HolderOK', NEW r \in Slot, node' = node,
         \A s \in Slot : Active(s) => node[s] # node[r],
         \A s \in Slot : Active(s)' = (s = r \/ Active(s)),
         Phase' = Phase
  PROVE  [Contract!Next]_<<Phase, Holder>>
  <1> DEFINE n == node[r]
  <1>0. n \in Node
    BY DEF TypeOK
  <1>1. Holder[n] = Nobody /\ Holder'[n] = r
    BY <1>0 DEF HolderOK
  <1>2. ASSUME NEW m \in Node, m # n PROVE Holder'[m] = Holder[m]
    <2>1. CASE \E s \in Slot : node[s] = m /\ Active(s)
      <3>1. PICK s \in Slot : node[s] = m /\ Active(s)
        BY <2>1
      <3>2. Holder[m] = s
        BY <3>1 DEF HolderOK
      <3>3. Holder'[m] = s
        BY <3>1 DEF HolderOK
      <3>4. QED
        BY <3>2, <3>3
    <2>2. CASE \A s \in Slot : ~(node[s] = m /\ Active(s))
      <3>1. Holder[m] = Nobody
        BY <2>2 DEF HolderOK
      <3>2. Holder'[m] = Nobody
        BY <1>2, <2>2 DEF HolderOK
      <3>3. QED
        BY <3>1, <3>2
    <2>3. QED
      BY <2>1, <2>2
  <1>3. Holder' = [Holder EXCEPT ![n] = r]
    BY <1>0, <1>1, <1>2, HolderExt
  <1>4. QED
    BY <1>0, <1>1, <1>3 DEF Contract!Next, Contract!Acquire

\* The phases a step may lead to when it leaves Holder alone.
LEMMA PhaseSteps ==
  ASSUME Holder' = Holder,
         \/ Phase' = Phase
         \/ Phase = "gone" /\ Phase' = "stale"
         \/ Phase = "stale" /\ Phase' \in {"fresh", "gone"}
         \/ Phase = "fresh" /\ Phase' = "stale"
  PROVE  [Contract!Next]_<<Phase, Holder>>
  BY DEF Contract!Next, Contract!Store, Contract!Announce, Contract!Wither

\* The value is written.
LEMMA PhaseSetStale ==
  ASSUME control' = control, stale' # None
  PROVE  Phase' = Phase \/ (Phase = "gone" /\ Phase' = "stale")
  BY DEF Phase

\* A control entry other than SWR-CONTROL-STALE is written, or it is deleted.
LEMMA PhaseSetOther ==
  ASSUME TypeOK, FreshInv, stale' = stale, control'.status # "STALE"
  PROVE  Phase' = Phase \/ (Phase = "fresh" /\ Phase' = "stale")
  BY TimesAssumption
     DEF Phase, FreshInv, FreshIsServable, TypeOK, KeyTypeOK, Controls, NoControl, None

\* SWR-CONTROL-STALE is written after the value.
LEMMA PhaseAnnounce ==
  ASSUME stale' = stale, stale.left = StaleTTL, control'.status = "STALE"
  PROVE  Phase' = Phase \/ (Phase = "stale" /\ Phase' = "fresh")
  BY TimesAssumption DEF Phase, None

LEMMA PhaseTick ==
  ASSUME TypeOK, FreshInv, control' = AgedControl(control), stale' = Aged(stale)
  PROVE  \/ Phase' = Phase
         \/ Phase = "stale" /\ Phase' = "gone"
         \/ Phase = "fresh" /\ Phase' = "stale"
  <1>1. control \in Controls /\ stale \in Cached
    BY DEF TypeOK, KeyTypeOK
  <1>2. CASE control.status = "STALE"
    <2>1. stale.left > 1
      BY <1>1, <1>2, TimesAssumption
         DEF FreshInv, FreshIsServable, Controls, NoControl, Cached, None
    <2>2. stale' # None
      BY <1>1, <2>1, TimesAssumption DEF Aged, Cached, None
    <2>3. QED
      BY <1>2, <2>2 DEF Phase
  <1>3. CASE control.status # "STALE"
    <2>1. control'.status # "STALE"
      BY <1>1, <1>3 DEF AgedControl, Controls, NoControl
    <2>2. stale = None => stale' = None
      BY DEF Aged, None
    <2>3. QED
      BY <1>3, <2>1, <2>2 DEF Phase
  <1>4. QED
    BY <1>2, <1>3

\* A step that leaves the key, and every revalidation, as they are.
LEMMA ContractStutter ==
  ASSUME HolderOK, HolderOK', stale' = stale, control' = control,
         \A r \in Slot : Active(r)' = Active(r),
         \A r \in Slot : Active(r) => node'[r] = node[r]
  PROVE  [Contract!Next]_<<Phase, Holder>>
  <1>1. Holder' = Holder
    BY HolderKept
  <1>2. Phase' = Phase
    BY DEF Phase
  <1>3. QED
    BY <1>1, <1>2, PhaseSteps

\* A step of revalidateEntry that goes on to the next step of the try block.
LEMMA ActiveKept ==
  ASSUME TypeOK, NEW r \in Slot, Active(r),
         NEW next \in {"resolve", "check", "stale", "control", "success"},
         bg' = [bg EXCEPT ![r] = next]
  PROVE  \A s \in Slot : Active(s)' = Active(s)
  BY DEF Active, TypeOK

\* A step of revalidateEntry that ends in the catch clause.
LEMMA ContractFail ==
  ASSUME TypeOK, LeaseInv, HolderOK, HolderOK', Nobody \notin Slot,
         NEW r \in Slot, Active(r), Fail(r), UNCHANGED <<stale, control, node>>
  PROVE  [Contract!Next]_<<Phase, Holder>>
  <1>1. \A s \in Slot : Active(s)' = (node[s] # node[r] /\ Active(s))
    BY DEF Fail, Active, TypeOK, LeaseInv
  <1>2. Phase' = Phase
    BY DEF Phase
  <1>3. node[r] \in Node
    BY DEF TypeOK
  <1>4. QED
    BY <1>1, <1>2, <1>3, HolderReleased

\* Every step of the middleware is a step of the contract or none at all.
THEOREM ContractStep ==
  ASSUME LeaseAssumptions, FreshAssumptions, Nobody \notin Slot,
         TypeOK, OneThread, LeaseInv, LeaseInv', FreshInv, [Next]_vars
  PROVE  [Contract!Next]_<<Phase, Holder>>
  <1> USE HolderIs, HolderIsNext DEF FreshAssumptions, LeaseAssumptions
  <1>0. \A reply \in RedisReplies : Applied(reply) /\ Resolved(reply)
    BY DEF Applied, Resolved
  <1>1. ASSUME NEW r \in Slot, NEW n \in Node, NEW reset \in BOOLEAN, Arrive(r, n, reset)
        PROVE  [Contract!Next]_<<Phase, Holder>>
    <2>1. \A s \in Slot : Active(s)' = Active(s)
      BY <1>1 DEF Arrive, Active
    <2>2. \A s \in Slot : Active(s) => node'[s] = node[s]
      BY <1>1 DEF Arrive, Active, TypeOK
    <2>3. QED
      BY <1>1, <2>1, <2>2, ContractStutter DEF Arrive, keyVars
  <1>2. ASSUME NEW r \in Slot, Request(r) PROVE [Contract!Next]_<<Phase, Holder>>
    <2>0. UNCHANGED <<stale, control, node>>
      BY <1>2 DEF Request, ReadControl, ReadStale, ReadFails, Serve, ReadEntry, Resolve, keyVars
    <2>1. CASE Serve(r) /\ TriggersRevalidate(r)
      <3>1. bg' = [bg EXCEPT ![r] = "flag"] /\ ~(flag[node[r]] > 0)
        BY <2>1 DEF Serve, TriggersRevalidate, RevalidatingLocally
      <3>2. \A s \in Slot : Active(s) => node[s] # node[r]
        BY <3>1 DEF LeaseInv
      <3>3. \A s \in Slot : Active(s)' = (s = r \/ Active(s))
        BY <3>1 DEF Active, TypeOK
      <3>4. Phase' = Phase
        BY <2>0 DEF Phase
      <3>5. QED
        BY <2>0, <3>2, <3>3, <3>4, HolderAcquired
    <2>2. CASE ~(Serve(r) /\ TriggersRevalidate(r))
      <3>1. bg' = bg
        BY <1>2, <2>2 DEF Request, ReadControl, ReadStale, ReadFails, Serve, ReadEntry, Resolve
      <3>2. \A s \in Slot : Active(s)' = Active(s)
        BY <3>1 DEF Active
      <3>3. QED
        BY <2>0, <3>2, ContractStutter
    <2>3. QED
      BY <2>1, <2>2
  <1>3. ASSUME NEW r \in Slot, Writer(r) PROVE [Contract!Next]_<<Phase, Holder>>
    <2>1. UNCHANGED <<bg, node>>
      BY <1>3 DEF Writer, WriteCheck, WriteStale, WriteControl, WriteEntry
    <2>2. \A s \in Slot : Active(s)' = Active(s)
      BY <2>1 DEF Active
    <2>3. Holder' = Holder
      BY <2>1, <2>2, HolderKept
    <2>4. CASE WriteCheck(r) \/ WriteEntry(r)
      BY <2>1, <2>2, <2>4, ContractStutter DEF WriteCheck, WriteEntry, keyVars
    <2>5. CASE WriteStale(r)
      <3>1. control' = control /\ stale' # None
        BY <1>0, <2>5, TimesAssumption DEF WriteStale, SetStale, None
      <3>2. QED
        BY <2>3, <3>1, PhaseSetStale, PhaseSteps
    <2>6. CASE WriteControl(r)
      <3>1. stale' = stale /\ stale.left = StaleTTL /\ control'.status = "STALE"
        BY <1>0, <2>6 DEF WriteControl, SetControl, FreshInv, MidWrite
      <3>2. QED
        BY <2>3, <3>1, PhaseAnnounce, PhaseSteps
    <2>7. QED
      BY <1>3, <2>4, <2>5, <2>6 DEF Writer
  <1>4. ASSUME NEW r \in Slot, Revalidation(r) PROVE [Contract!Next]_<<Phase, Holder>>
    <2>1. CASE RevalidateFlag(r)
      <3>1. /\ Active(r) /\ UNCHANGED <<stale, node>>
            /\ bg' = [bg EXCEPT ![r] = "resolve"] /\ control'.status # "STALE"
        BY <1>0, <2>1 DEF RevalidateFlag, SetControl, Proceed, Active
      <3>2. Holder' = Holder
        BY <3>1, ActiveKept, HolderKept
      <3>3. QED
        BY <3>1, <3>2, PhaseSetOther, PhaseSteps
    <2>2. CASE RevalidateResolve(r) \/ RevalidateCheck(r)
      <3>1. Active(r) /\ UNCHANGED <<stale, control, node>>
        BY <2>2 DEF RevalidateResolve, RevalidateCheck, Active
      <3>2. CASE Fail(r)
        BY <3>1, <3>2, ContractFail
      <3>3. CASE bg' = [bg EXCEPT ![r] = "check"] \/ bg' = [bg EXCEPT ![r] = "stale"]
        BY <3>1, <3>3, ActiveKept, ContractStutter
      <3>4. QED
        BY <2>2, <3>2, <3>3 DEF RevalidateResolve, RevalidateCheck, Proceed
    <2>3. CASE RevalidateStale(r)
      <3>1. /\ Active(r) /\ UNCHANGED <<control, node>>
            /\ bg' = [bg EXCEPT ![r] = "control"] /\ stale' # None
        BY <1>0, <2>3, TimesAssumption DEF RevalidateStale, SetStale, Proceed, Active, None
      <3>2. Holder' = Holder
        BY <3>1, ActiveKept, HolderKept
      <3>3. QED
        BY <3>1, <3>2, PhaseSetStale, PhaseSteps
    <2>4. CASE RevalidateControl(r)
      <3>1. /\ Active(r) /\ UNCHANGED <<stale, node>> /\ stale.left = StaleTTL
            /\ bg' = [bg EXCEPT ![r] = "success"] /\ control'.status = "STALE"
        BY <1>0, <2>4 DEF RevalidateControl, SetControl, Proceed, Active, FreshInv, MidWrite
      <3>2. Holder' = Holder
        BY <3>1, ActiveKept, HolderKept
      <3>3. QED
        BY <3>1, <3>2, PhaseAnnounce, PhaseSteps
    <2>5. CASE RevalidateSuccess(r)
      <3>1. /\ Active(r) /\ UNCHANGED <<stale, control, node>>
            /\ bg' = [bg EXCEPT ![r] = "none"]
        BY <2>5 DEF RevalidateSuccess, Active
      <3>2. \A s \in Slot : Active(s)' = (node[s] # node[r] /\ Active(s))
        BY <3>1 DEF Active, TypeOK, LeaseInv
      <3>3. Phase' = Phase /\ node[r] \in Node
        BY <3>1 DEF Phase, TypeOK
      <3>4. QED
        BY <3>1, <3>2, <3>3, HolderReleased
    <2>6. CASE RevalidateClear(r)
      <3>1. UNCHANGED <<stale, node>> /\ control'.status # "STALE"
        BY <1>0, <2>6 DEF RevalidateClear, DeleteControl, NoControl
      <3>2. \A s \in Slot : Active(s)' = Active(s)
        BY <2>6 DEF RevalidateClear, Active, TypeOK
      <3>3. Holder' = Holder
        BY <3>1, <3>2, HolderKept
      <3>4. QED
        BY <3>1, <3>3, PhaseSetOther, PhaseSteps
    <2>7. QED
      BY <1>4, <2>1, <2>2, <2>3, <2>4, <2>5, <2>6 DEF Revalidation
  <1>5. ASSUME NEW n \in Node, Crash(n) PROVE [Contract!Next]_<<Phase, Holder>>
    <2>1. \A r \in Slot : Active(r)' = (node[r] # n /\ Active(r))
      BY <1>5 DEF Crash, Active
    <2>2. Phase' = Phase /\ node' = node
      BY <1>5 DEF Crash, Phase
    <2>3. QED
      BY <2>1, <2>2, HolderReleased
  <1>6. CASE Tick
    <2>1. UNCHANGED <<bg, node>> /\ control' = AgedControl(control) /\ stale' = Aged(stale)
      BY <1>6 DEF Tick, AgeKey
    <2>2. \A r \in Slot : Active(r)' = Active(r)
      BY <2>1 DEF Active
    <2>3. Holder' = Holder
      BY <2>1, <2>2, HolderKept
    <2>4. QED
      BY <2>1, <2>3, PhaseTick, PhaseSteps
  <1>7. CASE UNCHANGED vars
    <2>1. \A r \in Slot : Active(r)' = Active(r)
      BY <1>7 DEF vars, Active
    <2>2. QED
      BY <1>7, <2>1, ContractStutter DEF vars
  <1>8. QED
    BY <1>1, <1>2, <1>3, <1>4, <1>5, <1>6, <1>7 DEF Next

\* The middleware implements the contract of stale-while-revalidate: no key goes
\* from fresh to gone, nothing is announced fresh that cannot be served, and each
\* instance revalidates under its lease.
THEOREM Refinement ==
  ASSUME LeaseAssumptions, FreshAssumptions, Nobody \notin Slot
  PROVE  Spec => KeepsContract
  <1>1. Init => OneThread /\ LeaseInv /\ FreshInv
    BY LeaseInit
       DEF Init, OneThread, FreshInv, FreshIsServable, NoControl, MidWrite
  <1>2. Init => Contract!Init
    BY DEF Init, Contract!Init, Phase, Holder, NoControl, Active
  <1>3. TypeOK /\ OneThread /\ LeaseInv /\ [Next]_vars => LeaseInv'
    BY LeaseNext
  <1>4. TypeOK /\ FreshInv /\ [Next]_vars => FreshInv'
    BY FreshNext
  <1>5. TypeOK /\ OneThread /\ LeaseInv /\ LeaseInv' /\ FreshInv /\ [Next]_vars
          => [Contract!Next]_<<Phase, Holder>>
    BY ContractStep
  <1>6. QED
    BY <1>1, <1>2, <1>3, <1>4, <1>5, TypeInit, TypeNext, OneThreadNext, PTL
       DEF Spec, KeepsContract, Contract!Spec

-----------------------------------------------------------------------------
(* The parameters of an entity: documented ones give times that satisfy    *)
(* TimesAssumption.                                                        *)

\* ms reads a duration as its milliseconds.
LEMMA ParsedDuration ==
  ASSUME NEW d, IsDuration(d)
  PROVE  /\ parseMs(d).type = "number" /\ parseMs(d).ms = d.ms
         /\ ToNumber(parseMs(d)) = parseMs(d)
         /\ d.ms \in Nat \ {0}
<1>1. CASE d.type = "text"
  BY <1>1 DEF IsDuration, parseMs, ToNumber, Number, IsMs
<1>2. CASE d.type = "number"
  BY <1>2 DEF IsDuration, parseMs, ToNumber
<1>. QED  BY <1>1, <1>2 DEF IsDuration

\* A positive number of milliseconds is how long redis keeps an entry.
LEMMA LifetimeOfDuration ==
  ASSUME NEW d, IsDuration(d)
  PROVE  /\ IsNumber(Lifetime(d)) /\ IsMs(Lifetime(d))
         /\ Lifetime(d).ms = d.ms
<1>1. d # Undefined
  BY DEF IsDuration, Undefined
<1>2. parseMs(d) # Undefined
  BY ParsedDuration DEF Undefined
<1>3. Lifetime(d) = parseMs(d)
  BY <1>1, <1>2, ParsedDuration DEF Lifetime, IsNumber
<1>4. IsMs(parseMs(d))
  BY DEF IsDuration, parseMs, IsMs, Number
<1>. QED  BY <1>3, <1>4, ParsedDuration DEF IsNumber

\* The stale ttl is a duration above that of ttl, doubled or added to.
LEMMA StaleTtlAbove ==
  ASSUME NEW ttl, NEW swr, IsDuration(ttl), IsDuration(swr) \/ swr = True
  PROVE  /\ IsDuration(getStaleWhileRevalidateTtl(swr, ttl))
         /\ getStaleWhileRevalidateTtl(swr, ttl).ms > ttl.ms
<1>. DEFINE fresh == ToNumber(parseMs(ttl))
<1>1. IsNumber(fresh) /\ fresh.ms = ttl.ms /\ ttl.ms \in Nat \ {0}
  BY ParsedDuration DEF IsNumber
<1>2. CASE swr = True
  <2>1. getStaleWhileRevalidateTtl(swr, ttl) = Number(ttl.ms + ttl.ms)
    BY <1>1, <1>2 DEF getStaleWhileRevalidateTtl, Plus
  <2>. QED  BY <1>1, <2>1 DEF IsDuration, IsMs, Number
<1>3. CASE IsDuration(swr) /\ swr # True
  <2>1. getStaleWhileRevalidateTtl(swr, ttl) = Number(ttl.ms + swr.ms)
    BY <1>1, <1>3, ParsedDuration DEF getStaleWhileRevalidateTtl, Plus, IsNumber
  <2>2. swr.ms \in Nat \ {0}
    BY <1>3, ParsedDuration
  <2>. QED  BY <1>1, <2>1, <2>2 DEF IsDuration, IsMs, Number
<1>. QED  BY <1>2, <1>3

\* The timeout is what is given or five seconds.
LEMMA TimeoutIsDuration ==
  ASSUME NEW timeout, IsDuration(timeout) \/ timeout = Undefined
  PROVE  IsDuration(defaultTo(parseMs(timeout), Number(5000)))
<1>1. CASE IsDuration(timeout)
  <2>1. parseMs(timeout).type = "number" /\ IsMs(parseMs(timeout))
    BY <1>1, ParsedDuration DEF IsDuration, parseMs, IsMs, Number
  <2>. QED  BY <1>1, <2>1, ParsedDuration DEF defaultTo, IsDuration
<1>2. CASE timeout = Undefined
  BY <1>2 DEF defaultTo, parseMs, Undefined, IsDuration, IsMs, Number
<1>. QED  BY <1>1, <1>2

\* Whatever documented parameters an entity has, getCacheParams gives times with
\* which every entry leaves redis some time, and the value that is served stale
\* outlives the control entry which announces it fresh.
THEOREM DocumentedTimesInOrder ==
  ASSUME NEW params, Documented(params)
  PROVE  TimesInOrder(getCacheParams(params))
<1>. DEFINE ttl == defaultTo(params.cache.ttl, params.ttl)
            swr == defaultTo(params.cache.staleWhileRevalidate, params.staleWhileRevalidate)
            timeout == params.cache.revalidateTimeout
            cache == getCacheParams(params)
<1>1. IsDuration(ttl) /\ (IsDuration(swr) \/ swr = True)
        /\ (IsDuration(timeout) \/ timeout = Undefined)
  BY DEF Documented
<1>. HIDE DEF ttl, swr, timeout
<1>2. (ttl # Undefined /\ shouldUseStaleWhileRevalidate(swr)) = TRUE
  BY <1>1 DEF IsDuration, Undefined, True, shouldUseStaleWhileRevalidate
<1>3. /\ cache.ttl = ttl
      /\ cache.useStaleWhileRevalidate = TRUE
      /\ cache.staleWhileRevalidateTtl = getStaleWhileRevalidateTtl(swr, ttl)
      /\ cache.revalidateTimeout = defaultTo(parseMs(timeout), Number(5000))
  <2>. DEFINE use == ttl # Undefined /\ shouldUseStaleWhileRevalidate(swr)
  <2>1. cache = [ttl |-> ttl,
                 useStaleWhileRevalidate |-> use,
                 staleWhileRevalidateTtl |->
                   IF use THEN getStaleWhileRevalidateTtl(swr, ttl) ELSE Undefined,
                 revalidateTimeout |->
                   IF use THEN defaultTo(parseMs(timeout), Number(5000)) ELSE Undefined]
    BY Zenon DEF getCacheParams, ttl, swr, timeout
  <2>2. use = TRUE
    BY <1>2
  <2>. HIDE DEF use, cache
  <2>. QED  BY <2>1, <2>2
<1>. HIDE DEF cache
<1>4. /\ IsDuration(cache.ttl)
      /\ IsDuration(cache.staleWhileRevalidateTtl)
      /\ IsDuration(cache.revalidateTimeout)
      /\ cache.staleWhileRevalidateTtl.ms > cache.ttl.ms
  BY <1>1, <1>3, StaleTtlAbove, TimeoutIsDuration
<1>5. Caches(cache)
  BY <1>4 DEF Caches, IsDuration, Number
<1>6. \A time \in {cache.ttl, cache.staleWhileRevalidateTtl, cache.revalidateTimeout} :
        /\ IsNumber(Lifetime(time)) /\ IsMs(Lifetime(time))
        /\ Lifetime(time).ms \in Nat \ {0}
  BY <1>4, LifetimeOfDuration, ParsedDuration
<1>7. Lifetime(cache.staleWhileRevalidateTtl).ms > Lifetime(cache.ttl).ms
  BY <1>4, LifetimeOfDuration
<1>. QED  BY <1>3, <1>5, <1>6, <1>7 DEF TimesInOrder, cache
=============================================================================
