---------------------- MODULE RevalidationStoreProofs ----------------------
(***************************************************************************)
(* The bound on the local flags, for any limit and any set of keys.        *)
(***************************************************************************)
EXTENDS RevalidationStore, FiniteSetTheorems, TLAPS

StoreInv ==
  /\ TypeOK
  /\ IsFiniteSet(Keys)
  /\ Bounded

\* What the next store holds, whatever the values.
LEMMA Shrinks ==
  ASSUME StoreInv, Keys' \subseteq Keys
  PROVE  IsFiniteSet(Keys') /\ Bounded'
  <1>1. IsFiniteSet(Keys') /\ Cardinality(Keys') <= Cardinality(Keys)
    BY FS_Subset DEF StoreInv
  <1>2. Cardinality(Keys) \in Nat /\ Cardinality(Keys') \in Nat
    BY <1>1, FS_CardinalityType DEF StoreInv
  <1>3. QED
    BY <1>1, <1>2, StoreAssumption DEF StoreInv, Bounded, Size

LEMMA AddKeepsInv ==
  ASSUME StoreInv, NEW k \in Key, Add(k)
  PROVE  StoreInv'
  <1>1. Keys' = Keys \cup {k}
    BY DEF Add, Keys
  <1>2. Cardinality(Keys) \in Nat /\ Cardinality(Keys) <= MaxStoreSize
    BY FS_CardinalityType, StoreAssumption DEF StoreInv, Add, Size
  <1>3. IsFiniteSet(Keys') /\ Cardinality(Keys') <= Cardinality(Keys) + 1
    BY <1>1, <1>2, FS_AddElement DEF StoreInv
  <1>4. Cardinality(Keys') \in Nat
    BY <1>3, FS_CardinalityType
  <1>5. Bounded'
    BY <1>2, <1>3, <1>4, StoreAssumption DEF Bounded, Size
  <1>6. TypeOK'
    <2>1. Keys \subseteq Key /\ store \in [Keys -> Left]
      BY DEF StoreInv, TypeOK, Keys
    <2>2. store' \in [Keys \cup {k} -> Left]
      BY <2>1, StoreAssumption DEF Add, Left
    <2>3. QED
      BY <2>1, <2>2 DEF StoreInv, TypeOK, Add
  <1>7. QED
    BY <1>3, <1>5, <1>6 DEF StoreInv

LEMMA SweepKeepsInv ==
  ASSUME StoreInv, Sweep, wait' \in 0 .. ThrottleWait, pending' \in BOOLEAN
  PROVE  StoreInv'
  <1>1. Keys' = Kept /\ Kept \subseteq Keys
    BY DEF Sweep, Keys, Kept
  <1>2. TypeOK'
    BY <1>1 DEF StoreInv, TypeOK, Keys, Sweep
  <1>3. QED
    BY <1>1, <1>2, Shrinks DEF StoreInv

THEOREM StoreNext == StoreInv /\ [Next]_vars => StoreInv'
  <1> SUFFICES ASSUME StoreInv, [Next]_vars PROVE StoreInv'
    OBVIOUS
  <1>1. ASSUME NEW k \in Key, Add(k) PROVE StoreInv'
    BY <1>1, AddKeepsInv
  <1>2. ASSUME NEW k \in Key, Remove(k) PROVE StoreInv'
    <2>1. Keys' = Keys \ {k}
      BY <1>2 DEF Remove, Keys
    <2>2. TypeOK'
      BY <1>2, <2>1 DEF StoreInv, TypeOK, Remove, Keys
    <2>3. QED
      BY <2>1, <2>2, Shrinks DEF StoreInv
  <1>3. CASE Clear
    <2>1. CASE Sweep /\ wait' = ThrottleWait /\ pending' = FALSE
      <3>1. wait' \in 0 .. ThrottleWait
        BY <2>1, StoreAssumption
      <3>2. pending' \in BOOLEAN
        BY <2>1
      <3>3. QED
        BY <2>1, <3>1, <3>2, SweepKeepsInv
    <2>2. CASE pending' = TRUE /\ UNCHANGED <<store, wait>>
      <3>1. Keys' = Keys
        BY <2>2 DEF Keys
      <3>2. TypeOK'
        BY <2>2 DEF StoreInv, TypeOK
      <3>3. QED
        BY <3>1, <3>2, Shrinks DEF StoreInv
    <2>3. QED
      BY <1>3, <2>1, <2>2 DEF Clear
  <1>4. CASE TrailingClear
    <2>1. Sweep /\ wait' = ThrottleWait /\ pending' \in BOOLEAN
      BY <1>4 DEF TrailingClear
    <2>2. wait' \in 0 .. ThrottleWait
      BY <2>1, StoreAssumption
    <2>3. QED
      BY <2>1, <2>2, SweepKeepsInv
  <1>5. CASE Tick
    <2>1. Keys' = Keys
      BY <1>5 DEF Tick, Keys
    <2>2. store' \in [Keys -> Left]
      BY <1>5, StoreAssumption DEF Tick, StoreInv, TypeOK, Keys, Left
    <2>3. wait' \in 0 .. ThrottleWait /\ pending' = pending
      BY <1>5, StoreAssumption DEF Tick, StoreInv, TypeOK
    <2>4. TypeOK'
      BY <2>2, <2>3 DEF StoreInv, TypeOK, Keys
    <2>5. QED
      BY <2>1, <2>4, Shrinks DEF StoreInv
  <1>6. CASE UNCHANGED vars
    BY <1>6 DEF vars, StoreInv, TypeOK, Keys, Bounded, Size
  <1>7. QED
    BY <1>1, <1>2, <1>3, <1>4, <1>5, <1>6 DEF Next

LEMMA StoreInit == Init => StoreInv
  <1> SUFFICES ASSUME Init PROVE StoreInv
    OBVIOUS
  <1>1. Keys = {}
    BY DEF Init, Keys
  <1>2. TypeOK
    <2>1. store \in [{} -> Left] /\ {} \in SUBSET Key
      BY DEF Init
    <2>2. wait = 0 /\ pending \in BOOLEAN
      BY DEF Init
    <2>3. wait \in 0 .. ThrottleWait
      BY <2>2, StoreAssumption
    <2>4. QED
      BY <2>1, <2>2, <2>3 DEF TypeOK
  <1>3. IsFiniteSet(Keys) /\ Cardinality(Keys) = 0
    BY <1>1, FS_EmptySet
  <1>4. QED
    BY <1>2, <1>3, StoreAssumption DEF StoreInv, Bounded, Size

\* The store never holds more than one key above its limit, for any limit and
\* however many keys are being revalidated.
THEOREM StoreBounded == Spec => []Bounded
  <1>1. StoreInv => Bounded
    BY DEF StoreInv
  <1>2. QED
    BY <1>1, StoreInit, StoreNext, PTL DEF Spec

\* The sweep lifts no flag that is up, whatever the keys and timeouts.
THEOREM SweepSafe == Spec => SweepKeepsLive
  <1>1. ASSUME TypeOK, Clear \/ TrailingClear, NEW k \in Key, Exists(k) PROVE Exists(k)'
    <2>1. CASE Sweep
      <3>0. k \in Keys /\ store[k] \in Int /\ store[k] > 0
        BY <1>1, StoreAssumption DEF Exists, TypeOK, Keys, Left
      <3>1. k \in Kept /\ store[k] > 0
        BY <3>0 DEF Kept
      <3>2. Keys' = Kept /\ store'[k] = store[k]
        BY <2>1, <3>1 DEF Sweep, Keys
      <3>3. QED
        BY <3>1, <3>2 DEF Exists
    <2>2. CASE store' = store
      BY <1>1, <2>2 DEF Exists, Keys
    <2>3. QED
      BY <1>1, <2>1, <2>2 DEF Clear, TrailingClear
  <1>2. TypeOK => (Clear \/ TrailingClear => \A k \in Key : Exists(k) => Exists(k)')
    BY <1>1
  <1>3. QED
    BY <1>2, StoreInit, StoreNext, PTL DEF Spec, SweepKeepsLive, StoreInv

\* The store maps keys to the times left to them, which are those that Exists and the
\* sweep tell apart, and the throttle waits no longer than its period: for any keys and
\* timeouts, in any order of requests.
THEOREM StoreTyped == Spec => []TypeOK
  <1>1. StoreInv => TypeOK
    BY DEF StoreInv
  <1>2. QED
    BY <1>1, StoreInit, StoreNext, PTL DEF Spec
=============================================================================
