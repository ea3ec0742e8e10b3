------------------------ MODULE DataPointCacheProofs ------------------------
(***************************************************************************)
(* How stale the local memory of data-point-cache may be, for any number   *)
(* of instances and calls, any localTTL and any latency of redis.          *)
(***************************************************************************)
EXTENDS DataPointCache, TLAPS

\* The lag of a copy is paid for: by its age, and by the time it was on its way.
Paid ==
  /\ \A n \in Node : local[n] # NoCopy =>
       /\ local[n].lag <= local[n].age + Latency
       /\ local[n].age <= IF due[n] THEN LocalTTL + 1 ELSE LocalTTL
  /\ \A c \in Call : copy[c] # NoCopy => copy[c].lag <= wait[c]

\* A call gets past EXISTS only if the key was there.
Present == \A c \in Call : pc[c] \in {"lookup", "fetch", "fill"} => saw[c]

CacheInv == TypeOK /\ Paid

-----------------------------------------------------------------------------
LEMMA CopyFacts ==
  /\ NoCopy \notin Copies
  /\ Fresh \in Copies
  /\ Outdated(NoCopy) = NoCopy
  /\ \A e \in Copies : Outdated(e) \in Copies /\ Outdated(e).lag = e.lag /\ Outdated(e).age = e.age
  /\ \A e \in Copies : e.lag \in 0 .. Horizon /\ e.age \in 0 .. Horizon
  <1>1. Horizon \in Nat /\ 0 \in 0 .. Horizon /\ Horizon + 1 \notin 0 .. Horizon
    BY CacheAssumption DEF Horizon
  <1>2. NoCopy \notin Copies
    <2>1. NoCopy.age = Horizon + 1
      BY DEF NoCopy
    <2>2. \A e \in Copies : e.age \in 0 .. Horizon
      BY DEF Copies
    <2>3. QED
      BY <1>1, <2>1, <2>2
  <1>3. Fresh \in Copies
    BY <1>1 DEF Fresh, Copies
  <1>4. Outdated(NoCopy) = NoCopy
    BY DEF Outdated, NoCopy
  <1>5. ASSUME NEW e \in Copies
        PROVE  Outdated(e) \in Copies /\ Outdated(e).lag = e.lag /\ Outdated(e).age = e.age
    BY DEF Copies, Outdated
  <1>6. QED
    BY <1>2, <1>3, <1>4, <1>5 DEF Copies

LEMMA AgedFacts ==
  /\ Older(Late(NoCopy)) = NoCopy
  /\ Late(NoCopy) = NoCopy
  /\ \A e \in Copies :
       /\ Late(e) \in Copies /\ Late(e).age = e.age /\ Late(e).lag <= e.lag + 1
       /\ Older(Late(e)) \in Copies /\ Older(Late(e)).lag = Late(e).lag
       /\ e.age <= LocalTTL => Older(Late(e)).age = e.age + 1
  <1>1. Older(Late(NoCopy)) = NoCopy /\ Late(NoCopy) = NoCopy
    BY DEF Older, Late
  <1>2. ASSUME NEW e \in Copies
        PROVE  Late(e) \in Copies /\ Late(e).age = e.age /\ Late(e).lag <= e.lag + 1
    BY CopyFacts, CacheAssumption DEF Late, Copies, Capped, Horizon
  <1>3. ASSUME NEW e \in Copies
        PROVE  /\ Older(Late(e)) \in Copies /\ Older(Late(e)).lag = Late(e).lag
               /\ e.age <= LocalTTL => Older(Late(e)).age = e.age + 1
    <2>1. Late(e) \in Copies /\ Late(e).age = e.age /\ Late(e) # NoCopy
      BY <1>2, CopyFacts
    <2>2. QED
      BY <2>1, CacheAssumption DEF Older, Copies, Capped, Horizon
  <1>4. QED
    BY <1>1, <1>2, <1>3

\* What the two ways of writing local memory do to the invariant.
LocalOK(l, d) ==
  /\ l \in [Node -> Copies \cup {NoCopy}]
  /\ \A n \in Node : l[n] # NoCopy =>
       /\ l[n].lag <= l[n].age + Latency
       /\ l[n].age <= IF d[n] THEN LocalTTL + 1 ELSE LocalTTL

LEMMA LocalReplaced ==
  ASSUME CacheInv, NEW present, Replace(present)
  PROVE  LocalOK(local', due)
  <1> SUFFICES ASSUME NEW n \in Node
               PROVE  /\ local'[n] \in Copies \cup {NoCopy}
                      /\ local'[n] # NoCopy =>
                           /\ local'[n].lag <= local'[n].age + Latency
                           /\ local'[n].age <= IF due[n] THEN LocalTTL + 1 ELSE LocalTTL
    BY DEF LocalOK, Replace
  <1>1. local'[n] = Outdated(local[n])
    BY DEF Replace
  <1>2. CASE local[n] = NoCopy
    BY <1>1, <1>2, CopyFacts
  <1>3. CASE local[n] # NoCopy
    <2>1. local[n] \in Copies
      BY <1>3 DEF CacheInv, TypeOK
    <2>2. QED
      BY <1>1, <1>3, <2>1, CopyFacts DEF CacheInv, Paid
  <1>4. QED
    BY <1>2, <1>3

LEMMA LocalStored ==
  ASSUME CacheInv, NEW c \in Call, copy[c] # NoCopy, SetLocal(at[c], copy[c])
  PROVE  LocalOK(local', due)
  <1>1. /\ copy[c] \in Copies /\ at[c] \in Node
        /\ copy[c].lag <= wait[c] /\ wait[c] \in Nat /\ wait[c] <= Latency
    BY CacheAssumption DEF CacheInv, TypeOK, Paid
  <1> DEFINE e == [copy[c] EXCEPT !.age = 0]
  <1>2. e \in Copies /\ e.lag = copy[c].lag /\ e.age = 0
    BY <1>1, CacheAssumption DEF Copies, Horizon
  <1>3. local' = [local EXCEPT ![at[c]] = e]
    BY DEF SetLocal
  <1>4. e.lag <= e.age + Latency /\ e.age <= LocalTTL /\ e.age <= LocalTTL + 1
    BY <1>1, <1>2, CopyFacts, CacheAssumption
  <1> HIDE DEF e
  <1>5. QED
    BY <1>1, <1>2, <1>3, <1>4 DEF LocalOK, CacheInv, TypeOK, Paid

-----------------------------------------------------------------------------
\* The calls' half of the invariant.
CallsOK(p, e, w) ==
  /\ p \in [Call -> Steps]
  /\ e \in [Call -> Copies \cup {NoCopy}]
  /\ w \in [Call -> 0 .. Latency]
  /\ \A c \in Call : e[c] # NoCopy <=> p[c] \in {"fill", "store"}
  /\ \A c \in Call : e[c] # NoCopy => e[c].lag <= w[c]

RestOK ==
  /\ redis \in BOOLEAN
  /\ due \in [Node -> BOOLEAN]
  /\ at \in [Call -> Node]
  /\ saw \in [Call -> BOOLEAN]

LEMMA InvSplit == CacheInv <=> LocalOK(local, due) /\ CallsOK(pc, copy, wait) /\ RestOK
  BY DEF CacheInv, TypeOK, Paid, LocalOK, CallsOK, RestOK

LEMMA InvSplitNext ==
  CacheInv' <=> LocalOK(local', due') /\ CallsOK(pc', copy', wait') /\ RestOK'
  BY DEF CacheInv, TypeOK, Paid, LocalOK, CallsOK, RestOK

LEMMA GotoOK ==
  ASSUME CacheInv, NEW c \in Call, NEW step \in Steps, NEW e \in {NoCopy, Fresh, Outdated(Fresh)},
         e # NoCopy <=> step \in {"fill", "store"}, Goto(c, step, e)
  PROVE  CallsOK(pc', copy', wait')
  <1>1. e \in Copies \cup {NoCopy} /\ (e # NoCopy => e.lag = 0)
    BY CopyFacts DEF Fresh, Outdated
  <1>2. 0 \in 0 .. Latency
    BY CacheAssumption
  <1>3. QED
    BY <1>1, <1>2, InvSplit DEF Goto, CallsOK

LEMMA ReturnOK ==
  ASSUME CacheInv, NEW c \in Call, Return(c)
  PROVE  CallsOK(pc', copy', wait')
  <1>1. "idle" \in Steps /\ (NoCopy # NoCopy <=> "idle" \in {"fill", "store"})
    BY DEF Steps
  <1>2. QED
    BY <1>1, GotoOK DEF Return

LEMMA LocalUnchanged ==
  ASSUME CacheInv, UNCHANGED <<local, due>>
  PROVE  LocalOK(local', due')
  BY InvSplit DEF LocalOK

LEMMA LocalDropped ==
  ASSUME CacheInv, NEW n \in Node, local' = [local EXCEPT ![n] = NoCopy], UNCHANGED due
  PROVE  LocalOK(local', due')
  BY InvSplit DEF LocalOK

\* The value in redis is replaced: every call that holds a copy is out of date.
LEMMA OutdatedOK ==
  ASSUME CacheInv, copy' = [d \in Call |-> Outdated(copy[d])], UNCHANGED wait,
         pc' \in [Call -> Steps],
         \A d \in Call : pc'[d] \in {"fill", "store"} <=> pc[d] \in {"fill", "store"}
  PROVE  CallsOK(pc', copy', wait')
  <1> SUFFICES ASSUME NEW d \in Call
               PROVE  /\ copy'[d] \in Copies \cup {NoCopy}
                      /\ copy'[d] # NoCopy <=> copy[d] # NoCopy
                      /\ copy'[d] # NoCopy => copy'[d].lag <= wait[d]
    BY InvSplit DEF CallsOK
  <1>1. CASE copy[d] = NoCopy
    BY <1>1, CopyFacts
  <1>2. CASE copy[d] # NoCopy
    <2>1. copy[d] \in Copies /\ copy[d].lag <= wait[d]
      BY <1>2, InvSplit DEF CallsOK
    <2>2. Outdated(copy[d]) \in Copies /\ Outdated(copy[d]).lag = copy[d].lag
      BY <2>1, CopyFacts
    <2>3. QED
      BY <1>2, <2>1, <2>2, CopyFacts
  <1>3. QED
    BY <1>1, <1>2

LEMMA RedisSetOK ==
  ASSUME CacheInv, NEW c \in Call, RedisSet(c)
  PROVE  LocalOK(local', due') /\ CallsOK(pc', copy', wait') /\ redis' \in BOOLEAN
  <1> USE InvSplit
  <1>1. PICK reply \in RedisReplies :
          /\ IF Applied(reply) THEN Replace(TRUE) ELSE UNCHANGED <<redis, local>>
          /\ pc' = [pc EXCEPT ![c] = IF Resolved(reply) THEN "store" ELSE "idle"]
          /\ copy' = [[d \in Call |-> IF Applied(reply) THEN Outdated(copy[d]) ELSE copy[d]]
                        EXCEPT ![c] = IF Resolved(reply)
                                        THEN IF Applied(reply) THEN Fresh ELSE Outdated(Fresh)
                                        ELSE NoCopy]
          /\ wait' = [wait EXCEPT ![c] = 0]
          /\ UNCHANGED due
    BY DEF RedisSet
  <1>2. LocalOK(local', due')
    BY <1>1, LocalReplaced, LocalUnchanged
  <1>3. redis' \in BOOLEAN
    BY <1>1 DEF Replace, RestOK
  <1>4. CallsOK(pc', copy', wait')
    <2>1. pc' \in [Call -> Steps] /\ wait' \in [Call -> 0 .. Latency]
      BY <1>1, CacheAssumption DEF CallsOK, Steps
    <2>2. ASSUME NEW d \in Call, d # c
          PROVE  /\ copy'[d] \in Copies \cup {NoCopy}
                 /\ copy'[d] # NoCopy <=> pc'[d] \in {"fill", "store"}
                 /\ copy'[d] # NoCopy => copy'[d].lag <= wait'[d]
      <3>1. copy'[d] \in {copy[d], Outdated(copy[d])} /\ pc'[d] = pc[d] /\ wait'[d] = wait[d]
        BY <1>1, <2>2 DEF CallsOK
      <3>2. CASE copy[d] = NoCopy
        BY <3>1, <3>2, CopyFacts DEF CallsOK
      <3>3. CASE copy[d] # NoCopy
        <4>1. copy[d] \in Copies /\ copy[d].lag <= wait[d]
          BY <3>3 DEF CallsOK
        <4>2. Outdated(copy[d]) \in Copies /\ Outdated(copy[d]).lag = copy[d].lag
          BY <4>1, CopyFacts
        <4>3. QED
          BY <3>1, <3>3, <4>1, <4>2, CopyFacts DEF CallsOK
      <3>4. QED
        BY <3>2, <3>3
    <2>3. /\ copy'[c] \in Copies \cup {NoCopy}
          /\ copy'[c] # NoCopy <=> pc'[c] \in {"fill", "store"}
          /\ copy'[c] # NoCopy => copy'[c].lag <= wait'[c]
      <3>1. Fresh.lag = 0 /\ Fresh \in Copies
            /\ Outdated(Fresh) \in Copies /\ Outdated(Fresh).lag = 0
        BY CopyFacts DEF Fresh
      <3>2. pc'[c] = (IF Resolved(reply) THEN "store" ELSE "idle") /\ wait'[c] = 0
        BY <1>1 DEF CallsOK
      <3>3. copy'[c] = IF Resolved(reply)
                         THEN IF Applied(reply) THEN Fresh ELSE Outdated(Fresh) ELSE NoCopy
        BY <1>1 DEF CallsOK
      <3>4. QED
        BY <3>1, <3>2, <3>3, CopyFacts
    <2>4. copy' = [d \in Call |-> copy'[d]]
      BY <1>1
    <2>5. copy' \in [Call -> Copies \cup {NoCopy}]
      BY <2>2, <2>3, <2>4
    <2>6. QED
      BY <2>1, <2>2, <2>3, <2>5 DEF CallsOK
  <1>5. QED
    BY <1>2, <1>3, <1>4

LEMMA TickOK ==
  ASSUME CacheInv, Tick
  PROVE  LocalOK(local', due') /\ CallsOK(pc', copy', wait')
  <1> USE InvSplit
  <1>1. ASSUME NEW n \in Node
        PROVE  /\ local'[n] \in Copies \cup {NoCopy}
               /\ local'[n] # NoCopy =>
                    /\ local'[n].lag <= local'[n].age + Latency
                    /\ local'[n].age <= LocalTTL + 1
    <2>1. local'[n] = Older(Late(local[n])) /\ ~due[n]
      BY DEF Tick
    <2>2. CASE local[n] = NoCopy
      BY <2>1, <2>2, AgedFacts
    <2>3. CASE local[n] # NoCopy
      <3>1. /\ local[n] \in Copies /\ local[n].age <= LocalTTL
            /\ local[n].lag <= local[n].age + Latency
        BY <2>1, <2>3 DEF LocalOK
      <3>2. /\ local'[n] \in Copies /\ local'[n].age = local[n].age + 1
            /\ local'[n].lag <= local[n].lag + 1
        BY <2>1, <3>1, AgedFacts
      <3>3. /\ local[n].age \in Nat /\ local[n].lag \in Nat
            /\ local'[n].age \in Nat /\ local'[n].lag \in Nat
        BY <3>1, <3>2, CopyFacts, CacheAssumption DEF Horizon
      <3>4. QED
        BY <3>1, <3>2, <3>3, CacheAssumption
    <2>4. QED
      BY <2>2, <2>3
  <1>2. ASSUME NEW c \in Call
        PROVE  /\ copy'[c] \in Copies \cup {NoCopy} /\ wait'[c] \in 0 .. Latency
               /\ copy'[c] # NoCopy <=> copy[c] # NoCopy
               /\ copy'[c] # NoCopy => copy'[c].lag <= wait'[c]
    <2>1. /\ copy'[c] = Late(copy[c])
          /\ wait'[c] = IF Holding(c) THEN wait[c] + 1 ELSE wait[c]
          /\ Holding(c) => wait[c] < Latency
          /\ wait[c] \in 0 .. Latency
      BY DEF Tick, CallsOK
    <2>2. CASE copy[c] = NoCopy
      BY <2>1, <2>2, AgedFacts DEF Holding
    <2>3. CASE copy[c] # NoCopy
      <3>1. copy[c] \in Copies /\ copy[c].lag <= wait[c]
        BY <2>3 DEF CallsOK
      <3>2. copy'[c] \in Copies /\ copy'[c].lag <= copy[c].lag + 1
        BY <2>1, <3>1, AgedFacts
      <3>3. copy[c].lag \in Nat /\ copy'[c].lag \in Nat /\ copy'[c] # NoCopy
        BY <3>1, <3>2, CopyFacts, CacheAssumption DEF Horizon
      <3>4. wait'[c] = wait[c] + 1 /\ wait'[c] \in 0 .. Latency
        BY <2>1, <2>3, CacheAssumption DEF Holding
      <3>5. QED
        BY <2>1, <2>3, <3>1, <3>2, <3>3, <3>4
    <2>4. QED
      BY <2>2, <2>3
  <1>3. LocalOK(local', due')
    <2>1. due' = [n \in Node |-> TRUE] /\ local' = [n \in Node |-> local'[n]]
      BY DEF Tick
    <2>2. QED
      BY <1>1, <2>1 DEF LocalOK
  <1>4. CallsOK(pc', copy', wait')
    <2>1. /\ pc' = pc
          /\ copy' = [c \in Call |-> copy'[c]]
          /\ wait' = [c \in Call |-> wait'[c]]
      BY DEF Tick
    <2>2. QED
      BY <1>2, <2>1 DEF CallsOK
  <1>5. QED
    BY <1>3, <1>4

-----------------------------------------------------------------------------
\* Every step of a call keeps the invariant.
LEMMA StepOK ==
  ASSUME CacheInv, NEW c \in Call, Step(c)
  PROVE  CacheInv'
  <1> USE InvSplit
  <1>0. /\ saw' \in [Call -> BOOLEAN]
        /\ {"idle", "exists", "missing", "lookup", "fetch", "fill"} \subseteq Steps
    BY DEF Step, Watch, Steps
  <1>1. CASE RedisExists(c)
    <2>1. PICK step \in {"idle", "lookup", "missing"} : Goto(c, step, NoCopy)
      BY <1>1 DEF RedisExists
    <2>2. CallsOK(pc', copy', wait')
      BY <1>0, <2>1, GotoOK
    <2>3. QED
      BY <1>0, <1>1, <2>2, LocalUnchanged, InvSplitNext DEF RedisExists, RestOK
  <1>2. CASE LocalDel(c)
    <2>1. at[c] \in Node
      BY DEF RestOK
    <2>2. QED
      BY <1>0, <1>2, <2>1, ReturnOK, LocalDropped, InvSplitNext DEF LocalDel, RestOK
  <1>3. CASE LocalGet(c)
    <2>1. CallsOK(pc', copy', wait')
      BY <1>0, <1>3, ReturnOK, GotoOK DEF LocalGet
    <2>2. QED
      BY <1>0, <1>3, <2>1, LocalUnchanged, InvSplitNext DEF LocalGet, RestOK
  <1>4. CASE RedisGet(c)
    <2>1. Fresh # NoCopy
      BY CopyFacts
    <2>2. Goto(c, "fill", Fresh) \/ Return(c)
      BY <1>4 DEF RedisGet
    <2>3. CallsOK(pc', copy', wait')
      BY <1>0, <2>1, <2>2, ReturnOK, GotoOK
    <2>4. QED
      BY <1>0, <1>4, <2>3, LocalUnchanged, InvSplitNext DEF RedisGet, RestOK
  <1>5. CASE LocalFill(c)
    <2>1. copy[c] # NoCopy
      BY <1>5 DEF LocalFill, CallsOK
    <2>2. QED
      BY <1>0, <1>5, <2>1, LocalStored, ReturnOK, InvSplitNext DEF LocalFill, RestOK
  <1>6. CASE RedisSet(c)
    BY <1>0, <1>6, RedisSetOK, InvSplitNext DEF RedisSet, RestOK
  <1>7. CASE LocalSet(c)
    <2>1. copy[c] # NoCopy
      BY <1>7 DEF LocalSet, CallsOK
    <2>2. QED
      BY <1>0, <1>7, <2>1, LocalStored, ReturnOK, InvSplitNext DEF LocalSet, RestOK
  <1>8. CASE RedisDel(c)
    <2>1. /\ pc' = [pc EXCEPT ![c] = "idle"] /\ wait' = [wait EXCEPT ![c] = 0]
          /\ pc[c] = "delete" /\ UNCHANGED <<due, at>>
      BY <1>8 DEF RedisDel
    <2>2. CASE Replace(FALSE) /\ copy' = [d \in Call |-> Outdated(copy[d])]
      <3>1. LocalOK(local', due') /\ redis' \in BOOLEAN
        BY <2>1, <2>2, LocalReplaced DEF Replace
      <3>2. ASSUME NEW d \in Call
            PROVE  /\ copy'[d] \in Copies \cup {NoCopy}
                   /\ copy'[d] # NoCopy <=> pc'[d] \in {"fill", "store"}
                   /\ copy'[d] # NoCopy => copy'[d].lag <= wait'[d]
        <4>1. CASE copy[d] = NoCopy
          BY <2>1, <2>2, <4>1, CopyFacts DEF CallsOK
        <4>2. CASE copy[d] # NoCopy
          <5>1. d # c /\ copy[d] \in Copies /\ copy[d].lag <= wait[d]
            BY <2>1, <4>2 DEF CallsOK
          <5>2. Outdated(copy[d]) \in Copies /\ Outdated(copy[d]).lag = copy[d].lag
            BY <5>1, CopyFacts
          <5>3. QED
            BY <2>1, <2>2, <4>2, <5>1, <5>2, CopyFacts DEF CallsOK
        <4>3. QED
          BY <4>1, <4>2
      <3>3. /\ pc' \in [Call -> Steps] /\ wait' \in [Call -> 0 .. Latency]
            /\ copy' \in [Call -> Copies \cup {NoCopy}]
        BY <1>0, <2>1, <2>2, <3>2, CacheAssumption DEF CallsOK
      <3>4. QED
        BY <1>0, <2>1, <3>1, <3>2, <3>3, InvSplitNext DEF CallsOK, RestOK
    <2>3. CASE UNCHANGED <<redis, local, copy>>
      <3>1. CallsOK(pc', copy', wait')
        BY <1>0, <2>1, <2>3, CopyFacts, CacheAssumption DEF CallsOK
      <3>2. QED
        BY <1>0, <2>1, <2>3, <3>1, LocalUnchanged, InvSplitNext DEF RestOK
    <2>4. QED
      BY <1>8, <2>2, <2>3 DEF RedisDel
  <1>9. QED
    BY <1>1, <1>2, <1>3, <1>4, <1>5, <1>6, <1>7, <1>8 DEF Step

LEMMA CrashOK ==
  ASSUME CacheInv, NEW n \in Node, Crash(n)
  PROVE  LocalOK(local', due') /\ CallsOK(pc', copy', wait')
  <1>1. LocalOK(local', due')
    BY LocalDropped DEF Crash
  <1>2. pc' \in [Call -> Steps]
    BY InvSplit DEF Crash, CallsOK, Steps
  <1>3. wait' \in [Call -> 0 .. Latency]
    BY InvSplit, CacheAssumption DEF Crash, CallsOK
  <1>4. QED
    BY <1>1, <1>2, <1>3, InvSplit DEF Crash, CallsOK

\* Every step keeps the invariant.
THEOREM CacheNext == CacheInv /\ [Next]_vars => CacheInv'
  <1> SUFFICES ASSUME CacheInv, [Next]_vars PROVE CacheInv'
    OBVIOUS
  <1> USE InvSplit, InvSplitNext
  <1>1. ASSUME NEW c \in Call, Begin(c) PROVE CacheInv'
    <2>1. PICK n \in Node, step \in {"exists", "write", "delete"} :
            /\ pc[c] = "idle" /\ Goto(c, step, NoCopy)
            /\ at' = [at EXCEPT ![c] = n]
            /\ UNCHANGED <<redis, local, due>>
      BY <1>1 DEF Begin, Get, Set, Del
    <2>2. step \in Steps /\ saw' \in [Call -> BOOLEAN]
      BY <1>1 DEF Steps, Begin, Watch
    <2>3. CallsOK(pc', copy', wait')
      BY <2>1, <2>2, GotoOK
    <2>4. QED
      BY <2>1, <2>2, <2>3, LocalUnchanged DEF RestOK
  <1>2. ASSUME NEW c \in Call, Step(c) PROVE CacheInv'
    BY <1>2, StepOK
  <1>3. ASSUME NEW n \in Node, Swipe(n) PROVE CacheInv'
    <2>1. PICK full \in BOOLEAN :
            local' = [local EXCEPT ![n] = IF full \/ Expired(@) THEN NoCopy ELSE @]
      BY <1>3 DEF Swipe, SwipeTick
    <2>2. /\ due' = [due EXCEPT ![n] = FALSE]
          /\ UNCHANGED <<redis, pc, at, copy, wait>> /\ saw' \in [Call -> BOOLEAN]
      BY <1>3 DEF Swipe, SwipeTick, Watch
    <2>3. LocalOK(local', due')
      <3>1. local' \in [Node -> Copies \cup {NoCopy}]
        BY <2>1 DEF LocalOK
      <3>2. ASSUME local'[n] # NoCopy
            PROVE  local'[n] = local[n] /\ local[n].age <= LocalTTL
        <4>1. local'[n] = local[n] /\ ~(local[n].age > LocalTTL)
          BY <2>1, <3>2 DEF LocalOK, Expired
        <4>2. local[n].age \in Nat
          BY <3>2, <4>1, CopyFacts, CacheAssumption DEF LocalOK, Horizon
        <4>3. QED
          BY <4>1, <4>2, CacheAssumption
      <3>3. \A m \in Node : m # n => local'[m] = local[m] /\ due'[m] = due[m]
        BY <2>1, <2>2 DEF LocalOK, RestOK
      <3>4. ~due'[n]
        BY <2>2 DEF RestOK
      <3>5. QED
        BY <3>1, <3>2, <3>3, <3>4 DEF LocalOK
    <2>4. QED
      BY <2>2, <2>3 DEF CallsOK, RestOK
  <1>4. CASE Pass
    <2>1. Tick /\ saw' \in [Call -> BOOLEAN] /\ redis' \in BOOLEAN
          /\ at' \in [Call -> Node] /\ due' \in [Node -> BOOLEAN]
      BY <1>4 DEF Pass, Watch, Tick, RestOK
    <2>2. QED
      BY <2>1, TickOK DEF RestOK
  <1>5. CASE Mishap
    <2>1. saw' \in [Call -> BOOLEAN]
      BY <1>5 DEF Mishap, Watch
    <2>2. CASE Expire
      <3>1. LocalOK(local', due') /\ redis' \in BOOLEAN
        BY <2>2, LocalReplaced DEF Expire, Replace
      <3>2. CallsOK(pc', copy', wait')
        BY <2>2, OutdatedOK DEF Expire, CallsOK
      <3>3. QED
        BY <2>1, <2>2, <3>1, <3>2 DEF Expire, RestOK
    <2>3. ASSUME NEW n \in Node, Crash(n) PROVE CacheInv'
      BY <2>1, <2>3, CrashOK DEF Crash, RestOK
    <2>4. QED
      BY <1>5, <2>2, <2>3 DEF Mishap
  <1>6. CASE UNCHANGED vars
    BY <1>6 DEF vars, LocalOK, CallsOK, RestOK
  <1>7. QED
    BY <1>1, <1>2, <1>3, <1>4, <1>5, <1>6 DEF Next

LEMMA CacheInit == Init => CacheInv
  <1> SUFFICES ASSUME Init PROVE CacheInv
    OBVIOUS
  <1>1. LocalOK(local, due)
    BY DEF Init, LocalOK
  <1>2. CallsOK(pc, copy, wait)
    BY CacheAssumption DEF Init, CallsOK, Steps
  <1>3. RestOK
    BY DEF Init, RestOK
  <1>4. QED
    BY <1>1, <1>2, <1>3, InvSplit

\* Every variable keeps its type, and only a call that is about to keep a value
\* in memory has one in hand.
THEOREM TypeCorrect == Spec => []TypeOK
  <1>1. CacheInv => TypeOK
    BY DEF CacheInv
  <1>2. QED
    BY <1>1, CacheInit, CacheNext, PTL DEF Spec

\* What a node serves from memory is never further behind redis than localTTL,
\* one swipe and the latency of redis.
THEOREM StalenessBounded == Spec => []BoundedStaleness
  <1>1. CacheInv => BoundedStaleness
    <2> SUFFICES ASSUME CacheInv, NEW n \in Node, local[n] # NoCopy
                 PROVE  local[n].lag <= LocalTTL + 1 + Latency
      BY DEF BoundedStaleness
    <2>1. /\ local[n] \in Copies
          /\ local[n].lag <= local[n].age + Latency
          /\ local[n].age <= IF due[n] THEN LocalTTL + 1 ELSE LocalTTL
      BY DEF CacheInv, TypeOK, Paid
    <2>2. local[n].lag \in Nat /\ local[n].age \in Nat
      BY <2>1, CopyFacts, CacheAssumption DEF Horizon
    <2>3. QED
      BY <2>1, <2>2, CacheAssumption
  <1>2. QED
    BY <1>1, CacheInit, CacheNext, PTL DEF Spec

LEMMA PresentNext == CacheInv /\ Present /\ [Next]_vars => Present'
  <1> SUFFICES ASSUME CacheInv, Present, [Next]_vars PROVE Present'
    OBVIOUS
  <1> USE DEF CacheInv, TypeOK, Present
  <1>1. CASE UNCHANGED vars
    BY <1>1 DEF vars
  <1>2. CASE Next
    <2>1. saw' = [c \in Call |-> pc'[c] # "idle" /\ (saw[c] \/ redis')]
      BY <1>2 DEF Next, Begin, Step, Swipe, Pass, Mishap, Watch
    <2> SUFFICES ASSUME NEW c \in Call, pc'[c] \in {"lookup", "fetch", "fill"}
                 PROVE  saw[c] \/ redis'
      BY <2>1
    <2>2. CASE pc[c] = pc'[c]
      BY <2>2
    <2>3. CASE pc[c] # pc'[c]
      <3>1. PICK d \in Call : Begin(d) \/ Step(d)
        BY <1>2, <2>3 DEF Next, Swipe, SwipeTick, Pass, Tick, Mishap, Expire, Crash
      <3>2. CASE Begin(d)
        BY <2>3, <3>2 DEF Begin, Get, Set, Del, Goto
      <3>3. CASE RedisExists(d)
        <4>1. c = d
          BY <2>3, <3>3 DEF RedisExists, Goto
        <4>2. redis /\ redis' = redis
          BY <2>3, <3>3, <4>1 DEF RedisExists, Goto
        <4>3. QED
          BY <4>2
      <3>4. CASE LocalGet(d)
        <4>1. c = d /\ pc[c] = "lookup"
          BY <2>3, <3>4 DEF LocalGet, Goto, Return
        <4>2. QED
          BY <4>1
      <3>5. CASE RedisGet(d)
        <4>1. c = d /\ pc[c] = "fetch"
          BY <2>3, <3>5 DEF RedisGet, Goto, Return
        <4>2. QED
          BY <4>1
      <3>6. CASE LocalDel(d) \/ LocalFill(d) \/ RedisSet(d) \/ LocalSet(d) \/ RedisDel(d)
        BY <2>3, <3>6 DEF LocalDel, LocalFill, RedisSet, LocalSet, RedisDel, Goto, Return
      <3>7. QED
        BY <3>1, <3>2, <3>3, <3>4, <3>5, <3>6 DEF Step
    <2>4. QED
      BY <2>2, <2>3
  <1>3. QED
    BY <1>1, <1>2

\* get serves no value of a key that redis has not held during the call.
THEOREM ServedPresent == Spec => []ServedWasPresent
  <1>1. Init => Present
    BY DEF Init, Present
  <1>2. Present => ServedWasPresent
    BY DEF Present, ServedWasPresent, ServesLocal
  <1>3. QED
    BY <1>1, <1>2, CacheInit, CacheNext, PresentNext, PTL DEF Spec
=============================================================================
