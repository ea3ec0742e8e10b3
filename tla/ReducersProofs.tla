--------------------------- MODULE ReducersProofs ---------------------------
(***************************************************************************)
(* Proofs about Reducers, ReducerTrace and ReducerRules, for all reducers, *)
(* values and functions that ReducerAssumption allows.                     *)
(*                                                                         *)
(* First, what one resolve function asks for next (IsNextOf), a lemma for  *)
(* each.  Then the tree of tasks: the two ways in which it changes, by new *)
(* calls (Calling) and by a task that settles (Settled), keep what holds   *)
(* of it (IsGood); the first calls of a task, and those of its calls, are  *)
(* an induction on the depth.  The properties follow from the invariant.   *)
(* Then the tree of the trace, level by level.                             *)
(*                                                                         *)
(* Last, that each call settles to what the rules give its reducer.  The   *)
(* outcomes that a task sees are a history of what its resolve function    *)
(* has asked for (IsHistory).  For each resolve function, what it makes of *)
(* a history is an outcome by its rule (Agrees): an induction on the items *)
(* or stages from the last back to the first, where the code awaits in a   *)
(* loop, and one step for all parts where it uses Promise.all.             *)
(***************************************************************************)
EXTENDS ReducerTrace, ReducerRules, SequenceTheorems, FiniteSetTheorems, Induction

-----------------------------------------------------------------------------
(* Sequences and paths *)

\* A function on 1 .. n is a sequence.
LEMMA SeqFunction ==
  ASSUME NEW n \in Nat, NEW f, f = [i \in 1 .. n |-> f[i]]
  PROVE  /\ f \in Seq(Range(f))
         /\ Len(f) = n
<1>1. f \in [1 .. n -> Range(f)]
  BY DEF Range
<1>2. f \in Seq(Range(f))
  BY <1>1
<1>3. Len(f) \in Nat /\ 1 .. Len(f) = 1 .. n
  BY <1>1, <1>2, LenProperties
<1>4. Len(f) = n
  BY <1>3
<1>5. QED
  BY <1>2, <1>4

\* The path of a call, and what it says of its caller.
LEMMA PathAppend ==
  ASSUME NEW p \in Seq(Nat \ {0}), NEW i \in Nat \ {0}
  PROVE  /\ Append(p, i) \in Seq(Nat \ {0})
         /\ Append(p, i) # <<>>
         /\ Append(p, i) # p
         /\ Front(Append(p, i)) = p
         /\ Last(Append(p, i)) = i
<1>1. Append(p, i) \in Seq(Nat \ {0}) /\ Append(p, i) # <<>> /\ Append(p, i) # p
  OBVIOUS
<1>2. Front(Append(p, i)) = p
  BY DEF Front
<1>3. Last(Append(p, i)) = i
  BY DEF Last
<1>4. QED
  BY <1>1, <1>2, <1>3

\* Any other path than the outermost is that of a call.
LEMMA PathSplit ==
  ASSUME NEW p \in Seq(Nat \ {0}), p # <<>>
  PROVE  /\ Front(p) \in Seq(Nat \ {0})
         /\ Last(p) \in Nat \ {0}
         /\ p = Append(Front(p), Last(p))
<1>1. Len(p) \in Nat \ {0}
  OBVIOUS
<1>2. QED
  BY <1>1 DEF Front, Last

-----------------------------------------------------------------------------
(* What a resolve function asks for next *)

\* What can be resolved: the reducers there are, the ones that the resolve functions
\* make (a request, an item that is skipped), and the body of an entity.
IsReducer(r) ==
  \/ r \in Reducer
  \/ r.type \in {"rp", "constant"}
  \/ r.type = "entity" /\ \E id \in DOMAIN Entity : r.of = Entity[id]

\* What a call settles to.
IsOutcome(o) == IsOk(o) \/ IsError(o)

\* Calls to be made.
IsSeqOfCalls(calls) ==
  /\ Len(calls) \in Nat
  /\ DOMAIN calls = 1 .. Len(calls)
  /\ \A i \in DOMAIN calls : IsReducer(calls[i].reducer)

\* What a resolve function asks for: calls, or nothing more.
IsNext(next) ==
  /\ IsSeqOfCalls(next.calls)
  /\ next.result = Pending \/ (next.calls = <<>> /\ IsOutcome(next.result))

\* The outcomes of n calls, which all let the task go on.
AllAccepted(r, n, got) ==
  /\ got = [i \in 1 .. n |-> got[i]]
  /\ \A i \in 1 .. n : Accepts(r, got[i])

\* A task may settle.
LEMMA SettleIsNext ==
  ASSUME NEW o, IsOutcome(o)
  PROVE  IsNext(Settle(o)) /\ Settle(o).calls = <<>> /\ Len(Settle(o).calls) = 0
BY DEF Settle, IsNext, IsSeqOfCalls, IsOutcome

\* A task may make one call.
LEMMA OneCallIsNext ==
  ASSUME NEW r, NEW v, IsReducer(r)
  PROVE  /\ IsNext(Call(<<To(r, v)>>))
         /\ Len(Call(<<To(r, v)>>).calls) = 1
         /\ Call(<<To(r, v)>>).calls = <<To(r, v)>>
BY DEF Call, To, IsNext, IsSeqOfCalls

\* A task may make calls together, and settle when it has their outcomes.
LEMMA PromiseAllIsNext ==
  ASSUME NEW calls, NEW got, NEW o, IsSeqOfCalls(calls),
         ~(got = <<>> /\ calls # <<>>) => IsOutcome(o)
  PROVE  IsNext(PromiseAll(calls, got, o))
<1>1. CASE got = <<>> /\ calls # <<>>
  BY <1>1 DEF PromiseAll, Call, IsNext
<1>2. CASE ~(got = <<>> /\ calls # <<>>)
  BY <1>2, SettleIsNext DEF PromiseAll
<1>3. QED
  BY <1>1, <1>2

\* Calls that let a task go on have settled, without an error unless it catches errors.
LEMMA AcceptedIsOutcome ==
  ASSUME NEW r, NEW n \in Nat, NEW got, AllAccepted(r, n, got)
  PROVE  /\ \A i \in 1 .. n : IsOutcome(got[i])
         /\ ~Catches(r) => \A i \in 1 .. n : IsOk(got[i])
         /\ Len(got) = n
         /\ DOMAIN got = 1 .. n
         /\ got # <<>> <=> n # 0
         /\ n # 0 => Last(got) = got[n]
<1>1. Len(got) = n
  BY SeqFunction DEF AllAccepted
<1>2. DOMAIN got = 1 .. n
  BY DEF AllAccepted
<1>3. got # <<>> <=> n # 0
  BY <1>1, <1>2, SeqFunction DEF AllAccepted
<1>4. QED
  BY <1>1, <1>2, <1>3 DEF AllAccepted, IsOutcome, Accepts, Last

\* So has the last of them.
LEMMA LastIsOutcome ==
  ASSUME NEW r, NEW n \in Nat, NEW got, AllAccepted(r, n, got)
  PROVE  /\ n # 0 => IsOutcome(Last(got))
         /\ got # <<>> => IsOutcome(Last(got))
<1>1. n # 0 => Last(got) = got[n]
  BY AcceptedIsOutcome
<1>2. \A i \in 1 .. n : IsOutcome(got[i])
  BY AcceptedIsOutcome
<1>3. got # <<>> <=> n # 0
  BY AcceptedIsOutcome
<1>4. n # 0 => IsOutcome(Last(got))
  BY <1>1, <1>2
<1>5. QED
  BY <1>3, <1>4

\* A ReducerList calls its parts one at a time, and no more than there are.
LEMMA ListNext ==
  ASSUME NEW r \in Reducer, r.type = "ReducerList", NEW v, NEW n \in Nat, NEW got,
         AllAccepted(r, n, got), n <= Len(r.of)
  PROVE  LET next == ListResolve(r, v, got)
         IN  IsNext(next) /\ Len(next.calls) <= 1 /\ n + Len(next.calls) <= Len(r.of)
<1>1. r.of \in Seq(Reducer)
  BY ReducerAssumption
<1>2. /\ Len(got) = n
      /\ got # <<>> <=> n # 0
      /\ n # 0 => IsOutcome(Last(got))
  <2>1. Len(got) = n
    BY AcceptedIsOutcome
  <2>2. got # <<>> <=> n # 0
    BY AcceptedIsOutcome
  <2>3. QED
    BY <2>1, <2>2, LastIsOutcome
<1>3. CASE r.of = <<>>
  BY <1>3, SettleIsNext DEF ListResolve, IsOutcome, Ok, IsOk
<1>4. CASE r.of # <<>> /\ got # <<>> /\ Len(got) = Len(r.of)
  <2>1. ListResolve(r, v, got) = Settle(Last(got))
    BY <1>4 DEF ListResolve
  <2>2. IsOutcome(Last(got))
    BY <1>2, <1>4
  <2>3. QED
    BY <1>2, <2>1, <2>2, SettleIsNext
<1>5. CASE r.of # <<>> /\ ~(got # <<>> /\ Len(got) = Len(r.of))
  <2> DEFINE x == IF got # <<>> THEN Last(got)[2] ELSE IF v = Undefined THEN Null ELSE v
  <2>1. Len(r.of) \in Nat \ {0}
    BY <1>1, <1>5, EmptySeq
  <2>2. n < Len(r.of)
    BY <1>2, <1>5, <2>1
  <2>3. IsReducer(r.of[n + 1])
    BY <1>1, <2>1, <2>2 DEF IsReducer
  <2>4. ListResolve(r, v, got) = Call(<<To(r.of[n + 1], x)>>)
    BY <1>2, <1>5 DEF ListResolve
  <2> HIDE DEF x
  <2>5. IsNext(ListResolve(r, v, got)) /\ Len(ListResolve(r, v, got).calls) = 1
    BY <2>3, <2>4, OneCallIsNext
  <2>6. QED
    BY <2>1, <2>2, <2>5
<1>6. QED
  BY <1>3, <1>4, <1>5

\* A sequence of reducers makes calls.
LEMMA CallsOfSeq ==
  ASSUME NEW m \in Nat, NEW calls, calls = [i \in 1 .. m |-> calls[i]],
         \A i \in 1 .. m : IsReducer(calls[i].reducer)
  PROVE  IsSeqOfCalls(calls)
<1>1. Len(calls) = m
  BY SeqFunction
<1>2. DOMAIN calls = 1 .. m
  OBVIOUS
<1>3. QED
  BY <1>1, <1>2 DEF IsSeqOfCalls

\* So do the items of an array.
LEMMA EachIsSeqOfCalls ==
  ASSUME NEW r, IsReducer(r), NEW items, items \in Seq(Range(items))
  PROVE  IsSeqOfCalls(Each(r, items))
<1> DEFINE calls == [i \in DOMAIN items |-> To(r, items[i])]
<1>1. Len(items) \in Nat /\ DOMAIN items = 1 .. Len(items)
  BY LenProperties
<1>2. calls = [i \in 1 .. Len(items) |-> calls[i]]
  BY <1>1
<1>3. \A i \in 1 .. Len(items) : IsReducer(calls[i].reducer)
  BY <1>1 DEF To
<1> HIDE DEF calls
<1>4. IsSeqOfCalls(calls)
  BY <1>1, <1>2, <1>3, CallsOfSeq
<1>5. QED
  BY <1>4 DEF Each, calls

\* parallel calls its parts.
LEMMA ParallelNext ==
  ASSUME NEW r \in Reducer, r.type = "parallel", NEW v, NEW got
  PROVE  IsNext(ParallelResolve(r, v, got))
<1> DEFINE calls == [i \in DOMAIN r.of |-> To(r.of[i], v)]
<1>1. r.of \in Seq(Reducer)
  BY ReducerAssumption
<1>2. Len(r.of) \in Nat /\ DOMAIN r.of = 1 .. Len(r.of) /\ \A i \in 1 .. Len(r.of) : r.of[i] \in Reducer
  BY <1>1, LenProperties
<1>3. calls = [i \in 1 .. Len(r.of) |-> calls[i]]
  BY <1>2
<1>4. \A i \in 1 .. Len(r.of) : IsReducer(calls[i].reducer)
  BY <1>2 DEF To, IsReducer
<1> HIDE DEF calls
<1>5. IsSeqOfCalls(calls)
  BY <1>2, <1>3, <1>4, CallsOfSeq
<1>6. IsOutcome(Ok(Array(Values(got))))
  BY DEF IsOutcome, IsOk, Ok
<1>7. IsNext(PromiseAll(calls, got, Ok(Array(Values(got)))))
  BY <1>5, <1>6, PromiseAllIsNext
<1>8. QED
  BY <1>7 DEF ParallelResolve, calls

\* A ReducerObject calls its parts.
LEMMA ObjectNext ==
  ASSUME NEW r \in Reducer, r.type = "ReducerObject", NEW v, NEW got
  PROVE  IsNext(ObjectResolve(r, v, got))
<1> DEFINE parts == r.of.reducers
           calls == [i \in DOMAIN parts |-> To(parts[i].reducer, v)]
           o == Ok(Object(EntriesOf(r.of.constants, parts, got)))
<1>1. parts \in Seq(Range(parts)) /\ \A i \in DOMAIN parts : parts[i].reducer \in Reducer
  BY ReducerAssumption
<1>2. Len(parts) \in Nat /\ DOMAIN parts = 1 .. Len(parts)
  BY <1>1, LenProperties
<1>3. calls = [i \in 1 .. Len(parts) |-> calls[i]]
  BY <1>2
<1>4. \A i \in 1 .. Len(parts) : IsReducer(calls[i].reducer)
  BY <1>1, <1>2 DEF To, IsReducer
<1>5. ObjectResolve(r, v, got) = PromiseAll(calls, got, o)
  BY DEF ObjectResolve
<1>6. IsOutcome(o)
  BY DEF IsOutcome, IsOk, Ok
<1> HIDE DEF calls, o
<1>7. IsSeqOfCalls(calls)
  BY <1>2, <1>3, <1>4, CallsOfSeq
<1>8. QED
  BY <1>5, <1>6, <1>7, PromiseAllIsNext

\* map makes one call per item.
LEMMA MapNext ==
  ASSUME NEW r \in Reducer, r.type = "map", NEW v, NEW got
  PROVE  IsNext(MapResolve(r, v, got))
<1>1. CASE ~IsArray(v)
  BY <1>1, SettleIsNext DEF MapResolve, TypeError, Throws, IsOutcome, IsError
<1>2. CASE IsArray(v)
  <2> DEFINE o == Ok(Array(Values(got)))
  <2>1. IsSeqOfCalls(Each(r.of, v[2]))
    BY <1>2, ReducerAssumption, EachIsSeqOfCalls DEF IsArray, IsReducer
  <2>2. IsOutcome(o)
    BY DEF IsOutcome, IsOk, Ok
  <2>3. MapResolve(r, v, got) = PromiseAll(Each(r.of, v[2]), got, o)
    BY <1>2 DEF MapResolve
  <2> HIDE DEF o
  <2>4. QED
    BY <2>1, <2>2, <2>3, PromiseAllIsNext
<1>3. QED
  BY <1>1, <1>2

\* So does filter.
LEMMA FilterNext ==
  ASSUME NEW r \in Reducer, r.type = "filter", NEW v, NEW got
  PROVE  IsNext(FilterResolve(r, v, got))
<1>1. CASE ~IsArray(v)
  BY <1>1, SettleIsNext DEF FilterResolve, Throws, IsOutcome, IsError
<1>2. CASE IsArray(v)
  <2> DEFINE kept == [i \in DOMAIN got |->
                        IF i \in Matching(r, v[2], got) THEN <<v[2][i]>> ELSE <<>>]
             o == Ok(Array(FlattenSeq(kept)))
  <2>1. IsSeqOfCalls(Each(r.of, v[2]))
    BY <1>2, ReducerAssumption, EachIsSeqOfCalls DEF IsArray, IsReducer
  <2>2. IsOutcome(o)
    BY DEF IsOutcome, IsOk, Ok
  <2>3. FilterResolve(r, v, got) = PromiseAll(Each(r.of, v[2]), got, o)
    BY <1>2 DEF FilterResolve
  <2> HIDE DEF o
  <2>4. QED
    BY <2>1, <2>2, <2>3, PromiseAllIsNext
<1>3. QED
  BY <1>1, <1>2

\* find makes one call at a time, and none when an item has matched.
LEMMA FindNext ==
  ASSUME NEW r \in Reducer, r.type = "find", NEW v, NEW n \in Nat, NEW got,
         AllAccepted(r, n, got), NEW next, next = FindResolve(r, v, got)
  PROVE  /\ IsNext(next)
         /\ Len(next.calls) <= 1
         /\ next.calls # <<>> => \A i \in 1 .. n : ~PredicateIsTruthy(r.of, got[i][2])
<1> DEFINE searching == /\ IsArray(v)
                        /\ Matching(r, v[2], got) = {}
                        /\ Len(got) < Len(v[2])
<1>1. CASE v \notin {Undefined, Null} /\ searching
  <2>1. next = Call(<<To(r.of, v[2][Len(got) + 1])>>)
    BY <1>1 DEF FindResolve
  <2>2. IsReducer(r.of)
    BY ReducerAssumption DEF IsReducer
  <2>3. DOMAIN got = 1 .. n
    BY AcceptedIsOutcome
  <2>4. \A i \in 1 .. n : ~PredicateIsTruthy(r.of, got[i][2])
    BY <1>1, <2>3 DEF Matching
  <2>5. IsNext(next) /\ Len(next.calls) = 1 /\ next.calls = <<To(r.of, v[2][Len(got) + 1])>>
    BY <2>1, <2>2, OneCallIsNext
  <2>6. QED
    BY <2>4, <2>5
<1>2. CASE v \in {Undefined, Null} \/ ~searching
  <2>1. PICK o : next = Settle(o) /\ IsOutcome(o)
    <3>1. CASE v \in {Undefined, Null}
      BY <3>1 DEF FindResolve, IsArray, Undefined, Null, TypeError, Throws, IsOutcome, IsError
    <3>2. CASE v \notin {Undefined, Null} /\ IsArray(v) /\ Matching(r, v[2], got) # {}
      BY <3>2 DEF FindResolve, Ok, IsOutcome, IsOk
    <3>3. CASE v \notin {Undefined, Null} /\ ~(IsArray(v) /\ Matching(r, v[2], got) # {})
      BY <1>2, <3>3 DEF FindResolve, Ok, IsOutcome, IsOk
    <3>4. QED
      BY <3>1, <3>2, <3>3
  <2>2. QED
    BY <2>1, SettleIsNext
<1>3. QED
  BY <1>1, <1>2

\* assign makes one call.
LEMMA AssignNext ==
  ASSUME NEW r \in Reducer, r.type = "assign", NEW v, NEW got,
         NEW next, next = AssignResolve(r, v, got)
  PROVE  IsNext(next) /\ Len(next.calls) <= 1
<1>1. CASE got = <<>>
  <2>1. next = Call(<<To(r.of, v)>>)
    BY <1>1 DEF AssignResolve
  <2>2. IsReducer(r.of)
    BY ReducerAssumption DEF IsReducer
  <2>3. IsNext(next) /\ Len(next.calls) = 1 /\ next.calls = <<To(r.of, v)>>
    BY <2>1, <2>2, OneCallIsNext
  <2>4. QED
    BY <2>3
<1>2. CASE got # <<>>
  <2>1. PICK o : next = Settle(o) /\ IsOutcome(o)
    BY <1>2 DEF AssignResolve, Ok, IsOutcome, IsOk
  <2>2. QED
    BY <2>1, SettleIsNext
<1>3. QED
  BY <1>1, <1>2

\* A control entity whose case has held calls the do of that case, and did not try another.
DoesFirst(r, v, n, got, next) ==
  next.calls # <<>> =>
    \A i \in 1 .. n : i <= Len(r.of.cases) /\ Truthy(got[i][2]) =>
      i = n /\ next.calls = <<To(r.of.dos[n], v)>>

\* A control entity evaluates its cases one at a time until one holds.
LEMMA ControlNext ==
  ASSUME NEW r \in Reducer, r.type = "control", NEW v, NEW n \in Nat, NEW got,
         AllAccepted(r, n, got), NEW next, next = ControlResolve(r, v, got)
  PROVE  /\ IsNext(next)
         /\ Len(next.calls) <= 1
         /\ DoesFirst(r, v, n, got, next)
<1> DEFINE cases == r.of.cases
           held == {i \in DOMAIN got \cap DOMAIN cases : Truthy(got[i][2])}
<1>1. /\ cases \in Seq(Reducer) /\ r.of.dos \in Seq(Reducer)
      /\ Len(r.of.dos) = Len(cases) /\ r.of.default \in Reducer
  BY ReducerAssumption
<1>2. Len(got) = n /\ DOMAIN got = 1 .. n
  BY AcceptedIsOutcome
<1>3. n # 0 => IsOutcome(Last(got))
  BY LastIsOutcome
<1>4. Len(cases) \in Nat /\ DOMAIN cases = 1 .. Len(cases)
  BY <1>1, LenProperties
<1>5. CASE held = {} /\ n < Len(cases)
  <2>1. next = Call(<<To(cases[n + 1], v)>>)
    BY <1>2, <1>5 DEF ControlResolve
  <2>2. IsReducer(cases[n + 1])
    BY <1>1, <1>4, <1>5 DEF IsReducer
  <2>3. \A i \in 1 .. n : ~(i <= Len(cases) /\ Truthy(got[i][2]))
    BY <1>2, <1>4, <1>5
  <2>4. IsNext(next) /\ Len(next.calls) = 1 /\ next.calls = <<To(cases[n + 1], v)>>
    BY <2>1, <2>2, OneCallIsNext
  <2>5. QED
    BY <2>3, <2>4 DEF DoesFirst
<1>6. CASE held = {} /\ n = Len(cases)
  <2>1. next = Call(<<To(r.of.default, v)>>)
    BY <1>2, <1>6 DEF ControlResolve
  <2>2. IsReducer(r.of.default)
    BY <1>1 DEF IsReducer
  <2>3. \A i \in 1 .. n : ~(i <= Len(cases) /\ Truthy(got[i][2]))
    BY <1>2, <1>4, <1>6
  <2>4. IsNext(next) /\ Len(next.calls) = 1 /\ next.calls = <<To(r.of.default, v)>>
    BY <2>1, <2>2, OneCallIsNext
  <2>5. QED
    BY <2>3, <2>4 DEF DoesFirst
<1>7. CASE n # 0 /\ held = {n}
  <2>1. next = Call(<<To(r.of.dos[n], v)>>)
    BY <1>2, <1>7 DEF ControlResolve
  <2>2. IsReducer(r.of.dos[n])
    BY <1>1, <1>4, <1>7 DEF IsReducer
  <2>3. \A i \in 1 .. n : i <= Len(cases) /\ Truthy(got[i][2]) => i = n
    BY <1>2, <1>4, <1>7
  <2>4. IsNext(next) /\ Len(next.calls) = 1 /\ next.calls = <<To(r.of.dos[n], v)>>
    BY <2>1, <2>2, OneCallIsNext
  <2>5. QED
    BY <2>3, <2>4 DEF DoesFirst
<1>8. CASE ~(held = {} /\ n <= Len(cases)) /\ ~(n # 0 /\ held = {n})
  <2>1. next = Settle(Last(got))
    BY <1>2, <1>4, <1>8 DEF ControlResolve
  <2>2. n # 0
    BY <1>2, <1>4, <1>8
  <2>3. QED
    BY <1>3, <2>1, <2>2, SettleIsNext DEF DoesFirst
<1>9. QED
  BY <1>4, <1>5, <1>6, <1>7, <1>8

\* The stages of an entity run one at a time, whichever of them fails.
LEMMA EntityNext ==
  ASSUME NEW r, r.type = "entity", NEW id \in DOMAIN Entity, r.of = Entity[id],
         NEW v, NEW n \in Nat, NEW got, AllAccepted(r, n, got),
         NEW next, next = ResolveEntity(r, v, got)
  PROVE  IsNext(next) /\ Len(next.calls) <= 1
<1> DEFINE e == r.of
           stages == StagesOf(e, got)
           x == Current(stages, v, got)
<1>1. Len(got) = n /\ DOMAIN got = 1 .. n
  BY AcceptedIsOutcome
<1>2. n # 0 => IsOutcome(Last(got))
  BY LastIsOutcome
<1>3. /\ Len(e.stages) \in Nat /\ \A i \in 1 .. Len(e.stages) : e.stages[i].reducer \in Reducer
      /\ Len(e.error) \in Nat /\ \A i \in 1 .. Len(e.error) : e.error[i].reducer \in Reducer
  <2>1. \A s \in {e.stages, e.error} : /\ s \in Seq(Range(s))
                                       /\ \A i \in DOMAIN s : s[i].reducer \in Reducer
    BY ReducerAssumption
  <2>2. \A s \in {e.stages, e.error} : Len(s) \in Nat /\ DOMAIN s = 1 .. Len(s)
    BY <2>1, LenProperties
  <2>3. QED
    BY <2>1, <2>2
<1>4. Len(stages) \in Nat /\ \A i \in n + 1 .. Len(stages) : stages[i].reducer \in Reducer
  <2>1. CASE Failures(got) = {}
    BY <1>3, <2>1 DEF StagesOf
  <2>2. CASE Failures(got) # {}
    <3> DEFINE failed == Min(Failures(got))
               all == [i \in 1 .. failed + Len(e.error) |->
                         IF i <= failed THEN e.stages[i] ELSE e.error[i - failed]]
    <3>1. Failures(got) \subseteq 1 .. n
      BY <1>1 DEF Failures
    <3>2. failed \in Failures(got)
      <4>1. PICK least \in Failures(got) : \A i \in Failures(got) : ~(i < least)
        BY <2>2, <3>1, LeastNumber
      <4>2. \A i \in Failures(got) : least <= i
        BY <3>1, <4>1
      <4>3. QED
        BY <4>2 DEF Min
    <3>3. failed \in 1 .. n
      BY <3>1, <3>2
    <3> HIDE DEF failed
    <3>4. stages = all
      BY <2>2 DEF StagesOf, failed
    <3>5. Len(all) = failed + Len(e.error)
      BY <1>3, <3>3, SeqFunction
    <3>6. \A i \in n + 1 .. failed + Len(e.error) : all[i].reducer \in Reducer
      BY <1>3, <3>3
    <3> HIDE DEF all
    <3>7. QED
      BY <1>3, <3>3, <3>4, <3>5, <3>6
  <2>3. QED
    BY <2>1, <2>2
<1>5. CASE n < Len(stages) /\ Cardinality(Failures(got)) < 2
  <2> DEFINE r1 == stages[n + 1].reducer
  <2>1. next = Call(<<To(r1, x)>>)
    BY <1>1, <1>5 DEF ResolveEntity
  <2>2. IsReducer(r1)
    BY <1>4, <1>5 DEF IsReducer
  <2> HIDE DEF r1, x
  <2>3. IsNext(next) /\ Len(next.calls) = 1
    BY <2>1, <2>2, OneCallIsNext
  <2>4. QED
    BY <2>3
<1>6. CASE ~(n < Len(stages) /\ Cardinality(Failures(got)) < 2)
  <2>1. CASE n # 0 /\ IsError(Last(got))
    <3>1. next = Settle(Last(got))
      BY <1>1, <1>6, <2>1 DEF ResolveEntity
    <3>2. QED
      BY <1>2, <2>1, <3>1, SettleIsNext
  <2>2. CASE ~(n # 0 /\ IsError(Last(got)))
    <3>1. next = Settle(Ok(x))
      BY <1>1, <1>6, <2>2 DEF ResolveEntity
    <3>2. IsOutcome(Ok(x))
      BY DEF IsOutcome, IsOk, Ok
    <3>3. QED
      BY <3>1, <3>2, SettleIsNext
  <2>3. QED
    BY <2>1, <2>2
<1>7. QED
  BY <1>5, <1>6

\* A request resolves its options, then asks.
LEMMA RequestNext ==
  ASSUME NEW r \in Reducer, r.type = "request", NEW v, NEW n \in Nat, NEW got,
         AllAccepted(r, n, got), NEW next, next = RequestResolve(r, v, got)
  PROVE  IsNext(next) /\ Len(next.calls) <= 1
<1>1. Len(got) = n /\ (got # <<>> <=> n # 0)
  BY AcceptedIsOutcome
<1>2. n # 0 => IsOutcome(Last(got))
  BY LastIsOutcome
<1>3. CASE n = 0
  <2>1. next = Call(<<To(r.of.options, v)>>)
    BY <1>1, <1>3 DEF RequestResolve
  <2>2. IsReducer(r.of.options)
    BY ReducerAssumption DEF IsReducer
  <2>3. IsNext(next) /\ Len(next.calls) = 1
    BY <2>1, <2>2, OneCallIsNext
  <2>4. QED
    BY <2>3
<1>4. CASE n = 1
  <2> DEFINE r1 == Source("rp", r.of.inspect)
             x == Object(getRequestOptions(resolveUrl(r.of.url, v), got[1][2]))
  <2>1. next = Call(<<To(r1, x)>>)
    BY <1>1, <1>4 DEF RequestResolve
  <2>2. IsReducer(r1)
    BY DEF IsReducer, Source
  <2> HIDE DEF r1, x
  <2>3. IsNext(next) /\ Len(next.calls) = 1
    BY <2>1, <2>2, OneCallIsNext
  <2>4. QED
    BY <2>3
<1>5. CASE n \notin {0, 1}
  <2>1. next = Settle(Last(got))
    BY <1>1, <1>5 DEF RequestResolve
  <2>2. QED
    BY <1>2, <1>5, <2>1, SettleIsNext
<1>6. QED
  BY <1>3, <1>4, <1>5

\* An entity resolves its body, for the value or for each item.
LEMMA BaseNext ==
  ASSUME NEW r \in Reducer, r.type \in {"entity id", "entity instance"}, NEW v,
         NEW n \in Nat, NEW got, AllAccepted(r, n, got), NEW next, next = BaseResolve(r, v, got)
  PROVE  IsNext(next)
<1>1. CASE ~Known(r)
  BY <1>1, SettleIsNext DEF BaseResolve, Throws, IsOutcome, IsError
<1>2. ASSUME Known(r) PROVE IsReducer(Once(r))
  BY <1>2, ReducerAssumption DEF Once, IsReducer, Source
<1>3. CASE Known(r) /\ Skipped(r, v)
  BY <1>3, SettleIsNext DEF BaseResolve, Ok, IsOutcome, IsOk
<1>4. CASE Known(r) /\ ~Skipped(r, v) /\ ~r.of.asCollection
  <2>1. next = PromiseAll(<<To(Once(r), v)>>, got, Last(got))
    BY <1>4 DEF BaseResolve
  <2>2. IsSeqOfCalls(<<To(Once(r), v)>>)
    <3>1. IsReducer(Once(r))
      BY <1>2, <1>4
    <3>2. IsNext(Call(<<To(Once(r), v)>>))
      BY <3>1, OneCallIsNext
    <3>3. QED
      BY <3>2 DEF IsNext, Call
  <2>3. got # <<>> => IsOutcome(Last(got))
    BY LastIsOutcome
  <2>4. <<To(Once(r), v)>> # <<>>
    OBVIOUS
  <2>5. QED
    BY <2>1, <2>2, <2>3, <2>4, PromiseAllIsNext
<1>5. CASE Known(r) /\ ~Skipped(r, v) /\ r.of.asCollection /\ ~IsArray(v)
  BY <1>5, SettleIsNext DEF BaseResolve, Ok, IsOutcome, IsOk
<1>6. CASE Known(r) /\ ~Skipped(r, v) /\ r.of.asCollection /\ IsArray(v)
  <2> DEFINE items == v[2]
             calls == [i \in DOMAIN items |->
                         IF Skipped(r, items[i]) THEN To(Constant(items[i]), items[i])
                         ELSE To(Once(r), items[i])]
             o == Ok(Array(Values(got)))
  <2>1. next = PromiseAll(calls, got, o)
    BY <1>6 DEF BaseResolve
  <2>2. Len(items) \in Nat /\ DOMAIN items = 1 .. Len(items)
    BY <1>6, LenProperties DEF IsArray
  <2>3. calls = [i \in 1 .. Len(items) |-> calls[i]]
    BY <2>2
  <2>4. \A i \in 1 .. Len(items) : IsReducer(calls[i].reducer)
    BY <1>2, <1>6, <2>2 DEF IsReducer, Constant, Stub, Source, To
  <2>5. IsOutcome(o)
    BY DEF IsOutcome, IsOk, Ok
  <2> HIDE DEF calls, o
  <2>6. IsSeqOfCalls(calls)
    BY <2>2, <2>3, <2>4, CallsOfSeq
  <2>7. QED
    BY <2>1, <2>5, <2>6, PromiseAllIsNext
<1>7. QED
  BY <1>1, <1>3, <1>4, <1>5, <1>6

\* A reducer that calls no other settles.
LEMMA SimpleOutcome ==
  ASSUME NEW r, r.type \in SimpleTypes, NEW v
  PROVE  IsOutcome(Simple(r, v))
<1>1. \A x : IsOutcome(Ok(x)) /\ IsOutcome(Throws(x))
  BY DEF IsOutcome, IsOk, IsError, Ok, Throws
<1>2. CASE r.type = "function"
  BY <1>1, <1>2 DEF Simple, Outcome
<1>3. CASE r.type = "type check"
  BY <1>1, <1>3 DEF Simple, CheckType
<1>4. CASE r.type = "rp"
  BY <1>1, <1>4 DEF Simple, ResolveRequest, Answer, Outcome, TypeError
<1>5. CASE r.type = "schema"
  BY <1>1, <1>5 DEF Simple, ValidateContext
<1>6. CASE r.type = "path[]"
  BY <1>1, <1>6 DEF Simple
<1>7. CASE r.type \in {"constant", "path", "pick", "omit", "entry"}
  BY <1>1, <1>7 DEF Simple
<1>8. QED
  BY <1>2, <1>3, <1>4, <1>5, <1>6, <1>7 DEF SimpleTypes

\* What the reducer r may ask for after n calls with the outcomes got.
IsNextOf(r, v, n, got, next) ==
  /\ IsNext(next)
  /\ Sequential(r) => Len(next.calls) <= 1
  /\ r.type = "ReducerList" => n + Len(next.calls) <= Len(r.of)
  /\ r.type = "find" /\ next.calls # <<>> =>
       \A i \in 1 .. n : ~PredicateIsTruthy(r.of, got[i][2])
  /\ r.type = "control" => DoesFirst(r, v, n, got, next)

\* resolveReducer asks for what the type of the reducer allows.
LEMMA ResolveIsNext ==
  ASSUME NEW r, IsReducer(r), NEW v, NEW n \in Nat, NEW got, AllAccepted(r, n, got),
         r.type = "ReducerList" => n <= Len(r.of),
         NEW next, next = Resolve(r, v, got)
  PROVE  IsNextOf(r, v, n, got, next)
<1>1. r.type \in Types => r \in Reducer \/ r.type \in SimpleTypes
  BY DEF IsReducer, Types, SimpleTypes
<1>2. r.type \in Types \/ r.type = "entity"
  BY ReducerAssumption DEF IsReducer, Types, SimpleTypes
<1>3. CASE r.type = "ReducerList"
  <2>1. r \in Reducer
    BY <1>1, <1>3 DEF Types, SimpleTypes
  <2>2. next = ListResolve(r, v, got)
    BY <1>3 DEF Resolve
  <2>3. QED
    BY <1>3, <2>1, <2>2, ListNext DEF IsNextOf
<1>4. CASE r.type \in {"ReducerObject", "parallel", "map", "filter"}
  <2>1. r \in Reducer
    BY <1>1, <1>4 DEF Types, SimpleTypes
  <2>2. IsNext(next)
    <3>1. CASE r.type = "ReducerObject"
      BY <2>1, <3>1, ObjectNext DEF Resolve
    <3>2. CASE r.type = "parallel"
      BY <2>1, <3>2, ParallelNext DEF Resolve
    <3>3. CASE r.type = "map"
      BY <2>1, <3>3, MapNext DEF Resolve
    <3>4. CASE r.type = "filter"
      BY <2>1, <3>4, FilterNext DEF Resolve
    <3>5. QED
      BY <1>4, <3>1, <3>2, <3>3, <3>4
  <2>3. QED
    BY <1>4, <2>2 DEF IsNextOf, Sequential
<1>5. CASE r.type = "find"
  <2>1. r \in Reducer
    BY <1>1, <1>5 DEF Types, SimpleTypes
  <2>2. next = FindResolve(r, v, got)
    BY <1>5 DEF Resolve
  <2>3. /\ IsNext(next)
        /\ Len(next.calls) <= 1
        /\ next.calls # <<>> => \A i \in 1 .. n : ~PredicateIsTruthy(r.of, got[i][2])
    BY <1>5, <2>1, <2>2, FindNext
  <2>4. QED
    BY <1>5, <2>3 DEF IsNextOf
<1>6. CASE r.type = "assign"
  <2>1. r \in Reducer
    BY <1>1, <1>6 DEF Types, SimpleTypes
  <2>2. next = AssignResolve(r, v, got)
    BY <1>6 DEF Resolve
  <2>3. QED
    BY <1>6, <2>1, <2>2, AssignNext DEF IsNextOf
<1>7. CASE r.type = "control"
  <2>1. r \in Reducer
    BY <1>1, <1>7 DEF Types, SimpleTypes
  <2>2. next = ControlResolve(r, v, got)
    BY <1>7 DEF Resolve
  <2>3. /\ IsNext(next)
        /\ Len(next.calls) <= 1
        /\ DoesFirst(r, v, n, got, next)
    BY <1>7, <2>1, <2>2, ControlNext
  <2>4. QED
    BY <1>7, <2>3 DEF IsNextOf
<1>8. CASE r.type \in {"entity id", "entity instance"}
  <2>1. r \in Reducer
    BY <1>1, <1>8 DEF Types, SimpleTypes
  <2>2. next = BaseResolve(r, v, got)
    BY <1>8 DEF Resolve
  <2>3. IsNext(next)
    BY <1>8, <2>1, <2>2, BaseNext
  <2>4. QED
    BY <1>8, <2>3 DEF IsNextOf, Sequential
<1>9. CASE r.type = "entity"
  <2>1. PICK id \in DOMAIN Entity : r.of = Entity[id]
    BY <1>9, ReducerAssumption DEF IsReducer, Types, SimpleTypes
  <2>2. next = ResolveEntity(r, v, got)
    BY <1>9 DEF Resolve
  <2>3. IsNext(next) /\ Len(next.calls) <= 1
    BY <1>9, <2>1, <2>2, EntityNext
  <2>4. QED
    BY <1>9, <2>3 DEF IsNextOf
<1>10. CASE r.type = "request"
  <2>1. r \in Reducer
    BY <1>1, <1>10 DEF Types, SimpleTypes
  <2>2. next = RequestResolve(r, v, got)
    BY <1>10 DEF Resolve
  <2>3. QED
    BY <1>10, <2>1, <2>2, RequestNext DEF IsNextOf
<1>11. CASE r.type \in SimpleTypes
  <2>1. next = Settle(Simple(r, v))
    BY <1>11 DEF Resolve, SimpleTypes
  <2>2. IsNext(next) /\ next.calls = <<>> /\ Len(next.calls) = 0
    BY <1>11, <2>1, SimpleOutcome, SettleIsNext
  <2>3. r.type \notin {"ReducerList", "find", "control"}
    BY <1>11 DEF SimpleTypes
  <2>4. QED
    BY <2>2, <2>3 DEF IsNextOf
<1>12. QED
  BY <1>2, <1>3, <1>4, <1>5, <1>6, <1>7, <1>8, <1>9, <1>10, <1>11 DEF Types

-----------------------------------------------------------------------------
(* Tasks *)

\* A task; a ReducerList never makes more calls than it has parts.
IsTask(t) ==
  /\ DOMAIN t = {"reducer", "value", "calls", "result"}
  /\ IsReducer(t.reducer)
  /\ t.calls \in Nat
  /\ t.result = Pending \/ IsOutcome(t.result)
  /\ t.reducer.type = "ReducerList" => t.calls <= Len(t.reducer.of)

\* The tasks make a tree: calls are numbered from 1, without gaps.
IsTree(T) ==
  /\ DOMAIN T \subseteq Seq(Nat \ {0})
  /\ <<>> \in DOMAIN T
  /\ T[<<>>].reducer \in Range(Roots)
  /\ \A p \in DOMAIN T : IsTask(T[p])
  /\ \A p \in DOMAIN T : \A i \in 1 .. T[p].calls : Append(p, i) \in DOMAIN T
  /\ \A p \in DOMAIN T : p # <<>> => Front(p) \in DOMAIN T /\ Last(p) \in 1 .. T[Front(p)].calls

\* U is T with the calls "next" made: only the number of calls of those who make them
\* changes, and the new tasks have made none.
Grows(T, next, U) ==
  /\ DOMAIN next \subseteq DOMAIN T
  /\ \A p \in DOMAIN next : IsSeqOfCalls(next[p])
  /\ DOMAIN T \subseteq DOMAIN U
  /\ \A p \in DOMAIN T \ DOMAIN next : U[p] = T[p]
  /\ \A p \in DOMAIN next : U[p] = [T[p] EXCEPT !.calls = @ + Len(next[p])]
  /\ \A p \in DOMAIN next : \A i \in 1 .. Len(next[p]) :
       /\ Append(p, T[p].calls + i) \in DOMAIN U \ DOMAIN T
       /\ U[Append(p, T[p].calls + i)] = Task(next[p][i])
  /\ \A q \in DOMAIN U \ DOMAIN T :
       \E p \in DOMAIN next : \E i \in 1 .. Len(next[p]) : q = Append(p, T[p].calls + i)

\* Calling does that: the new paths are free.
LEMMA CallingGrows ==
  ASSUME NEW T, IsTree(T), NEW next, DOMAIN next \subseteq DOMAIN T,
         \A p \in DOMAIN next : IsSeqOfCalls(next[p])
  PROVE  Grows(T, next, Calling(T, next))
<1> DEFINE new == UNION {{Append(p, T[p].calls + i) : i \in DOMAIN next[p]} : p \in DOMAIN next}
           U == Calling(T, next)
<1>1. \A p \in DOMAIN next : /\ p \in Seq(Nat \ {0}) /\ T[p].calls \in Nat
                             /\ Len(next[p]) \in Nat /\ DOMAIN next[p] = 1 .. Len(next[p])
  BY DEF IsTree, IsTask, IsSeqOfCalls
<1>2. \A p \in DOMAIN next : \A i \in 1 .. Len(next[p]) :
        LET q == Append(p, T[p].calls + i)
        IN  /\ q \in new
            /\ q \notin DOMAIN T
            /\ Front(q) = p
            /\ Last(q) - T[Front(q)].calls = i
  <2> SUFFICES ASSUME NEW p \in DOMAIN next, NEW i \in 1 .. Len(next[p])
               PROVE  LET q == Append(p, T[p].calls + i)
                      IN  /\ q \in new
                          /\ q \notin DOMAIN T
                          /\ Front(q) = p
                          /\ Last(q) - T[Front(q)].calls = i
    OBVIOUS
  <2> DEFINE k == T[p].calls + i
             q == Append(p, k)
  <2>1. k \in Nat \ {0} /\ k \notin 1 .. T[p].calls /\ k - T[p].calls = i
    BY <1>1
  <2>2. q \in new
    <3>1. i \in DOMAIN next[p]
      BY <1>1
    <3>2. q \in {Append(p, T[p].calls + j) : j \in DOMAIN next[p]}
      BY <3>1
    <3>3. QED
      BY <3>2
  <2> HIDE DEF k, new
  <2>3. q # <<>> /\ Front(q) = p /\ Last(q) = k
    BY <1>1, <2>1, PathAppend
  <2> HIDE DEF q
  <2>4. q \notin DOMAIN T
    BY <2>1, <2>3 DEF IsTree
  <2>5. QED
    BY <2>1, <2>2, <2>3, <2>4 DEF q, k
<1>3. \A q \in new : \E p \in DOMAIN next : \E i \in 1 .. Len(next[p]) : q = Append(p, T[p].calls + i)
  BY <1>1
<1>4. U = [q \in DOMAIN T \cup new |->
             CASE q \notin DOMAIN T -> Task(next[Front(q)][Last(q) - T[Front(q)].calls])
               [] q \in DOMAIN next -> [T[q] EXCEPT !.calls = @ + Len(next[q])]
               [] OTHER -> T[q]]
  BY DEF Calling
<1> HIDE DEF U, new
<1>5. DOMAIN U = DOMAIN T \cup new
  BY <1>4
<1>6. \A q \in DOMAIN T \ DOMAIN next : U[q] = T[q]
  BY <1>4
<1>7. \A q \in DOMAIN next : U[q] = [T[q] EXCEPT !.calls = @ + Len(next[q])]
  BY <1>4
<1>8. \A q \in new : q \notin DOMAIN T => U[q] = Task(next[Front(q)][Last(q) - T[Front(q)].calls])
  BY <1>4
<1>9. \A p \in DOMAIN next : \A i \in 1 .. Len(next[p]) :
        /\ Append(p, T[p].calls + i) \in DOMAIN U \ DOMAIN T
        /\ U[Append(p, T[p].calls + i)] = Task(next[p][i])
  BY <1>2, <1>5, <1>8
<1>10. QED
  BY <1>3, <1>5, <1>6, <1>7, <1>9 DEF Grows, U

\* The outcome of a call.
Out(T, p, i) == T[Append(p, i)].result

\* A task may make calls, but is otherwise the same.
Kept(T, U, p) ==
  /\ U[p].reducer = T[p].reducer
  /\ U[p].value = T[p].value
  /\ U[p].result = T[p].result

\* The tasks that were there stay.
LEMMA GrowsKeeps ==
  ASSUME NEW T, IsTree(T), NEW next, NEW U, Grows(T, next, U)
  PROVE  /\ \A p \in DOMAIN T : Kept(T, U, p)
         /\ \A p \in DOMAIN T : DOMAIN U[p] = DOMAIN T[p]
         /\ \A p \in DOMAIN T \ DOMAIN next : U[p].calls = T[p].calls
         /\ \A p \in DOMAIN next : U[p].calls = T[p].calls + Len(next[p])
         /\ \A p \in DOMAIN T : \A i \in 1 .. T[p].calls :
              Append(p, i) \in DOMAIN T /\ Kept(T, U, Append(p, i))
<1>1. \A p \in DOMAIN T \ DOMAIN next : U[p] = T[p]
  BY DEF Grows
<1>2. \A p \in DOMAIN next : /\ p \in DOMAIN T
                             /\ DOMAIN T[p] = {"reducer", "value", "calls", "result"}
                             /\ U[p] = [T[p] EXCEPT !.calls = @ + Len(next[p])]
  BY DEF Grows, IsTree, IsTask
<1>3. \A p \in DOMAIN next : /\ Kept(T, U, p)
                             /\ DOMAIN U[p] = DOMAIN T[p]
                             /\ U[p].calls = T[p].calls + Len(next[p])
  BY <1>2 DEF Kept
<1>4. \A p \in DOMAIN T : Kept(T, U, p) /\ DOMAIN U[p] = DOMAIN T[p]
  BY <1>1, <1>3 DEF Kept
<1>5. \A p \in DOMAIN T : \A i \in 1 .. T[p].calls : Append(p, i) \in DOMAIN T
  BY DEF IsTree
<1>6. QED
  BY <1>1, <1>3, <1>4, <1>5

\* The new tasks are calls of those that made them.
LEMMA GrowsAdds ==
  ASSUME NEW T, IsTree(T), NEW next, NEW U, Grows(T, next, U)
  PROVE  /\ \A p \in DOMAIN next : \A i \in 1 .. Len(next[p]) :
              LET q == Append(p, T[p].calls + i)
              IN  /\ q \in DOMAIN U \ DOMAIN T
                  /\ U[q].reducer = next[p][i].reducer /\ U[q].value = next[p][i].value
         /\ \A q \in DOMAIN U \ DOMAIN T :
              /\ IsTask(U[q]) /\ U[q].calls = 0 /\ U[q].result = Pending
              /\ q \in Seq(Nat \ {0}) /\ q # <<>>
              /\ Front(q) \in DOMAIN next
              /\ Last(q) \in T[Front(q)].calls + 1 .. T[Front(q)].calls + Len(next[Front(q)])
<1>1. \A p \in DOMAIN next : \A i \in 1 .. Len(next[p]) :
        /\ Append(p, T[p].calls + i) \in DOMAIN U \ DOMAIN T
        /\ U[Append(p, T[p].calls + i)] = Task(next[p][i])
  BY DEF Grows
<1>2. \A call : /\ Task(call).reducer = call.reducer /\ Task(call).value = call.value
                /\ Task(call).calls = 0 /\ Task(call).result = Pending
                /\ DOMAIN Task(call) = {"reducer", "value", "calls", "result"}
  BY DEF Task
<1>3. ASSUME NEW q \in DOMAIN U \ DOMAIN T
      PROVE  /\ IsTask(U[q]) /\ U[q].calls = 0 /\ U[q].result = Pending
             /\ q \in Seq(Nat \ {0}) /\ q # <<>>
             /\ Front(q) \in DOMAIN next
             /\ Last(q) \in T[Front(q)].calls + 1 .. T[Front(q)].calls + Len(next[Front(q)])
  <2>1. PICK p \in DOMAIN next : \E i \in 1 .. Len(next[p]) : q = Append(p, T[p].calls + i)
    BY DEF Grows
  <2>2. PICK i \in 1 .. Len(next[p]) : q = Append(p, T[p].calls + i)
    BY <2>1
  <2>3. p \in Seq(Nat \ {0}) /\ T[p].calls \in Nat
    BY DEF Grows, IsTree, IsTask
  <2>4. Len(next[p]) \in Nat /\ IsReducer(next[p][i].reducer)
    BY DEF Grows, IsSeqOfCalls
  <2>5. T[p].calls + i \in Nat \ {0}
    BY <2>3, <2>4
  <2>6. q \in Seq(Nat \ {0}) /\ q # <<>> /\ Front(q) = p /\ Last(q) = T[p].calls + i
    BY <2>2, <2>3, <2>5, PathAppend
  <2>7. U[q] = Task(next[p][i])
    BY <1>1, <2>2
  <2>8. IsTask(U[q]) /\ U[q].calls = 0 /\ U[q].result = Pending
    <3>1. U[q].reducer = next[p][i].reducer /\ U[q].calls = 0 /\ U[q].result = Pending
          /\ DOMAIN U[q] = {"reducer", "value", "calls", "result"}
      BY <1>2, <2>7
    <3>2. U[q].reducer.type = "ReducerList" => U[q].calls <= Len(U[q].reducer.of)
      <4>1. SUFFICES ASSUME U[q].reducer.type = "ReducerList"
                     PROVE  0 <= Len(U[q].reducer.of)
        BY <3>1
      <4>2. U[q].reducer.of \in Seq(Reducer)
        BY <2>4, <3>1, <4>1, ReducerAssumption DEF IsReducer
      <4>3. QED
        BY <4>2, LenProperties
    <3>3. QED
      BY <2>4, <3>1, <3>2 DEF IsTask
  <2>9. QED
    BY <2>2, <2>3, <2>4, <2>6, <2>8
<1>4. QED
  BY <1>1, <1>2, <1>3

\* All tasks of T are there in U, with what they settled to; those that are new have not
\* settled.
OnlyAdds(T, U) ==
  /\ DOMAIN T \subseteq DOMAIN U
  /\ \A p \in DOMAIN T : Kept(T, U, p)
  /\ \A p \in DOMAIN U \ DOMAIN T : U[p].result = Pending

\* So it is over several steps.
LEMMA OnlyAddsTransitive ==
  ASSUME NEW T, NEW U, NEW V, OnlyAdds(T, U), OnlyAdds(U, V)
  PROVE  OnlyAdds(T, V)
<1>1. ASSUME NEW p \in DOMAIN T PROVE p \in DOMAIN V /\ Kept(T, V, p)
  BY DEF OnlyAdds, Kept
<1>2. ASSUME NEW p \in DOMAIN V \ DOMAIN T PROVE V[p].result = Pending
  <2>1. CASE p \in DOMAIN U
    BY <1>2, <2>1 DEF OnlyAdds, Kept
  <2>2. CASE p \notin DOMAIN U
    BY <1>2, <2>2 DEF OnlyAdds
  <2>3. QED
    BY <2>1, <2>2
<1>3. QED
  BY <1>1, <1>2 DEF OnlyAdds

\* The tasks go on being a tree.
LEMMA GrowsTree ==
  ASSUME NEW T, IsTree(T), NEW next, NEW U, Grows(T, next, U),
         \A p \in DOMAIN next : T[p].reducer.type = "ReducerList" =>
           T[p].calls + Len(next[p]) <= Len(T[p].reducer.of)
  PROVE  IsTree(U)
<1>1. /\ \A p \in DOMAIN T : Kept(T, U, p)
      /\ \A p \in DOMAIN T : DOMAIN U[p] = DOMAIN T[p]
      /\ \A p \in DOMAIN T \ DOMAIN next : U[p].calls = T[p].calls
      /\ \A p \in DOMAIN next : U[p].calls = T[p].calls + Len(next[p])
  BY GrowsKeeps
<1>2. \A p \in DOMAIN T : p \in Seq(Nat \ {0}) /\ IsTask(T[p]) /\ T[p].calls \in Nat
  BY DEF IsTree, IsTask
<1>3. \A p \in DOMAIN next : p \in DOMAIN T /\ Len(next[p]) \in Nat
  BY DEF Grows, IsSeqOfCalls
<1>4. DOMAIN T \subseteq DOMAIN U
  BY DEF Grows
<1>5. \A q \in DOMAIN U \ DOMAIN T :
        /\ IsTask(U[q]) /\ U[q].calls = 0
        /\ q \in Seq(Nat \ {0}) /\ q # <<>>
        /\ Front(q) \in DOMAIN next
        /\ Last(q) \in T[Front(q)].calls + 1 .. T[Front(q)].calls + Len(next[Front(q)])
  BY GrowsAdds
<1>6. \A p \in DOMAIN T : IsTask(U[p]) /\ T[p].calls <= U[p].calls
  <2> TAKE p \in DOMAIN T
  <2>1. CASE p \notin DOMAIN next
    <3>1. U[p].calls = T[p].calls
      BY <1>1, <2>1
    <3>2. QED
      BY <1>1, <1>2, <3>1 DEF IsTask, Kept
  <2>2. CASE p \in DOMAIN next
    <3>1. U[p].calls = T[p].calls + Len(next[p]) /\ Len(next[p]) \in Nat
      BY <1>1, <1>3, <2>2
    <3>2. QED
      BY <1>1, <1>2, <2>2, <3>1 DEF IsTask, Kept
  <2>3. QED
    BY <2>1, <2>2
<1>7. \A p \in DOMAIN U : p \in Seq(Nat \ {0}) /\ IsTask(U[p])
  BY <1>2, <1>5, <1>6
<1>8. ASSUME NEW p \in DOMAIN U, NEW i \in 1 .. U[p].calls
      PROVE  Append(p, i) \in DOMAIN U
  <2>1. p \in DOMAIN T
    BY <1>5
  <2>2. CASE i \in 1 .. T[p].calls
    BY <1>4, <2>1, <2>2 DEF IsTree
  <2>3. CASE i \notin 1 .. T[p].calls
    <3>1. p \in DOMAIN next /\ U[p].calls = T[p].calls + Len(next[p])
      BY <1>1, <2>1, <2>3
    <3>2. i - T[p].calls \in 1 .. Len(next[p]) /\ T[p].calls + (i - T[p].calls) = i
      BY <1>2, <1>3, <2>1, <2>3, <3>1
    <3>3. \A j \in 1 .. Len(next[p]) : Append(p, T[p].calls + j) \in DOMAIN U
      BY <3>1, GrowsAdds
    <3>4. QED
      BY <3>2, <3>3
  <2>4. QED
    BY <2>2, <2>3
<1>9. ASSUME NEW p \in DOMAIN U, p # <<>>
      PROVE  Front(p) \in DOMAIN U /\ Last(p) \in 1 .. U[Front(p)].calls
  <2>1. CASE p \in DOMAIN T
    <3>1. Front(p) \in DOMAIN T /\ Last(p) \in 1 .. T[Front(p)].calls
      BY <1>9, <2>1 DEF IsTree
    <3>2. T[Front(p)].calls <= U[Front(p)].calls /\ U[Front(p)].calls \in Nat
      BY <1>6, <3>1 DEF IsTask
    <3>3. QED
      BY <1>2, <1>4, <3>1, <3>2
  <2>2. CASE p \notin DOMAIN T
    <3>1. /\ Front(p) \in DOMAIN next
          /\ Last(p) \in T[Front(p)].calls + 1 .. T[Front(p)].calls + Len(next[Front(p)])
      BY <1>5, <2>2
    <3>2. QED
      BY <1>1, <1>2, <1>3, <1>4, <3>1
  <2>3. QED
    BY <2>1, <2>2
<1>10. <<>> \in DOMAIN U /\ U[<<>>].reducer \in Range(Roots)
  BY <1>1, <1>4 DEF IsTree, Kept
<1>11. QED
  BY <1>7, <1>8, <1>9, <1>10 DEF IsTree

-----------------------------------------------------------------------------
(* What holds of each task *)

\* What holds of the calls before the last: InTurn, and NoNeedlessCalls for find.
Before(T, p) ==
  LET r == T[p].reducer
      n == T[p].calls
  IN  /\ Sequential(r) => \A i \in 1 .. n - 1 : Accepts(r, Out(T, p, i))
      /\ r.type = "find" => \A i \in 1 .. n - 1 :
           ~(IsOk(Out(T, p, i)) /\ PredicateIsTruthy(r.of, Out(T, p, i)[2]))

\* NoNeedlessCalls for a control entity.
FirstHolds(T, p) ==
  LET r == T[p].reducer
      n == T[p].calls
  IN  r.type = "control" => \A i \in 1 .. n :
        i <= Len(r.of.cases) /\ IsOk(Out(T, p, i)) /\ Truthy(Out(T, p, i)[2]) =>
          n <= i + 1 /\ (n = i + 1 => T[Append(p, i + 1)].reducer = r.of.dos[i])

\* AbandonedOnlyByFailure; and a task that resolved accepted all its outcomes.
Left(T, p) ==
  /\ T[p].result # Pending /\ (\E i \in 1 .. T[p].calls : Out(T, p, i) = Pending) =>
       IsError(T[p].result) /\ \E i \in 1 .. T[p].calls : Out(T, p, i) = T[p].result
  /\ IsOk(T[p].result) => \A i \in 1 .. T[p].calls : Accepts(T[p].reducer, Out(T, p, i))

\* The outcomes of the first k calls.
Until(T, p, k) == [i \in 1 .. k |-> Out(T, p, i)]

\* The j-th call is among those that were asked for after the k-th.
IsAmong(T, p, j, k, calls) ==
  /\ Len(calls) \in Nat /\ j <= k + Len(calls) /\ k + Len(calls) <= T[p].calls
  /\ T[Append(p, j)].reducer = calls[j - k].reducer
  /\ T[Append(p, j)].value = calls[j - k].value

\* It is one that the resolve function asked for, when the calls up to some k-th had let
\* the task go on.
AskedFor(T, p, j) ==
  \E k \in 0 .. j - 1 :
    /\ AllAccepted(T[p].reducer, k, Until(T, p, k))
    /\ IsAmong(T, p, j, k, Resolve(T[p].reducer, T[p].value, Until(T, p, k)).calls)
Asked(T, p) == \A j \in 1 .. T[p].calls : AskedFor(T, p, j)

\* What holds of each task.
IsSound(T, p) == Before(T, p) /\ FirstHolds(T, p) /\ Left(T, p) /\ Asked(T, p)

\* The inductive invariant of the tasks.
IsGood(T) == IsTree(T) /\ \A p \in DOMAIN T : IsSound(T, p)

\* A task of which nothing has changed, nor of the outcomes of its calls.
Same(T, U, p) ==
  /\ U[p].reducer = T[p].reducer
  /\ U[p].value = T[p].value
  /\ U[p].calls = T[p].calls
  /\ U[p].result = T[p].result
  /\ \A i \in 1 .. T[p].calls : /\ Out(U, p, i) = Out(T, p, i)
                                /\ U[Append(p, i)].reducer = T[Append(p, i)].reducer
                                /\ U[Append(p, i)].value = T[Append(p, i)].value

\* A task of which no more has changed than that it made calls, or that some of its calls
\* settled.
Advances(T, U, p) ==
  /\ U[p].reducer = T[p].reducer /\ U[p].value = T[p].value
  /\ T[p].calls \in Nat /\ U[p].calls \in Nat /\ T[p].calls <= U[p].calls
  /\ \A i \in 1 .. T[p].calls :
       /\ U[Append(p, i)].reducer = T[Append(p, i)].reducer
       /\ U[Append(p, i)].value = T[Append(p, i)].value
       /\ Out(T, p, i) # Pending => Out(U, p, i) = Out(T, p, i)

\* What a call was asked for with does not change: those outcomes have settled.
LEMMA AskedStays ==
  ASSUME NEW T, NEW U, NEW p, Asked(T, p), Advances(T, U, p), NEW j \in 1 .. T[p].calls
  PROVE  AskedFor(U, p, j)
<1> USE DEF Advances
<1>1. PICK k \in 0 .. j - 1 :
        /\ AllAccepted(T[p].reducer, k, Until(T, p, k))
        /\ IsAmong(T, p, j, k, Resolve(T[p].reducer, T[p].value, Until(T, p, k)).calls)
  BY DEF Asked, AskedFor
<1>2. \A i \in 1 .. k : Out(U, p, i) = Out(T, p, i)
  <2>1. \A i \in 1 .. k : Accepts(T[p].reducer, Out(T, p, i))
    BY <1>1 DEF AllAccepted, Until
  <2>2. \A r : ~Accepts(r, Pending)
    BY DEF Accepts, IsOk, IsError, Pending
  <2>3. \A i \in 1 .. k : i \in 1 .. T[p].calls
    OBVIOUS
  <2>4. QED
    BY <2>1, <2>2, <2>3
<1>3. Until(U, p, k) = Until(T, p, k)
  BY <1>2 DEF Until
<1>4. ASSUME NEW calls, IsAmong(T, p, j, k, calls) PROVE IsAmong(U, p, j, k, calls)
  BY <1>4 DEF IsAmong
<1>5. QED
  BY <1>1, <1>3, <1>4 DEF AskedFor

\* What holds of a task holds of it until it changes.
LEMMA SameStays ==
  ASSUME NEW T, NEW U, NEW p, Same(T, U, p), T[p].calls \in Nat
  PROVE  /\ Before(T, p) => Before(U, p)
         /\ FirstHolds(T, p) => FirstHolds(U, p)
         /\ Left(T, p) => Left(U, p)
         /\ Asked(T, p) => Asked(U, p)
<1>1. /\ U[p].reducer = T[p].reducer /\ U[p].calls = T[p].calls /\ U[p].result = T[p].result
      /\ \A i \in 1 .. T[p].calls : Out(U, p, i) = Out(T, p, i)
      /\ \A i \in 1 .. T[p].calls : U[Append(p, i)].reducer = T[Append(p, i)].reducer
  BY DEF Same
<1>2. Before(T, p) => Before(U, p)
  <2>1. \A i \in 1 .. T[p].calls - 1 : Out(U, p, i) = Out(T, p, i)
    BY <1>1
  <2>2. QED
    BY <1>1, <2>1 DEF Before
<1>3. FirstHolds(T, p) => FirstHolds(U, p)
  <2>1. \A i \in 1 .. T[p].calls : T[p].calls = i + 1 => i + 1 \in 1 .. T[p].calls
    OBVIOUS
  <2>2. QED
    BY <1>1, <2>1 DEF FirstHolds
<1>4. Left(T, p) => Left(U, p)
  BY <1>1 DEF Left
<1>5. Advances(T, U, p)
  BY DEF Same, Advances
<1>6. ASSUME Asked(T, p), NEW j \in 1 .. T[p].calls PROVE AskedFor(U, p, j)
  BY <1>5, <1>6, AskedStays
<1>7. QED
  BY <1>1, <1>2, <1>3, <1>4, <1>6 DEF Asked

\* A task that may make these calls: it has what it waited for, and its reducer asks for
\* them.
Ready(T, p, calls) ==
  /\ T[p].result = Pending
  /\ AllAccepted(T[p].reducer, T[p].calls, Got(T, p))
  /\ calls = Resolve(T[p].reducer, T[p].value, Got(T, p)).calls
  /\ IsNextOf(T[p].reducer, T[p].value, T[p].calls, Got(T, p),
              Resolve(T[p].reducer, T[p].value, Got(T, p)))

\* A task whose calls have all let it go on may make new ones.  (The calls before the
\* last are then those that it had before, if it makes one at a time.)
LEMMA NewCallsOfOne ==
  ASSUME NEW T, IsTree(T), NEW next, NEW U, Grows(T, next, U), NEW p \in DOMAIN next,
         Ready(T, p, next[p]), Before(T, p), FirstHolds(T, p), Asked(T, p)
  PROVE  IsSound(U, p)
<1> DEFINE r == T[p].reducer
           n == T[p].calls
           m == Len(next[p])
           got == Got(T, p)
<1>1. p \in DOMAIN T /\ n \in Nat /\ m \in Nat /\ IsTask(T[p])
  BY DEF Grows, IsTree, IsTask, IsSeqOfCalls
<1>2. U[p].reducer = r /\ U[p].value = T[p].value /\ U[p].calls = n + m /\ U[p].result = Pending
  <2>1. Kept(T, U, p)
    BY <1>1, GrowsKeeps
  <2>2. U[p].calls = n + m
    BY GrowsKeeps
  <2>3. QED
    BY <2>1, <2>2 DEF Kept, Ready
<1> DEFINE nx == Resolve(r, T[p].value, got)
<1>3. nx.calls = next[p] /\ IsNextOf(r, T[p].value, n, got, nx)
  BY DEF Ready
<1> HIDE DEF nx
<1>4. \A i \in 1 .. n : got[i] = Out(T, p, i)
  BY DEF Got, Out
<1>5. \A i \in 1 .. n : Accepts(r, Out(T, p, i))
  <2>1. \A i \in 1 .. n : Accepts(r, got[i])
    BY DEF Ready, AllAccepted
  <2>2. QED
    BY <1>4, <2>1
<1>6. \A i \in 1 .. n : Out(U, p, i) = Out(T, p, i)
  <2>1. \A i \in 1 .. n : Kept(T, U, Append(p, i))
    BY <1>1, GrowsKeeps
  <2>2. QED
    BY <2>1 DEF Kept, Out
<1>7. \A i \in n + 1 .. n + m : Out(U, p, i) = Pending
  <2>1. \A i \in 1 .. m : Append(p, n + i) \in DOMAIN U \ DOMAIN T
    BY GrowsAdds
  <2>2. \A q \in DOMAIN U \ DOMAIN T : U[q].result = Pending
    BY GrowsAdds
  <2>3. \A i \in n + 1 .. n + m : i - n \in 1 .. m /\ n + (i - n) = i
    BY <1>1
  <2>4. QED
    BY <2>1, <2>2, <2>3 DEF Out
<1>8. m >= 1 => next[p] # <<>>
  BY DEF Grows, IsSeqOfCalls
<1>9. Before(U, p)
  <2>1. ASSUME Sequential(r), NEW i \in 1 .. n + m - 1
        PROVE  i \in 1 .. n
    <3>1. m <= 1
      BY <1>3, <2>1 DEF IsNextOf
    <3>2. QED
      BY <1>1, <3>1
  <2>2. Sequential(r) => \A i \in 1 .. n + m - 1 : Accepts(r, Out(U, p, i))
    BY <1>5, <1>6, <2>1
  <2>3. ASSUME r.type = "find", NEW i \in 1 .. n + m - 1
        PROVE  ~(IsOk(Out(U, p, i)) /\ PredicateIsTruthy(r.of, Out(U, p, i)[2]))
    <3>1. Sequential(r)
      BY <2>3 DEF Sequential
    <3>2. i \in 1 .. n
      BY <2>1, <3>1
    <3>3. CASE m = 0
      <4>1. i \in 1 .. n - 1
        BY <1>1, <3>3
      <4>2. QED
        BY <1>6, <2>3, <3>2, <4>1 DEF Before
    <3>4. CASE m # 0
      <4>1. ~PredicateIsTruthy(r.of, got[i][2])
        BY <1>1, <1>3, <1>8, <2>3, <3>2, <3>4 DEF IsNextOf
      <4>2. QED
        BY <1>4, <1>6, <3>2, <4>1
    <3>5. QED
      BY <3>3, <3>4
  <2>4. Sequential(U[p].reducer) =>
          \A i \in 1 .. U[p].calls - 1 : Accepts(U[p].reducer, Out(U, p, i))
    BY <1>1, <1>2, <2>2
  <2>5. U[p].reducer.type = "find" => \A i \in 1 .. U[p].calls - 1 :
          ~(IsOk(Out(U, p, i)) /\ PredicateIsTruthy(U[p].reducer.of, Out(U, p, i)[2]))
    BY <1>1, <1>2, <2>3
  <2>6. QED
    BY <2>4, <2>5 DEF Before
<1>10. FirstHolds(U, p)
  <2>1. ASSUME r.type = "control", NEW i \in 1 .. n + m, i <= Len(r.of.cases),
               IsOk(Out(U, p, i)), Truthy(Out(U, p, i)[2])
        PROVE  /\ n + m <= i + 1
               /\ n + m = i + 1 => U[Append(p, i + 1)].reducer = r.of.dos[i]
    <3>1. m <= 1
      BY <1>3, <2>1 DEF IsNextOf, Sequential
    <3>2. i \in 1 .. n
      <4>1. ~IsOk(Pending)
        BY DEF IsOk, Pending
      <4>2. QED
        BY <1>1, <1>7, <2>1, <4>1
    <3>3. CASE m = 0
      <4>1. n <= i + 1 /\ (n = i + 1 => T[Append(p, i + 1)].reducer = r.of.dos[i])
        BY <1>6, <2>1, <3>2 DEF FirstHolds
      <4>2. n = i + 1 => U[Append(p, i + 1)].reducer = T[Append(p, i + 1)].reducer
        <5>1. \A j \in 1 .. n : Kept(T, U, Append(p, j))
          BY <1>1, GrowsKeeps
        <5>2. QED
          BY <1>1, <3>2, <5>1 DEF Kept
      <4>3. QED
        BY <1>1, <3>3, <4>1, <4>2
    <3>4. CASE m = 1
      <4>1. i = n /\ next[p] = <<To(r.of.dos[n], T[p].value)>>
        <5>1. Truthy(got[i][2])
          BY <1>4, <1>6, <2>1, <3>2
        <5>2. DoesFirst(r, T[p].value, n, got, nx)
          BY <1>3, <2>1 DEF IsNextOf
        <5>3. nx.calls # <<>>
          BY <1>3, <1>8, <3>4
        <5>4. QED
          BY <1>3, <2>1, <3>2, <5>1, <5>2, <5>3 DEF DoesFirst
      <4>2. next[p][1].reducer = r.of.dos[n]
        BY <4>1 DEF To
      <4>3. U[Append(p, n + 1)].reducer = next[p][1].reducer
        <5>1. \A j \in 1 .. m : U[Append(p, n + j)].reducer = next[p][j].reducer
          BY GrowsAdds
        <5>2. QED
          BY <3>4, <5>1
      <4>4. QED
        BY <1>1, <3>4, <4>1, <4>2, <4>3
    <3>5. m = 0 \/ m = 1
      <4>1. m \in Nat /\ m <= 1
        BY <1>1, <3>1
      <4> HIDE DEF m
      <4>2. QED
        BY <4>1
    <3>6. QED
      BY <3>3, <3>4, <3>5
  <2>2. QED
    BY <1>2, <2>1 DEF FirstHolds
<1>11. Left(U, p)
  BY <1>2 DEF Left, IsOk, Pending
<1>12. \A i \in 1 .. n : Kept(T, U, Append(p, i))
  BY <1>1, GrowsKeeps
<1>13. ASSUME NEW j \in 1 .. n PROVE AskedFor(U, p, j)
  <2>1. Advances(T, U, p)
    BY <1>1, <1>2, <1>6, <1>12 DEF Advances, Kept
  <2>2. QED
    BY <2>1, AskedStays
<1>14. ASSUME NEW j \in n + 1 .. n + m PROVE AskedFor(U, p, j)
  <2>1. Until(U, p, n) = got
    BY <1>6 DEF Until, Got, Out
  <2>2. AllAccepted(r, n, got)
    BY DEF Ready
  <2>3. j - n \in 1 .. m /\ n + (j - n) = j /\ n \in 0 .. j - 1
    BY <1>1
  <2>4. \A i \in 1 .. m : /\ U[Append(p, n + i)].reducer = next[p][i].reducer
                          /\ U[Append(p, n + i)].value = next[p][i].value
    BY GrowsAdds
  <2>5. Len(nx.calls) \in Nat /\ j <= n + Len(nx.calls) /\ n + Len(nx.calls) = n + m
    BY <1>1, <1>3
  <2>6. IsAmong(U, p, j, n, nx.calls)
    BY <1>1, <1>2, <1>3, <2>3, <2>4, <2>5 DEF IsAmong
  <2>7. QED
    BY <1>2, <2>1, <2>2, <2>3, <2>6 DEF AskedFor, nx
<1>15. Asked(U, p)
  BY <1>1, <1>2, <1>13, <1>14 DEF Asked
<1>16. QED
  BY <1>9, <1>10, <1>11, <1>15 DEF IsSound

\* New calls keep the invariant, and all else as it is.
LEMMA CallingKeeps ==
  ASSUME NEW T, IsGood(T), NEW next, DOMAIN next \subseteq DOMAIN T,
         \A p \in DOMAIN next : Ready(T, p, next[p])
  PROVE  IsGood(Calling(T, next)) /\ OnlyAdds(T, Calling(T, next))
<1> DEFINE U == Calling(T, next)
<1>1. IsTree(T)
  BY DEF IsGood
<1>2. \A p \in DOMAIN next : /\ IsSeqOfCalls(next[p])
                             /\ T[p].reducer.type = "ReducerList" =>
                                  T[p].calls + Len(next[p]) <= Len(T[p].reducer.of)
  BY DEF Ready, IsNextOf, IsNext
<1>3. Grows(T, next, U)
  BY <1>1, <1>2, CallingGrows
<1> HIDE DEF U
<1>4. IsTree(U)
  BY <1>1, <1>2, <1>3, GrowsTree
<1>5. ASSUME NEW p \in DOMAIN next
      PROVE  IsSound(U, p)
  <2>1. p \in DOMAIN T
    OBVIOUS
  <2>2. QED
    BY <1>1, <1>3, <2>1, NewCallsOfOne DEF IsGood, IsSound
<1>6. ASSUME NEW p \in DOMAIN T \ DOMAIN next
      PROVE  IsSound(U, p)
  <2>1. Kept(T, U, p)
    BY <1>1, <1>3, GrowsKeeps
  <2>2. U[p].calls = T[p].calls
    BY <1>1, <1>3, GrowsKeeps
  <2>3. \A i \in 1 .. T[p].calls : Kept(T, U, Append(p, i))
    BY <1>1, <1>3, GrowsKeeps
  <2>4. Same(T, U, p)
    BY <2>1, <2>2, <2>3 DEF Same, Kept, Out
  <2>5. T[p].calls \in Nat
    BY <1>1 DEF IsTree, IsTask
  <2>6. QED
    BY <2>4, <2>5, SameStays DEF IsGood, IsSound
<1>7. ASSUME NEW p \in DOMAIN U \ DOMAIN T
      PROVE  IsSound(U, p)
  <2>1. U[p].calls = 0 /\ U[p].result = Pending
    BY <1>1, <1>3, GrowsAdds
  <2>2. QED
    BY <2>1 DEF IsSound, Before, FirstHolds, Left, Asked, IsOk, Pending
<1>8. OnlyAdds(T, U)
  <2>1. DOMAIN T \subseteq DOMAIN U
    BY <1>3 DEF Grows
  <2>2. \A p \in DOMAIN T : Kept(T, U, p)
    BY <1>1, <1>3, GrowsKeeps
  <2>3. \A p \in DOMAIN U \ DOMAIN T : U[p].result = Pending
    BY <1>1, <1>3, GrowsAdds
  <2>4. QED
    BY <2>1, <2>2, <2>3 DEF OnlyAdds
<1>9. QED
  BY <1>4, <1>5, <1>6, <1>7, <1>8 DEF IsGood, U

\* The tasks after p has settled.
Settled(T, p, o) == [T EXCEPT ![p].result = o]

\* Nothing else changes.
LEMMA SettledIs ==
  ASSUME NEW T, IsTree(T), NEW p \in DOMAIN T, NEW o, NEW U, U = Settled(T, p, o)
  PROVE  /\ DOMAIN U = DOMAIN T
         /\ U[p].result = o
         /\ \A q \in DOMAIN T : /\ U[q].reducer = T[q].reducer
                                /\ U[q].value = T[q].value
                                /\ U[q].calls = T[q].calls
                                /\ DOMAIN U[q] = DOMAIN T[q]
                                /\ q # p => U[q].result = T[q].result
<1>1. DOMAIN T[p] = {"reducer", "value", "calls", "result"}
  BY DEF IsTree, IsTask
<1>2. U[p] = [T[p] EXCEPT !.result = o] /\ \A q \in DOMAIN T \ {p} : U[q] = T[q]
  BY DEF Settled
<1>3. U[p].reducer = T[p].reducer /\ U[p].value = T[p].value /\ U[p].calls = T[p].calls
      /\ U[p].result = o /\ DOMAIN U[p] = DOMAIN T[p]
  BY <1>1, <1>2
<1>4. DOMAIN U = DOMAIN T
  BY DEF Settled
<1>5. QED
  BY <1>2, <1>3, <1>4

\* The tasks go on being a tree.
LEMMA SettledTree ==
  ASSUME NEW T, IsTree(T), NEW p \in DOMAIN T, NEW o, IsOutcome(o),
         NEW U, U = Settled(T, p, o)
  PROVE  IsTree(U)
<1>1. DOMAIN U = DOMAIN T
  BY SettledIs
<1>2. \A q \in DOMAIN T : /\ U[q].reducer = T[q].reducer
                          /\ U[q].calls = T[q].calls
                          /\ DOMAIN U[q] = DOMAIN T[q]
                          /\ U[q].result = T[q].result \/ U[q].result = o
  BY SettledIs
<1>3. \A q \in DOMAIN T : IsTask(U[q])
  BY <1>2 DEF IsTree, IsTask
<1>4. QED
  BY <1>1, <1>2, <1>3 DEF IsTree

\* A task that has all its outcomes, or the failure of a call, may settle.  To its
\* caller, it is an outcome that was pending: the last one, if the caller makes one
\* call at a time.
LEMMA SettleKeeps ==
  ASSUME NEW T, IsGood(T), NEW p \in DOMAIN T, T[p].result = Pending,
         NEW o, IsOutcome(o),
         (\E i \in 1 .. T[p].calls : Out(T, p, i) = Pending) =>
           IsError(o) /\ \E i \in 1 .. T[p].calls : Out(T, p, i) = o,
         IsOk(o) => \A i \in 1 .. T[p].calls : Accepts(T[p].reducer, Out(T, p, i))
  PROVE  IsGood(Settled(T, p, o))
<1> DEFINE U == Settled(T, p, o)
<1>1. IsTree(T)
  BY DEF IsGood
<1>2. /\ DOMAIN U = DOMAIN T
      /\ U[p].result = o
      /\ \A q \in DOMAIN T : /\ U[q].reducer = T[q].reducer
                             /\ U[q].value = T[q].value
                             /\ U[q].calls = T[q].calls
                             /\ q # p => U[q].result = T[q].result
  BY <1>1, SettledIs
<1>3. IsTree(U)
  BY <1>1, SettledTree
<1> HIDE DEF U
<1>4. \A q \in DOMAIN T : q \in Seq(Nat \ {0}) /\ T[q].calls \in Nat
  BY <1>1 DEF IsTree, IsTask
<1>5. \A q \in DOMAIN T : \A i \in 1 .. T[q].calls :
        /\ Append(q, i) \in DOMAIN T
        /\ U[Append(q, i)].reducer = T[Append(q, i)].reducer
        /\ U[Append(q, i)].value = T[Append(q, i)].value
        /\ Out(U, q, i) = Out(T, q, i) \/ (Append(q, i) = p /\ Out(U, q, i) = o)
  <2>1. \A q \in DOMAIN T : \A i \in 1 .. T[q].calls : Append(q, i) \in DOMAIN T
    BY <1>1 DEF IsTree
  <2>2. QED
    BY <1>2, <2>1 DEF Out
<1>6. ASSUME NEW q \in DOMAIN T, NEW i \in 1 .. T[q].calls, Append(q, i) = p
      PROVE  Out(T, q, i) = Pending /\ Out(U, q, i) = o /\ q # p
  <2>1. q # Append(q, i)
    BY <1>4, PathAppend
  <2>2. QED
    BY <1>2, <1>6, <2>1 DEF Out
<1>7. \A r : ~Accepts(r, Pending)
  BY DEF Accepts, IsOk, IsError, Pending
<1>8. o # Pending
  BY DEF IsOutcome, IsOk, IsError, Pending
<1>9. ASSUME NEW q \in DOMAIN T, NEW k \in 1 .. T[q].calls, Append(q, k) = p
      PROVE  IsSound(U, q)
  <2> DEFINE r == T[q].reducer
             n == T[q].calls
  <2>1. Out(T, q, k) = Pending /\ Out(U, q, k) = o /\ q # p
    BY <1>6, <1>9
  <2>2. U[q].reducer = r /\ U[q].calls = n /\ U[q].result = T[q].result /\ n \in Nat
    BY <1>2, <1>4, <2>1
  <2>3. \A i \in 1 .. n : i # k => Out(U, q, i) = Out(T, q, i)
    <3>1. ASSUME NEW i \in 1 .. n, i # k PROVE Append(q, i) # p
      <4>1. Last(Append(q, i)) = i /\ Last(Append(q, k)) = k
        BY <1>4, PathAppend
      <4>2. QED
        BY <1>9, <3>1, <4>1
    <3>2. QED
      BY <1>5, <3>1
  <2>4. Before(T, q) /\ FirstHolds(T, q) /\ Left(T, q) /\ Asked(T, q)
    BY DEF IsGood, IsSound
  <2>5. Sequential(r) => k = n
    <3>1. Sequential(r) => k \notin 1 .. n - 1
      BY <1>7, <2>1, <2>4 DEF Before
    <3>2. QED
      BY <2>2, <3>1
  <2>6. Before(U, q)
    <3>1. Sequential(r) => \A i \in 1 .. n - 1 : Out(U, q, i) = Out(T, q, i)
      BY <2>2, <2>3, <2>5
    <3>2. r.type = "find" => Sequential(r)
      BY DEF Sequential
    <3>3. QED
      BY <2>2, <2>4, <3>1, <3>2 DEF Before
  <2>7. FirstHolds(U, q)
    <3>1. ASSUME r.type = "control", NEW i \in 1 .. n, i <= Len(r.of.cases),
                 IsOk(Out(U, q, i)), Truthy(Out(U, q, i)[2])
          PROVE  n <= i + 1 /\ (n = i + 1 => U[Append(q, i + 1)].reducer = r.of.dos[i])
      <4>1. k = n
        BY <2>5, <3>1 DEF Sequential
      <4>2. CASE i = n
        BY <2>2, <4>2
      <4>3. CASE i # n
        <5>1. Out(U, q, i) = Out(T, q, i)
          BY <2>3, <4>1, <4>3
        <5>2. n <= i + 1 /\ (n = i + 1 => T[Append(q, i + 1)].reducer = r.of.dos[i])
          BY <2>4, <3>1, <5>1 DEF FirstHolds
        <5>3. n = i + 1 => U[Append(q, i + 1)].reducer = T[Append(q, i + 1)].reducer
          BY <1>5, <2>2
        <5>4. QED
          BY <5>2, <5>3
      <4>4. QED
        BY <4>2, <4>3
    <3>2. QED
      BY <2>2, <3>1 DEF FirstHolds
  <2>8. Left(U, q)
    <3>1. ASSUME T[q].result # Pending, NEW i \in 1 .. n, Out(U, q, i) = Pending
          PROVE  IsError(T[q].result) /\ \E j \in 1 .. n : Out(U, q, j) = T[q].result
      <4>1. Out(T, q, i) = Pending
        BY <1>8, <2>1, <2>3, <3>1
      <4>2. IsError(T[q].result) /\ \E j \in 1 .. n : Out(T, q, j) = T[q].result
        BY <2>4, <3>1, <4>1 DEF Left
      <4>3. PICK j \in 1 .. n : Out(T, q, j) = T[q].result
        BY <4>2
      <4>4. j # k
        BY <2>1, <3>1, <4>3
      <4>5. Out(U, q, j) = T[q].result
        BY <2>3, <4>3, <4>4
      <4>6. QED
        BY <4>2, <4>5
    <3>2. ~IsOk(T[q].result)
      BY <1>7, <2>1, <2>4 DEF Left
    <3>3. QED
      BY <2>2, <3>1, <3>2 DEF Left
  <2>9. ASSUME NEW j \in 1 .. n PROVE AskedFor(U, q, j)
    <3>1. \A i \in 1 .. n : Out(T, q, i) # Pending => Out(U, q, i) = Out(T, q, i)
      BY <2>1, <2>3
    <3>2. U[q].value = T[q].value
      BY <1>2
    <3>3. Advances(T, U, q)
      BY <1>5, <2>2, <3>1, <3>2 DEF Advances
    <3>4. QED
      BY <2>4, <2>9, <3>3, AskedStays
  <2>10. QED
    BY <2>2, <2>6, <2>7, <2>8, <2>9 DEF IsSound, Asked
<1>10. ASSUME NEW q \in DOMAIN T, \A i \in 1 .. T[q].calls : Append(q, i) # p, q # p
       PROVE  IsSound(U, q)
  <2>1. Same(T, U, q)
    BY <1>2, <1>5, <1>10 DEF Same
  <2>2. QED
    BY <1>4, <2>1, SameStays DEF IsGood, IsSound
<1>11. IsSound(U, p)
  <2>1. \A i \in 1 .. T[p].calls : Append(p, i) # p
    BY <1>4, PathAppend
  <2>2. \A i \in 1 .. T[p].calls : /\ Out(U, p, i) = Out(T, p, i)
                                   /\ U[Append(p, i)].reducer = T[Append(p, i)].reducer
    BY <1>5, <2>1
  <2>3. U[p].reducer = T[p].reducer /\ U[p].calls = T[p].calls /\ U[p].result = o
    BY <1>2
  <2>4. Left(U, p)
    BY <2>2, <2>3 DEF Left
  <2>5. Before(U, p)
    <3>1. \A i \in 1 .. T[p].calls - 1 : Out(U, p, i) = Out(T, p, i)
      BY <1>4, <2>2
    <3>2. QED
      BY <2>3, <3>1 DEF Before, IsGood, IsSound
  <2>6. FirstHolds(U, p)
    <3>1. \A i \in 1 .. T[p].calls : T[p].calls = i + 1 => i + 1 \in 1 .. T[p].calls
      BY <1>4
    <3>2. QED
      BY <2>2, <2>3, <3>1 DEF FirstHolds, IsGood, IsSound
  <2>7. ASSUME NEW j \in 1 .. T[p].calls PROVE AskedFor(U, p, j)
    <3>1. Asked(T, p) /\ U[p].value = T[p].value
      BY <1>2 DEF IsGood, IsSound
    <3>2. Advances(T, U, p)
      BY <1>4, <1>5, <2>2, <2>3, <3>1 DEF Advances
    <3>3. QED
      BY <2>7, <3>1, <3>2, AskedStays
  <2>8. QED
    BY <2>3, <2>4, <2>5, <2>6, <2>7 DEF IsSound, Asked
<1>12. \A q \in DOMAIN T : IsSound(U, q)
  BY <1>9, <1>10, <1>11
<1>13. QED
  BY <1>2, <1>3, <1>12 DEF IsGood, U

-----------------------------------------------------------------------------
(* The first calls of a task, and their own *)

\* The first calls of the tasks that have made none keep the invariant.
LEMMA BeginKeeps ==
  ASSUME NEW T, IsGood(T), NEW U \in Begin(T)
  PROVE  IsGood(U) /\ OnlyAdds(T, U)
<1> DEFINE next == FirstCalls(T)
<1>1. U = Calling(T, next)
  BY DEF Begin
<1>2. DOMAIN next \subseteq DOMAIN T
  BY DEF FirstCalls, Unbegun
<1>3. ASSUME NEW p \in DOMAIN next PROVE Ready(T, p, next[p])
  <2> DEFINE r == T[p].reducer
             nx == Resolve(r, T[p].value, <<>>)
  <2>1. p \in DOMAIN T /\ T[p].calls = 0 /\ T[p].result = Pending /\ next[p] = nx.calls
    BY DEF FirstCalls, Unbegun
  <2>2. IsTask(T[p])
    BY <2>1 DEF IsGood, IsTree
  <2>3. Got(T, p) = <<>>
    BY <2>1 DEF Got
  <2>4. AllAccepted(r, 0, <<>>)
    BY DEF AllAccepted
  <2>5. IsReducer(r) /\ (r.type = "ReducerList" => 0 <= Len(r.of))
    BY <2>1, <2>2 DEF IsTask
  <2> HIDE DEF nx, next
  <2>6. IsNextOf(r, T[p].value, 0, <<>>, nx)
    BY <2>4, <2>5, ResolveIsNext DEF nx
  <2>7. QED
    BY <2>1, <2>3, <2>4, <2>6 DEF Ready, nx
<1> HIDE DEF next
<1>4. IsGood(Calling(T, next)) /\ OnlyAdds(T, Calling(T, next))
  BY <1>2, <1>3, CallingKeeps
<1>5. QED
  BY <1>1, <1>4

\* One round of first calls.
Deeper(begun) == UNION {Begin(T) : T \in begun}

\* The rounds, as Begun makes them.
IsDeepening(deeper, T, m) ==
  deeper = [n \in 0 .. m |-> IF n = 0 THEN {T} ELSE Deeper(deeper[n - 1])]

\* There is such a function, for any number of rounds.
LEMMA DeepeningExists ==
  ASSUME NEW T, NEW m \in Nat
  PROVE  \E deeper : IsDeepening(deeper, T, m)
<1> DEFINE S == {k \in Nat : \E g : IsDeepening(g, T, k)}
<1>1. 0 \in S
  <2> DEFINE g == [n \in 0 .. 0 |-> {T}]
  <2>1. g = [n \in 0 .. 0 |-> IF n = 0 THEN {T} ELSE Deeper(g[n - 1])]
    OBVIOUS
  <2>2. QED
    BY <2>1 DEF IsDeepening
<1>2. ASSUME NEW k \in Nat, k \in S
      PROVE  k + 1 \in S
  <2>1. PICK g : g = [n \in 0 .. k |-> IF n = 0 THEN {T} ELSE Deeper(g[n - 1])]
    BY <1>2 DEF IsDeepening
  <2> DEFINE h == [n \in 0 .. k + 1 |-> IF n = k + 1 THEN Deeper(g[k]) ELSE g[n]]
  <2>2. \A n \in 0 .. k + 1 : h[n] = IF n = 0 THEN {T} ELSE Deeper(h[n - 1])
    <3> TAKE n \in 0 .. k + 1
    <3>1. CASE n = k + 1
      <4>1. h[n] = Deeper(g[k]) /\ n - 1 = k /\ n # 0
        BY <3>1
      <4>2. h[k] = g[k]
        OBVIOUS
      <4>3. QED
        BY <4>1, <4>2
    <3>2. CASE n # k + 1 /\ n = 0
      <4>1. g[0] = {T}
        BY <2>1
      <4>2. QED
        BY <3>2, <4>1
    <3>3. CASE n # k + 1 /\ n # 0
      <4>1. n \in 0 .. k /\ n - 1 \in 0 .. k + 1 /\ n - 1 # k + 1
        BY <3>3
      <4>2. g[n] = Deeper(g[n - 1])
        BY <2>1, <3>3, <4>1
      <4>3. h[n] = g[n] /\ h[n - 1] = g[n - 1]
        BY <3>3, <4>1
      <4>4. QED
        BY <3>3, <4>2, <4>3
    <3>4. QED
      BY <3>1, <3>2, <3>3
  <2>3. h = [n \in 0 .. k + 1 |-> h[n]]
    OBVIOUS
  <2> HIDE DEF h
  <2>4. h = [n \in 0 .. k + 1 |-> IF n = 0 THEN {T} ELSE Deeper(h[n - 1])]
    BY <2>2, <2>3
  <2>5. QED
    BY <2>4 DEF IsDeepening
<1> HIDE DEF S
<1>3. Nat \subseteq S
  BY <1>1, <1>2, SetInduction
<1>4. QED
  BY <1>3 DEF S

\* Begun is what that function gives for the last round.
LEMMA BegunIsDeepening ==
  ASSUME NEW T
  PROVE  \E deeper : IsDeepening(deeper, T, Depth) /\ Begun(T) = deeper[Depth]
<1> DEFINE D == CHOOSE g : g = [n \in 0 .. Depth |->
                                  IF n = 0 THEN {T} ELSE UNION {Begin(b) : b \in g[n - 1]}]
<1>1. Begun(T) = D[Depth]
  BY Zenon DEF Begun
<1>2. \E g : g = [n \in 0 .. Depth |->
                    IF n = 0 THEN {T} ELSE UNION {Begin(b) : b \in g[n - 1]}]
  <2>1. Depth \in Nat
    BY ReducerAssumption
  <2>2. PICK g : IsDeepening(g, T, Depth)
    BY <2>1, DeepeningExists
  <2>3. g = [n \in 0 .. Depth |-> IF n = 0 THEN {T} ELSE UNION {Begin(b) : b \in g[n - 1]}]
    BY <2>2 DEF IsDeepening, Deeper
  <2>4. QED
    BY <2>3
<1>3. D = [n \in 0 .. Depth |-> IF n = 0 THEN {T} ELSE UNION {Begin(b) : b \in D[n - 1]}]
  BY <1>2
<1> HIDE DEF D
<1>4. IsDeepening(D, T, Depth)
  BY <1>3 DEF IsDeepening, Deeper
<1>5. QED
  BY <1>1, <1>4

\* Begun keeps the invariant: by induction on the rounds.
LEMMA BegunKeeps ==
  ASSUME NEW T, IsGood(T), NEW U \in Begun(T)
  PROVE  IsGood(U) /\ OnlyAdds(T, U)
<1>1. PICK deeper : IsDeepening(deeper, T, Depth) /\ Begun(T) = deeper[Depth]
  BY BegunIsDeepening
<1>2. \A n \in 0 .. Depth : deeper[n] = IF n = 0 THEN {T} ELSE Deeper(deeper[n - 1])
  BY <1>1 DEF IsDeepening
<1> DEFINE S == {n \in Nat : n \in 0 .. Depth =>
                               \A V \in deeper[n] : IsGood(V) /\ OnlyAdds(T, V)}
<1>3. 0 \in S
  <2>1. OnlyAdds(T, T)
    BY DEF OnlyAdds, Kept
  <2>2. QED
    BY <1>2, <2>1, ReducerAssumption
<1>4. ASSUME NEW n \in Nat, n \in S
      PROVE  n + 1 \in S
  <2>1. SUFFICES ASSUME n + 1 \in 0 .. Depth, NEW V \in deeper[n + 1]
                 PROVE  IsGood(V) /\ OnlyAdds(T, V)
    OBVIOUS
  <2>2. n \in 0 .. Depth /\ n + 1 # 0 /\ n + 1 - 1 = n
    <3>1. Depth \in Nat
      BY ReducerAssumption
    <3>2. QED
      BY <2>1, <3>1
  <2>3. V \in Deeper(deeper[n])
    BY <1>2, <2>1, <2>2
  <2>4. PICK W \in deeper[n] : V \in Begin(W)
    BY <2>3 DEF Deeper
  <2>5. IsGood(W) /\ OnlyAdds(T, W)
    BY <1>4, <2>2
  <2>6. IsGood(V) /\ OnlyAdds(W, V)
    BY <2>4, <2>5, BeginKeeps
  <2>7. QED
    BY <2>5, <2>6, OnlyAddsTransitive
<1>5. Nat \subseteq S
  <2> HIDE DEF S
  <2>1. QED
    BY <1>3, <1>4, SetInduction
<1>6. Depth \in S /\ Depth \in 0 .. Depth
  <2> HIDE DEF S
  <2>1. Depth \in Nat
    BY ReducerAssumption
  <2>2. QED
    BY <1>5, <2>1
<1>7. QED
  BY <1>1, <1>6

-----------------------------------------------------------------------------
(* The inductive invariant, and what follows from it *)

\* The outermost call is that of the reducer chosen, on the input.
IsOutermost(t) == t.reducer = Roots[chosen] /\ t.value = input

\* The inductive invariant.
ResolveInv ==
  /\ chosen \in DOMAIN Roots
  /\ input \in Inputs
  /\ IsGood(task)
  /\ IsOutermost(task[<<>>])

\* A resolution starts with the outermost call.
LEMMA StartIsGood ==
  ASSUME NEW c \in DOMAIN Roots, NEW v
  PROVE  IsGood([p \in {<<>>} |-> Task(To(Roots[c], v))])
<1> DEFINE call == To(Roots[c], v)
           T == [p \in {<<>>} |-> Task(call)]
<1>1. IsReducer(call.reducer) /\ call.reducer \in Range(Roots)
  <2>1. Roots[c] \in Reducer /\ Roots[c] \in Range(Roots)
    <3>1. Roots \in Seq(Reducer)
      BY ReducerAssumption
    <3>2. QED
      BY <3>1 DEF Range
  <2>2. QED
    BY <2>1 DEF IsReducer, To
<1>2. call.reducer.type = "ReducerList" => 0 <= Len(call.reducer.of)
  <2>1. SUFFICES ASSUME call.reducer.type = "ReducerList" PROVE 0 <= Len(call.reducer.of)
    OBVIOUS
  <2>2. call.reducer.of \in Seq(Reducer)
    BY <1>1, <2>1, ReducerAssumption DEF IsReducer
  <2>3. QED
    BY <2>2, LenProperties
<1> HIDE DEF call
<1>3. /\ IsTask(Task(call)) /\ Task(call).calls = 0 /\ Task(call).result = Pending
      /\ Task(call).reducer \in Range(Roots)
  BY <1>1, <1>2 DEF Task, IsTask
<1>4. DOMAIN T = {<<>>} /\ T[<<>>] = Task(call)
  OBVIOUS
<1> HIDE DEF T
<1>5. IsTree(T)
  BY <1>3, <1>4 DEF IsTree
<1>6. IsSound(T, <<>>)
  BY <1>3, <1>4 DEF IsSound, Asked, Before, FirstHolds, Left, IsOk, Pending
<1>7. IsGood(T)
  BY <1>4, <1>5, <1>6 DEF IsGood
<1>8. QED
  BY <1>7 DEF T, call

\* The outermost call, and what it starts with it, satisfy the invariant.
LEMMA ResolveInit ==
  Init => ResolveInv
<1> SUFFICES ASSUME Init PROVE ResolveInv
  OBVIOUS
<1> DEFINE call == To(Roots[chosen], input)
           T == [p \in {<<>>} |-> Task(call)]
<1>1. IsGood(T) /\ task \in Begun(T)
  BY StartIsGood DEF Init
<1>2. DOMAIN T = {<<>>} /\ T[<<>>] = Task(call)
  OBVIOUS
<1> HIDE DEF T
<1>3. IsGood(task) /\ OnlyAdds(T, task)
  BY <1>1, BegunKeeps
<1>4. IsOutermost(task[<<>>])
  <2>1. Kept(T, task, <<>>)
    BY <1>2, <1>3 DEF OnlyAdds
  <2>2. Task(call).reducer = Roots[chosen] /\ Task(call).value = input
    BY DEF Task, To
  <2>3. QED
    BY <1>2, <2>1, <2>2 DEF Kept, IsOutermost
<1>5. QED
  BY <1>3, <1>4 DEF Init, ResolveInv

\* A default makes no promise unsettled.
LEMMA DefaultIsOutcome ==
  ASSUME NEW r, NEW o, IsOutcome(o)
  PROVE  IsOutcome(WithDefaultOf(r, o))
BY DEF WithDefaultOf, IsOutcome, IsOk, Ok

\* A task that settles leaves the outermost call what it is.
LEMMA SettledOutermost ==
  ASSUME ResolveInv, NEW p \in DOMAIN task, NEW o, task' = Settled(task, p, o),
         UNCHANGED <<chosen, input>>
  PROVE  IsOutermost(task[<<>>])'
<1>1. IsTree(task) /\ <<>> \in DOMAIN task
  BY DEF ResolveInv, IsGood, IsTree
<1>2. task'[<<>>].reducer = task[<<>>].reducer /\ task'[<<>>].value = task[<<>>].value
  BY <1>1, SettledIs
<1>3. QED
  BY <1>2 DEF ResolveInv, IsOutermost

\* A task that goes on keeps the invariant: it only adds calls, or settles.
LEMMA ResumeKeeps ==
  ASSUME ResolveInv, NEW p \in DOMAIN task, Resume(p)
  PROVE  /\ ResolveInv'
         /\ \/ OnlyAdds(task, task')
            \/ LET next == Resolve(task[p].reducer, task[p].value, Got(task, p))
               IN  /\ AllAccepted(task[p].reducer, task[p].calls, Got(task, p))
                   /\ next.result # Pending
                   /\ task' = Settled(task, p, WithDefaultOf(task[p].reducer, next.result))
<1> DEFINE r == task[p].reducer
           got == Got(task, p)
           n == task[p].calls
           next == Resolve(r, task[p].value, got)
<1>1. /\ task[p].result = Pending
      /\ \A i \in DOMAIN got : Accepts(r, got[i])
      /\ IF next.result = Pending THEN task' \in Begun(Calling(task, [q \in {p} |-> next.calls]))
         ELSE task' = [task EXCEPT ![p].result = WithDefaultOf(r, next.result)]
      /\ UNCHANGED <<chosen, input>>
  BY DEF Resume
<1>2. IsTask(task[p]) /\ n \in Nat /\ IsReducer(r)
  BY DEF ResolveInv, IsGood, IsTree, IsTask
<1>3. AllAccepted(r, n, got)
  BY <1>1 DEF AllAccepted, Got
<1> HIDE DEF next
<1>4. IsNextOf(r, task[p].value, n, got, next)
  <2>1. r.type = "ReducerList" => n <= Len(r.of)
    BY <1>2 DEF IsTask
  <2>2. QED
    BY <1>2, <1>3, <2>1, ResolveIsNext DEF next
<1>5. CASE next.result = Pending
  <2> DEFINE calls == [q \in {p} |-> next.calls]
  <2>1. DOMAIN calls = {p} /\ calls[p] = next.calls
    OBVIOUS
  <2> HIDE DEF calls
  <2>2. Ready(task, p, calls[p])
    BY <1>1, <1>3, <1>4, <2>1 DEF Ready, next
  <2>3. IsGood(Calling(task, calls)) /\ OnlyAdds(task, Calling(task, calls))
    BY <2>1, <2>2, CallingKeeps DEF ResolveInv
  <2>4. task' \in Begun(Calling(task, calls))
    BY <1>1, <1>5 DEF calls
  <2>5. IsGood(task') /\ OnlyAdds(Calling(task, calls), task')
    BY <2>3, <2>4, BegunKeeps
  <2>6. OnlyAdds(task, task')
    BY <2>3, <2>5, OnlyAddsTransitive
  <2>7. IsOutermost(task[<<>>])'
    BY <1>1, <2>6 DEF ResolveInv, IsOutermost, OnlyAdds, Kept, IsGood, IsTree
  <2>8. QED
    BY <1>1, <2>5, <2>6, <2>7 DEF ResolveInv
<1>6. CASE next.result # Pending
  <2> DEFINE o == WithDefaultOf(r, next.result)
  <2>1. IsOutcome(next.result)
    BY <1>4, <1>6 DEF IsNextOf, IsNext
  <2>2. IsOutcome(o)
    BY <2>1, DefaultIsOutcome
  <2>3. task' = Settled(task, p, o)
    BY <1>1, <1>6 DEF Settled
  <2>4. \A i \in 1 .. n : Accepts(r, Out(task, p, i)) /\ Out(task, p, i) # Pending
    <3>1. \A i \in 1 .. n : Accepts(r, Out(task, p, i))
      BY <1>1 DEF Got, Out
    <3>2. ~Accepts(r, Pending)
      BY DEF Accepts, IsOk, IsError, Pending
    <3>3. QED
      BY <3>1, <3>2
  <2> HIDE DEF o
  <2>5. IsGood(Settled(task, p, o))
    BY <1>1, <2>2, <2>4, SettleKeeps DEF ResolveInv
  <2>6. IsOutermost(task[<<>>])'
    BY <1>1, <2>3, SettledOutermost
  <2>7. QED
    BY <1>1, <1>3, <1>6, <2>3, <2>5, <2>6 DEF ResolveInv, next, o
<1>7. QED
  BY <1>5, <1>6

\* A task that fails with one of its calls keeps the invariant.
LEMMA RejectKeeps ==
  ASSUME ResolveInv, NEW p \in DOMAIN task, Reject(p)
  PROVE  ResolveInv'
<1>1. PICK i \in Failures(Got(task, p)) : task' = Settled(task, p, Got(task, p)[i])
  BY DEF Reject, Settled
<1> DEFINE o == Got(task, p)[i]
<1>2. i \in 1 .. task[p].calls /\ o = Out(task, p, i) /\ IsError(o)
  BY DEF Failures, Got, Out
<1>3. task[p].result = Pending /\ UNCHANGED <<chosen, input>>
  BY DEF Reject
<1> HIDE DEF o
<1>4. IsOutcome(o) /\ ~IsOk(o)
  BY <1>2 DEF IsOutcome, IsOk, IsError
<1>5. IsGood(Settled(task, p, o))
  BY <1>2, <1>3, <1>4, SettleKeeps DEF ResolveInv
<1>6. IsOutermost(task[<<>>])'
  BY <1>1, <1>3, SettledOutermost
<1>7. QED
  BY <1>1, <1>3, <1>5, <1>6 DEF ResolveInv, o

\* The tasks of every resolution satisfy the inductive invariant.
THEOREM ResolveInvariant ==
  Spec => []ResolveInv
<1>1. ResolveInv /\ [Next]_vars => ResolveInv'
  <2> SUFFICES ASSUME ResolveInv, [Next]_vars PROVE ResolveInv'
    OBVIOUS
  <2>1. CASE \E p \in DOMAIN task : Resume(p) \/ Reject(p)
    BY <2>1, ResumeKeeps, RejectKeeps
  <2>2. CASE UNCHANGED vars
    BY <2>2 DEF vars, ResolveInv, IsOutermost
  <2>3. QED
    BY <2>1, <2>2 DEF Next
<1>2. QED
  BY ResolveInit, <1>1, PTL DEF Spec

\* The outcomes that a task sees are those of its calls.
LEMMA GotIsOut ==
  ASSUME ResolveInv, NEW p \in DOMAIN task
  PROVE  /\ task[p].calls \in Nat
         /\ Len(Got(task, p)) = task[p].calls
         /\ DOMAIN Got(task, p) = 1 .. task[p].calls
         /\ \A i \in 1 .. task[p].calls : Got(task, p)[i] = Out(task, p, i)
<1> DEFINE got == Got(task, p)
<1>1. task[p].calls \in Nat
  BY DEF ResolveInv, IsGood, IsTree, IsTask
<1>2. got = [i \in 1 .. task[p].calls |-> got[i]]
  BY DEF Got
<1>3. DOMAIN got = 1 .. task[p].calls /\ \A i \in 1 .. task[p].calls : got[i] = Out(task, p, i)
  BY DEF Got, Out
<1> HIDE DEF got
<1>4. Len(got) = task[p].calls
  BY <1>1, <1>2, SeqFunction
<1>5. QED
  BY <1>1, <1>3, <1>4 DEF got

\* The calls of resolveReducer make a tree, in which the calls of each are numbered
\* without gaps: no call takes the place of another, and each has a caller that made it.
THEOREM TypeCorrect ==
  Spec => []TypeOK
<1>1. ResolveInv => TypeOK
  <2> SUFFICES ASSUME ResolveInv PROVE TypeOK
    OBVIOUS
  <2>1. IsTree(task) /\ chosen \in DOMAIN Roots /\ input \in Inputs
    BY DEF ResolveInv, IsGood
  <2>2. \A p \in DOMAIN task : task[p].result[1] \in {"pending", "ok", "throws"}
    BY <2>1 DEF IsTree, IsTask, IsOutcome, IsOk, IsError, Pending
  <2>3. \A p \in DOMAIN task : task[p].calls \in Nat
    BY <2>1 DEF IsTree, IsTask
  <2>4. QED
    BY <2>1, <2>2, <2>3 DEF TypeOK, IsTree
<1>2. QED
  BY <1>1, ResolveInvariant, PTL

\* Where the code awaits in a loop, a call starts only when the one before it has settled,
\* and none after one that has failed and is not caught: for any nesting of reducers,
\* whatever else is under way, and whatever the functions and servers answer.
THEOREM CallsInTurn ==
  Spec => []InTurn
<1>1. ResolveInv => InTurn
  <2> SUFFICES ASSUME ResolveInv, NEW p \in DOMAIN task, Sequential(task[p].reducer),
                      NEW i \in 1 .. task[p].calls - 1
               PROVE  Accepts(task[p].reducer, Got(task, p)[i])
    BY DEF InTurn
  <2>1. Accepts(task[p].reducer, Out(task, p, i))
    BY DEF ResolveInv, IsGood, IsSound, Before
  <2>2. i \in 1 .. task[p].calls
    BY GotIsOut
  <2>3. Got(task, p)[i] = Out(task, p, i)
    BY <2>2, GotIsOut
  <2>4. QED
    BY <2>1, <2>3
<1>2. QED
  BY <1>1, ResolveInvariant, PTL

\* find tries no item after the first that matches; a control entity evaluates no case
\* after the first that holds, and then calls the do of that case.
THEOREM NothingNeedless ==
  Spec => []NoNeedlessCalls
<1>1. ResolveInv => NoNeedlessCalls
  <2> SUFFICES ASSUME ResolveInv PROVE NoNeedlessCalls
    OBVIOUS
  <2>1. ASSUME NEW p \in DOMAIN task, NEW got, got = Got(task, p), NEW r, r = task[p].reducer
        PROVE  /\ r.type = "find" =>
                    \A i \in 1 .. Len(got) - 1 :
                      ~(IsOk(got[i]) /\ PredicateIsTruthy(r.of, got[i][2]))
               /\ r.type = "control" =>
                    \A i \in DOMAIN got \cap DOMAIN r.of.cases :
                      IsOk(got[i]) /\ Truthy(got[i][2]) =>
                        Len(got) <= i + 1 /\ (Len(got) = i + 1 =>
                                                task[Append(p, i + 1)].reducer = r.of.dos[i])
    <3> DEFINE n == task[p].calls
    <3>1. n \in Nat /\ Len(got) = n /\ DOMAIN got = 1 .. n
      BY <2>1, GotIsOut
    <3>2. \A i \in 1 .. n : got[i] = Out(task, p, i)
      BY <2>1, GotIsOut
    <3>3. Before(task, p) /\ FirstHolds(task, p) /\ IsReducer(r)
      BY <2>1 DEF ResolveInv, IsGood, IsSound, IsTree, IsTask
    <3>4. ASSUME r.type = "find", NEW i \in 1 .. Len(got) - 1
          PROVE  ~(IsOk(got[i]) /\ PredicateIsTruthy(r.of, got[i][2]))
      <4>1. i \in 1 .. n /\ i \in 1 .. n - 1
        BY <3>1
      <4>2. QED
        BY <2>1, <3>2, <3>3, <3>4, <4>1 DEF Before
    <3>5. ASSUME r.type = "control", NEW i \in DOMAIN got \cap DOMAIN r.of.cases,
                 IsOk(got[i]), Truthy(got[i][2])
          PROVE  Len(got) <= i + 1 /\ (Len(got) = i + 1 =>
                                         task[Append(p, i + 1)].reducer = r.of.dos[i])
      <4>1. r \in Reducer
        BY <3>3, <3>5 DEF IsReducer
      <4>2. r.of.cases \in Seq(Reducer)
        BY <3>5, <4>1, ReducerAssumption
      <4>3. i \in 1 .. n /\ i <= Len(r.of.cases)
        BY <3>1, <4>2, LenProperties
      <4>4. QED
        BY <2>1, <3>1, <3>2, <3>3, <3>5, <4>3 DEF FirstHolds
    <3>6. QED
      BY <3>4, <3>5
  <2>2. QED
    BY <2>1 DEF NoNeedlessCalls
<1>2. QED
  BY <1>1, ResolveInvariant, PTL

\* A task settles before all its calls have only with the failure of one of them: what a
\* resolution without failures started has all ended when it does.
THEOREM OnlyFailureAbandons ==
  Spec => []AbandonedOnlyByFailure
<1>1. ResolveInv => AbandonedOnlyByFailure
  <2> SUFFICES ASSUME ResolveInv PROVE AbandonedOnlyByFailure
    OBVIOUS
  <2>1. ASSUME NEW p \in DOMAIN task, NEW got, got = Got(task, p),
               task[p].result # Pending, NEW i \in DOMAIN got, got[i] = Pending
        PROVE  IsError(task[p].result) /\ \E j \in DOMAIN got : got[j] = task[p].result
    <3>1. DOMAIN got = 1 .. task[p].calls /\ \A j \in 1 .. task[p].calls : got[j] = Out(task, p, j)
      BY <2>1, GotIsOut
    <3>2. Left(task, p)
      BY DEF ResolveInv, IsGood, IsSound
    <3>3. QED
      BY <2>1, <3>1, <3>2 DEF Left
  <2>2. QED
    BY <2>1 DEF AbandonedOnlyByFailure
<1>2. QED
  BY <1>1, ResolveInvariant, PTL

-----------------------------------------------------------------------------
(* The trace *)

\* The prefixes of a path.
LEMMA PrefixFacts ==
  ASSUME NEW p \in Seq(Nat \ {0})
  PROVE  /\ Len(p) \in Nat
         /\ SubSeq(p, 1, 0) = <<>>
         /\ SubSeq(p, 1, Len(p)) = p
         /\ p # <<>> => Len(p) # 0 /\ Front(p) = SubSeq(p, 1, Len(p) - 1)
         /\ \A n \in 0 .. Len(p) : /\ SubSeq(p, 1, n) \in Seq(Nat \ {0})
                                   /\ Len(SubSeq(p, 1, n)) = n
                                   /\ \A i \in 1 .. n : SubSeq(p, 1, n)[i] = p[i]
<1>1. Len(p) \in Nat
  OBVIOUS
<1>2. SubSeq(p, 1, 0) = <<>>
  BY SubSeqEmpty
<1>3. SubSeq(p, 1, Len(p)) = p
  BY SubSeqFull
<1>4. p # <<>> => Len(p) # 0 /\ Front(p) = SubSeq(p, 1, Len(p) - 1)
  BY DEF Front
<1>5. ASSUME NEW n \in 0 .. Len(p)
      PROVE  /\ SubSeq(p, 1, n) \in Seq(Nat \ {0})
             /\ Len(SubSeq(p, 1, n)) = n
             /\ \A i \in 1 .. n : SubSeq(p, 1, n)[i] = p[i]
  <2>1. \A i \in 1 .. n : p[i] \in Nat \ {0}
    BY <1>1
  <2>2. n \in Int /\ 1 \in Int
    BY <1>1
  <2>3. /\ SubSeq(p, 1, n) \in Seq(Nat \ {0})
        /\ Len(SubSeq(p, 1, n)) = IF 1 <= n THEN n - 1 + 1 ELSE 0
        /\ \A i \in 1 .. n - 1 + 1 : SubSeq(p, 1, n)[i] = p[1 + i - 1]
    BY <2>1, <2>2, SubSeqProperties
  <2>4. Len(SubSeq(p, 1, n)) = n
    BY <1>1, <2>3
  <2>5. \A i \in 1 .. n : i \in 1 .. n - 1 + 1 /\ 1 + i - 1 = i
    BY <1>1
  <2>6. \A i \in 1 .. n : SubSeq(p, 1, n)[i] = p[i]
    BY <2>3, <2>5
  <2>7. QED
    BY <2>3, <2>4, <2>6
<1>6. QED
  BY <1>1, <1>2, <1>3, <1>4, <1>5

\* A prefix of a prefix.
LEMMA PrefixOfPrefix ==
  ASSUME NEW p \in Seq(Nat \ {0}), NEW n \in 0 .. Len(p), NEW k \in 0 .. n
  PROVE  SubSeq(SubSeq(p, 1, n), 1, k) = SubSeq(p, 1, k)
<1> DEFINE q == SubSeq(p, 1, n)
<1>1. Len(p) \in Nat /\ k \in 0 .. Len(p)
  OBVIOUS
<1>2. q \in Seq(Nat \ {0}) /\ Len(q) = n /\ \A i \in 1 .. n : q[i] = p[i]
  BY PrefixFacts
<1> HIDE DEF q
<1>3. /\ SubSeq(q, 1, k) \in Seq(Nat \ {0}) /\ Len(SubSeq(q, 1, k)) = k
      /\ \A i \in 1 .. k : SubSeq(q, 1, k)[i] = q[i]
  BY <1>2, PrefixFacts
<1>4. /\ SubSeq(p, 1, k) \in Seq(Nat \ {0}) /\ Len(SubSeq(p, 1, k)) = k
      /\ \A i \in 1 .. k : SubSeq(p, 1, k)[i] = p[i]
  BY <1>1, PrefixFacts
<1>5. \A i \in 1 .. k : SubSeq(q, 1, k)[i] = SubSeq(p, 1, k)[i]
  BY <1>1, <1>2, <1>3, <1>4
<1>6. SubSeq(q, 1, k) = SubSeq(p, 1, k)
  BY <1>3, <1>4, <1>5, SeqEqual
<1>7. QED
  BY <1>6 DEF q

\* The calls that led to a call are among the tasks.
LEMMA PrefixIsTask ==
  ASSUME ResolveInv, NEW p \in DOMAIN task, NEW n \in 0 .. Len(p)
  PROVE  SubSeq(p, 1, n) \in DOMAIN task
<1> DEFINE S == {k \in Nat : k <= Len(p) => SubSeq(p, 1, Len(p) - k) \in DOMAIN task}
<1>1. IsTree(task) /\ p \in Seq(Nat \ {0}) /\ Len(p) \in Nat
  BY PrefixFacts DEF ResolveInv, IsGood, IsTree
<1>2. 0 \in S
  <2>1. SubSeq(p, 1, Len(p)) = p /\ Len(p) - 0 = Len(p)
    BY <1>1, PrefixFacts
  <2>2. QED
    BY <2>1
<1>3. ASSUME NEW k \in Nat, k \in S PROVE k + 1 \in S
  <2>1. SUFFICES ASSUME k + 1 <= Len(p)
                 PROVE  SubSeq(p, 1, Len(p) - (k + 1)) \in DOMAIN task
    OBVIOUS
  <2> DEFINE m == Len(p) - k
             q == SubSeq(p, 1, m)
  <2>2. q \in DOMAIN task
    BY <1>1, <1>3, <2>1
  <2>3. m \in 0 .. Len(p) /\ m # 0 /\ m - 1 \in 0 .. m /\ Len(p) - (k + 1) = m - 1
    BY <1>1, <2>1
  <2> HIDE DEF m
  <2>4. q \in Seq(Nat \ {0}) /\ Len(q) = m
    BY <1>1, <2>3, PrefixFacts
  <2>5. q # <<>>
    BY <2>3, <2>4
  <2>6. Front(q) = SubSeq(q, 1, m - 1)
    BY <2>4, <2>5, PrefixFacts
  <2>7. Front(q) = SubSeq(p, 1, m - 1)
    BY <1>1, <2>3, <2>6, PrefixOfPrefix
  <2>8. Front(q) \in DOMAIN task
    BY <1>1, <2>2, <2>5 DEF IsTree
  <2>9. QED
    BY <2>3, <2>7, <2>8
<1> HIDE DEF S
<1>4. Nat \subseteq S
  BY <1>2, <1>3, SetInduction
<1>5. Len(p) - n \in Nat /\ Len(p) - n <= Len(p) /\ Len(p) - (Len(p) - n) = n
  BY <1>1
<1>6. QED
  BY <1>4, <1>5 DEF S

\* A set of numbers with a bound has a greatest one, which is what Max is.
LEMMA GreatestNumber ==
  ASSUME NEW m \in Nat, NEW S, S \subseteq 0 .. m, S # {}
  PROVE  Max(S) \in S /\ \A n \in S : n <= Max(S)
<1> DEFINE R == {m - n : n \in S}
<1>1. R \subseteq Nat /\ R # {}
  OBVIOUS
<1>2. PICK least \in R : \A k \in R : ~(k < least)
  <2> HIDE DEF R
  <2>1. QED
    BY <1>1, LeastNumber
<1>3. PICK top \in S : least = m - top
  OBVIOUS
<1>4. \A n \in S : m - n \in R /\ n \in Nat /\ n <= m
  OBVIOUS
<1>5. ASSUME NEW n \in S PROVE n <= top
  <2>1. ~(m - n < m - top)
    <3> HIDE DEF R
    <3>1. m - n \in R
      BY <1>4
    <3>2. QED
      BY <1>2, <1>3, <3>1
  <2>2. n \in Nat /\ top \in Nat
    BY <1>4
  <2>3. QED
    BY <2>1, <2>2
<1>6. \E x \in S : \A y \in S : x >= y
  BY <1>4, <1>5
<1>7. Max(S) = CHOOSE x \in S : \A y \in S : x >= y
  BY Zenon DEF Max
<1>8. Max(S) \in S /\ \A n \in S : Max(S) >= n
  BY <1>6, <1>7, Zenon
<1>9. QED
  BY <1>4, <1>8

\* The outermost call has a node.
LEMMA RootIsTraced ==
  ASSUME ResolveInv
  PROVE  <<>> \in Traced
<1>1. <<>> \in DOMAIN task /\ task[<<>>].reducer \in Range(Roots)
  BY DEF ResolveInv, IsGood, IsTree
<1>2. task[<<>>].reducer.type \notin EntityParts
  BY <1>1, RootsAssumption DEF Range
<1>3. QED
  BY <1>1, <1>2 DEF Traced, IsTraced, IsSkippedItem

\* The calls above p.
LEMMA AboveIs ==
  ASSUME NEW p \in Seq(Nat \ {0})
  PROVE  Above(p) = {SubSeq(p, 1, n) : n \in 0 .. Len(p) - 1}
<1> DEFINE len == Len(p)
<1>1. len \in Nat /\ SubSeq(p, 1, len) = p
  BY PrefixFacts
<1>2. \A n \in 0 .. len : Len(SubSeq(p, 1, n)) = n
  BY PrefixFacts
<1>3. Above(p) = {SubSeq(p, 1, n) : n \in 0 .. len} \ {p}
  BY DEF Above, WayTo
<1> HIDE DEF len
<1>4. 0 .. len = 0 .. len - 1 \cup {len} /\ \A n \in 0 .. len - 1 : n # len
  BY <1>1
<1>5. \A n \in 0 .. len - 1 : SubSeq(p, 1, n) # p
  BY <1>1, <1>2, <1>4
<1>6. Above(p) = {SubSeq(p, 1, n) : n \in 0 .. len - 1}
  BY <1>1, <1>3, <1>4, <1>5
<1>7. QED
  BY <1>6 DEF len

\* The node above that of p is that of the nearest call above which has one.
LEMMA ParentIsNearest ==
  ASSUME ResolveInv, NEW p \in Traced, p # <<>>
  PROVE  \E m \in 0 .. Len(p) - 1 :
           /\ createTracedAccumulator(p).parent = SubSeq(p, 1, m)
           /\ SubSeq(p, 1, m) \in Traced
           /\ \A n \in 0 .. Len(p) - 1 : SubSeq(p, 1, n) \in Traced => n <= m
<1>1. p \in DOMAIN task /\ p \in Seq(Nat \ {0}) /\ Len(p) \in Nat \ {0}
  <2>1. p \in DOMAIN task /\ p \in Seq(Nat \ {0})
    BY DEF Traced, ResolveInv, IsGood, IsTree
  <2>2. QED
    BY <2>1, PrefixFacts
<1> DEFINE q == Front(p)
           len == Len(p) - 1
           traced == {n \in 0 .. Len(q) : IsTraced(SubSeq(q, 1, n))}
<1>2. len \in 0 .. Len(p) /\ q = SubSeq(p, 1, len)
  BY <1>1, PrefixFacts
<1>3. Len(q) = len
  BY <1>1, <1>2, PrefixFacts
<1>4. createTracedAccumulator(p).parent = AccumulatorNode(q)
  BY DEF createTracedAccumulator
<1>5. \A n \in 0 .. len : /\ SubSeq(q, 1, n) = SubSeq(p, 1, n)
                          /\ SubSeq(p, 1, n) \in DOMAIN task
  <2>1. \A n \in 0 .. len : n \in 0 .. Len(p)
    BY <1>1
  <2>2. QED
    BY <1>1, <1>2, <2>1, PrefixOfPrefix, PrefixIsTask
<1>6. len \in Nat /\ 0 \in 0 .. len
  BY <1>1
<1> HIDE DEF len
<1>7. traced \subseteq 0 .. len /\ \A n \in 0 .. len : n \in traced <=> SubSeq(p, 1, n) \in Traced
  BY <1>3, <1>5 DEF Traced
<1>8. 0 \in traced
  <2>1. SubSeq(p, 1, 0) = <<>>
    BY <1>1, PrefixFacts
  <2>2. QED
    BY <1>6, <1>7, <2>1, RootIsTraced
<1>9. AccumulatorNode(q) = SubSeq(q, 1, Max(traced))
  BY <1>8, Zenon DEF AccumulatorNode
<1> HIDE DEF traced, q
<1>10. Max(traced) \in traced /\ \A n \in traced : n <= Max(traced)
  BY <1>6, <1>7, <1>8, GreatestNumber
<1>11. Max(traced) \in 0 .. len
  BY <1>7, <1>10
<1>12. SubSeq(q, 1, Max(traced)) = SubSeq(p, 1, Max(traced))
  BY <1>5, <1>11
<1>13. SubSeq(p, 1, Max(traced)) \in Traced
  BY <1>7, <1>10, <1>11
<1>14. \A n \in 0 .. len : SubSeq(p, 1, n) \in Traced => n <= Max(traced)
  BY <1>7, <1>10
<1>15. QED
  BY <1>4, <1>9, <1>11, <1>12, <1>13, <1>14 DEF len

\* NoNode is the path of no call.
LEMMA NoNodeIsNoPath == NoNode \notin Seq(Nat \ {0})
<1>1. Len(NoNode) = 1 /\ NoNode[1] = 0
  BY DEF NoNode
<1>2. ASSUME NEW s \in Seq(Nat \ {0}), Len(s) = 1 PROVE s[1] \in Nat \ {0}
  BY <1>2
<1>3. QED
  BY <1>1, <1>2

\* How many calls above p have a node.
Nesting(p) == Cardinality(Above(p) \cap Traced)

\* It is no more than there are calls above p.
LEMMA NestingIs ==
  ASSUME NEW p \in Seq(Nat \ {0})
  PROVE  /\ IsFiniteSet(Above(p) \cap Traced)
         /\ Nesting(p) \in Nat
         /\ Nesting(p) <= Len(p)
<1> DEFINE len == Len(p)
           f == [n \in 0 .. len - 1 |-> SubSeq(p, 1, n)]
<1>1. len \in Nat
  BY PrefixFacts
<1>2. Above(p) = {SubSeq(p, 1, n) : n \in 0 .. len - 1}
  BY AboveIs
<1> HIDE DEF len
<1>3. IsFiniteSet(0 .. len - 1) /\ Cardinality(0 .. len - 1) = len
  <2>1. /\ IsFiniteSet(0 .. len - 1)
        /\ Cardinality(0 .. len - 1) = IF 0 > len - 1 THEN 0 ELSE len - 1 - 0 + 1
    BY <1>1, FS_Interval
  <2>2. QED
    BY <1>1, <2>1
<1>4. f \in Surjection(0 .. len - 1, Above(p))
  BY <1>2 DEF Surjection
<1>5. IsFiniteSet(Above(p)) /\ Cardinality(Above(p)) <= len
  <2> HIDE DEF f
  <2>1. QED
    BY <1>3, <1>4, FS_Surjection
<1>6. /\ IsFiniteSet(Above(p) \cap Traced)
      /\ Cardinality(Above(p) \cap Traced) <= Cardinality(Above(p))
  BY <1>5, FS_Subset
<1>7. Cardinality(Above(p) \cap Traced) \in Nat /\ Cardinality(Above(p)) \in Nat
  BY <1>5, <1>6, FS_CardinalityType
<1>8. QED
  BY <1>1, <1>5, <1>6, <1>7 DEF Nesting, len

\* Only the outermost call has no node above its own.
LEMMA NestingOfRoot ==
  ASSUME ResolveInv
  PROVE  /\ Nesting(<<>>) = 0
         /\ \A p \in Traced : p # <<>> => Nesting(p) # 0
<1>1. Nesting(<<>>) = 0
  <2>1. <<>> \in Seq(Nat \ {0}) /\ Len(<<>>) = 0
    OBVIOUS
  <2>2. Nesting(<<>>) \in Nat /\ Nesting(<<>>) <= 0
    BY <2>1, NestingIs
  <2>3. QED
    BY <2>2
<1>2. ASSUME NEW p \in Traced, p # <<>> PROVE Nesting(p) # 0
  <2>1. p \in Seq(Nat \ {0})
    BY DEF Traced, ResolveInv, IsGood, IsTree
  <2>2. SubSeq(p, 1, 0) = <<>> /\ Len(p) \in Nat /\ Len(p) # 0
    BY <1>2, <2>1, PrefixFacts
  <2>3. <<>> \in Above(p)
    <3>1. Above(p) = {SubSeq(p, 1, n) : n \in 0 .. Len(p) - 1}
      BY <2>1, AboveIs
    <3>2. 0 \in 0 .. Len(p) - 1
      BY <2>2
    <3>3. QED
      BY <2>2, <3>1, <3>2
  <2>4. Above(p) \cap Traced # {}
    BY <2>3, RootIsTraced
  <2>5. QED
    BY <2>1, <2>4, NestingIs, FS_EmptySet DEF Nesting
<1>3. QED
  BY <1>1, <1>2

\* A node lies one level below its parent.
LEMMA NestingOfParent ==
  ASSUME ResolveInv, NEW p \in Traced, p # <<>>
  PROVE  \E q \in Traced : /\ createTracedAccumulator(p).parent = q
                           /\ Nesting(p) = Nesting(q) + 1
<1>1. p \in Seq(Nat \ {0}) /\ Len(p) \in Nat
  BY PrefixFacts DEF Traced, ResolveInv, IsGood, IsTree
<1>2. PICK m \in 0 .. Len(p) - 1 :
        /\ createTracedAccumulator(p).parent = SubSeq(p, 1, m)
        /\ SubSeq(p, 1, m) \in Traced
        /\ \A n \in 0 .. Len(p) - 1 : SubSeq(p, 1, n) \in Traced => n <= m
  BY ParentIsNearest
<1> DEFINE q == SubSeq(p, 1, m)
           len == Len(p)
<1>3. Above(p) = {SubSeq(p, 1, n) : n \in 0 .. len - 1}
  BY <1>1, AboveIs
<1>4. m \in 0 .. len /\ m \in Nat /\ len \in Nat /\ m <= len - 1
  BY <1>1
<1>5. q \in Seq(Nat \ {0}) /\ Len(q) = m
  BY <1>1, <1>4, PrefixFacts
<1>6. Above(q) = {SubSeq(q, 1, n) : n \in 0 .. m - 1}
  BY <1>5, AboveIs
<1>7. \A n \in 0 .. m - 1 : SubSeq(q, 1, n) = SubSeq(p, 1, n)
  <2>1. \A n \in 0 .. m - 1 : n \in 0 .. m
    BY <1>4
  <2>2. QED
    BY <1>1, <1>4, <2>1, PrefixOfPrefix
<1>8. Above(q) = {SubSeq(p, 1, n) : n \in 0 .. m - 1}
  BY <1>6, <1>7
<1>9. \A n \in 0 .. len - 1 : SubSeq(p, 1, n) \in Traced => n \in 0 .. m - 1 \/ n = m
  <2>1. ASSUME NEW n \in 0 .. len - 1, SubSeq(p, 1, n) \in Traced
        PROVE  n \in 0 .. m - 1 \/ n = m
    <3>1. n <= m
      BY <1>2, <2>1
    <3> HIDE DEF len
    <3>2. QED
      BY <1>4, <3>1
  <2>2. QED
    BY <2>1
<1>10. \A n \in 0 .. m - 1 : n \in 0 .. len - 1
  <2> HIDE DEF len
  <2>1. QED
    BY <1>4
<1>11. m \in 0 .. len - 1 /\ q \in Traced
  BY <1>2
<1>12. Above(p) \cap Traced = (Above(q) \cap Traced) \cup {q}
  <2>1. ASSUME NEW x \in Above(p) \cap Traced PROVE x \in (Above(q) \cap Traced) \cup {q}
    <3>1. PICK n \in 0 .. len - 1 : x = SubSeq(p, 1, n)
      BY <1>3
    <3>2. n \in 0 .. m - 1 \/ n = m
      BY <1>9, <3>1
    <3> HIDE DEF len
    <3>3. QED
      BY <1>8, <3>1, <3>2
  <2>2. (Above(q) \cap Traced) \cup {q} \subseteq Above(p) \cap Traced
    <3> HIDE DEF len
    <3>1. Above(q) \subseteq Above(p)
      BY <1>3, <1>8, <1>10
    <3>2. q \in Above(p)
      BY <1>3, <1>11
    <3>3. QED
      BY <1>11, <3>1, <3>2
  <2>3. QED
    BY <2>1, <2>2
<1>13. q \notin Above(q)
  BY DEF Above
<1> HIDE DEF q
<1>14. Cardinality((Above(q) \cap Traced) \cup {q}) = Cardinality(Above(q) \cap Traced) + 1
  BY <1>5, <1>13, NestingIs, FS_AddElement
<1>15. QED
  BY <1>2, <1>11, <1>12, <1>14 DEF Nesting, q

\* The nodes with n above them.
Nested(n) == {createTracedAccumulator(p) : p \in {q \in Traced : Nesting(q) = n}}

\* The root alone has none.
LEMMA RootIsNested ==
  ASSUME ResolveInv
  PROVE  Nested(0) = {createTracedAccumulator(<<>>)}
<1>1. \A p \in Traced : Nesting(p) = 0 <=> p = <<>>
  BY NestingOfRoot
<1>2. QED
  BY <1>1, RootIsTraced DEF Nested

\* One level of the tree.
ChildrenOf(nodes) == UNION {{child \in traceGraph : child.parent = node.id} : node \in nodes}

\* The children of the nodes with n above them are those with one more.
LEMMA ChildrenAreNested ==
  ASSUME ResolveInv, NEW n \in Nat
  PROVE  ChildrenOf(Nested(n)) = Nested(n + 1)
<1>1. \A p : createTracedAccumulator(p).id = p
  BY DEF createTracedAccumulator
<1>2. \A p \in Traced : p \in Seq(Nat \ {0}) /\ Nesting(p) \in Nat
  <2>1. \A p \in Traced : p \in Seq(Nat \ {0})
    BY DEF Traced, ResolveInv, IsGood, IsTree
  <2>2. QED
    BY <2>1, NestingIs
<1>3. ASSUME NEW child \in ChildrenOf(Nested(n)) PROVE child \in Nested(n + 1)
  <2>1. PICK node \in Nested(n) : child \in traceGraph /\ child.parent = node.id
    BY <1>3 DEF ChildrenOf
  <2>2. PICK q \in Traced : Nesting(q) = n /\ node = createTracedAccumulator(q)
    BY <2>1 DEF Nested
  <2>3. PICK p \in Traced : child = createTracedAccumulator(p)
    BY <2>1 DEF traceGraph
  <2>4. createTracedAccumulator(p).parent = q
    BY <1>1, <2>1, <2>2, <2>3
  <2>5. p # <<>>
    <3>1. createTracedAccumulator(<<>>).parent = NoNode
      BY DEF createTracedAccumulator
    <3>2. q \in Seq(Nat \ {0})
      BY <1>2
    <3>3. NoNode \notin Seq(Nat \ {0})
      BY NoNodeIsNoPath
    <3>4. QED
      BY <2>4, <3>1, <3>2, <3>3
  <2>6. Nesting(p) = Nesting(q) + 1
    BY <2>4, <2>5, NestingOfParent
  <2>7. QED
    BY <2>2, <2>3, <2>6 DEF Nested
<1>4. ASSUME NEW child \in Nested(n + 1) PROVE child \in ChildrenOf(Nested(n))
  <2>1. PICK p \in Traced : Nesting(p) = n + 1 /\ child = createTracedAccumulator(p)
    BY <1>4 DEF Nested
  <2>2. p # <<>>
    BY <2>1, NestingOfRoot
  <2>3. PICK q \in Traced : /\ createTracedAccumulator(p).parent = q
                            /\ Nesting(p) = Nesting(q) + 1
    BY <2>2, NestingOfParent
  <2>4. Nesting(q) = n
    BY <1>2, <2>1, <2>3
  <2>5. createTracedAccumulator(q) \in Nested(n)
    BY <2>4 DEF Nested
  <2>6. child \in traceGraph /\ child.parent = createTracedAccumulator(q).id
    BY <1>1, <2>1, <2>3 DEF traceGraph
  <2>7. QED
    BY <2>5, <2>6 DEF ChildrenOf
<1>5. QED
  BY <1>3, <1>4

\* The levels of the tree up to m, as Level makes them.
IsLevels(level, root, m) ==
  level = [k \in 0 .. m |-> IF k = 0 THEN {root} ELSE ChildrenOf(level[k - 1])]

\* The nodes with n above them make the levels, so there are such.
LEMMA LevelsExist ==
  ASSUME ResolveInv, NEW m \in Nat
  PROVE  IsLevels([n \in 0 .. m |-> Nested(n)], createTracedAccumulator(<<>>), m)
<1> DEFINE root == createTracedAccumulator(<<>>)
           level == [n \in 0 .. m |-> Nested(n)]
<1>1. Nested(0) = {root}
  BY RootIsNested
<1>2. ASSUME NEW k \in 0 .. m
      PROVE  level[k] = IF k = 0 THEN {root} ELSE ChildrenOf(level[k - 1])
  <2>1. CASE k = 0
    BY <1>1, <2>1
  <2>2. CASE k # 0
    <3>1. k - 1 \in Nat /\ k - 1 \in 0 .. m /\ k - 1 + 1 = k
      BY <2>2
    <3>2. ChildrenOf(Nested(k - 1)) = Nested(k)
      BY <3>1, ChildrenAreNested
    <3>3. level[k - 1] = Nested(k - 1) /\ level[k] = Nested(k)
      BY <3>1
    <3>4. QED
      BY <2>2, <3>2, <3>3
  <2>3. QED
    BY <2>1, <2>2
<1>3. level = [k \in 0 .. m |-> level[k]]
  OBVIOUS
<1> HIDE DEF level, root
<1>4. level = [k \in 0 .. m |-> IF k = 0 THEN {root} ELSE ChildrenOf(level[k - 1])]
  BY <1>2, <1>3
<1>5. QED
  BY <1>4 DEF IsLevels, level, root

\* Level n of the tree has the nodes with n above them: by induction on the levels.
LEMMA LevelIsNested ==
  ASSUME ResolveInv, NEW m \in Nat
  PROVE  Level(createTracedAccumulator(<<>>), m) = Nested(m)
<1> DEFINE root == createTracedAccumulator(<<>>)
           L == CHOOSE level : level = [k \in 0 .. m |->
                  IF k = 0 THEN {root}
                  ELSE UNION {{child \in traceGraph : child.parent = node.id} : node \in level[k - 1]}]
<1>1. Level(root, m) = L[m]
  BY Zenon DEF Level
<1>2. PICK g : IsLevels(g, root, m)
  BY LevelsExist
<1> HIDE DEF root
<1>3. IsLevels(L, root, m)
  <2>1. g = [k \in 0 .. m |->
              IF k = 0 THEN {root}
              ELSE UNION {{child \in traceGraph : child.parent = node.id} : node \in g[k - 1]}]
    BY <1>2 DEF IsLevels, ChildrenOf
  <2>2. L = [k \in 0 .. m |->
              IF k = 0 THEN {root}
              ELSE UNION {{child \in traceGraph : child.parent = node.id} : node \in L[k - 1]}]
    BY <2>1
  <2>3. QED
    BY <2>2 DEF IsLevels, ChildrenOf
<1> HIDE DEF L
<1>4. \A k \in 0 .. m : L[k] = IF k = 0 THEN {root} ELSE ChildrenOf(L[k - 1])
  BY <1>3 DEF IsLevels
<1> DEFINE S == {k \in Nat : k <= m => L[k] = Nested(k)}
<1>5. 0 \in S
  <2>1. Nested(0) = {root}
    BY RootIsNested DEF root
  <2>2. QED
    BY <1>4, <2>1
<1>6. ASSUME NEW k \in Nat, k \in S PROVE k + 1 \in S
  <2>1. SUFFICES ASSUME k + 1 <= m PROVE L[k + 1] = Nested(k + 1)
    OBVIOUS
  <2>2. k + 1 \in 0 .. m /\ k + 1 # 0 /\ k + 1 - 1 = k
    BY <2>1
  <2>3. L[k + 1] = ChildrenOf(L[k])
    BY <1>4, <2>2
  <2>4. L[k] = Nested(k)
    BY <1>6, <2>1
  <2>5. QED
    BY <2>3, <2>4, ChildrenAreNested
<1> HIDE DEF S
<1>7. Nat \subseteq S
  BY <1>5, <1>6, SetInduction
<1>8. L[m] = Nested(m)
  BY <1>7 DEF S
<1>9. QED
  BY <1>1, <1>8 DEF root

\* The tree starts at the node of the outermost call.
LEMMA TreeStarts ==
  ASSUME ResolveInv
  PROVE  (CHOOSE node \in traceGraph : node.parent = NoNode) = createTracedAccumulator(<<>>)
<1> DEFINE root == createTracedAccumulator(<<>>)
<1>1. root \in traceGraph /\ root.parent = NoNode
  BY RootIsTraced DEF traceGraph, createTracedAccumulator
<1>2. ASSUME NEW node \in traceGraph, node.parent = NoNode PROVE node = root
  <2>1. PICK p \in Traced : node = createTracedAccumulator(p)
    BY DEF traceGraph
  <2>2. SUFFICES ASSUME p # <<>> PROVE FALSE
    BY <2>1
  <2>3. NoNode \in Traced
    BY <1>2, <2>1, <2>2, NestingOfParent
  <2>4. NoNode \in Seq(Nat \ {0})
    BY <2>3 DEF Traced, ResolveInv, IsGood, IsTree
  <2>5. QED
    BY <2>4, NoNodeIsNoPath
<1> HIDE DEF root
<1>3. QED
  BY <1>1, <1>2 DEF root

\* The tree has the nodes of all calls, each as deep as it has nodes above it.
LEMMA TreeIs ==
  ASSUME ResolveInv
  PROVE  writeTraceGraph = {[id |-> p, timed |-> Timed(p), nestingLevel |-> Nesting(p)] : p \in Traced}
<1> DEFINE root == createTracedAccumulator(<<>>)
           lengths == {Len(p) : p \in DOMAIN task}
           W(p) == [id |-> p, timed |-> Timed(p), nestingLevel |-> Nesting(p)]
<1>1. writeTraceGraph = createTree(root)
  BY TreeStarts DEF writeTraceGraph
<1>2. \A p \in DOMAIN task : p \in Seq(Nat \ {0}) /\ Len(p) \in Nat
  BY PrefixFacts DEF ResolveInv, IsGood, IsTree
<1>3. \A n \in lengths : Level(root, n) = Nested(n)
  BY <1>2, LevelIsNested
<1> HIDE DEF root
<1>4. createTree(root) =
        UNION {{[id |-> node.id, timed |-> node.timed, nestingLevel |-> n] : node \in Nested(n)} :
                 n \in lengths}
  BY <1>3 DEF createTree
<1>5. \A p : createTracedAccumulator(p).id = p /\ createTracedAccumulator(p).timed = Timed(p)
  BY DEF createTracedAccumulator
<1>6. \A p \in Traced : Nesting(p) \in lengths
  <2> TAKE p \in Traced
  <2>1. p \in DOMAIN task /\ p \in Seq(Nat \ {0}) /\ Len(p) \in Nat
    BY <1>2 DEF Traced
  <2>2. Nesting(p) \in 0 .. Len(p)
    <3>1. Nesting(p) \in Nat /\ Nesting(p) <= Len(p)
      BY <2>1, NestingIs
    <3>2. QED
      BY <2>1, <3>1
  <2>3. SubSeq(p, 1, Nesting(p)) \in DOMAIN task /\ Len(SubSeq(p, 1, Nesting(p))) = Nesting(p)
    BY <2>1, <2>2, PrefixIsTask, PrefixFacts
  <2>4. QED
    BY <2>3
<1> HIDE DEF lengths
<1>7. ASSUME NEW x \in createTree(root) PROVE x \in {W(p) : p \in Traced}
  <2>1. PICK n \in lengths : \E node \in Nested(n) :
          x = [id |-> node.id, timed |-> node.timed, nestingLevel |-> n]
    BY <1>4, <1>7
  <2>2. PICK p \in Traced : /\ Nesting(p) = n
                            /\ x = [id |-> createTracedAccumulator(p).id,
                                    timed |-> createTracedAccumulator(p).timed,
                                    nestingLevel |-> n]
    BY <2>1 DEF Nested
  <2>3. x = W(p)
    BY <1>5, <2>2
  <2>4. QED
    BY <2>3
<1>8. ASSUME NEW p \in Traced PROVE W(p) \in createTree(root)
  <2>1. createTracedAccumulator(p) \in Nested(Nesting(p))
    BY DEF Nested
  <2>2. W(p) = [id |-> createTracedAccumulator(p).id,
                      timed |-> createTracedAccumulator(p).timed,
                      nestingLevel |-> Nesting(p)]
    BY <1>5
  <2>3. Nesting(p) \in lengths
    BY <1>6
  <2>4. QED
    BY <1>4, <2>1, <2>2, <2>3
<1>9. QED
  BY <1>1, <1>7, <1>8

\* Below a call that has resolved, one that has not is at or below a failure that was
\* caught: of the calls on the way to it, the first that has not resolved.
LEMMA UntimedIsCaught ==
  ASSUME ResolveInv, IsOk(task[<<>>].result), NEW p \in DOMAIN task, ~IsOk(task[p].result)
  PROVE  \E q \in WayTo(p) \ {<<>>} : Catches(task[Front(q)].reducer) /\ IsError(task[q].result)
<1> DEFINE S == {n \in Nat : n <= Len(p) /\ ~IsOk(task[SubSeq(p, 1, n)].result)}
<1>1. p \in Seq(Nat \ {0}) /\ Len(p) \in Nat /\ SubSeq(p, 1, Len(p)) = p /\ SubSeq(p, 1, 0) = <<>>
  BY PrefixFacts DEF ResolveInv, IsGood, IsTree
<1>2. S \subseteq Nat /\ S # {}
  <2>1. task[SubSeq(p, 1, Len(p))] = task[p]
    BY <1>1, Zenon
  <2>2. Len(p) \in S
    BY <1>1, <2>1
  <2>3. QED
    BY <2>2
<1>3. PICK n \in S : \A k \in S : ~(k < n)
  <2> HIDE DEF S
  <2>1. QED
    BY <1>2, LeastNumber
<1>4. n \in 0 .. Len(p) /\ n # 0 /\ n - 1 \in 0 .. Len(p) /\ n - 1 \in 0 .. n /\ n - 1 \in Nat
  <2>1. n \in Nat /\ n <= Len(p) /\ n # 0
    BY <1>1, <1>3
  <2>2. QED
    BY <1>1, <2>1
<1> DEFINE q == SubSeq(p, 1, n)
           caller == SubSeq(p, 1, n - 1)
<1>5. q \in DOMAIN task /\ caller \in DOMAIN task
  BY <1>4, PrefixIsTask
<1>6. ~IsOk(task[q].result)
  BY <1>3
<1>7. IsOk(task[caller].result)
  <2>1. n - 1 \notin S
    <3> HIDE DEF S
    <3>1. n - 1 < n
      BY <1>4
    <3>2. QED
      BY <1>3, <3>1
  <2>2. n - 1 <= Len(p)
    BY <1>1, <1>4
  <2>3. QED
    BY <1>4, <2>1, <2>2
<1>8. q \in Seq(Nat \ {0}) /\ Len(q) = n
  BY <1>1, <1>4, PrefixFacts
<1>9. q # <<>>
  BY <1>4, <1>8
<1>10. Front(q) = caller
  <2>1. Front(q) = SubSeq(q, 1, n - 1)
    BY <1>8, <1>9, PrefixFacts
  <2>2. SubSeq(q, 1, n - 1) = caller
    BY <1>1, <1>4, PrefixOfPrefix
  <2>3. QED
    BY <2>1, <2>2
<1>11. q \in WayTo(p)
  BY <1>4 DEF WayTo
<1> HIDE DEF S, q, caller
<1>12. Last(q) \in 1 .. task[caller].calls /\ Left(task, caller)
  BY <1>5, <1>9, <1>10 DEF ResolveInv, IsGood, IsSound, IsTree
<1>13. q = Append(caller, Last(q))
  BY <1>8, <1>9, <1>10, PathSplit
<1>14. Accepts(task[caller].reducer, task[q].result)
  BY <1>7, <1>12, <1>13 DEF Left, Out
<1>15. Catches(task[Front(q)].reducer) /\ IsError(task[q].result)
  BY <1>6, <1>10, <1>14 DEF Accepts
<1>16. QED
  BY <1>9, <1>11, <1>15

\* What is written of a transform that has resolved is whole, in whatever order its calls
\* ran and whichever failed: every call of resolveReducer has its node, below the calls
\* that led to it and no others, and a node without a duration is at or below a failure
\* that an entity has caught.
THEOREM TraceIsWhole ==
  Spec => []TraceWhole
<1>1. ResolveInv => TraceWhole
  <2> SUFFICES ASSUME ResolveInv, Written PROVE TraceWhole
    BY DEF TraceWhole
  <2> DEFINE W(p) == [id |-> p, timed |-> Timed(p), nestingLevel |-> Nesting(p)]
  <2>1. writeTraceGraph = {W(p) : p \in Traced}
    BY TreeIs
  <2>2. {node.id : node \in writeTraceGraph} = Traced
    <3>1. \A p : W(p).id = p
      OBVIOUS
    <3> HIDE DEF W
    <3>2. QED
      BY <2>1, <3>1
  <2>3. ASSUME NEW node \in writeTraceGraph
        PROVE  /\ node.nestingLevel = Cardinality(Above(node.id) \cap Traced)
               /\ ~node.timed =>
                    \E p \in (Above(node.id) \cup {node.id}) \ {<<>>} :
                      Catches(task[Front(p)].reducer) /\ IsError(task[p].result)
    <3>1. PICK p \in Traced : node = W(p)
      BY <2>1
    <3>2. node.id = p /\ node.timed = Timed(p) /\ node.nestingLevel = Nesting(p)
      BY <3>1
    <3>3. ASSUME ~Timed(p)
          PROVE  \E q \in WayTo(p) \ {<<>>} : Catches(task[Front(q)].reducer) /\ IsError(task[q].result)
      BY <3>3, UntimedIsCaught DEF Timed, Written, Traced
    <3>4. WayTo(p) \subseteq Above(p) \cup {p}
      BY DEF Above
    <3> HIDE DEF W
    <3>5. QED
      BY <3>2, <3>3, <3>4 DEF Nesting
  <2>4. QED
    BY <2>2, <2>3 DEF TraceWhole
<1>2. QED
  BY <1>1, ResolveInvariant, PTL

-----------------------------------------------------------------------------
(* What the outcomes of calls say of the outcome of their caller *)

\* The first k outcomes.
Prefix(got, k) == [i \in 1 .. k |-> got[i]]

\* They are a sequence of k.
LEMMA PrefixIs ==
  ASSUME NEW got, NEW k \in Nat
  PROVE  /\ Len(Prefix(got, k)) = k /\ DOMAIN Prefix(got, k) = 1 .. k
         /\ \A i \in 1 .. k : Prefix(got, k)[i] = got[i]
         /\ Prefix(got, k) = <<>> <=> k = 0
<1>1. Prefix(got, k) = [i \in 1 .. k |-> Prefix(got, k)[i]]
  BY DEF Prefix
<1>2. Len(Prefix(got, k)) = k /\ Prefix(got, k) \in Seq(Range(Prefix(got, k)))
  BY <1>1, SeqFunction
<1>3. Prefix(got, k) = <<>> <=> k = 0
  BY <1>2, EmptySeq
<1>4. QED
  BY <1>2, <1>3 DEF Prefix

\* A call is under way, or has settled by the rules.
Answers(o, call) ==
  o = Pending \/ (IsOutcome(o) /\ o \in Outcomes(call.reducer, call.value))

\* The j-th outcome is that of a call that was asked for after the k-th.
Responds(n, got, j, k, calls) ==
  /\ Len(calls) \in Nat /\ j <= k + Len(calls) /\ k + Len(calls) <= n
  /\ Answers(got[j], calls[j - k])

\* The outcomes of the n calls of a task so far, each asked for when those before it, up to
\* some k-th, had let the task go on.
IsHistory(r, v, n, got) ==
  /\ n \in Nat
  /\ got = Prefix(got, n)
  /\ r.type = "ReducerList" => n <= Len(r.of)
  /\ \A j \in 1 .. n : \E k \in 0 .. j - 1 :
       /\ AllAccepted(r, k, Prefix(got, k))
       /\ Responds(n, got, j, k, Resolve(r, v, Prefix(got, k)).calls)

\* All that Promise.all waits for was asked for at once.
LEMMA StartedTogether ==
  ASSUME NEW r, NEW v, NEW n, NEW got, IsHistory(r, v, n, got),
         NEW calls, calls = <<>> => Len(calls) = 0,
         \A x : Resolve(r, v, x).calls = IF x = <<>> /\ calls # <<>> THEN calls ELSE <<>>
  PROVE  n # 0 => n = Len(calls) /\ \A j \in 1 .. n : Answers(got[j], calls[j])
<1>1. ASSUME NEW j \in 1 .. n
      PROVE  j <= Len(calls) /\ Len(calls) <= n /\ Len(calls) \in Nat /\ Answers(got[j], calls[j])
  <2>1. PICK k \in 0 .. j - 1 : Responds(n, got, j, k, Resolve(r, v, Prefix(got, k)).calls)
    BY DEF IsHistory
  <2>2. Prefix(got, k) = <<>>
    <3>1. SUFFICES ASSUME Prefix(got, k) # <<>> PROVE FALSE
      OBVIOUS
    <3>2. Resolve(r, v, Prefix(got, k)).calls = <<>>
      BY <3>1
    <3>3. QED
      BY <2>1, <3>2 DEF Responds
  <2>3. k = 0
    <3>1. DOMAIN Prefix(got, k) = 1 .. k
      BY DEF Prefix
    <3>2. 1 \notin 1 .. k
      BY <2>2, <3>1
    <3>3. QED
      BY <3>2
  <2>4. Resolve(r, v, Prefix(got, k)).calls = calls
    BY <2>2
  <2>5. QED
    BY <2>1, <2>3, <2>4 DEF Responds
<1>2. n \in Nat
  BY DEF IsHistory
<1>3. QED
  BY <1>1, <1>2

\* Calls made one at a time were each asked for when those before it had let the task go on.
LEMMA StartedInTurn ==
  ASSUME NEW r, IsReducer(r), Sequential(r), NEW v, NEW n, NEW got, IsHistory(r, v, n, got),
         NEW j \in 1 .. n
  PROVE  /\ AllAccepted(r, j - 1, Prefix(got, j - 1))
         /\ Len(Resolve(r, v, Prefix(got, j - 1)).calls) = 1
         /\ Answers(got[j], Resolve(r, v, Prefix(got, j - 1)).calls[1])
<1>1. PICK k \in 0 .. j - 1 :
        /\ AllAccepted(r, k, Prefix(got, k))
        /\ Responds(n, got, j, k, Resolve(r, v, Prefix(got, k)).calls)
  BY DEF IsHistory
<1> DEFINE next == Resolve(r, v, Prefix(got, k))
<1>2. IsNextOf(r, v, k, Prefix(got, k), next)
  <2>1. r.type = "ReducerList" => k <= Len(r.of)
    <3>1. SUFFICES ASSUME r.type = "ReducerList" PROVE k <= Len(r.of)
      OBVIOUS
    <3>2. r.of \in Seq(Reducer)
      BY <3>1, ReducerAssumption DEF IsReducer
    <3>3. Len(r.of) \in Nat /\ n <= Len(r.of) /\ n \in Nat
      BY <3>1, <3>2, LenProperties DEF IsHistory
    <3>4. QED
      BY <3>3
  <2>2. k \in Nat
    OBVIOUS
  <2>3. QED
    BY <1>1, <2>1, <2>2, ResolveIsNext
<1> HIDE DEF next
<1>3. Len(next.calls) <= 1 /\ Responds(n, got, j, k, next.calls)
  BY <1>1, <1>2 DEF IsNextOf, next
<1>4. k = j - 1 /\ Len(next.calls) = 1
  <2>1. /\ Len(next.calls) \in Nat /\ Len(next.calls) <= 1 /\ j <= k + Len(next.calls)
        /\ k \in 0 .. j - 1 /\ j \in Nat \ {0}
    BY <1>3 DEF Responds, IsHistory
  <2> DEFINE m == Len(next.calls)
  <2>2. m \in Nat /\ m <= 1 /\ j <= k + m /\ k \in 0 .. j - 1 /\ j \in Nat \ {0}
    BY <2>1
  <2> HIDE DEF m
  <2>3. k = j - 1 /\ m = 1
    BY <2>2
  <2>4. QED
    BY <2>3 DEF m
<1>5. Answers(got[j], next.calls[1])
  BY <1>3, <1>4 DEF Responds
<1>6. QED
  BY <1>1, <1>4, <1>5 DEF next

\* If it catches no failure, all but the last have succeeded.
LEMMA OnlyLastFails ==
  ASSUME NEW r, IsReducer(r), Sequential(r), ~Catches(r), NEW v, NEW n, NEW got,
         IsHistory(r, v, n, got), NEW i \in 1 .. n, IsError(got[i])
  PROVE  i = n
<1>1. SUFFICES ASSUME i # n PROVE FALSE
  OBVIOUS
<1>2. i \in 1 .. n - 1 /\ n \in 1 .. n
  BY <1>1 DEF IsHistory
<1>3. AllAccepted(r, n - 1, Prefix(got, n - 1))
  BY <1>2, StartedInTurn
<1>4. Accepts(r, got[i])
  BY <1>2, <1>3 DEF AllAccepted, Prefix
<1>5. QED
  BY <1>4 DEF Accepts, IsOk, IsError

\* The values of parts that run together make an outcome.
LEMMA FulfilledByAll ==
  ASSUME NEW m \in Nat, NEW parts, parts = [i \in 1 .. m |-> parts[i]],
         NEW got, got = [i \in 1 .. m |-> got[i]],
         \A i \in 1 .. m : got[i] \in parts[i] /\ IsOk(got[i])
  PROVE  got \in Fulfilled(parts)
<1>1. DOMAIN parts = 1 .. m
  OBVIOUS
<1>2. \A i \in 1 .. m : got[i] \in UNION {parts[k] : k \in 1 .. m}
  OBVIOUS
<1>3. got \in [1 .. m -> UNION {parts[k] : k \in 1 .. m}]
  BY <1>2
<1>4. QED
  BY <1>1, <1>3 DEF Fulfilled

\* What the rest of a reducer comes to from a part on, it comes to from the first.
LEMMA RestBack ==
  ASSUME NEW r, NEW val, NEW m \in Nat, NEW o, o \in Rest(r, m + 1, val[m + 1]),
         \A k \in 1 .. m : o \in Rest(r, k + 1, val[k + 1]) => o \in Rest(r, k, val[k])
  PROVE  o \in Rest(r, 1, val[1])
<1> DEFINE S == {k \in Nat : o \in Rest(r, k, val[k])}
<1>1. m + 1 \in S /\ \A k \in 1 .. m : k + 1 \in S => k \in S
  OBVIOUS
<1> HIDE DEF S
<1>2. 1 \in S
  BY <1>1, Downward
<1>3. QED
  BY <1>2 DEF S

-----------------------------------------------------------------------------
(* The rules, as what is an outcome *)

\* What the calls up to now come to: the result of a task that settles then, and the
\* failure of one of them, are outcomes by the rules.
Agrees(r, v, n, got) ==
  /\ AllAccepted(r, n, got) =>
       \A o : Resolve(r, v, got).result = o /\ o # Pending => o \in OutcomesByType(r, v)
  /\ ~Catches(r) => \A i \in 1 .. n : IsError(got[i]) => got[i] \in OutcomesByType(r, v)

\* Each rule, read from the parts: what their outcomes make an outcome of the whole.
\* assign: the entries of the value resolved go over those of the value; its failure
\* is that of the reducer.
LEMMA AssignRule ==
  ASSUME NEW r, r.type = "assign", NEW v, NEW o \in Outcomes(r.of, v)
  PROVE  /\ IsOk(o) => Ok(Object(Entries(o[2]) @@ Entries(v))) \in OutcomesByType(r, v)
         /\ ~IsOk(o) => o \in OutcomesByType(r, v)
BY DEF OutcomesByType, Then

\* request: the options, then the request with them.
LEMMA RequestRule ==
  ASSUME NEW r, r.type = "request", NEW v, NEW o \in Outcomes(r.of.options, v)
  PROVE  /\ IsOk(o) => \A p \in Outcomes(Source("rp", r.of.inspect),
                    Object(getRequestOptions(resolveUrl(r.of.url, v), o[2]))) : p \in OutcomesByType(r, v)
         /\ ~IsOk(o) => o \in OutcomesByType(r, v)
BY DEF OutcomesByType, Then

\* map: an array of the values for the items, or the failure of one.
LEMMA MapRule ==
  ASSUME NEW r, r.type = "map", NEW v, IsArray(v), NEW parts, parts = OnEach(r.of, v[2])
  PROVE  /\ \A c \in Fulfilled(parts) : Ok(Array(Values(c))) \in OutcomesByType(r, v)
         /\ \A i \in DOMAIN parts : \A o \in parts[i] : IsError(o) => o \in OutcomesByType(r, v)
BY DEF OutcomesByType, Together, AsArray

\* filter: the items for which the predicate held.
LEMMA FilterRule ==
  ASSUME NEW r, r.type = "filter", NEW v, IsArray(v), NEW parts, parts = OnEach(r.of, v[2])
  PROVE  /\ \A c \in Fulfilled(parts) : Ok(Array(KeptItems(r.of, v[2], c))) \in OutcomesByType(r, v)
         /\ \A i \in DOMAIN parts : \A o \in parts[i] : IsError(o) => o \in OutcomesByType(r, v)
BY DEF OutcomesByType, Together

\* parallel: the values of its parts.
LEMMA ParallelRule ==
  ASSUME NEW r, r.type = "parallel", NEW v, NEW parts,
         parts = [i \in DOMAIN r.of |-> Outcomes(r.of[i], v)]
  PROVE  /\ \A c \in Fulfilled(parts) : Ok(Array(Values(c))) \in OutcomesByType(r, v)
         /\ \A i \in DOMAIN parts : \A o \in parts[i] : IsError(o) => o \in OutcomesByType(r, v)
BY DEF OutcomesByType, Together, AsArray

\* ReducerObject: each value at the path of its part.
LEMMA ObjectRule ==
  ASSUME NEW r, r.type = "ReducerObject", NEW v, NEW parts,
         parts = [i \in DOMAIN r.of.reducers |-> Outcomes(r.of.reducers[i].reducer, v)]
  PROVE  /\ \A c \in Fulfilled(parts) :
              Ok(Object(EntriesOf(r.of.constants, r.of.reducers, c))) \in OutcomesByType(r, v)
         /\ \A i \in DOMAIN parts : \A o \in parts[i] : IsError(o) => o \in OutcomesByType(r, v)
BY DEF OutcomesByType, Together

\* An entity by its id, or itself.
IsEntity(r) == r.type \in {"entity id", "entity instance"}

\* Whether it resolves its body for each item.
ForItems(r) == r.of.asCollection

\* An entity on an array: one outcome for each item, the item itself where it is skipped.
LEMMA BaseRule ==
  ASSUME NEW r, IsEntity(r), NEW v, NEW parts, Known(r),
         ~Skipped(r, v), ForItems(r), IsArray(v),
         parts = [i \in DOMAIN v[2] |-> IF Skipped(r, v[2][i]) THEN {Ok(v[2][i])}
                                        ELSE Outcomes(Once(r), v[2][i])]
  PROVE  /\ \A c \in Fulfilled(parts) : Ok(Array(Values(c))) \in OutcomesByType(r, v)
         /\ \A i \in DOMAIN parts : \A o \in parts[i] : IsError(o) => o \in OutcomesByType(r, v)
BY DEF OutcomesByType, Together, AsArray, IsEntity, ForItems

\* A list from its k-th reducer on: each outcome of that one, or of what follows it.
LEMMA ListRule ==
  ASSUME FollowTheRules, NEW r, r.type = "ReducerList", NEW k, NEW v, NEW o \in Outcomes(r.of[k], v)
  PROVE  /\ k = Len(r.of) \/ ~IsOk(o) => o \in Rest(r, k, v)
         /\ k # Len(r.of) /\ IsOk(o) => \A p \in Rest(r, k + 1, o[2]) : p \in Rest(r, k, v)
<1>1. Rest(r, k, v) = RestByType(r, k, v)
  BY DEF FollowTheRules
<1>2. QED
  BY <1>1 DEF RestByType, Then

\* find from the k-th item on: the item if it matches, else what follows.
LEMMA FindRule ==
  ASSUME FollowTheRules, NEW r, r.type = "find", NEW k, NEW v
  PROVE  /\ k > Len(v[2]) => Ok(Undefined) \in Rest(r, k, v)
         /\ ~(k > Len(v[2])) => \A o \in Outcomes(r.of, v[2][k]) :
              /\ ~IsOk(o) => o \in Rest(r, k, v)
              /\ IsOk(o) /\ PredicateIsTruthy(r.of, o[2]) => Ok(v[2][k]) \in Rest(r, k, v)
              /\ IsOk(o) /\ ~PredicateIsTruthy(r.of, o[2]) =>
                   \A p \in Rest(r, k + 1, v) : p \in Rest(r, k, v)
<1>1. Rest(r, k, v) = RestByType(r, k, v)
  BY DEF FollowTheRules
<1>2. QED
  BY <1>1 DEF RestByType, Then

\* A control entity from its k-th case on: what the case does if it holds, else what follows.
LEMMA ControlRule ==
  ASSUME FollowTheRules, NEW r, r.type = "control", NEW k, NEW v
  PROVE  /\ k > Len(r.of.cases) => \A o \in Outcomes(r.of.default, v) : o \in Rest(r, k, v)
         /\ ~(k > Len(r.of.cases)) => \A o \in Outcomes(r.of.cases[k], v) :
              /\ ~IsOk(o) => o \in Rest(r, k, v)
              /\ IsOk(o) /\ Truthy(o[2]) => \A p \in Outcomes(r.of.dos[k], v) : p \in Rest(r, k, v)
              /\ IsOk(o) /\ ~Truthy(o[2]) => \A p \in Rest(r, k + 1, v) : p \in Rest(r, k, v)
<1>1. Rest(r, k, v) = RestByType(r, k, v)
  BY DEF FollowTheRules
<1>2. QED
  BY <1>1 DEF RestByType, Then

\* An entity from its k-th stage on: what follows it, or the failure, handled.
LEMMA EntityRule ==
  ASSUME FollowTheRules, NEW r, r.type = "entity", NEW k, NEW v
  PROVE  /\ k > Len(r.of.stages) => Ok(v) \in Rest(r, k, v)
         /\ ~(k > Len(r.of.stages)) => \A o \in Outcomes(r.of.stages[k].reducer, v) :
              /\ IsOk(o) => \A p \in Rest(r, k + 1, IF r.of.stages[k].keeps THEN v ELSE o[2]) :
                              p \in Rest(r, k, v)
              /\ ~IsOk(o) /\ r.of.error = <<>> => o \in Rest(r, k, v)
              /\ ~IsOk(o) /\ r.of.error # <<>> =>
                   \A p \in Rest(Handler(r.of), 1, Failure(o[2])) : p \in Rest(r, k, v)
<1>1. Rest(r, k, v) = RestByType(r, k, v)
  BY DEF FollowTheRules
<1>2. QED
  BY <1>1 DEF RestByType, Then

\* The reducers that take their parts in turn start with the first.
LEMMA FromTheFirst ==
  ASSUME FollowTheRules, NEW r, NEW v
  PROVE  /\ r.type \in {"control", "entity"} => OutcomesByType(r, v) = Rest(r, 1, v)
         /\ r.type = "find" /\ IsArray(v) => OutcomesByType(r, v) = Rest(r, 1, v)
         /\ r.type = "ReducerList" /\ r.of # <<>> =>
              OutcomesByType(r, v) = Rest(r, 1, IF v = Undefined THEN Null ELSE v)
         /\ r.type \in SimpleTypes => OutcomesByType(r, v) = {Simple(r, v)}
<1>1. r.type \in {"control", "entity"} => OutcomesByType(r, v) = Rest(r, 1, v)
  BY DEF OutcomesByType
<1>2. ASSUME r.type = "find", IsArray(v) PROVE OutcomesByType(r, v) = Rest(r, 1, v)
  <2>1. v \notin {Undefined, Null}
    BY <1>2 DEF IsArray, Undefined, Null
  <2>2. QED
    BY <1>2, <2>1 DEF OutcomesByType
<1>3. r.type = "ReducerList" /\ r.of # <<>> =>
        OutcomesByType(r, v) = Rest(r, 1, IF v = Undefined THEN Null ELSE v)
  BY DEF OutcomesByType
<1>4. r.type \in SimpleTypes => OutcomesByType(r, v) = {Simple(r, v)}
  BY DEF OutcomesByType, SimpleTypes
<1>5. QED
  BY <1>1, <1>2, <1>3, <1>4

-----------------------------------------------------------------------------
(* Each resolve function *)

\* Parts that run together.
LEMMA TogetherAgrees ==
  ASSUME NEW r, ~Catches(r), NEW v, NEW n, NEW got, IsHistory(r, v, n, got), NEW m \in Nat,
         NEW calls, calls = [i \in 1 .. m |-> calls[i]],
         NEW parts, parts = [i \in 1 .. m |-> parts[i]],
         \A i \in 1 .. m : \A o \in Outcomes(calls[i].reducer, calls[i].value) : o \in parts[i],
         \A i \in 1 .. m : \A o \in parts[i] : IsError(o) => o \in OutcomesByType(r, v),
         \A x : \E o : /\ Resolve(r, v, x) = PromiseAll(calls, x, o)
                       /\ x \in Fulfilled(parts) => o \in OutcomesByType(r, v)
  PROVE  Agrees(r, v, n, got)
<1>1. Len(calls) = m
  BY SeqFunction
<1>2. ASSUME NEW x PROVE Resolve(r, v, x).calls = IF x = <<>> /\ calls # <<>> THEN calls ELSE <<>>
  <2>1. PICK o : Resolve(r, v, x) = PromiseAll(calls, x, o)
    OBVIOUS
  <2>2. QED
    BY <2>1 DEF PromiseAll, Call, Settle
<1>3. n \in Nat /\ got = [i \in 1 .. n |-> got[i]]
  BY DEF IsHistory, Prefix
<1>4. n # 0 => n = m /\ \A j \in 1 .. n : Answers(got[j], calls[j])
  BY <1>1, <1>2, StartedTogether
<1>5. \A j \in 1 .. n : IsOutcome(got[j]) => got[j] \in parts[j]
  <2>1. \A j \in 1 .. n : Answers(got[j], calls[j]) /\ j \in 1 .. m
    <3>1. (\E j \in 1 .. n : TRUE) => n # 0
      BY <1>3
    <3>2. QED
      BY <1>4, <3>1
  <2>2. ~IsOutcome(Pending)
    BY DEF IsOutcome, IsOk, IsError, Pending
  <2>3. QED
    BY <2>1, <2>2 DEF Answers
<1>6. ASSUME AllAccepted(r, n, got), NEW o, Resolve(r, v, got).result = o, o # Pending
      PROVE  o \in OutcomesByType(r, v)
  <2>1. PICK x : /\ Resolve(r, v, got) = PromiseAll(calls, got, x)
                 /\ got \in Fulfilled(parts) => x \in OutcomesByType(r, v)
    OBVIOUS
  <2>2. ~(got = <<>> /\ calls # <<>>) /\ o = x
    BY <1>6, <2>1 DEF PromiseAll, Call, Settle
  <2>3. n = m
    <3>1. CASE n = 0
      <4>1. got = <<>>
        BY <1>3, <3>1
      <4>2. calls = <<>>
        BY <2>2, <4>1
      <4>3. QED
        BY <1>1, <3>1, <4>2
    <3>2. QED
      BY <1>4, <3>1
  <2>4. \A i \in 1 .. m : got[i] \in parts[i] /\ IsOk(got[i])
    BY <1>3, <1>5, <1>6, <2>3, AcceptedIsOutcome DEF IsOutcome
  <2>5. got \in Fulfilled(parts)
    BY <1>3, <2>3, <2>4, FulfilledByAll
  <2>6. QED
    BY <2>1, <2>2, <2>5
<1>7. ASSUME NEW i \in 1 .. n, IsError(got[i]) PROVE got[i] \in OutcomesByType(r, v)
  <2>1. i \in 1 .. m /\ got[i] \in parts[i]
    BY <1>4, <1>5, <1>7 DEF IsOutcome
  <2>2. QED
    BY <1>7, <2>1
<1>8. QED
  BY <1>6, <1>7 DEF Agrees

\* What settles at once, without calls.
LEMMA AtOnceAgrees ==
  ASSUME NEW r, ~Catches(r), NEW v, NEW n, NEW got, IsHistory(r, v, n, got),
         NEW o \in OutcomesByType(r, v), \A x : Resolve(r, v, x) = Settle(o)
  PROVE  Agrees(r, v, n, got)
<1> DEFINE none == [i \in 1 .. 0 |-> {}]
<1>1. \A x : Resolve(r, v, x).calls = <<>>
  BY DEF Settle
<1>2. n = 0
  <2>1. n # 0 => n = Len(<<>>)
    BY <1>1, StartedTogether
  <2>2. QED
    BY <2>1
<1>3. QED
  BY <1>2 DEF Agrees, Settle

\* A call that is made one at a time is one that was asked for with the outcomes before it;
\* when it settles, it does so by the rules.
LEMMA SettledInTurn ==
  ASSUME NEW r, IsReducer(r), Sequential(r), NEW v, NEW n, NEW got, IsHistory(r, v, n, got),
         NEW j \in 1 .. n, NEW next, next = Resolve(r, v, Prefix(got, j - 1))
  PROVE  /\ AllAccepted(r, j - 1, Prefix(got, j - 1))
         /\ \A i \in 1 .. j - 1 : Accepts(r, got[i])
         /\ Len(next.calls) = 1 /\ next.calls # <<>>
         /\ \A r1, x : IsOutcome(got[j]) /\ next.calls = <<To(r1, x)>> => got[j] \in Outcomes(r1, x)
<1>1. /\ AllAccepted(r, j - 1, Prefix(got, j - 1))
      /\ Len(next.calls) = 1
      /\ Answers(got[j], next.calls[1])
  BY StartedInTurn
<1>2. \A i \in 1 .. j - 1 : Accepts(r, got[i])
  BY <1>1 DEF AllAccepted, Prefix
<1>3. ASSUME NEW r1, NEW x, IsOutcome(got[j]), next.calls = <<To(r1, x)>>
      PROVE  got[j] \in Outcomes(r1, x)
  <2>1. next.calls[1].reducer = r1 /\ next.calls[1].value = x
    BY <1>3 DEF To
  <2>2. got[j] # Pending
    BY <1>3 DEF IsOutcome, IsOk, IsError, Pending
  <2>3. QED
    BY <1>1, <2>1, <2>2 DEF Answers
<1>4. QED
  BY <1>1, <1>2, <1>3

\* Some facts about a history.
LEMMA HistoryIs ==
  ASSUME NEW r, NEW v, NEW n, NEW got, IsHistory(r, v, n, got)
  PROVE  /\ n \in Nat
         /\ got = [i \in 1 .. n |-> got[i]]
         /\ Prefix(got, n) = got
         /\ Len(got) = n /\ DOMAIN got = 1 .. n
         /\ got = <<>> <=> n = 0
         /\ n # 0 => n \in 1 .. n /\ n - 1 \in Nat /\ Last(got) = got[n]
<1>1. n \in Nat /\ got = [i \in 1 .. n |-> got[i]] /\ Prefix(got, n) = got
  BY DEF IsHistory, Prefix
<1>2. Len(got) = n /\ DOMAIN got = 1 .. n /\ (got = <<>> <=> n = 0)
  BY <1>1, PrefixIs
<1>3. QED
  BY <1>1, <1>2 DEF Last

\* A task that catches no failure: it suffices to look at its last call, and at what it
\* settles to when all have succeeded.
LEMMA InTurnAgrees ==
  ASSUME NEW r, IsReducer(r), Sequential(r), ~Catches(r), NEW v, NEW n, NEW got,
         IsHistory(r, v, n, got),
         n # 0 /\ IsError(got[n]) => got[n] \in OutcomesByType(r, v),
         (\A i \in 1 .. n : IsOk(got[i])) =>
           \A o : Resolve(r, v, got).result = o /\ o # Pending => o \in OutcomesByType(r, v)
  PROVE  Agrees(r, v, n, got)
<1>1. AllAccepted(r, n, got) => \A i \in 1 .. n : IsOk(got[i])
  BY HistoryIs, AcceptedIsOutcome
<1>2. ASSUME NEW i \in 1 .. n, IsError(got[i]) PROVE got[i] \in OutcomesByType(r, v)
  <2>1. i = n
    BY <1>2, OnlyLastFails
  <2>2. n # 0
    BY HistoryIs
  <2>3. QED
    BY <1>2, <2>1, <2>2
<1>3. QED
  BY <1>1, <1>2 DEF Agrees

\* assign
LEMMA AssignAgrees ==
  ASSUME FollowTheRules, NEW r \in Reducer, r.type = "assign", NEW v, NEW n, NEW got,
         IsHistory(r, v, n, got)
  PROVE  Agrees(r, v, n, got)
<1>1. \A x : Resolve(r, v, x) = IF x = <<>> THEN Call(<<To(r.of, v)>>)
                               ELSE Settle(Ok(Object(Entries(x[1][2]) @@ Entries(v))))
  BY DEF Resolve, AssignResolve
<1>2. IsReducer(r) /\ Sequential(r) /\ ~Catches(r)
  BY DEF IsReducer, Sequential, Catches
<1>3. ASSUME n # 0 PROVE n = 1 /\ (IsOutcome(got[1]) => got[1] \in Outcomes(r.of, v))
  <2> DEFINE next == Resolve(r, v, Prefix(got, n - 1))
  <2>1. n \in 1 .. n /\ n - 1 \in Nat
    BY <1>3, HistoryIs
  <2>2. /\ next.calls # <<>>
        /\ \A r1, x : IsOutcome(got[n]) /\ next.calls = <<To(r1, x)>> => got[n] \in Outcomes(r1, x)
    BY <1>2, <2>1, SettledInTurn
  <2>3. Prefix(got, n - 1) = <<>>
    BY <1>1, <2>2 DEF Settle
  <2>4. n = 1
    BY <2>1, <2>3, PrefixIs
  <2>5. next.calls = <<To(r.of, v)>>
    BY <1>1, <2>3 DEF Call
  <2> HIDE DEF next
  <2>6. QED
    BY <2>2, <2>4, <2>5
<1>4. n # 0 /\ IsError(got[n]) => got[n] \in OutcomesByType(r, v)
  BY <1>3, AssignRule DEF IsOutcome, IsOk, IsError
<1>5. ASSUME \A i \in 1 .. n : IsOk(got[i]), NEW o, Resolve(r, v, got).result = o, o # Pending
      PROVE  o \in OutcomesByType(r, v)
  <2>1. got # <<>>
    BY <1>1, <1>5 DEF Call
  <2>2. n # 0
    BY <2>1, HistoryIs
  <2>3. o = Ok(Object(Entries(got[1][2]) @@ Entries(v)))
    BY <1>1, <1>5, <2>1 DEF Settle
  <2>4. got[1] \in Outcomes(r.of, v) /\ IsOk(got[1])
    BY <1>3, <1>5, <2>2 DEF IsOutcome
  <2>5. QED
    BY <2>3, <2>4, AssignRule
<1>6. QED
  BY <1>2, <1>4, <1>5, InTurnAgrees

\* request
LEMMA RequestAgrees ==
  ASSUME FollowTheRules, NEW r \in Reducer, r.type = "request", NEW v, NEW n, NEW got,
         IsHistory(r, v, n, got)
  PROVE  Agrees(r, v, n, got)
<1> DEFINE rp == Source("rp", r.of.inspect)
           Options(w) == Object(getRequestOptions(resolveUrl(r.of.url, v), w))
<1>1. \A x : /\ x = <<>> => Resolve(r, v, x) = Call(<<To(r.of.options, v)>>)
             /\ x # <<>> /\ Len(x) = 1 => Resolve(r, v, x) = Call(<<To(rp, Options(x[1][2]))>>)
             /\ x # <<>> /\ Len(x) # 1 => Resolve(r, v, x) = Settle(Last(x))
  BY DEF Resolve, RequestResolve
<1>2. IsReducer(r) /\ Sequential(r) /\ ~Catches(r)
  BY DEF IsReducer, Sequential, Catches
<1> HIDE DEF rp, Options
<1>3. ASSUME NEW j \in 1 .. n
      PROVE  /\ j \in {1, 2}
             /\ IsOutcome(got[j]) /\ j = 1 => got[j] \in Outcomes(r.of.options, v)
             /\ IsOutcome(got[j]) /\ j = 2 => got[j] \in Outcomes(rp, Options(got[1][2]))
             /\ \A i \in 1 .. j - 1 : IsOk(got[i])
  <2> DEFINE x == Prefix(got, j - 1)
             next == Resolve(r, v, x)
  <2>1. j \in Nat \ {0} /\ j - 1 \in Nat
    BY HistoryIs
  <2>2. /\ next.calls # <<>>
        /\ \A r1, w : IsOutcome(got[j]) /\ next.calls = <<To(r1, w)>> => got[j] \in Outcomes(r1, w)
        /\ \A i \in 1 .. j - 1 : Accepts(r, got[i])
    BY <1>2, SettledInTurn
  <2>3. Len(x) = j - 1 /\ (x = <<>> <=> j = 1) /\ \A i \in 1 .. j - 1 : x[i] = got[i]
    BY <2>1, PrefixIs
  <2> HIDE DEF x
  <2>4. j \in {1, 2}
    <3>1. x # <<>> /\ Len(x) # 1 => next = Settle(Last(x))
      BY <1>1, Zenon
    <3>2. Settle(Last(x)).calls = <<>>
      BY DEF Settle
    <3>3. QED
      BY <2>1, <2>2, <2>3, <3>1, <3>2
  <2>5. j = 1 => next.calls = <<To(r.of.options, v)>>
    BY <1>1, <2>3 DEF Call
  <2>6. j = 2 => next.calls = <<To(rp, Options(got[1][2]))>>
    BY <1>1, <2>3 DEF Call
  <2> HIDE DEF next
  <2>7. QED
    BY <1>2, <2>2, <2>4, <2>5, <2>6 DEF Accepts
<1>4. ASSUME n # 0, IsOutcome(got[n]), IsError(got[n]) \/ n = 2
      PROVE  got[n] \in OutcomesByType(r, v)
  <2>1. n \in 1 .. n
    BY <1>4, HistoryIs
  <2>2. CASE n = 1
    BY <1>3, <1>4, <2>1, <2>2, RequestRule DEF IsOk, IsError
  <2>3. CASE n = 2
    <3>1. 1 \in 1 .. n /\ 1 \in 1 .. n - 1
      BY <2>3
    <3>2. IsOk(got[1])
      BY <1>3, <2>1, <3>1
    <3>3. got[1] \in Outcomes(r.of.options, v)
      BY <1>3, <3>1, <3>2 DEF IsOutcome
    <3>4. got[n] \in Outcomes(rp, Options(got[1][2]))
      BY <1>3, <1>4, <2>1, <2>3
    <3>5. QED
      BY <3>2, <3>3, <3>4, RequestRule DEF rp, Options
  <2>4. QED
    BY <1>3, <2>1, <2>2, <2>3
<1>5. n # 0 /\ IsError(got[n]) => got[n] \in OutcomesByType(r, v)
  BY <1>4 DEF IsOutcome
<1>6. ASSUME \A i \in 1 .. n : IsOk(got[i]), NEW o, Resolve(r, v, got).result = o, o # Pending
      PROVE  o \in OutcomesByType(r, v)
  <2>1. got # <<>> /\ Len(got) # 1
    BY <1>1, <1>6 DEF Call
  <2>2. n # 0 /\ Len(got) = n
    BY <2>1, HistoryIs
  <2>3. n # 1
    BY <2>1, <2>2, Zenon
  <2>4. n \in 1 .. n /\ Last(got) = got[n]
    BY <2>2, HistoryIs
  <2>5. n = 2 /\ IsOk(got[n])
    BY <1>3, <1>6, <2>3, <2>4
  <2>6. Resolve(r, v, got) = Settle(Last(got))
    BY <1>1, <2>1, Zenon
  <2>7. o = got[n]
    BY <1>6, <2>4, <2>6 DEF Settle
  <2>8. QED
    BY <1>4, <2>2, <2>5, <2>7 DEF IsOutcome
<1>7. QED
  BY <1>2, <1>5, <1>6, InTurnAgrees

\* A list: each on what the one before has made.
LEMMA ListAgrees ==
  ASSUME FollowTheRules, NEW r \in Reducer, r.type = "ReducerList", r.of # <<>>, NEW v, NEW n,
         NEW got, IsHistory(r, v, n, got)
  PROVE  Agrees(r, v, n, got)
<1> DEFINE start == IF v = Undefined THEN Null ELSE v
           Value(x) == IF x # <<>> THEN Last(x)[2] ELSE start
           Done(x) == x # <<>> /\ Len(x) = Len(r.of)
           val == [k \in Nat |-> IF k = 1 THEN start ELSE got[k - 1][2]]
<1>1. \A x : /\ Done(x) => Resolve(r, v, x) = Settle(Last(x))
             /\ ~Done(x) => Resolve(r, v, x) = Call(<<To(r.of[Len(x) + 1], Value(x))>>)
  BY DEF Resolve, ListResolve
<1>2. IsReducer(r) /\ Sequential(r) /\ ~Catches(r)
  BY DEF IsReducer, Sequential, Catches
<1>3. Len(r.of) \in Nat /\ n <= Len(r.of)
  <2>1. r.of \in Seq(Reducer)
    BY ReducerAssumption
  <2>2. QED
    BY <2>1, LenProperties DEF IsHistory
<1>4. val[1] = start /\ \A k \in Nat \ {0} : val[k + 1] = got[k][2]
  OBVIOUS
<1>5. OutcomesByType(r, v) = Rest(r, 1, val[1])
  BY <1>4, FromTheFirst
<1> HIDE DEF val
<1>6. ASSUME NEW j \in 1 .. n
      PROVE  /\ IsOutcome(got[j]) => got[j] \in Outcomes(r.of[j], val[j])
             /\ \A i \in 1 .. j - 1 : IsOk(got[i])
  <2> DEFINE x == Prefix(got, j - 1)
             next == Resolve(r, v, x)
  <2>1. j \in Nat \ {0} /\ j - 1 \in Nat
    BY HistoryIs
  <2>2. /\ next.calls # <<>>
        /\ \A r1, w : IsOutcome(got[j]) /\ next.calls = <<To(r1, w)>> => got[j] \in Outcomes(r1, w)
        /\ \A i \in 1 .. j - 1 : Accepts(r, got[i])
    BY <1>2, SettledInTurn
  <2>3. Len(x) = j - 1 /\ (x = <<>> <=> j = 1) /\ \A i \in 1 .. j - 1 : x[i] = got[i]
    BY <2>1, PrefixIs
  <2> HIDE DEF x
  <2>4. Value(x) = val[j]
    <3>1. CASE j = 1
      BY <1>4, <2>3, <3>1
    <3>2. CASE j # 1
      <4>1. j - 1 \in Nat \ {0} /\ j - 1 \in 1 .. j - 1 /\ j - 1 + 1 = j
        BY <2>1, <3>2
      <4>2. Last(x) = got[j - 1]
        BY <2>3, <4>1 DEF Last
      <4>3. val[j] = got[j - 1][2]
        BY <1>4, <4>1
      <4>4. QED
        BY <2>3, <3>2, <4>2, <4>3
    <3>3. QED
      BY <3>1, <3>2
  <2> HIDE DEF start, Value, Done
  <2>5. ~Done(x)
    <3>1. Done(x) => next = Settle(Last(x))
      BY <1>1, Zenon
    <3>2. \A o : Settle(o).calls = <<>>
      BY DEF Settle
    <3>3. QED
      BY <2>2, <3>1, <3>2
  <2>6. next.calls = <<To(r.of[j], val[j])>>
    <3>1. Len(x) + 1 = j
      BY <2>1, <2>3
    <3>2. next = Call(<<To(r.of[Len(x) + 1], Value(x))>>)
      BY <1>1, <2>5, Zenon
    <3>3. next = Call(<<To(r.of[j], val[j])>>)
      BY <2>4, <3>1, <3>2
    <3>4. QED
      BY <3>3 DEF Call
  <2> HIDE DEF next
  <2>7. QED
    BY <1>2, <2>2, <2>6 DEF Accepts
<1>7. ASSUME n # 0, IsOutcome(got[n]), IsError(got[n]) \/ n = Len(r.of)
      PROVE  got[n] \in OutcomesByType(r, v)
  <2>1. n \in 1 .. n /\ n - 1 \in Nat /\ n - 1 + 1 = n
    BY <1>7, HistoryIs
  <2>2. got[n] \in Outcomes(r.of[n], val[n])
    BY <1>6, <1>7, <2>1
  <2>3. got[n] \in Rest(r, n, val[n])
    BY <1>7, <2>2, ListRule DEF IsOk, IsError
  <2>4. ASSUME NEW k \in 1 .. n - 1, got[n] \in Rest(r, k + 1, val[k + 1])
        PROVE  got[n] \in Rest(r, k, val[k])
    <3>1. k \in 1 .. n /\ k \in Nat \ {0} /\ k # Len(r.of)
      BY <1>3, <2>1
    <3>2. IsOk(got[k])
      BY <1>6, <2>1
    <3>3. got[k] \in Outcomes(r.of[k], val[k])
      BY <1>6, <3>1, <3>2 DEF IsOutcome
    <3>4. val[k + 1] = got[k][2]
      BY <1>4, <3>1
    <3>5. QED
      BY <2>4, <3>1, <3>2, <3>3, <3>4, ListRule
  <2>5. got[n] \in Rest(r, n - 1 + 1, val[n - 1 + 1])
    BY <2>1, <2>3
  <2>6. got[n] \in Rest(r, 1, val[1])
    BY <2>1, <2>4, <2>5, RestBack
  <2>7. QED
    BY <1>5, <2>6
<1>8. n # 0 /\ IsError(got[n]) => got[n] \in OutcomesByType(r, v)
  BY <1>7 DEF IsOutcome
<1>9. ASSUME \A i \in 1 .. n : IsOk(got[i]), NEW o, Resolve(r, v, got).result = o, o # Pending
      PROVE  o \in OutcomesByType(r, v)
  <2> HIDE DEF start, Value
  <2>1. Done(got)
    <3> HIDE DEF Done
    <3>1. QED
      BY <1>1, <1>9 DEF Call
  <2>2. got # <<>> /\ Len(got) = Len(r.of)
    BY <2>1
  <2>3. n # 0 /\ n = Len(r.of) /\ n \in 1 .. n /\ Last(got) = got[n]
    BY <2>2, HistoryIs
  <2>4. Resolve(r, v, got) = Settle(got[n])
    BY <1>1, <2>1, <2>3
  <2>5. o = got[n] /\ IsOutcome(got[n])
    BY <1>9, <2>3, <2>4 DEF Settle, IsOutcome
  <2>6. QED
    BY <1>7, <2>3, <2>5
<1>10. QED
  BY <1>2, <1>8, <1>9, InTurnAgrees

\* find: up to the first item that matches.
LEMMA FindAgrees ==
  ASSUME FollowTheRules, NEW r \in Reducer, r.type = "find", NEW v, IsArray(v), NEW n, NEW got,
         IsHistory(r, v, n, got)
  PROVE  Agrees(r, v, n, got)
<1> DEFINE items == v[2]
           Found(x) == \E i \in DOMAIN x : PredicateIsTruthy(r.of, x[i][2])
<1>1. \A x : /\ Found(x) => Resolve(r, v, x) = Settle(Ok(items[Len(x)]))
             /\ ~Found(x) /\ Len(x) < Len(items) =>
                  Resolve(r, v, x) = Call(<<To(r.of, items[Len(x) + 1])>>)
             /\ ~Found(x) /\ ~(Len(x) < Len(items)) => Resolve(r, v, x) = Settle(Ok(Undefined))
  <2>1. v \notin {Undefined, Null}
    BY DEF IsArray, Undefined, Null
  <2>2. \A x : Matching(r, v[2], x) = {} <=> ~Found(x)
    BY DEF Matching
  <2>3. \A x : Resolve(r, v, x) = FindResolve(r, v, x)
    BY DEF Resolve
  <2> HIDE DEF Found
  <2>4. QED
    BY <2>1, <2>2, <2>3 DEF FindResolve
<1>2. IsReducer(r) /\ Sequential(r) /\ ~Catches(r)
  BY DEF IsReducer, Sequential, Catches
<1>3. Len(items) \in Nat
  BY LenProperties DEF IsArray
<1> HIDE DEF items
<1>4. ASSUME NEW j \in 1 .. n
      PROVE  /\ j <= Len(items)
             /\ IsOutcome(got[j]) => got[j] \in Outcomes(r.of, items[j])
             /\ \A i \in 1 .. j - 1 : IsOk(got[i]) /\ ~PredicateIsTruthy(r.of, got[i][2])
  <2> DEFINE x == Prefix(got, j - 1)
             next == Resolve(r, v, x)
  <2>1. j \in Nat \ {0} /\ j - 1 \in Nat
    BY HistoryIs
  <2>2. /\ next.calls # <<>>
        /\ \A r1, w : IsOutcome(got[j]) /\ next.calls = <<To(r1, w)>> => got[j] \in Outcomes(r1, w)
        /\ \A i \in 1 .. j - 1 : Accepts(r, got[i])
    BY <1>2, SettledInTurn
  <2>3. Len(x) = j - 1 /\ DOMAIN x = 1 .. j - 1 /\ \A i \in 1 .. j - 1 : x[i] = got[i]
    BY <2>1, PrefixIs
  <2> HIDE DEF x
  <2>4. ~Found(x) => \A i \in 1 .. j - 1 : ~PredicateIsTruthy(r.of, got[i][2])
    BY <2>3
  <2> HIDE DEF Found
  <2>5. ~Found(x) /\ Len(x) < Len(items)
    <3>1. ~(~Found(x) /\ Len(x) < Len(items)) => \E o : next = Settle(o)
      BY <1>1, Zenon
    <3>2. \A o : Settle(o).calls = <<>>
      BY DEF Settle
    <3>3. QED
      BY <2>2, <3>1, <3>2
  <2>6. Len(x) + 1 = j /\ j <= Len(items)
    BY <1>3, <2>1, <2>3, <2>5
  <2>7. next = Call(<<To(r.of, items[Len(x) + 1])>>)
    BY <1>1, <2>5, Zenon
  <2>8. next.calls = <<To(r.of, items[j])>>
    BY <2>6, <2>7 DEF Call
  <2> HIDE DEF next
  <2>9. QED
    BY <1>2, <2>2, <2>4, <2>5, <2>6, <2>8 DEF Accepts
<1>5. OutcomesByType(r, v) = Rest(r, 1, v)
  BY FromTheFirst
<1>6. ASSUME NEW m \in Nat, NEW o \in Rest(r, m + 1, v), m <= n, m <= Len(items),
             \A i \in 1 .. m : IsOk(got[i]) /\ ~PredicateIsTruthy(r.of, got[i][2])
      PROVE  o \in Rest(r, 1, v)
  <2> DEFINE val == [k \in Nat |-> v]
  <2>1. \A k \in Nat : val[k] = v
    OBVIOUS
  <2> HIDE DEF val
  <2>2. ASSUME NEW k \in 1 .. m, o \in Rest(r, k + 1, val[k + 1]) PROVE o \in Rest(r, k, val[k])
    <3>1. k \in 1 .. n /\ ~(k > Len(items)) /\ k \in Nat /\ k + 1 \in Nat
      BY <1>3, <1>6, HistoryIs
    <3>2. got[k] \in Outcomes(r.of, items[k])
      BY <1>4, <1>6, <3>1 DEF IsOutcome
    <3>3. o \in Rest(r, k, v)
      BY <1>6, <2>1, <2>2, <3>1, <3>2, FindRule DEF items
    <3>4. QED
      BY <2>1, <3>1, <3>3
  <2>3. o \in Rest(r, m + 1, val[m + 1])
    BY <1>6, <2>1
  <2>4. o \in Rest(r, 1, val[1])
    BY <2>2, <2>3, RestBack
  <2>5. QED
    BY <2>1, <2>4
<1>7. ASSUME n # 0, IsOutcome(got[n])
      PROVE  /\ IsError(got[n]) => got[n] \in OutcomesByType(r, v)
             /\ IsOk(got[n]) /\ PredicateIsTruthy(r.of, got[n][2]) => Ok(items[n]) \in OutcomesByType(r, v)
  <2>1. n \in 1 .. n /\ n - 1 \in Nat /\ n - 1 + 1 = n /\ n - 1 <= n
    BY <1>7, HistoryIs
  <2>2. /\ got[n] \in Outcomes(r.of, items[n]) /\ n <= Len(items)
        /\ \A i \in 1 .. n - 1 : IsOk(got[i]) /\ ~PredicateIsTruthy(r.of, got[i][2])
    BY <1>4, <1>7, <2>1
  <2>3. ~(n > Len(items)) /\ n - 1 <= Len(items)
    BY <1>3, <2>1, <2>2
  <2>4. IsError(got[n]) => got[n] \in Rest(r, n, v)
    BY <2>2, <2>3, FindRule DEF items, IsOk, IsError
  <2>5. IsOk(got[n]) /\ PredicateIsTruthy(r.of, got[n][2]) => Ok(items[n]) \in Rest(r, n, v)
    BY <2>2, <2>3, FindRule DEF items
  <2>6. \A o \in Rest(r, n, v) : o \in Rest(r, 1, v)
    BY <1>6, <2>1, <2>2, <2>3
  <2>7. QED
    BY <1>5, <2>4, <2>5, <2>6
<1>8. n # 0 /\ IsError(got[n]) => got[n] \in OutcomesByType(r, v)
  BY <1>7 DEF IsOutcome
<1>9. ASSUME \A i \in 1 .. n : IsOk(got[i]), NEW o, Resolve(r, v, got).result = o, o # Pending
      PROVE  o \in OutcomesByType(r, v)
  <2>1. Len(got) = n /\ DOMAIN got = 1 .. n /\ n \in Nat
    BY HistoryIs
  <2>2. CASE Found(got)
    <3>1. PICK i \in 1 .. n : PredicateIsTruthy(r.of, got[i][2])
      BY <2>1, <2>2
    <3>2. n \in 1 .. n /\ n # 0
      BY <2>1
    <3>3. i \notin 1 .. n - 1
      BY <1>4, <3>1, <3>2
    <3>4. i = n
      BY <2>1, <3>3
    <3>5. Resolve(r, v, got) = Settle(Ok(items[n]))
      BY <1>1, <2>1, <2>2
    <3>6. o = Ok(items[n])
      BY <1>9, <3>5 DEF Settle
    <3>7. QED
      BY <1>7, <1>9, <3>1, <3>2, <3>4, <3>6 DEF IsOutcome
  <2>3. CASE ~Found(got)
    <3>1. \A i \in 1 .. n : ~PredicateIsTruthy(r.of, got[i][2])
      BY <2>1, <2>3
    <3> HIDE DEF Found
    <3>2. ~(Len(got) < Len(items)) /\ Resolve(r, v, got) = Settle(Ok(Undefined))
      BY <1>1, <1>9, <2>3 DEF Call
    <3>3. o = Ok(Undefined)
      BY <1>9, <3>2 DEF Settle
    <3>4. n <= Len(items)
      <4>1. CASE n = 0
        BY <1>3, <4>1
      <4>2. CASE n # 0
        BY <1>4, <4>2, HistoryIs
      <4>3. QED
        BY <4>1, <4>2
    <3>5. n + 1 > Len(items)
      BY <1>3, <2>1, <3>2
    <3>6. o \in Rest(r, n + 1, v)
      BY <3>3, <3>5, FindRule DEF items
    <3>7. QED
      BY <1>5, <1>6, <1>9, <2>1, <3>1, <3>4, <3>6
  <2>4. QED
    BY <2>2, <2>3
<1>10. QED
  BY <1>2, <1>8, <1>9, InTurnAgrees

\* A control entity: up to the first case that holds, then what it does, or the default.
LEMMA ControlAgrees ==
  ASSUME FollowTheRules, NEW r \in Reducer, r.type = "control", NEW v, NEW n, NEW got,
         IsHistory(r, v, n, got)
  PROVE  Agrees(r, v, n, got)
<1> DEFINE cases == r.of.cases
           c == Len(cases)
           held(x) == {i \in DOMAIN x \cap DOMAIN cases : Truthy(x[i][2])}
           Trying(x) == held(x) = {} /\ Len(x) < c
           None(x) == held(x) = {} /\ Len(x) = c
           Doing(x) == Len(x) # 0 /\ held(x) = {Len(x)}
<1>1. c \in Nat /\ DOMAIN cases = 1 .. c
  BY ReducerAssumption, LenProperties
<1>2. \A x : /\ Trying(x) => Resolve(r, v, x) = Call(<<To(cases[Len(x) + 1], v)>>)
             /\ None(x) => Resolve(r, v, x) = Call(<<To(r.of.default, v)>>)
             /\ Doing(x) => Resolve(r, v, x) = Call(<<To(r.of.dos[Len(x)], v)>>)
             /\ ~Trying(x) /\ ~None(x) /\ ~Doing(x) => Resolve(r, v, x) = Settle(Last(x))
  <2> TAKE x
  <2>1. Resolve(r, v, x) = ControlResolve(r, v, x)
    BY DEF Resolve
  <2>2. CASE Trying(x)
    BY <2>1, <2>2 DEF ControlResolve
  <2>3. CASE None(x) /\ ~Trying(x)
    BY <2>1, <2>3 DEF ControlResolve
  <2>4. CASE Doing(x) /\ ~Trying(x) /\ ~None(x)
    BY <2>1, <2>4 DEF ControlResolve
  <2>5. CASE ~Doing(x) /\ ~Trying(x) /\ ~None(x)
    BY <2>1, <2>5 DEF ControlResolve
  <2>6. ~(Trying(x) /\ None(x)) /\ ~(Trying(x) /\ Doing(x)) /\ ~(None(x) /\ Doing(x))
    <3>1. Trying(x) => ~None(x)
      BY <1>1
    <3>2. QED
      BY <3>1
  <2> HIDE DEF Trying, None, Doing
  <2>7. QED
    BY <2>2, <2>3, <2>4, <2>5, <2>6
<1>3. IsReducer(r) /\ Sequential(r) /\ ~Catches(r)
  BY DEF IsReducer, Sequential, Catches
<1> DEFINE Holds(i) == i <= c /\ Truthy(got[i][2])
           Fits(j, r1) == IsOutcome(got[j]) => got[j] \in Outcomes(r1, v)
           Tried(j) == j <= c /\ (\A i \in 1 .. j - 1 : ~Holds(i)) /\ Fits(j, cases[j])
           Default(j) == j = c + 1 /\ (\A i \in 1 .. j - 1 : ~Holds(i)) /\ Fits(j, r.of.default)
           Did(j) == /\ j - 1 \in 1 .. c /\ Holds(j - 1) /\ (\A i \in 1 .. j - 2 : ~Holds(i))
                     /\ Fits(j, r.of.dos[j - 1])
<1> HIDE DEF c
<1>4. ASSUME NEW j \in 1 .. n
      PROVE  /\ Tried(j) \/ Default(j) \/ Did(j)
             /\ \A i \in 1 .. j - 1 : IsOk(got[i])
  <2> DEFINE x == Prefix(got, j - 1)
             next == Resolve(r, v, x)
  <2>1. j \in Nat \ {0} /\ j - 1 \in Nat
    BY HistoryIs
  <2>2. /\ next.calls # <<>>
        /\ \A r1, w : IsOutcome(got[j]) /\ next.calls = <<To(r1, w)>> => got[j] \in Outcomes(r1, w)
        /\ \A i \in 1 .. j - 1 : Accepts(r, got[i])
    BY <1>3, SettledInTurn
  <2>3. Len(x) = j - 1 /\ DOMAIN x = 1 .. j - 1 /\ \A i \in 1 .. j - 1 : x[i] = got[i]
    BY <2>1, PrefixIs
  <2> HIDE DEF x
  <2>4. held(x) = {i \in 1 .. j - 1 : Holds(i)}
    BY <1>1, <2>1, <2>3
  <2>5. \A i \in 1 .. j - 1 : IsOk(got[i])
    BY <1>3, <2>2 DEF Accepts
  <2>6. Trying(x) \/ None(x) \/ Doing(x)
    <3> HIDE DEF Trying, None, Doing
    <3>1. ~(Trying(x) \/ None(x) \/ Doing(x)) => next = Settle(Last(x))
      BY <1>2, Zenon
    <3>2. Settle(Last(x)).calls = <<>>
      BY DEF Settle
    <3>3. QED
      BY <2>2, <3>1, <3>2
  <2>7. \A r1 : next = Call(<<To(r1, v)>>) => Fits(j, r1)
    <3>1. \A r1 : next = Call(<<To(r1, v)>>) => next.calls = <<To(r1, v)>>
      BY DEF Call
    <3> HIDE DEF next
    <3>2. QED
      BY <2>2, <3>1
  <2> HIDE DEF Holds, Fits, held
  <2>8. CASE Trying(x)
    <3>1. Len(x) + 1 = j /\ j <= c /\ \A i \in 1 .. j - 1 : ~Holds(i)
      BY <1>1, <2>1, <2>3, <2>4, <2>8
    <3>2. next = Call(<<To(cases[Len(x) + 1], v)>>)
      <4> HIDE DEF Trying, None, Doing
      <4>1. QED
        BY <1>2, <2>8, Zenon
    <3> HIDE DEF next
    <3>3. Fits(j, cases[j])
      BY <2>7, <3>1, <3>2
    <3>4. QED
      BY <2>5, <3>1, <3>3
  <2>9. CASE None(x)
    <3>1. j = c + 1 /\ \A i \in 1 .. j - 1 : ~Holds(i)
      BY <1>1, <2>1, <2>3, <2>4, <2>9
    <3>2. next = Call(<<To(r.of.default, v)>>)
      <4> HIDE DEF Trying, None, Doing
      <4>1. QED
        BY <1>2, <2>9, Zenon
    <3> HIDE DEF next
    <3>3. Fits(j, r.of.default)
      BY <2>7, <3>2
    <3>4. QED
      BY <2>5, <3>1, <3>3
  <2>10. CASE Doing(x)
    <3>1. j - 1 # 0 /\ {i \in 1 .. j - 1 : Holds(i)} = {j - 1}
      BY <2>3, <2>4, <2>10
    <3>2. Holds(j - 1) /\ \A i \in 1 .. j - 2 : ~Holds(i)
      <4>1. j - 1 \in {i \in 1 .. j - 1 : Holds(i)}
        BY <3>1
      <4>2. \A i \in 1 .. j - 2 : i \in 1 .. j - 1 /\ i # j - 1
        BY <2>1
      <4>3. QED
        BY <3>1, <4>1, <4>2
    <3>3. j - 1 \in 1 .. c
      BY <1>1, <2>1, <3>1, <3>2 DEF Holds
    <3>4. next = Call(<<To(r.of.dos[Len(x)], v)>>)
      <4> HIDE DEF Trying, None, Doing
      <4>1. QED
        BY <1>2, <2>10, Zenon
    <3> HIDE DEF next
    <3>5. Fits(j, r.of.dos[j - 1])
      BY <2>3, <2>7, <3>4
    <3>6. QED
      BY <2>5, <3>2, <3>3, <3>5
  <2>11. QED
    BY <2>6, <2>8, <2>9, <2>10
<1> HIDE DEF Holds, Fits
<1>5. OutcomesByType(r, v) = Rest(r, 1, v)
  BY FromTheFirst
\* A case that was the first not to hold, or to hold, was tried.
<1>6. ASSUME NEW j \in 1 .. n, j <= c, \A i \in 1 .. j - 1 : ~Holds(i) PROVE Tried(j)
  <2>1. j \in Nat \ {0}
    BY HistoryIs
  <2>2. ~Default(j)
    BY <1>1, <1>6, <2>1
  <2>3. ~Did(j)
    BY <1>6, <2>1
  <2> HIDE DEF Tried, Default, Did
  <2>4. QED
    BY <1>4, <2>2, <2>3
<1>7. ASSUME NEW m \in Nat, NEW o \in Rest(r, m + 1, v), m <= n, m <= c,
             \A i \in 1 .. m : IsOk(got[i]) /\ ~Holds(i)
      PROVE  o \in Rest(r, 1, v)
  <2> DEFINE val == [k \in Nat |-> v]
  <2>1. \A k \in Nat : val[k] = v
    OBVIOUS
  <2> HIDE DEF val
  <2>2. ASSUME NEW k \in 1 .. m, o \in Rest(r, k + 1, val[k + 1]) PROVE o \in Rest(r, k, val[k])
    <3>1. k \in 1 .. n /\ k <= c /\ ~(k > c) /\ k \in Nat /\ k + 1 \in Nat
      BY <1>1, <1>7, HistoryIs
    <3>2. Tried(k)
      <4>1. \A i \in 1 .. k - 1 : ~Holds(i)
        BY <1>7
      <4> HIDE DEF Tried
      <4>2. QED
        BY <1>6, <3>1, <4>1
    <3>3. got[k] \in Outcomes(cases[k], v)
      BY <1>7, <3>2 DEF Fits, IsOutcome
    <3>4. IsOk(got[k]) /\ ~Truthy(got[k][2])
      BY <1>7, <3>1 DEF Holds
    <3>5. o \in Rest(r, k, v)
      BY <2>1, <2>2, <3>1, <3>3, <3>4, ControlRule DEF c
    <3>6. QED
      BY <2>1, <3>1, <3>5
  <2>3. o \in Rest(r, m + 1, val[m + 1])
    BY <1>7, <2>1
  <2>4. o \in Rest(r, 1, val[1])
    BY <2>2, <2>3, RestBack
  <2>5. QED
    BY <2>1, <2>4
<1>8. ASSUME n # 0, IsOutcome(got[n]), IsError(got[n]) \/ ~Tried(n)
      PROVE  got[n] \in OutcomesByType(r, v)
  <2>1. n \in 1 .. n /\ n \in Nat \ {0}
    BY <1>8, HistoryIs
  <2>2. \A i \in 1 .. n - 1 : IsOk(got[i])
    BY <1>4, <2>1
  <2>3. CASE Tried(n)
    <3>1. got[n] \in Outcomes(cases[n], v) /\ ~(n > c)
      BY <1>1, <1>8, <2>1, <2>3 DEF Fits
    <3>2. got[n] \in Rest(r, n, v)
      BY <1>8, <2>3, <3>1, ControlRule DEF c, IsOk, IsError
    <3>3. n - 1 \in Nat /\ n - 1 <= n /\ n - 1 <= c /\ n - 1 + 1 = n
      BY <1>1, <2>1, <2>3
    <3>4. QED
      BY <1>5, <1>7, <2>2, <2>3, <3>2, <3>3
  <2>4. CASE Default(n)
    <3>1. got[n] \in Outcomes(r.of.default, v) /\ n > c
      BY <1>1, <1>8, <2>1, <2>4 DEF Fits
    <3>2. got[n] \in Rest(r, n, v)
      BY <3>1, ControlRule DEF c
    <3>3. n - 1 \in Nat /\ n - 1 <= n /\ n - 1 <= c /\ n - 1 + 1 = n
      BY <1>1, <2>1, <2>4
    <3>4. QED
      BY <1>5, <1>7, <2>2, <2>4, <3>2, <3>3
  <2>5. CASE Did(n)
    <3> DEFINE k == n - 1
    <3>1. k \in 1 .. n /\ k \in Nat \ {0} /\ k \in 1 .. n - 1 /\ k <= c /\ ~(k > c)
      BY <1>1, <2>1, <2>5
    <3>2. \A i \in 1 .. k - 1 : ~Holds(i)
      <4>1. k - 1 = n - 2
        BY <2>1
      <4>2. QED
        BY <2>5, <4>1
    <3>3. Holds(k) /\ Fits(n, r.of.dos[k])
      BY <2>5
    <3> HIDE DEF k
    <3>4. Tried(k)
      BY <1>6, <3>1, <3>2
    <3>5. IsOk(got[k])
      BY <2>2, <3>1
    <3>6. got[k] \in Outcomes(cases[k], v) /\ Truthy(got[k][2])
      BY <3>3, <3>4, <3>5 DEF Fits, Holds, IsOutcome
    <3>7. got[n] \in Outcomes(r.of.dos[k], v)
      BY <1>8, <3>3 DEF Fits
    <3>8. got[n] \in Rest(r, k, v)
      BY <3>1, <3>5, <3>6, <3>7, ControlRule DEF c
    <3>9. k - 1 \in Nat /\ k - 1 <= n /\ k - 1 <= c /\ k - 1 + 1 = k
      BY <1>1, <2>1, <3>1
    <3>10. \A i \in 1 .. k - 1 : IsOk(got[i])
      BY <2>1, <2>2, <3>1
    <3>11. QED
      BY <1>5, <1>7, <3>2, <3>8, <3>9, <3>10
  <2>6. QED
    <3> HIDE DEF Tried, Default, Did
    <3>1. QED
      BY <1>4, <2>1, <2>3, <2>4, <2>5
<1>9. n # 0 /\ IsError(got[n]) => got[n] \in OutcomesByType(r, v)
  BY <1>8 DEF IsOutcome
<1>10. ASSUME \A i \in 1 .. n : IsOk(got[i]), NEW o, Resolve(r, v, got).result = o, o # Pending
       PROVE  o \in OutcomesByType(r, v)
  <2>1. Len(got) = n /\ DOMAIN got = 1 .. n /\ n \in Nat
    BY HistoryIs
  <2>2. held(got) = {i \in 1 .. n : Holds(i)}
    BY <1>1, <2>1 DEF Holds
  <2>3. ~Trying(got) /\ ~None(got) /\ ~Doing(got)
    <3> HIDE DEF Trying, None, Doing
    <3>1. Trying(got) \/ None(got) \/ Doing(got) => \E calls : Resolve(r, v, got) = Call(calls)
      BY <1>2, Zenon
    <3>2. \A calls : Call(calls).result = Pending
      BY DEF Call
    <3>3. QED
      BY <1>10, <3>1, <3>2
  <2>4. Resolve(r, v, got) = Settle(Last(got))
    <3> HIDE DEF Trying, None, Doing
    <3>1. QED
      BY <1>2, <2>3, Zenon
  <2> HIDE DEF held
  <2>5. n # 0
    <3>1. SUFFICES ASSUME n = 0 PROVE FALSE
      OBVIOUS
    <3>2. held(got) = {}
      BY <2>2, <3>1
    <3>3. 0 < c \/ 0 = c
      BY <1>1
    <3>4. QED
      BY <2>1, <2>3, <3>1, <3>2, <3>3
  <2>6. ~Tried(n)
    <3>1. SUFFICES ASSUME Tried(n) PROVE FALSE
      OBVIOUS
    <3>2. held(got) = {} \/ held(got) = {n}
      BY <2>1, <2>2, <3>1
    <3>3. n < c \/ n = c
      BY <1>1, <2>1, <3>1
    <3>4. QED
      BY <2>1, <2>3, <2>5, <3>2, <3>3
  <2>7. n \in 1 .. n /\ Last(got) = got[n]
    BY <2>5, HistoryIs
  <2>8. o = got[n] /\ IsOutcome(got[n])
    BY <1>10, <2>4, <2>7 DEF Settle, IsOutcome
  <2> HIDE DEF Tried
  <2>9. QED
    BY <1>8, <2>5, <2>6, <2>8
<1>11. QED
  BY <1>3, <1>9, <1>10, InTurnAgrees

\* parallel: one call for each part.
LEMMA ParallelAgrees ==
  ASSUME NEW r \in Reducer, r.type = "parallel", NEW v, NEW n, NEW got, IsHistory(r, v, n, got)
  PROVE  Agrees(r, v, n, got)
<1> DEFINE m == Len(r.of)
           calls == [i \in DOMAIN r.of |-> To(r.of[i], v)]
           parts == [i \in DOMAIN r.of |-> Outcomes(r.of[i], v)]
<1>1. m \in Nat /\ DOMAIN r.of = 1 .. m
  BY ReducerAssumption, LenProperties
<1>2. calls = [i \in 1 .. m |-> calls[i]] /\ parts = [i \in 1 .. m |-> parts[i]]
  BY <1>1
<1>3. \A i \in 1 .. m : \A o \in Outcomes(calls[i].reducer, calls[i].value) : o \in parts[i]
  BY <1>1 DEF To
<1>4. \A x : Resolve(r, v, x) = PromiseAll(calls, x, Ok(Array(Values(x))))
  BY DEF Resolve, ParallelResolve
<1>5. /\ \A c \in Fulfilled(parts) : Ok(Array(Values(c))) \in OutcomesByType(r, v)
      /\ \A i \in DOMAIN parts : \A o \in parts[i] : IsError(o) => o \in OutcomesByType(r, v)
  BY ParallelRule
<1>6. \A i \in 1 .. m : \A o \in parts[i] : IsError(o) => o \in OutcomesByType(r, v)
  BY <1>1, <1>5
<1>7. ~Catches(r)
  BY DEF Catches
<1> HIDE DEF m, calls, parts
<1>8. \A x : \E o : /\ Resolve(r, v, x) = PromiseAll(calls, x, o)
                    /\ x \in Fulfilled(parts) => o \in OutcomesByType(r, v)
  BY <1>4, <1>5
<1>9. QED
  BY <1>1, <1>2, <1>3, <1>6, <1>7, <1>8, TogetherAgrees

\* ReducerObject: a part for each path.
LEMMA ObjectAgrees ==
  ASSUME NEW r \in Reducer, r.type = "ReducerObject", NEW v, NEW n, NEW got, IsHistory(r, v, n, got)
  PROVE  Agrees(r, v, n, got)
<1> DEFINE all == r.of.reducers
           m == Len(all)
           calls == [i \in DOMAIN all |-> To(all[i].reducer, v)]
           parts == [i \in DOMAIN all |-> Outcomes(all[i].reducer, v)]
<1>1. m \in Nat /\ DOMAIN all = 1 .. m
  BY ReducerAssumption, LenProperties
<1>2. calls = [i \in 1 .. m |-> calls[i]] /\ parts = [i \in 1 .. m |-> parts[i]]
  BY <1>1
<1>3. \A i \in 1 .. m : \A o \in Outcomes(calls[i].reducer, calls[i].value) : o \in parts[i]
  BY <1>1 DEF To
<1>4. \A x : Resolve(r, v, x) = PromiseAll(calls, x, Ok(Object(EntriesOf(r.of.constants, all, x))))
  BY DEF Resolve, ObjectResolve
<1>5. /\ \A c \in Fulfilled(parts) : Ok(Object(EntriesOf(r.of.constants, all, c))) \in OutcomesByType(r, v)
      /\ \A i \in DOMAIN parts : \A o \in parts[i] : IsError(o) => o \in OutcomesByType(r, v)
  BY ObjectRule
<1>6. \A i \in 1 .. m : \A o \in parts[i] : IsError(o) => o \in OutcomesByType(r, v)
  BY <1>1, <1>5
<1>7. ~Catches(r)
  BY DEF Catches
<1> HIDE DEF m, calls, parts, all
<1>8. \A x : \E o : /\ Resolve(r, v, x) = PromiseAll(calls, x, o)
                    /\ x \in Fulfilled(parts) => o \in OutcomesByType(r, v)
  BY <1>4, <1>5
<1>9. QED
  BY <1>1, <1>2, <1>3, <1>6, <1>7, <1>8, TogetherAgrees

\* map: one call for each item.
LEMMA MapAgrees ==
  ASSUME NEW r \in Reducer, r.type = "map", NEW v, IsArray(v), NEW n, NEW got,
         IsHistory(r, v, n, got)
  PROVE  Agrees(r, v, n, got)
<1> DEFINE m == Len(v[2])
           calls == [i \in DOMAIN v[2] |-> To(r.of, v[2][i])]
           parts == [i \in DOMAIN v[2] |-> Outcomes(r.of, v[2][i])]
<1>1. m \in Nat /\ DOMAIN v[2] = 1 .. m
  BY LenProperties DEF IsArray
<1>2. calls = [i \in 1 .. m |-> calls[i]] /\ parts = [i \in 1 .. m |-> parts[i]]
  BY <1>1
<1>3. \A i \in 1 .. m : \A o \in Outcomes(calls[i].reducer, calls[i].value) : o \in parts[i]
  BY <1>1 DEF To
<1>4. \A x : Resolve(r, v, x) = PromiseAll(calls, x, Ok(Array(Values(x))))
  BY DEF Resolve, MapResolve, Each
<1>5. /\ \A c \in Fulfilled(parts) : Ok(Array(Values(c))) \in OutcomesByType(r, v)
      /\ \A i \in DOMAIN parts : \A o \in parts[i] : IsError(o) => o \in OutcomesByType(r, v)
  BY MapRule DEF OnEach
<1>6. \A i \in 1 .. m : \A o \in parts[i] : IsError(o) => o \in OutcomesByType(r, v)
  BY <1>1, <1>5
<1>7. ~Catches(r)
  BY DEF Catches
<1> HIDE DEF m, calls, parts
<1>8. \A x : \E o : /\ Resolve(r, v, x) = PromiseAll(calls, x, o)
                    /\ x \in Fulfilled(parts) => o \in OutcomesByType(r, v)
  BY <1>4, <1>5
<1>9. QED
  BY <1>1, <1>2, <1>3, <1>6, <1>7, <1>8, TogetherAgrees

\* filter: the items kept are those at the places where the predicate held.
LEMMA FilterAgrees ==
  ASSUME NEW r \in Reducer, r.type = "filter", NEW v, IsArray(v), NEW n, NEW got,
         IsHistory(r, v, n, got)
  PROVE  Agrees(r, v, n, got)
<1> DEFINE m == Len(v[2])
           calls == [i \in DOMAIN v[2] |-> To(r.of, v[2][i])]
           parts == [i \in DOMAIN v[2] |-> Outcomes(r.of, v[2][i])]
<1>1. m \in Nat /\ DOMAIN v[2] = 1 .. m
  BY LenProperties DEF IsArray
<1>2. calls = [i \in 1 .. m |-> calls[i]] /\ parts = [i \in 1 .. m |-> parts[i]]
  BY <1>1
<1>3. \A i \in 1 .. m : \A o \in Outcomes(calls[i].reducer, calls[i].value) : o \in parts[i]
  BY <1>1 DEF To
<1>4. \A x : Resolve(r, v, x) = PromiseAll(calls, x, Ok(Array(KeptItems(r.of, v[2], x))))
  <2> TAKE x
  <2> DEFINE kept == [i \in DOMAIN x |-> IF i \in Matching(r, v[2], x) THEN <<v[2][i]>> ELSE <<>>]
             held == [i \in DOMAIN x |-> IF PredicateIsTruthy(r.of, x[i][2]) THEN <<v[2][i]>> ELSE <<>>]
  <2>1. kept = held
    BY DEF Matching
  <2>2. KeptItems(r.of, v[2], x) = FlattenSeq(held)
    BY DEF KeptItems
  <2>3. Resolve(r, v, x) = PromiseAll(calls, x, Ok(Array(FlattenSeq(kept))))
    BY DEF Resolve, FilterResolve, Each
  <2> HIDE DEF kept, held
  <2>4. QED
    BY <2>1, <2>2, <2>3
<1>5. /\ \A c \in Fulfilled(parts) : Ok(Array(KeptItems(r.of, v[2], c))) \in OutcomesByType(r, v)
      /\ \A i \in DOMAIN parts : \A o \in parts[i] : IsError(o) => o \in OutcomesByType(r, v)
  BY FilterRule DEF OnEach
<1>6. \A i \in 1 .. m : \A o \in parts[i] : IsError(o) => o \in OutcomesByType(r, v)
  BY <1>1, <1>5
<1>7. ~Catches(r)
  BY DEF Catches
<1> HIDE DEF m, calls, parts
<1>8. \A x : \E o : /\ Resolve(r, v, x) = PromiseAll(calls, x, o)
                    /\ x \in Fulfilled(parts) => o \in OutcomesByType(r, v)
  BY <1>4, <1>5
<1>9. QED
  BY <1>1, <1>2, <1>3, <1>6, <1>7, <1>8, TogetherAgrees

\* An entity, for a value.
LEMMA OneBodyAgrees ==
  ASSUME NEW r \in Reducer, IsEntity(r), NEW v, Known(r),
         ~Skipped(r, v), ~ForItems(r), NEW n, NEW got, IsHistory(r, v, n, got)
  PROVE  Agrees(r, v, n, got)
<1> DEFINE call == To(Once(r), v)
           calls == <<call>>
           outcomes == Outcomes(Once(r), v)
           parts == <<outcomes>>
<1>1. outcomes = OutcomesByType(r, v)
  BY DEF OutcomesByType, ForItems, IsEntity
<1>2. call.reducer = Once(r) /\ call.value = v
  BY DEF To
<1>3. outcomes = Outcomes(call.reducer, call.value)
  BY <1>2
<1>4. \A x : Resolve(r, v, x) = PromiseAll(calls, x, Last(x))
  BY DEF Resolve, BaseResolve, ForItems, IsEntity
<1> HIDE DEF call, outcomes
<1>5. calls = [i \in 1 .. 1 |-> calls[i]] /\ calls[1] = call
  OBVIOUS
<1>6. parts = [i \in 1 .. 1 |-> parts[i]] /\ parts[1] = outcomes /\ DOMAIN parts = 1 .. 1
  OBVIOUS
<1> HIDE DEF calls, parts
<1>7. ASSUME NEW x \in Fulfilled(parts) PROVE Last(x) \in OutcomesByType(r, v)
  <2>1. x = [i \in 1 .. 1 |-> x[i]] /\ x[1] \in outcomes
    BY <1>6 DEF Fulfilled
  <2>2. Len(x) = 1
    BY <2>1, SeqFunction
  <2>3. QED
    BY <1>1, <2>1, <2>2 DEF Last
<1>8. \A x : \E o : /\ Resolve(r, v, x) = PromiseAll(calls, x, o)
                    /\ x \in Fulfilled(parts) => o \in OutcomesByType(r, v)
  BY <1>4, <1>7
<1>9. \A i \in 1 .. 1 : i = 1
  OBVIOUS
<1>10. \A i \in 1 .. 1 : \A o \in Outcomes(calls[i].reducer, calls[i].value) : o \in parts[i]
  BY <1>3, <1>5, <1>6, <1>9
<1>11. \A i \in 1 .. 1 : \A o \in parts[i] : IsError(o) => o \in OutcomesByType(r, v)
  BY <1>1, <1>6, <1>9
<1>12. ~Catches(r)
  BY DEF Catches, IsEntity
<1>13. QED
  BY <1>5, <1>6, <1>8, <1>10, <1>11, <1>12, TogetherAgrees

\* An entity, for each item; those that it skips stand for themselves.
LEMMA EachBodyAgrees ==
  ASSUME FollowTheRules, NEW r \in Reducer, IsEntity(r), NEW v,
         Known(r), ~Skipped(r, v), ForItems(r), IsArray(v), NEW n, NEW got,
         IsHistory(r, v, n, got)
  PROVE  Agrees(r, v, n, got)
<1> DEFINE items == v[2]
           m == Len(items)
           calls == [i \in DOMAIN items |->
                       IF Skipped(r, items[i]) THEN To(Constant(items[i]), items[i])
                       ELSE To(Once(r), items[i])]
           parts == [i \in DOMAIN items |-> IF Skipped(r, items[i]) THEN {Ok(items[i])}
                                            ELSE Outcomes(Once(r), items[i])]
<1>1. m \in Nat /\ DOMAIN items = 1 .. m
  BY LenProperties DEF IsArray
<1>2. calls = [i \in 1 .. m |-> calls[i]] /\ parts = [i \in 1 .. m |-> parts[i]]
  BY <1>1
<1>3. \A w : Outcomes(Constant(w), w) = {Ok(w)}
  <2> TAKE w
  <2> DEFINE r1 == Constant(w)
  <2>1. r1.type = "constant" /\ r1.of = w /\ DOMAIN r1 = {"type", "of"}
    BY DEF Constant, Stub, Source
  <2> HIDE DEF r1
  <2>2. Simple(r1, w) = Ok(w)
    BY <2>1 DEF Simple
  <2>3. OutcomesByType(r1, w) = {Ok(w)}
    <3>1. "constant" \in SimpleTypes
      BY DEF SimpleTypes
    <3>2. QED
      BY <2>1, <2>2, <3>1, FromTheFirst
  <2>4. WithDefaultOf(r1, Ok(w)) = Ok(w)
    BY <2>1 DEF WithDefaultOf
  <2>5. OutcomesRule(r1, w) = {Ok(w)}
    BY <2>3, <2>4 DEF OutcomesRule
  <2>6. QED
    BY <2>5 DEF FollowTheRules, r1
<1>4. \A i \in 1 .. m : \A o \in Outcomes(calls[i].reducer, calls[i].value) : o \in parts[i]
  <2> TAKE i \in 1 .. m
  <2>1. CASE Skipped(r, items[i])
    <3>1. calls[i] = To(Constant(items[i]), items[i]) /\ parts[i] = {Ok(items[i])}
      BY <1>1, <2>1
    <3> HIDE DEF calls, parts
    <3>2. QED
      BY <1>3, <3>1 DEF To
  <2>2. CASE ~Skipped(r, items[i])
    <3>1. calls[i] = To(Once(r), items[i]) /\ parts[i] = Outcomes(Once(r), items[i])
      BY <1>1, <2>2
    <3> HIDE DEF calls, parts
    <3>2. QED
      BY <3>1 DEF To
  <2>3. QED
    BY <2>1, <2>2
<1>5. \A x : Resolve(r, v, x) = PromiseAll(calls, x, Ok(Array(Values(x))))
  BY DEF Resolve, BaseResolve, ForItems, IsEntity
<1>6. /\ \A c \in Fulfilled(parts) : Ok(Array(Values(c))) \in OutcomesByType(r, v)
      /\ \A i \in DOMAIN parts : \A o \in parts[i] : IsError(o) => o \in OutcomesByType(r, v)
  BY BaseRule
<1>7. \A i \in 1 .. m : \A o \in parts[i] : IsError(o) => o \in OutcomesByType(r, v)
  BY <1>1, <1>6
<1>8. ~Catches(r)
  BY DEF Catches, IsEntity
<1> HIDE DEF m, calls, parts, items
<1>9. \A x : \E o : /\ Resolve(r, v, x) = PromiseAll(calls, x, o)
                    /\ x \in Fulfilled(parts) => o \in OutcomesByType(r, v)
  BY <1>5, <1>6
<1>10. QED
  BY <1>1, <1>2, <1>4, <1>7, <1>8, <1>9, TogetherAgrees

\* What settles at once.
LEMMA SettlesAtOnce ==
  ASSUME NEW r \in Reducer, NEW v, NEW n, NEW got, IsHistory(r, v, n, got),
         \/ r.type = "ReducerList" /\ r.of = <<>>
         \/ r.type \in {"map", "filter", "find"} /\ ~IsArray(v)
         \/ IsEntity(r) /\ ~Known(r)
         \/ IsEntity(r) /\ Known(r) /\ Skipped(r, v)
         \/ /\ IsEntity(r) /\ Known(r) /\ ~Skipped(r, v)
            /\ ForItems(r) /\ ~IsArray(v)
  PROVE  Agrees(r, v, n, got)
<1>1. \E o \in OutcomesByType(r, v) : \A x : Resolve(r, v, x) = Settle(o)
  <2>1. CASE r.type = "ReducerList" /\ r.of = <<>>
    BY <2>1 DEF OutcomesByType, Resolve, ListResolve
  <2>2. CASE r.type = "map" /\ ~IsArray(v)
    BY <2>2 DEF OutcomesByType, Resolve, MapResolve
  <2>3. CASE r.type = "filter" /\ ~IsArray(v)
    BY <2>3 DEF OutcomesByType, Resolve, FilterResolve
  <2>4. CASE r.type = "find" /\ ~IsArray(v)
    <3>1. CASE v \in {Undefined, Null}
      BY <2>4, <3>1 DEF OutcomesByType, Resolve, FindResolve
    <3>2. CASE v \notin {Undefined, Null}
      BY <2>4, <3>2 DEF OutcomesByType, Resolve, FindResolve
    <3>3. QED
      BY <3>1, <3>2
  <2>5. CASE IsEntity(r) /\ ~Known(r)
    BY <2>5 DEF OutcomesByType, Resolve, BaseResolve, ForItems, IsEntity
  <2>6. CASE IsEntity(r) /\ Known(r) /\ Skipped(r, v)
    BY <2>6 DEF OutcomesByType, Resolve, BaseResolve, ForItems, IsEntity
  <2>7. CASE /\ IsEntity(r) /\ Known(r) /\ ~Skipped(r, v)
             /\ ForItems(r) /\ ~IsArray(v)
    BY <2>7 DEF OutcomesByType, Resolve, BaseResolve, ForItems, IsEntity
  <2>8. QED
    BY <2>1, <2>2, <2>3, <2>4, <2>5, <2>6, <2>7
<1>2. ~Catches(r)
  BY DEF Catches, IsEntity
<1>3. QED
  BY <1>1, <1>2, AtOnceAgrees

\* The reducers that call no other.
LEMMA SimpleAgrees ==
  ASSUME FollowTheRules, NEW r, r.type \in SimpleTypes, NEW v, NEW n, NEW got,
         IsHistory(r, v, n, got)
  PROVE  Agrees(r, v, n, got)
<1>1. \A x : Resolve(r, v, x) = Settle(Simple(r, v))
  BY DEF Resolve, SimpleTypes
<1>2. Simple(r, v) \in OutcomesByType(r, v)
  BY FromTheFirst
<1>3. ~Catches(r)
  BY DEF Catches, SimpleTypes
<1>4. QED
  BY <1>1, <1>2, <1>3, AtOnceAgrees

-----------------------------------------------------------------------------
(* The stages of an entity *)

\* The least failure.
LEMMA FirstFailureIs ==
  ASSUME NEW x, NEW k \in Nat, DOMAIN x = 1 .. k
  PROVE  /\ Failures(x) # {} => \E f \in 1 .. k : /\ IsError(x[f])
                                                  /\ \A i \in 1 .. f - 1 : ~IsError(x[i])
         /\ \A f \in 1 .. k : IsError(x[f]) /\ (\A i \in 1 .. f - 1 : ~IsError(x[i])) =>
              Failures(x) # {} /\ Min(Failures(x)) = f
<1>1. Failures(x) = {i \in 1 .. k : IsError(x[i])}
  BY DEF Failures
<1>2. ASSUME Failures(x) # {}
      PROVE  \E f \in 1 .. k : IsError(x[f]) /\ \A i \in 1 .. f - 1 : ~IsError(x[i])
  <2>1. PICK least \in Failures(x) : \A i \in Failures(x) : ~(i < least)
    BY <1>1, <1>2, LeastNumber
  <2>2. \A i \in 1 .. least - 1 : i \in 1 .. k /\ i < least
    BY <1>1
  <2>3. QED
    BY <1>1, <2>1, <2>2
<1>3. ASSUME NEW f \in 1 .. k, IsError(x[f]), \A i \in 1 .. f - 1 : ~IsError(x[i])
      PROVE  Failures(x) # {} /\ Min(Failures(x)) = f
  <2>1. f \in Failures(x)
    BY <1>1, <1>3
  <2>2. \A i \in Failures(x) : i \in 1 .. k /\ i \notin 1 .. f - 1
    BY <1>1, <1>3
  <2>3. \A i \in Failures(x) : f <= i
    BY <2>2
  <2>4. \A i \in Failures(x) : (\A j \in Failures(x) : i <= j) => i = f
    BY <2>1, <2>2, <2>3
  <2>5. QED
    BY <2>1, <2>3, <2>4 DEF Min
<1>4. QED
  BY <1>2, <1>3

\* Fewer than two have failed.
LEMMA FewFailures ==
  ASSUME NEW x, NEW k \in Nat, DOMAIN x = 1 .. k
  PROVE  Cardinality(Failures(x)) < 2 <=>
           \A i, j \in 1 .. k : IsError(x[i]) /\ IsError(x[j]) => i = j
<1>1. Failures(x) = {i \in 1 .. k : IsError(x[i])}
  BY DEF Failures
<1>2. IsFiniteSet(Failures(x))
  <2>1. IsFiniteSet(1 .. k)
    BY FS_Interval
  <2>2. Failures(x) \subseteq 1 .. k
    BY <1>1
  <2>3. QED
    BY <2>1, <2>2, FS_Subset
<1>3. ASSUME NEW i \in 1 .. k, NEW j \in 1 .. k, IsError(x[i]), IsError(x[j]), i # j
      PROVE  ~(Cardinality(Failures(x)) < 2)
  <2>1. {i, j} \subseteq Failures(x)
    BY <1>1, <1>3
  <2>2. Cardinality({i}) = 1 /\ IsFiniteSet({i})
    BY FS_Singleton
  <2>3. Cardinality({i} \cup {j}) = 2
    <3>1. j \notin {i}
      BY <1>3
    <3>2. Cardinality({i} \cup {j}) = Cardinality({i}) + 1
      BY <2>2, <3>1, FS_AddElement
    <3>3. QED
      BY <2>2, <3>2
  <2>4. {i} \cup {j} = {i, j}
    OBVIOUS
  <2>5. Cardinality({i, j}) <= Cardinality(Failures(x))
    BY <1>2, <2>1, FS_Subset
  <2>6. Cardinality(Failures(x)) \in Nat
    BY <1>2, FS_CardinalityType
  <2>7. 2 <= Cardinality(Failures(x))
    BY <2>3, <2>4, <2>5
  <2>8. QED
    BY <2>6, <2>7
<1>4. ASSUME \A i, j \in 1 .. k : IsError(x[i]) /\ IsError(x[j]) => i = j
      PROVE  Cardinality(Failures(x)) < 2
  <2>1. CASE Failures(x) = {}
    BY <2>1, FS_EmptySet
  <2>2. CASE Failures(x) # {}
    <3>1. PICK f : f \in Failures(x)
      BY <2>2
    <3>2. Failures(x) = {f}
      BY <1>1, <1>4, <3>1
    <3>3. Cardinality({f}) = 1
      BY FS_Singleton
    <3>4. QED
      BY <3>2, <3>3
  <2>3. QED
    BY <2>1, <2>2
<1>5. QED
  BY <1>3, <1>4

\* The stages up to a failure, then those of the error reducer.
Handled(e, f) ==
  [i \in 1 .. f + Len(e.error) |-> IF i <= f THEN e.stages[i] ELSE e.error[i - f]]

\* The stages that an entity takes: its own, until one fails.
LEMMA StagesAre ==
  ASSUME NEW e, NEW x, NEW k \in Nat, DOMAIN x = 1 .. k
  PROVE  /\ (\A i \in 1 .. k : ~IsError(x[i])) => StagesOf(e, x) = e.stages
         /\ \A f \in 1 .. k : IsError(x[f]) /\ (\A i \in 1 .. f - 1 : ~IsError(x[i])) =>
              StagesOf(e, x) = Handled(e, f)
<1>1. ASSUME \A i \in 1 .. k : ~IsError(x[i]) PROVE StagesOf(e, x) = e.stages
  BY <1>1 DEF StagesOf, Failures
<1>2. ASSUME NEW f \in 1 .. k, IsError(x[f]), \A i \in 1 .. f - 1 : ~IsError(x[i])
      PROVE  StagesOf(e, x) = Handled(e, f)
  <2>1. Failures(x) # {} /\ Min(Failures(x)) = f
    BY <1>2, FirstFailureIs
  <2>2. QED
    BY <2>1 DEF StagesOf, Handled
<1>3. QED
  BY <1>1, <1>2

\* A stage that only checks the value, or acts on it, keeps it.
Keeps(stage) == stage.keeps

\* What a stage makes of the value before it.
Made(stage, w, o) == IF IsError(o) THEN Failure(o[2]) ELSE IF Keeps(stage) THEN w ELSE o[2]

\* The calls that have made the value.
Making(stages, x) == {i \in DOMAIN x : IsError(x[i]) \/ ~Keeps(stages[i])}

\* Current, by the calls that have made a value.
LEMMA CurrentMade ==
  ASSUME NEW stages, NEW v, NEW x, NEW made, made = Making(stages, x)
  PROVE  Current(stages, v, x) =
           IF made = {} THEN v
           ELSE IF IsOk(x[Max(made)]) THEN x[Max(made)][2] ELSE Failure(x[Max(made)][2])
BY Zenon DEF Current, Making, Keeps

\* The first stage gets the value of the entity.
LEMMA CurrentAtFirst ==
  ASSUME NEW stages, NEW v, NEW got
  PROVE  Current(stages, v, Prefix(got, 0)) = v
<1>1. Making(stages, Prefix(got, 0)) = {}
  BY PrefixIs DEF Making
<1>2. QED
  BY <1>1, CurrentMade

\* The value that the next stage gets, by the value before.
LEMMA CurrentIs ==
  ASSUME NEW stages, NEW v, NEW got, NEW k \in Nat, IsOutcome(got[k + 1])
  PROVE  Current(stages, v, Prefix(got, k + 1)) =
           Made(stages[k + 1], Current(stages, v, Prefix(got, k)), got[k + 1])
<1>1. ASSUME NEW x, NEW made, made = Making(stages, x)
      PROVE  Current(stages, v, x) =
               IF made = {} THEN v
               ELSE IF IsOk(x[Max(made)]) THEN x[Max(made)][2] ELSE Failure(x[Max(made)][2])
  BY <1>1, CurrentMade
<1> DEFINE before == Making(stages, Prefix(got, k))
           after == Making(stages, Prefix(got, k + 1))
           makes == IsError(got[k + 1]) \/ ~Keeps(stages[k + 1])
<1>4. /\ DOMAIN Prefix(got, k) = 1 .. k /\ \A i \in 1 .. k : Prefix(got, k)[i] = got[i]
      /\ DOMAIN Prefix(got, k + 1) = 1 .. k + 1
      /\ \A i \in 1 .. k + 1 : Prefix(got, k + 1)[i] = got[i]
  BY PrefixIs
<1>5. before \subseteq 1 .. k
  BY <1>4 DEF Making
<1>6. CASE makes
  <2>1. k + 1 \in after /\ after \subseteq 1 .. k + 1
    BY <1>4, <1>6 DEF Making
  <2> HIDE DEF after
  <2>2. Max(after) = k + 1
    <3>1. after \subseteq 0 .. k + 1 /\ after # {} /\ k + 1 \in Nat
      BY <2>1
    <3>2. Max(after) \in after /\ \A i \in after : i <= Max(after)
      BY <3>1, GreatestNumber
    <3>3. Max(after) \in 1 .. k + 1 /\ k + 1 <= Max(after)
      BY <2>1, <3>2
    <3>4. QED
      BY <3>3
  <2>3. Prefix(got, k + 1)[k + 1] = got[k + 1]
    BY <1>4
  <2>4. after # {}
    BY <2>1
  <2>5. Current(stages, v, Prefix(got, k + 1)) =
          IF IsOk(got[k + 1]) THEN got[k + 1][2] ELSE Failure(got[k + 1][2])
    BY <1>1, <2>2, <2>3, <2>4 DEF after
  <2>6. IsOk(got[k + 1]) => ~IsError(got[k + 1])
    BY DEF IsOk, IsError
  <2>7. QED
    BY <1>6, <2>5, <2>6 DEF Made, IsOutcome
<1>7. CASE ~makes
  <2>1. after = before
    BY <1>4, <1>7 DEF Making
  <2>2. before # {} => Max(before) \in 1 .. k
    <3> HIDE DEF before
    <3>1. before \subseteq 0 .. k
      BY <1>5
    <3>2. before # {} => Max(before) \in before
      BY <3>1, GreatestNumber
    <3>3. QED
      BY <1>5, <3>2
  <2> HIDE DEF after, before
  <2>3. before # {} => Prefix(got, k + 1)[Max(before)] = Prefix(got, k)[Max(before)]
    BY <1>4, <2>2
  <2>4. Current(stages, v, Prefix(got, k + 1)) = Current(stages, v, Prefix(got, k))
    BY <1>1, <2>1, <2>3 DEF after, before
  <2>5. QED
    BY <1>7, <2>4 DEF Made
<1>8. QED
  BY <1>6, <1>7

\* It depends on the stages so far.
LEMMA CurrentAgrees ==
  ASSUME NEW x, NEW some, NEW others, \A i \in DOMAIN x : some[i] = others[i], NEW v
  PROVE  Current(some, v, x) = Current(others, v, x)
<1>1. {i \in DOMAIN x : IsError(x[i]) \/ ~some[i].keeps} =
        {i \in DOMAIN x : IsError(x[i]) \/ ~others[i].keeps}
  <2>1. \A i \in DOMAIN x : (IsError(x[i]) \/ ~some[i].keeps) <=> (IsError(x[i]) \/ ~others[i].keeps)
    BY Zenon
  <2>2. QED
    BY <2>1, Zenon
<1>2. QED
  BY <1>1, Zenon DEF Current

\* What is left of an entity after its stages have succeeded, back to the first of them.
LEMMA StagesBack ==
  ASSUME FollowTheRules, NEW r, r.type = "entity", NEW m \in Nat, NEW val, NEW out,
         Len(r.of.stages) \in Nat, m <= Len(r.of.stages),
         \A k \in 1 .. m : /\ IsOk(out[k]) /\ out[k] \in Outcomes(r.of.stages[k].reducer, val[k])
                           /\ val[k + 1] = Made(r.of.stages[k], val[k], out[k]),
         NEW o \in Rest(r, m + 1, val[m + 1])
  PROVE  o \in Rest(r, 1, val[1])
<1>1. ASSUME NEW k \in 1 .. m, o \in Rest(r, k + 1, val[k + 1]) PROVE o \in Rest(r, k, val[k])
  <2>1. ~(k > Len(r.of.stages))
    OBVIOUS
  <2>2. IsOk(out[k]) /\ ~IsError(out[k])
    BY DEF IsOk, IsError
  <2>3. val[k + 1] = IF r.of.stages[k].keeps THEN val[k] ELSE out[k][2]
    BY <2>2 DEF Made, Keeps
  <2>4. QED
    BY <1>1, <2>1, <2>2, <2>3, EntityRule
<1>2. QED
  BY <1>1, RestBack

\* The stages of an entity, and of its error reducer, are as many as there are.
LEMMA EntityIs ==
  ASSUME NEW r, IsReducer(r), r.type = "entity"
  PROVE  Len(r.of.stages) \in Nat /\ Len(r.of.error) \in Nat /\ (Len(r.of.error) = 0 <=> r.of.error = <<>>)
<1>1. PICK id \in DOMAIN Entity : r.of = Entity[id]
  <2>1. r \notin Reducer
    BY ReducerAssumption DEF Types, SimpleTypes
  <2>2. QED
    BY <2>1 DEF IsReducer
<1>2. \A s \in {Entity[id].stages, Entity[id].error} : s \in Seq(Range(s))
  BY ReducerAssumption
<1>3. \A s \in {Entity[id].stages, Entity[id].error} : Len(s) \in Nat /\ (Len(s) = 0 <=> s = <<>>)
  BY <1>2, LenProperties, EmptySeq
<1>4. QED
  BY <1>1, <1>3

\* The calls of an entity: the stages up to the first failure, then those of its error
\* reducer up to the next, each on what those before have made.
LEMMA EntityCalls ==
  ASSUME NEW r, IsReducer(r), r.type = "entity", NEW v, NEW n, NEW got, IsHistory(r, v, n, got),
         NEW st, st = StagesOf(r.of, got), NEW j \in 1 .. n
  PROVE  /\ \A i \in 1 .. j - 1 : IsOutcome(got[i])
         /\ \A i, k \in 1 .. j - 1 : IsError(got[i]) /\ IsError(got[k]) => i = k
         /\ \E len : len = Len(StagesOf(r.of, Prefix(got, j - 1))) /\ j - 1 < len
         /\ IsOutcome(got[j]) =>
              got[j] \in Outcomes(st[j].reducer, Current(st, v, Prefix(got, j - 1)))
<1> DEFINE x == Prefix(got, j - 1)
           now == StagesOf(r.of, x)
           next == Resolve(r, v, x)
<1>1. j \in Nat \ {0} /\ j - 1 \in Nat /\ j - 1 + 1 = j /\ n \in Nat /\ DOMAIN got = 1 .. n
  BY HistoryIs
<1>2. Sequential(r)
  BY DEF Sequential
<1>3. /\ next.calls # <<>>
      /\ \A r1, w : IsOutcome(got[j]) /\ next.calls = <<To(r1, w)>> => got[j] \in Outcomes(r1, w)
      /\ \A i \in 1 .. j - 1 : Accepts(r, got[i])
  BY <1>2, SettledInTurn
<1>4. Len(x) = j - 1 /\ DOMAIN x = 1 .. j - 1 /\ \A i \in 1 .. j - 1 : x[i] = got[i]
  BY <1>1, PrefixIs
<1> HIDE DEF x
<1> DEFINE goes == Len(x) < Len(now) /\ Cardinality(Failures(x)) < 2
<1>6. /\ goes => next = Call(<<To(now[Len(x) + 1].reducer, Current(now, v, x))>>)
      /\ ~goes => \E o : next = Settle(o)
  <2>1. next = ResolveEntity(r, v, x)
    BY DEF Resolve
  <2>2. CASE goes
    BY <2>1, <2>2 DEF ResolveEntity
  <2>3. CASE ~goes
    BY <2>1, <2>3 DEF ResolveEntity
  <2>4. QED
    BY <2>2, <2>3
<1>7. goes
  <2>1. \A o : Settle(o).calls = <<>>
    BY DEF Settle
  <2> HIDE DEF goes, next
  <2>2. QED
    BY <1>3, <1>6, <2>1
\* The stages that were known then are those of now, as far as the next.
<1>8. \A i \in 1 .. j : now[i] = st[i]
  <2>1. CASE \A i \in 1 .. j - 1 : ~IsError(got[i])
    <3>1. now = r.of.stages
      BY <1>1, <1>4, <2>1, StagesAre
    <3>2. CASE \A i \in 1 .. n : ~IsError(got[i])
      <4>1. st = r.of.stages
        BY <1>1, <3>2, StagesAre
      <4>2. QED
        BY <3>1, <4>1
    <3>3. CASE ~\A i \in 1 .. n : ~IsError(got[i])
      <4>1. Failures(got) # {}
        BY <1>1, <3>3 DEF Failures
      <4>2. PICK f \in 1 .. n : IsError(got[f]) /\ \A i \in 1 .. f - 1 : ~IsError(got[i])
        BY <1>1, <4>1, FirstFailureIs
      <4>3. st = Handled(r.of, f)
        BY <1>1, <4>2, StagesAre
      <4>4. j <= f
        <5>1. f \notin 1 .. j - 1
          BY <2>1, <4>2
        <5>2. QED
          BY <1>1, <5>1
      <4>5. Len(r.of.error) \in Nat
        BY EntityIs
      <4>6. \A i \in 1 .. j : i \in 1 .. f + Len(r.of.error) /\ i <= f
        <5> DEFINE m == Len(r.of.error)
        <5>1. m \in Nat /\ f \in Nat
          BY <1>1, <4>5
        <5> HIDE DEF m
        <5>2. \A i \in 1 .. j : i \in 1 .. f + m /\ i <= f
          BY <1>1, <4>4, <5>1
        <5>3. QED
          BY <5>2 DEF m
      <4>7. \A i \in 1 .. j : st[i] = r.of.stages[i]
        BY <4>3, <4>6 DEF Handled
      <4>8. QED
        BY <3>1, <4>7
    <3>4. QED
      BY <3>2, <3>3
  <2>2. CASE ~\A i \in 1 .. j - 1 : ~IsError(got[i])
    <3>1. Failures(x) # {}
      BY <1>4, <2>2 DEF Failures
    <3>2. PICK f \in 1 .. j - 1 : IsError(x[f]) /\ \A i \in 1 .. f - 1 : ~IsError(x[i])
      BY <1>1, <1>4, <3>1, FirstFailureIs
    <3>3. now = Handled(r.of, f)
      BY <1>1, <1>4, <3>2, StagesAre
    <3>4. f \in 1 .. n /\ IsError(got[f]) /\ \A i \in 1 .. f - 1 : ~IsError(got[i])
      <4>1. \A i \in 1 .. f - 1 : i \in 1 .. j - 1
        BY <1>1
      <4>2. f \in 1 .. n
        BY <1>1
      <4>3. QED
        BY <1>4, <3>2, <4>1, <4>2
    <3>5. st = Handled(r.of, f)
      BY <1>1, <3>4, StagesAre
    <3>6. QED
      BY <3>3, <3>5
  <2>3. QED
    BY <2>1, <2>2
<1>9. Current(now, v, x) = Current(st, v, x)
  <2>1. \A i \in DOMAIN x : now[i] = st[i]
    <3>1. \A i \in 1 .. j - 1 : i \in 1 .. j
      BY <1>1
    <3>2. QED
      BY <1>4, <1>8, <3>1
  <2>2. QED
    BY <2>1, CurrentAgrees
<1>10. IsOutcome(got[j]) => got[j] \in Outcomes(st[j].reducer, Current(st, v, x))
  <2>1. now[Len(x) + 1] = st[j]
    BY <1>1, <1>4, <1>8
  <2>2. next = Call(<<To(st[j].reducer, Current(st, v, x))>>)
    BY <1>6, <1>7, <1>9, <2>1
  <2>3. next.calls = <<To(st[j].reducer, Current(st, v, x))>>
    BY <2>2 DEF Call
  <2> HIDE DEF next
  <2>4. QED
    BY <1>3, <2>3
<1>11. \A i \in 1 .. j - 1 : IsOutcome(got[i])
  BY <1>3 DEF Accepts, IsOutcome
<1>12. \A i, k \in 1 .. j - 1 : IsError(got[i]) /\ IsError(got[k]) => i = k
  <2>1. \A i, k \in 1 .. j - 1 : IsError(x[i]) /\ IsError(x[k]) => i = k
    BY <1>1, <1>4, <1>7, FewFailures
  <2>2. QED
    BY <1>4, <2>1
<1>13. \E len : len = Len(StagesOf(r.of, Prefix(got, j - 1))) /\ j - 1 < len
  BY <1>4, <1>7 DEF x
<1>14. QED
  BY <1>10, <1>11, <1>12, <1>13 DEF x

\* An entity without a failure.
LEMMA SoundEntity ==
  ASSUME FollowTheRules, NEW r, IsReducer(r), r.type = "entity", NEW v, NEW n \in Nat, NEW out,
         NEW val, n = Len(r.of.stages),
         \A k \in 1 .. n : /\ IsOk(out[k]) /\ out[k] \in Outcomes(r.of.stages[k].reducer, val[k])
                           /\ val[k + 1] = Made(r.of.stages[k], val[k], out[k])
  PROVE  Ok(val[n + 1]) \in Rest(r, 1, val[1])
<1>1. n + 1 > Len(r.of.stages) /\ n <= Len(r.of.stages) /\ Len(r.of.stages) \in Nat
  OBVIOUS
<1>2. Ok(val[n + 1]) \in Rest(r, n + 1, val[n + 1])
  BY <1>1, EntityRule
<1>3. QED
  BY <1>1, <1>2, StagesBack

\* What is left of an entity after a failure, which ends with a second, or without.
LEMMA ErrorReducer ==
  ASSUME FollowTheRules, NEW e, Len(e.error) \in Nat, NEW d \in Nat \ {0}, d <= Len(e.error),
         NEW out, NEW val,
         \A k \in 1 .. d : /\ out[k] \in Outcomes(e.error[k].reducer, val[k])
                           /\ val[k + 1] = Made(e.error[k], val[k], out[k]),
         \A k \in 1 .. d - 1 : IsOk(out[k])
  PROVE  /\ IsError(out[d]) => out[d] \in Rest(Handler(e), 1, val[1])
         /\ IsOk(out[d]) /\ d = Len(e.error) => Ok(val[d + 1]) \in Rest(Handler(e), 1, val[1])
<1> DEFINE h == Handler(e)
<1>1. h.type = "entity" /\ h.of.stages = e.error /\ h.of.error = <<>>
  BY DEF Handler, Source
<1> HIDE DEF h
<1>2. d - 1 \in Nat /\ d - 1 + 1 = d /\ d - 1 <= Len(h.of.stages) /\ ~(d > Len(h.of.stages))
  BY <1>1
<1>3. \A k \in 1 .. d - 1 : k \in 1 .. d
  OBVIOUS
<1>4. ASSUME IsError(out[d]) PROVE out[d] \in Rest(h, 1, val[1])
  <2>1. out[d] \in Outcomes(h.of.stages[d].reducer, val[d]) /\ ~IsOk(out[d])
    BY <1>1, <1>4 DEF IsOk, IsError
  <2>2. out[d] \in Rest(h, d, val[d])
    BY <1>1, <1>2, <2>1, EntityRule
  <2>3. out[d] \in Rest(h, d - 1 + 1, val[d - 1 + 1])
    BY <1>2, <2>2
  <2>4. QED
    BY <1>1, <1>2, <1>3, <2>3, StagesBack
<1>5. ASSUME IsOk(out[d]), d = Len(e.error) PROVE Ok(val[d + 1]) \in Rest(h, 1, val[1])
  <2>1. d + 1 > Len(h.of.stages) /\ d <= Len(h.of.stages) /\ d \in Nat /\ Len(h.of.stages) \in Nat
    BY <1>1, <1>5
  <2>2. Ok(val[d + 1]) \in Rest(h, d + 1, val[d + 1])
    BY <1>1, <2>1, EntityRule
  <2>3. \A k \in 1 .. d : IsOk(out[k])
    <3>1. \A k \in 1 .. d : k \in 1 .. d - 1 \/ k = d
      OBVIOUS
    <3>2. QED
      BY <1>5, <3>1
  <2>4. QED
    BY <1>1, <2>1, <2>2, <2>3, StagesBack
<1>6. QED
  BY <1>4, <1>5 DEF h

\* An entity: its stages, and those of its error reducer after a failure.
LEMMA EntityAgrees ==
  ASSUME FollowTheRules, NEW r, IsReducer(r), r.type = "entity", NEW v, NEW n, NEW got,
         IsHistory(r, v, n, got)
  PROVE  Agrees(r, v, n, got)
<1>1. SUFFICES ASSUME AllAccepted(r, n, got), NEW o, Resolve(r, v, got).result = o, o # Pending
               PROVE  o \in Rest(r, 1, v)
  BY FromTheFirst DEF Agrees, Catches
<1> DEFINE e == r.of
           st == StagesOf(e, got)
           val == [k \in Nat |-> Current(st, v, Prefix(got, k - 1))]
           last == Len(e.stages)
           more == Len(e.error)
<1>2. n \in Nat /\ DOMAIN got = 1 .. n /\ Len(got) = n /\ Prefix(got, n) = got
      /\ (n # 0 => n \in 1 .. n /\ Last(got) = got[n])
  BY HistoryIs
<1>3. \A i \in 1 .. n : IsOutcome(got[i])
  BY <1>1, <1>2, AcceptedIsOutcome
<1>4. \A k \in Nat : val[k + 1] = Current(st, v, Prefix(got, k))
  <2> HIDE DEF st
  <2>1. \A k \in Nat : k + 1 \in Nat /\ k + 1 - 1 = k
    OBVIOUS
  <2>2. QED
    BY <2>1
<1>5. last \in Nat /\ more \in Nat /\ (more = 0 <=> e.error = <<>>)
  BY EntityIs
<1>6. /\ ~(n < Len(st) /\ Cardinality(Failures(got)) < 2)
      /\ o = IF n # 0 /\ IsError(got[n]) THEN got[n] ELSE Ok(val[n + 1])
  <2>1. Resolve(r, v, got) = ResolveEntity(r, v, got)
    BY DEF Resolve
  <2>2. ~(n < Len(st) /\ Cardinality(Failures(got)) < 2)
    <3>1. SUFFICES ASSUME n < Len(st) /\ Cardinality(Failures(got)) < 2 PROVE FALSE
      OBVIOUS
    <3>2. \E calls : Resolve(r, v, got) = Call(calls)
      BY <1>2, <2>1, <3>1 DEF ResolveEntity
    <3>3. \A calls : Call(calls).result = Pending
      BY DEF Call
    <3>4. QED
      BY <1>1, <3>2, <3>3
  <2>3. val[n + 1] = Current(st, v, got)
    BY <1>2, <1>4
  <2>4. Resolve(r, v, got) = Settle(IF n # 0 /\ IsError(Last(got)) THEN Last(got)
                                    ELSE Ok(Current(st, v, got)))
    BY <1>2, <2>1, <2>2 DEF ResolveEntity
  <2> HIDE DEF st, val
  <2>5. o = IF n # 0 /\ IsError(Last(got)) THEN Last(got) ELSE Ok(val[n + 1])
    BY <1>1, <2>3, <2>4 DEF Settle
  <2>6. QED
    BY <1>2, <2>2, <2>5
<1> HIDE DEF val
<1>7. \A j \in 1 .. n : /\ \A i, k \in 1 .. j - 1 : IsError(got[i]) /\ IsError(got[k]) => i = k
                        /\ \E len : len = Len(StagesOf(e, Prefix(got, j - 1))) /\ j - 1 < len
                        /\ got[j] \in Outcomes(st[j].reducer, val[j])
  <2> TAKE j \in 1 .. n
  <2>1. IsOutcome(got[j])
    BY <1>3
  <2>2. QED
    <3>1. st = StagesOf(r.of, got)
      OBVIOUS
    <3> HIDE DEF st
    <3>2. /\ \A i, k \in 1 .. j - 1 : IsError(got[i]) /\ IsError(got[k]) => i = k
          /\ \E len : len = Len(StagesOf(r.of, Prefix(got, j - 1))) /\ j - 1 < len
          /\ IsOutcome(got[j]) =>
               got[j] \in Outcomes(st[j].reducer, Current(st, v, Prefix(got, j - 1)))
      BY <3>1, EntityCalls
    <3>3. val[j] = Current(st, v, Prefix(got, j - 1))
      <4>1. j - 1 \in Nat /\ j - 1 + 1 = j
        BY <1>2
      <4>2. QED
        BY <1>4, <4>1
    <3>4. QED
      BY <2>1, <3>2, <3>3
<1>8. val[1] = v /\ \A k \in 1 .. n : val[k + 1] = Made(st[k], val[k], got[k])
  <2> HIDE DEF st
  <2>1. ASSUME NEW k \in 1 .. n PROVE val[k + 1] = Made(st[k], val[k], got[k])
    <3>1. k - 1 \in Nat /\ k - 1 + 1 = k /\ k \in Nat
      BY <1>2
    <3>2. val[k + 1] = Current(st, v, Prefix(got, k)) /\ val[k] = Current(st, v, Prefix(got, k - 1))
      BY <1>4, <3>1
    <3>3. IsOutcome(got[k - 1 + 1])
      BY <1>3, <3>1
    <3>4. Current(st, v, Prefix(got, k - 1 + 1)) =
            Made(st[k - 1 + 1], Current(st, v, Prefix(got, k - 1)), got[k - 1 + 1])
      BY <3>1, <3>3, CurrentIs
    <3>5. QED
      BY <3>1, <3>2, <3>4
  <2>2. val[1] = v
    <3>1. val[1] = Current(st, v, Prefix(got, 0))
      <4>1. 0 + 1 = 1 /\ 0 \in Nat
        OBVIOUS
      <4>2. QED
        BY <1>4, <4>1
    <3>2. Current(st, v, Prefix(got, 0)) = v
      BY CurrentAtFirst
    <3>3. QED
      BY <3>1, <3>2
  <2>3. QED
    BY <2>1, <2>2
<1>9. CASE \A i \in 1 .. n : ~IsError(got[i])
  <2>1. st = e.stages
    BY <1>2, <1>9, StagesAre
  <2>2. \A i \in 1 .. n : IsOk(got[i])
    BY <1>3, <1>9 DEF IsOutcome
  <2>3. Cardinality(Failures(got)) < 2
    BY <1>2, <1>9, FewFailures
  <2>4. n <= last
    <3>1. CASE n = 0
      BY <1>5, <3>1
    <3>2. CASE n # 0
      <4>1. n - 1 \in Nat /\ \A i \in 1 .. n - 1 : i \in 1 .. n
        BY <1>2, <3>2
      <4>2. StagesOf(e, Prefix(got, n - 1)) = e.stages
        BY <1>9, <4>1, PrefixIs, StagesAre
      <4>3. n - 1 < last
        BY <1>2, <1>7, <3>2, <4>2
      <4>4. QED
        BY <1>2, <1>5, <4>3
    <3>3. QED
      BY <3>1, <3>2
  <2>5. n = last
    BY <1>2, <1>5, <1>6, <2>1, <2>3, <2>4
  <2>6. o = Ok(val[n + 1])
    BY <1>2, <1>6, <1>9
  <2>7. Ok(val[n + 1]) \in Rest(r, 1, val[1])
    BY <1>2, <1>7, <1>8, <2>1, <2>2, <2>5, SoundEntity
  <2>8. QED
    BY <1>8, <2>6, <2>7
<1>10. CASE ~\A i \in 1 .. n : ~IsError(got[i])
  <2>1. PICK f \in 1 .. n : IsError(got[f]) /\ \A i \in 1 .. f - 1 : ~IsError(got[i])
    <3>1. Failures(got) # {}
      BY <1>2, <1>10 DEF Failures
    <3>2. QED
      BY <1>2, <3>1, FirstFailureIs
  <2>2. st = Handled(e, f)
    BY <1>2, <2>1, StagesAre
  <2>3. f \in Nat \ {0} /\ f <= n /\ f - 1 \in Nat /\ n # 0
    BY <1>2
  <2>4. Len(Handled(e, f)) = f + more
    <3>1. f + more \in Nat
      BY <1>5, <2>3
    <3>2. QED
      BY <3>1, SeqFunction DEF Handled
  <2>5. f <= last
    <3>1. StagesOf(e, Prefix(got, f - 1)) = e.stages
      BY <2>1, <2>3, PrefixIs, StagesAre
    <3>2. f - 1 < last
      BY <1>7, <3>1
    <3>3. QED
      BY <1>5, <2>3, <3>2
  <2>6. (\A i \in 1 .. f : st[i] = e.stages[i]) /\ \A i \in 1 .. more : st[f + i] = e.error[i]
    <3> HIDE DEF more
    <3>1. /\ \A i \in 1 .. f : i \in 1 .. f + more /\ i <= f
          /\ \A i \in 1 .. more : f + i \in 1 .. f + more /\ ~(f + i <= f) /\ f + i - f = i
      BY <1>5, <2>3
    <3>2. Handled(e, f) = [i \in 1 .. f + more |-> IF i <= f THEN e.stages[i] ELSE e.error[i - f]]
      BY DEF Handled, more
    <3>3. QED
      BY <2>2, <3>1, <3>2
  <2> HIDE DEF st
  <2>7. SUFFICES o \in Rest(r, f, val[f])
    <3>1. \A k \in 1 .. f - 1 : k \in 1 .. n /\ k \in 1 .. f
      BY <1>2, <2>3
    <3>2. \A k \in 1 .. f - 1 : IsOk(got[k])
      BY <1>3, <2>1, <3>1 DEF IsOutcome
    <3>3. \A k \in 1 .. f - 1 : /\ IsOk(got[k])
                                /\ got[k] \in Outcomes(e.stages[k].reducer, val[k])
                                /\ val[k + 1] = Made(e.stages[k], val[k], got[k])
      BY <1>7, <1>8, <2>6, <3>1, <3>2
    <3>4. f - 1 <= last /\ f - 1 + 1 = f
      BY <1>5, <2>3, <2>5
    <3>5. o \in Rest(r, f - 1 + 1, val[f - 1 + 1]) => o \in Rest(r, 1, val[1])
      BY <1>5, <2>3, <3>3, <3>4, StagesBack
    <3>6. QED
      BY <1>8, <3>4, <3>5
  <2>8. got[f] \in Outcomes(e.stages[f].reducer, val[f]) /\ ~(f > last) /\ ~IsOk(got[f])
    <3>1. f \in 1 .. f /\ ~(f > last)
      BY <1>5, <2>3, <2>5
    <3>2. QED
      BY <1>7, <2>1, <2>6, <3>1 DEF IsOk, IsError
  <2>9. f < n => n - 1 < f + more
    <3>1. SUFFICES ASSUME f < n PROVE n - 1 < f + more
      OBVIOUS
    <3>2. f \in 1 .. n - 1 /\ n - 1 \in Nat /\ \A i \in 1 .. f - 1 : i \in 1 .. n - 1
      BY <1>2, <2>3, <3>1
    <3>3. StagesOf(e, Prefix(got, n - 1)) = Handled(e, f)
      BY <2>1, <3>2, PrefixIs, StagesAre
    <3>4. QED
      BY <1>2, <1>7, <2>3, <2>4, <3>3
  <2>10. CASE e.error = <<>>
    <3>1. n = f
      BY <1>2, <1>5, <2>3, <2>9, <2>10
    <3>2. o = got[f]
      BY <1>6, <2>1, <2>3, <3>1
    <3>3. QED
      BY <2>8, <2>10, <3>2, EntityRule
  <2>11. CASE e.error # <<>>
    <3>1. more \in Nat \ {0}
      BY <1>5, <2>11
    <3> HIDE DEF more
    <3>2. f < n
      <4>1. SUFFICES ASSUME n = f PROVE FALSE
        BY <1>2, <2>3
      <4>2. \A i \in 1 .. n : IsError(got[i]) => i = f
        <5>1. \A i \in 1 .. n : i \in 1 .. f - 1 \/ i = f
          BY <1>2, <4>1
        <5>2. QED
          BY <2>1, <5>1
      <4>3. Cardinality(Failures(got)) < 2
        BY <1>2, <4>2, FewFailures
      <4>4. n < Len(st)
        BY <2>2, <2>3, <2>4, <3>1, <4>1
      <4>5. QED
        BY <1>6, <4>3, <4>4
    <3> DEFINE d == n - f
               hval == [k \in Nat |-> val[f + k]]
               hout == [k \in Nat |-> got[f + k]]
    <3>3. d \in Nat \ {0} /\ d <= more /\ f + d = n /\ d \in 1 .. d
      BY <1>2, <2>3, <2>9, <3>1, <3>2
    <3>4. \A k \in Nat : hval[k] = val[f + k] /\ hout[k] = got[f + k]
      OBVIOUS
    <3> HIDE DEF d, hval, hout
    <3>5. ASSUME NEW k \in 1 .. d
          PROVE  /\ hout[k] \in Outcomes(e.error[k].reducer, hval[k])
                 /\ hval[k + 1] = Made(e.error[k], hval[k], hout[k])
      <4>1. k \in Nat /\ k + 1 \in Nat /\ f + k \in 1 .. n /\ k \in 1 .. more /\ f + (k + 1) = f + k + 1
        BY <1>2, <2>3, <3>1, <3>3
      <4>2. hout[k] = got[f + k] /\ hval[k] = val[f + k] /\ hval[k + 1] = val[f + k + 1]
        BY <3>4, <4>1
      <4>3. st[f + k] = e.error[k]
        BY <2>6, <4>1
      <4>4. QED
        BY <1>7, <1>8, <4>1, <4>2, <4>3
    <3>6. \A k \in 1 .. d - 1 : IsOk(hout[k])
      <4> TAKE k \in 1 .. d - 1
      <4>1. k \in Nat /\ f + k \in 1 .. n - 1 /\ f \in 1 .. n - 1 /\ f + k # f /\ f + k \in 1 .. n
            /\ n \in 1 .. n
        BY <1>2, <2>3, <3>2, <3>3
      <4>2. ~IsError(got[f + k])
        BY <1>7, <2>1, <4>1
      <4>3. QED
        BY <1>3, <3>4, <4>1, <4>2 DEF IsOutcome
    <3>7. hval[1] = Failure(got[f][2]) /\ hout[d] = got[n] /\ hval[d + 1] = val[n + 1]
      <4>1. hval[1] = val[f + 1] /\ hout[d] = got[n] /\ hval[d + 1] = val[n + 1]
        <5>1. f + (d + 1) = n + 1 /\ d \in Nat /\ d + 1 \in Nat /\ 1 \in Nat
          BY <1>2, <2>3, <3>3
        <5>2. QED
          BY <3>3, <3>4, <5>1
      <4>2. val[f + 1] = Made(st[f], val[f], got[f])
        BY <1>8
      <4>3. QED
        BY <2>1, <4>1, <4>2 DEF Made
    <3>8. /\ IsError(hout[d]) => hout[d] \in Rest(Handler(e), 1, hval[1])
          /\ IsOk(hout[d]) /\ d = more => Ok(hval[d + 1]) \in Rest(Handler(e), 1, hval[1])
      BY <1>5, <3>3, <3>5, <3>6, ErrorReducer DEF more
    <3>9. o \in Rest(Handler(e), 1, hval[1])
      <4>1. CASE IsError(got[n])
        BY <1>6, <2>3, <3>7, <3>8, <4>1
      <4>2. CASE ~IsError(got[n])
        <5>1. \A i \in 1 .. n : IsError(got[i]) => i = f
          <6>1. \A i \in 1 .. n : i \in 1 .. n - 1 \/ i = n
            BY <1>2
          <6>2. f \in 1 .. n - 1 /\ n \in 1 .. n
            BY <1>2, <2>3, <3>2
          <6>3. QED
            BY <1>7, <2>1, <4>2, <6>1, <6>2
        <5>2. Cardinality(Failures(got)) < 2
          BY <1>2, <5>1, FewFailures
        <5>3. d = more
          BY <1>2, <1>6, <2>2, <2>3, <2>4, <3>1, <3>3, <5>2
        <5>4. IsOk(got[n])
          BY <1>2, <1>3, <2>3, <4>2 DEF IsOutcome
        <5>5. o = Ok(val[n + 1])
          BY <1>6, <4>2
        <5>6. QED
          BY <3>7, <3>8, <5>3, <5>4, <5>5
      <4>3. QED
        BY <4>1, <4>2
    <3>10. QED
      BY <2>8, <2>11, <3>7, <3>9, EntityRule
  <2>12. QED
    BY <2>10, <2>11
<1>11. QED
  BY <1>9, <1>10

\* Whatever the type.
LEMMA ResolveAgrees ==
  ASSUME FollowTheRules, NEW r, IsReducer(r), NEW v, NEW n, NEW got, IsHistory(r, v, n, got)
  PROVE  Agrees(r, v, n, got)
<1>1. r.type \in Types => r \in Reducer \/ r.type \in SimpleTypes
  BY DEF IsReducer, Types, SimpleTypes
<1>2. r.type \in Types \/ r.type = "entity"
  BY ReducerAssumption DEF IsReducer, Types, SimpleTypes
<1>3. CASE r.type = "entity"
  BY <1>3, EntityAgrees
<1>4. CASE r.type \in SimpleTypes
  BY <1>4, SimpleAgrees
<1>5. CASE r.type = "ReducerList"
  <2>1. r \in Reducer
    BY <1>1, <1>5 DEF Types, SimpleTypes
  <2>2. QED
    BY <1>5, <2>1, ListAgrees, SettlesAtOnce
<1>6. CASE r.type \in {"ReducerObject", "parallel", "assign", "control", "request"}
  <2>1. r \in Reducer
    BY <1>1, <1>6 DEF Types, SimpleTypes
  <2>2. QED
    BY <1>6, <2>1, ObjectAgrees, ParallelAgrees, AssignAgrees, ControlAgrees, RequestAgrees
<1>7. CASE r.type \in {"map", "filter", "find"}
  <2>1. r \in Reducer
    BY <1>1, <1>7 DEF Types, SimpleTypes
  <2>2. QED
    BY <1>7, <2>1, MapAgrees, FilterAgrees, FindAgrees, SettlesAtOnce
<1>8. CASE IsEntity(r)
  <2>1. r \in Reducer
    BY <1>1, <1>8 DEF Types, SimpleTypes, IsEntity
  <2>2. CASE ~Known(r)
    BY <1>8, <2>1, <2>2, SettlesAtOnce
  <2>3. CASE Known(r) /\ Skipped(r, v)
    BY <1>8, <2>1, <2>3, SettlesAtOnce
  <2>4. CASE Known(r) /\ ~Skipped(r, v) /\ ForItems(r) /\ ~IsArray(v)
    BY <1>8, <2>1, <2>4, SettlesAtOnce
  <2>5. CASE Known(r) /\ ~Skipped(r, v) /\ ForItems(r) /\ IsArray(v)
    BY <1>8, <2>1, <2>5, EachBodyAgrees
  <2>6. CASE Known(r) /\ ~Skipped(r, v) /\ ~ForItems(r)
    BY <1>8, <2>1, <2>6, OneBodyAgrees
  <2>7. QED
    BY <2>2, <2>3, <2>4, <2>5, <2>6
<1>9. QED
  BY <1>2, <1>3, <1>4, <1>5, <1>6, <1>7, <1>8 DEF Types, IsEntity

-----------------------------------------------------------------------------
(* The invariant: each call settles to what the rules allow *)

\* What has settled, has settled by the rules.
Agreed(T) ==
  \A p \in DOMAIN T :
    T[p].result # Pending => T[p].result \in Outcomes(T[p].reducer, T[p].value)

\* The outcomes that a task sees are then a history.
LEMMA GotIsHistory ==
  ASSUME NEW T, IsGood(T), Agreed(T), NEW p \in DOMAIN T
  PROVE  IsHistory(T[p].reducer, T[p].value, T[p].calls, Got(T, p))
<1> DEFINE r == T[p].reducer
           v == T[p].value
           n == T[p].calls
           got == Got(T, p)
<1>1. IsTask(T[p]) /\ n \in Nat /\ Asked(T, p)
  BY DEF IsGood, IsTree, IsTask, IsSound
<1>2. got = [i \in 1 .. n |-> Out(T, p, i)]
  BY DEF Got, Out
<1>3. r.type = "ReducerList" => n <= Len(r.of)
  BY <1>1 DEF IsTask
<1> HIDE DEF got
<1>4. got = Prefix(got, n)
  BY <1>2 DEF Prefix
<1>5. ASSUME NEW j \in 1 .. n
      PROVE  \E k \in 0 .. j - 1 : /\ AllAccepted(r, k, Prefix(got, k))
                                   /\ Responds(n, got, j, k, Resolve(r, v, Prefix(got, k)).calls)
  <2>1. PICK k \in 0 .. j - 1 : /\ AllAccepted(r, k, Until(T, p, k))
                                /\ IsAmong(T, p, j, k, Resolve(r, v, Until(T, p, k)).calls)
    BY <1>1 DEF Asked, AskedFor
  <2>2. Until(T, p, k) = Prefix(got, k)
    <3>1. \A i \in 1 .. k : i \in 1 .. n
      BY <1>1
    <3>2. QED
      BY <1>2, <3>1 DEF Until, Prefix
  <2>3. ASSUME NEW calls, IsAmong(T, p, j, k, calls) PROVE Responds(n, got, j, k, calls)
    <3> DEFINE q == Append(p, j)
    <3>1. q \in DOMAIN T
      BY DEF IsGood, IsTree
    <3>2. got[j] = T[q].result
      BY <1>2 DEF Out
    <3>3. T[q].reducer = calls[j - k].reducer /\ T[q].value = calls[j - k].value
      BY <2>3 DEF IsAmong
    <3> HIDE DEF q
    <3>4. got[j] = Pending \/ IsOutcome(got[j])
      BY <3>1, <3>2 DEF IsGood, IsTree, IsTask
    <3>5. got[j] # Pending => got[j] \in Outcomes(calls[j - k].reducer, calls[j - k].value)
      BY <3>1, <3>2, <3>3 DEF Agreed
    <3>6. QED
      BY <2>3, <3>4, <3>5 DEF IsAmong, Responds, Answers
  <2>4. QED
    BY <2>1, <2>2, <2>3
<1>6. QED
  BY <1>1, <1>3, <1>4, <1>5 DEF IsHistory, got

\* The rules allow what a task settles to, with its default.
LEMMA DefaultAgrees ==
  ASSUME FollowTheRules, NEW r, NEW v, NEW o \in OutcomesByType(r, v)
  PROVE  WithDefaultOf(r, o) \in Outcomes(r, v)
<1>1. Outcomes(r, v) = {WithDefaultOf(r, x) : x \in OutcomesByType(r, v)}
  BY Zenon DEF FollowTheRules, OutcomesRule
<1>2. QED
  BY <1>1

\* A task that settles by the rules.
LEMMA SettledAgrees ==
  ASSUME NEW T, IsTree(T), Agreed(T), NEW p \in DOMAIN T,
         NEW o \in Outcomes(T[p].reducer, T[p].value)
  PROVE  Agreed(Settled(T, p, o))
<1> DEFINE U == Settled(T, p, o)
<1>1. /\ DOMAIN U = DOMAIN T
      /\ U[p].result = o
      /\ \A q \in DOMAIN T : /\ U[q].reducer = T[q].reducer
                             /\ U[q].value = T[q].value
                             /\ q # p => U[q].result = T[q].result
  BY SettledIs
<1> HIDE DEF U
<1>2. Agreed(U)
  BY <1>1 DEF Agreed
<1>3. QED
  BY <1>2 DEF U

\* New calls have settled to nothing.
LEMMA AddsAgrees ==
  ASSUME NEW T, NEW U, Agreed(T), OnlyAdds(T, U)
  PROVE  Agreed(U)
<1>1. ASSUME NEW p \in DOMAIN U, U[p].result # Pending
      PROVE  U[p].result \in Outcomes(U[p].reducer, U[p].value)
  <2>1. p \in DOMAIN T
    BY <1>1 DEF OnlyAdds
  <2>2. Kept(T, U, p)
    BY <2>1 DEF OnlyAdds
  <2>3. QED
    BY <1>1, <2>1, <2>2 DEF Agreed, Kept
<1>2. QED
  BY <1>1 DEF Agreed

\* A task that goes on.
LEMMA ResumeAgrees ==
  ASSUME FollowTheRules, ResolveInv, EachCallAgrees, NEW p \in DOMAIN task, Resume(p)
  PROVE  EachCallAgrees'
<1> DEFINE r == task[p].reducer
           v == task[p].value
           n == task[p].calls
           got == Got(task, p)
           next == Resolve(r, v, got)
<1>1. IsGood(task) /\ IsTree(task) /\ IsReducer(r) /\ Agreed(task)
  BY DEF ResolveInv, IsGood, IsTree, IsTask, EachCallAgrees, Agreed
<1>2. CASE OnlyAdds(task, task')
  <2>1. Agreed(task')
    BY <1>1, <1>2, AddsAgrees
  <2>2. QED
    BY <2>1 DEF Agreed, EachCallAgrees
<1>3. CASE /\ AllAccepted(r, n, got) /\ next.result # Pending
           /\ task' = Settled(task, p, WithDefaultOf(r, next.result))
  <2>1. Agrees(r, v, n, got)
    BY <1>1, GotIsHistory, ResolveAgrees
  <2>2. next.result \in OutcomesByType(r, v)
    BY <1>3, <2>1 DEF Agrees
  <2> HIDE DEF next
  <2>3. WithDefaultOf(r, next.result) \in Outcomes(r, v)
    BY <2>2, DefaultAgrees
  <2>4. Agreed(task')
    BY <1>1, <1>3, <2>3, SettledAgrees
  <2>5. QED
    BY <2>4 DEF Agreed, EachCallAgrees
<1>4. QED
  BY <1>2, <1>3, ResumeKeeps

\* A task that fails with one of its calls.
LEMMA RejectAgrees ==
  ASSUME FollowTheRules, ResolveInv, EachCallAgrees, NEW p \in DOMAIN task, Reject(p)
  PROVE  EachCallAgrees'
<1> DEFINE r == task[p].reducer
           v == task[p].value
           n == task[p].calls
           got == Got(task, p)
<1>1. IsGood(task) /\ IsTree(task) /\ IsReducer(r) /\ Agreed(task)
  BY DEF ResolveInv, IsGood, IsTree, IsTask, EachCallAgrees, Agreed
<1>2. PICK i \in Failures(got) : task' = Settled(task, p, got[i])
  BY DEF Reject, Settled
<1>3. i \in 1 .. n /\ IsError(got[i]) /\ ~Catches(r)
  BY DEF Failures, Got, Reject
<1>4. Agrees(r, v, n, got)
  BY <1>1, GotIsHistory, ResolveAgrees
<1> HIDE DEF got
<1>5. got[i] \in OutcomesByType(r, v)
  BY <1>3, <1>4 DEF Agrees
<1>6. WithDefaultOf(r, got[i]) = got[i]
  BY <1>3 DEF WithDefaultOf, IsOk, IsError
<1>7. got[i] \in Outcomes(r, v)
  BY <1>5, <1>6, DefaultAgrees
<1>8. Agreed(task')
  BY <1>1, <1>2, <1>7, SettledAgrees
<1>9. QED
  BY <1>8 DEF Agreed, EachCallAgrees

\* Before the first call has gone on, nothing has settled.
LEMMA AgreesAtFirst ==
  Init => EachCallAgrees
<1> SUFFICES ASSUME Init PROVE EachCallAgrees
  OBVIOUS
<1> DEFINE T == [p \in {<<>>} |-> Task(To(Roots[chosen], input))]
<1>1. IsGood(T) /\ task \in Begun(T)
  BY StartIsGood DEF Init
<1>2. Agreed(T)
  <2>1. \A p \in DOMAIN T : T[p].result = Pending
    BY DEF Task
  <2> HIDE DEF T
  <2>2. QED
    BY <2>1 DEF Agreed
<1> HIDE DEF T
<1>3. OnlyAdds(T, task)
  BY <1>1, BegunKeeps
<1>4. Agreed(task)
  BY <1>2, <1>3, AddsAgrees
<1>5. QED
  BY <1>4 DEF Agreed, EachCallAgrees

\* Whatever the reducers are, however deep they nest, and in whatever order their calls
\* settle: each call of resolveReducer settles to an outcome that the rules give its
\* reducer on its value.
THEOREM CallsAgree ==
  ASSUME FollowTheRules
  PROVE  Spec => []EachCallAgrees
<1>1. ResolveInv /\ EachCallAgrees /\ [Next]_vars => EachCallAgrees'
  <2> SUFFICES ASSUME ResolveInv, EachCallAgrees, [Next]_vars PROVE EachCallAgrees'
    OBVIOUS
  <2>1. CASE \E p \in DOMAIN task : Resume(p) \/ Reject(p)
    BY <2>1, ResumeAgrees, RejectAgrees
  <2>2. CASE UNCHANGED vars
    BY <2>2 DEF vars, EachCallAgrees
  <2>3. QED
    BY <2>1, <2>2 DEF Next
<1>2. QED
  BY AgreesAtFirst, ResolveInvariant, <1>1, PTL DEF Spec

\* A resolution settles to what its source means by the reference, if the factories
\* have made of each source a reducer that does what the source means.
THEOREM ResolutionsAgree ==
  ASSUME FollowTheRules, FactoriesAgree
  PROVE  Spec => []AgreesWithReference
<1>1. ResolveInv /\ EachCallAgrees => AgreesWithReference
  <2> SUFFICES ASSUME ResolveInv, EachCallAgrees, Root.result # Pending
               PROVE  Root.result \in Reference(Sources[chosen], input)
    BY DEF AgreesWithReference
  <2>1. <<>> \in DOMAIN task /\ Root.reducer = Roots[chosen] /\ Root.value = input
    BY DEF ResolveInv, IsGood, IsTree, IsOutermost, Root
  <2>2. Root.result \in Outcomes(Roots[chosen], input)
    BY <2>1 DEF EachCallAgrees, Root
  <2>3. Outcomes(Roots[chosen], input) = Reference(Sources[chosen], input)
    BY DEF ResolveInv, FactoriesAgree
  <2>4. QED
    BY <2>2, <2>3
<1>2. QED
  BY CallsAgree, ResolveInvariant, <1>1, PTL
=============================================================================
