------------------------ MODULE EntityResolveProofs ------------------------
(***************************************************************************)
(* What an entity resolves to, and how a run of middleware ends, for any   *)
(* length of the stacks.                                                   *)
(***************************************************************************)
EXTENDS EntityResolve, TLAPS

-----------------------------------------------------------------------------
(* Typing of a run *)

LEMMA WithArgType ==
  ASSUME ctx \in Contexts, NEW arg \in Args
  PROVE  WithArg(arg) \in Contexts
  BY DEF WithArg, Contexts, Args

LEMMA NextTypes ==
  ASSUME ChainTypeOK, NEW arg \in Args, NEW fs \in Seq(1 .. shifted), next(arg, fs)
  PROVE  /\ ctx' \in Contexts
         /\ outcome' \in {"none", "ok", "error"}
         /\ shifted' \in 0 .. len
         /\ frames' \in Seq(1 .. shifted')
  <1>1. ctx' \in Contexts
    BY WithArgType DEF next, ChainTypeOK
  <1>2. CASE Ends(arg)
    BY <1>1, <1>2 DEF next, Done, ChainTypeOK
  <1>3. CASE ~Ends(arg)
    <2>1. shifted' = shifted + 1 /\ frames' = Append(fs, shifted + 1) /\ outcome' = outcome
      BY <1>3 DEF next, Shift
    <2>2. shifted # len
      BY <1>3 DEF Ends
    <2>3. shifted' \in 0 .. len
      BY <2>1, <2>2, ChainAssumption DEF ChainTypeOK
    <2>4. fs \in Seq(1 .. shifted')
      BY <2>1, ChainAssumption DEF ChainTypeOK
    <2>5. shifted + 1 \in 1 .. shifted'
      BY <2>1, ChainAssumption DEF ChainTypeOK
    <2>6. QED
      BY <1>1, <2>1, <2>3, <2>4, <2>5 DEF ChainTypeOK
  <1>4. QED
    BY <1>2, <1>3

LEMMA PopType ==
  ASSUME ChainTypeOK, frames # <<>>
  PROVE  /\ SubSeq(frames, 1, Len(frames) - 1) \in Seq(1 .. shifted)
         /\ frames[Len(frames)] \in 1 .. shifted
  BY DEF ChainTypeOK

LEMMA FailsTypes ==
  ASSUME ChainTypeOK, NEW h \in Handler, Fails(h)
  PROVE  failed' \subseteq Handler /\ failed \subseteq failed'
  BY DEF Fails, ChainTypeOK

LEMMA HandlerTypes ==
  ASSUME ChainTypeOK, NEW h \in Handler, HandlerStep(h)
  PROVE  ChainTypeOK'
  <1>1. CASE Return(h)
    BY <1>1, PopType DEF Return, Running, ChainTypeOK
  <1>2. CASE Throw(h)
    <2>1. SubSeq(frames, 1, Len(frames) - 1) \in Seq(1 .. shifted)
      BY <1>2, PopType DEF Throw, Running
    <2>2. "error" \in Args
      BY DEF Args
    <2>3. QED
      BY <1>2, <2>1, <2>2, NextTypes, FailsTypes DEF Throw, ChainTypeOK
  <1>3. ASSUME NEW arg \in Args, CallNext(h, arg) PROVE ChainTypeOK'
    <2>1. frames \in Seq(1 .. shifted)
      BY DEF ChainTypeOK
    <2>2. calls' \in [Handler -> 0 .. MaxCalls]
      BY <1>3, ChainAssumption DEF CallNext, ChainTypeOK
    <2>3. failed' \subseteq Handler
      BY <1>3, FailsTypes DEF CallNext, ChainTypeOK
    <2>4. QED
      BY <1>3, <2>1, <2>2, <2>3, NextTypes DEF CallNext, ChainTypeOK
  <1>4. QED
    BY <1>1, <1>2, <1>3 DEF HandlerStep

LEMMA RunTypes ==
  ASSUME NEW n \in 1 .. MaxLen, NEW v \in Value, Run(n, v)
  PROVE  ChainTypeOK'
  <1>1. len' \in 0 .. MaxLen /\ shifted' \in 0 .. len'
    BY ChainAssumption DEF Run
  <1>2. frames' \in Seq(1 .. shifted')
    BY DEF Run
  <1>3. calls' \in [Handler -> 0 .. MaxCalls]
    BY ChainAssumption DEF Run
  <1>4. QED
    BY <1>1, <1>2, <1>3 DEF Run, ChainTypeOK, Contexts

-----------------------------------------------------------------------------
(* Typing of an entity *)

LEMMA StageTypes ==
  /\ \A st \in Stages \ {"outputType", "error", "error:outputType", "resolved", "rejected"} :
       \A skip \in BOOLEAN : Following(st, skip) \in Stages
  /\ \A i \in 1 .. 4 : Reducers[i] \in Stages /\ Reducers[i] \notin Chains
  /\ Chains \subseteq Stages
  /\ {"inputType", "outputType", "error", "error:outputType", "resolved", "rejected"} \subseteq Stages
  <1>1. \A i \in 1 .. 4 : Reducers[i] \in {"spec.before", "spec.value", "resolve", "spec.after"}
    BY DEF Reducers
  <1>2. {Reducers[i] : i \in 1 .. 4} = {"spec.before", "spec.value", "resolve", "spec.after"}
    BY DEF Reducers
  <1>3. \A st \in {"inputType", "spec.before", "spec.value", "resolve", "spec.after"} \cup Chains :
          \A skip \in BOOLEAN : Following(st, skip) \in Stages
    BY <1>2 DEF Following, Reducers, Stages, Chains
  <1>4. QED
    BY <1>1, <1>2, <1>3 DEF Stages, Chains

LEMMA CatchTypes == Catch \/ Fail => pc' \in {"error", "rejected"}
  BY DEF Catch, Fail

THEOREM TypeInit == Init => TypeOK
  <1> SUFFICES ASSUME Init PROVE TypeOK
    OBVIOUS
  <1>1. /\ len \in 0 .. MaxLen /\ shifted \in 0 .. len
        /\ frames \in Seq(1 .. shifted)
        /\ calls \in [Handler -> 0 .. MaxCalls]
    BY ChainAssumption DEF Init, ChainInit
  <1>2. ChainTypeOK
    BY <1>1 DEF Init, ChainInit, ChainTypeOK, Contexts
  <1>3. QED
    BY <1>2, StageTypes DEF Init, TypeOK

THEOREM TypeNext == TypeOK /\ [Next]_vars => TypeOK'
  <1> SUFFICES ASSUME TypeOK, [Next]_vars PROVE TypeOK'
    OBVIOUS
  <1> USE StageTypes
  <1>1. ASSUME UNCHANGED chainVars PROVE ChainTypeOK'
    BY <1>1 DEF TypeOK, ChainTypeOK, chainVars
  <1>2. CASE InputType
    <2>1. pc' \in Stages
      BY <1>2, CatchTypes DEF InputType, TypeOK
    <2>2. ~running
      BY <1>2 DEF InputType, TypeOK, Chains
    <2>3. QED
      BY <1>1, <1>2, <2>1, <2>2 DEF InputType, TypeOK
  <1>3. CASE SkipChain
    <2>1. pc' \in Stages
      BY <1>3 DEF SkipChain, TypeOK, Chains
    <2>2. QED
      BY <1>1, <1>3, <2>1 DEF SkipChain, TypeOK
  <1>4. CASE EnterChain
    <2>1. ChainTypeOK'
      BY <1>4, RunTypes DEF EnterChain, TypeOK
    <2>2. QED
      BY <1>4, <2>1 DEF EnterChain, TypeOK
  <1>5. CASE LeaveChain
    <2>1. pc \in Chains
      BY <1>5 DEF LeaveChain, TypeOK
    <2>2. byPass' \in BOOLEAN /\ value' \in Value
      BY <1>5 DEF LeaveChain, TypeOK, ChainTypeOK, Contexts
    <2>3. pc' \in Stages
      BY <1>5, <2>1, <2>2, CatchTypes DEF LeaveChain, Chains
    <2>4. QED
      BY <1>1, <1>5, <2>2, <2>3 DEF LeaveChain, TypeOK
  <1>6. CASE Reduce
    <2>1. pc' \in Stages /\ value' \in Value
      <3>1. PICK i \in 1 .. 4 : pc = Reducers[i]
        BY <1>6 DEF Reduce
      <3>2. pc \in {"spec.before", "spec.value", "resolve", "spec.after"}
        BY <3>1 DEF Reducers
      <3>3. Following(pc, byPass) \in Stages
        BY <3>2, StageTypes DEF TypeOK
      <3>4. QED
        BY <1>6, <3>3, CatchTypes DEF Reduce, TypeOK
    <2>2. ~running
      BY <1>6 DEF Reduce, TypeOK
    <2>3. QED
      BY <1>1, <1>6, <2>1, <2>2 DEF Reduce, TypeOK
  <1>7. CASE OutputType \/ ErrorReducer \/ ErrorOutputType
    <2>1. pc' \in Stages /\ value' \in Value
      BY <1>7, CatchTypes DEF OutputType, ErrorReducer, ErrorOutputType, TypeOK
    <2>2. ~running
      BY <1>7 DEF OutputType, ErrorReducer, ErrorOutputType, TypeOK, Chains
    <2>3. QED
      BY <1>1, <1>7, <2>1, <2>2 DEF OutputType, ErrorReducer, ErrorOutputType, TypeOK
  <1>8. ASSUME NEW h \in Handler, ChainStep(h) PROVE TypeOK'
    BY <1>8, HandlerTypes DEF ChainStep, TypeOK, entityVars
  <1>9. CASE UNCHANGED vars
    BY <1>1, <1>9 DEF vars, entityVars, TypeOK
  <1>10. QED
    BY <1>2, <1>3, <1>4, <1>5, <1>6, <1>7, <1>8, <1>9 DEF Next, Step

\* Every variable keeps its type: no run of middleware goes past its stack.
THEOREM TypeCorrect == Spec => []TypeOK
  BY TypeInit, TypeNext, PTL DEF Spec

-----------------------------------------------------------------------------
(* What an entity resolves to *)

LEMMA FollowingCases ==
  ASSUME TypeOK, pc \in Chains \cup {"inputType"} \/ \E i \in 1 .. 4 : pc = Reducers[i]
  PROVE  pc \in {"inputType", "spec.before", "spec.value", "resolve", "spec.after"} \cup Chains
  BY DEF Reducers

\* No stage is followed by the end of the resolution.
LEMMA FollowingOpen ==
  ASSUME TypeOK, pc \in Chains \cup {"inputType"} \/ \E i \in 1 .. 4 : pc = Reducers[i]
  PROVE  \A skip \in BOOLEAN : Following(pc, skip) # "resolved"
  BY FollowingCases DEF Following, Reducers, Chains

\* "after" follows only when no value was served.
LEMMA FollowingAfter ==
  ASSUME TypeOK, pc \in Chains \cup {"inputType"} \/ \E i \in 1 .. 4 : pc = Reducers[i]
  PROVE  \A skip \in BOOLEAN : Following(pc, skip) = "after" => ~skip
  BY FollowingCases DEF Following, Reducers, Chains

\* Whatever the types, reducers and handlers come to, an entity with an
\* outputType resolves only to a value that it lets through.
THEOREM OnlyConformingResolved == Spec => []ResolvesConforming
  <1>1. Init => ResolvesConforming
    BY DEF Init, ResolvesConforming
  <1>2. TypeOK /\ ResolvesConforming /\ [Next]_vars => ResolvesConforming'
    <2> SUFFICES ASSUME TypeOK, ResolvesConforming, [Next]_vars, pc' = "resolved"
                 PROVE  Passes'
      BY DEF ResolvesConforming
    <2>1. CASE pc = "resolved"
      <3>1. UNCHANGED <<value, spec>>
        BY <2>1 DEF Next, Step, InputType, SkipChain, EnterChain, LeaveChain, Reduce, OutputType,
                    ErrorReducer, ErrorOutputType, ChainStep, TypeOK, Chains, Reducers,
                    vars, entityVars
      <3>2. QED
        BY <2>1, <3>1 DEF ResolvesConforming, Passes
    <2>2. CASE pc # "resolved"
      <3>1. CASE OutputType \/ ErrorOutputType
        BY <2>2, <3>1, CatchTypes DEF OutputType, ErrorOutputType, Passes
      <3>2. CASE InputType \/ SkipChain \/ EnterChain \/ Reduce \/ ErrorReducer
        BY <2>2, <3>2, FollowingOpen, CatchTypes
           DEF InputType, SkipChain, EnterChain, Reduce, ErrorReducer, TypeOK
      <3>3. CASE LeaveChain
        <4>1. pc \in Chains /\ byPass' \in BOOLEAN
          BY <3>3 DEF LeaveChain, TypeOK, ChainTypeOK, Contexts
        <4>2. QED
          BY <2>2, <3>3, <4>1, FollowingOpen, CatchTypes DEF LeaveChain
      <3>4. CASE UNCHANGED pc
        BY <2>2, <3>4
      <3>5. QED
        BY <3>1, <3>2, <3>3, <3>4 DEF Next, Step, ChainStep, vars, entityVars
    <2>3. QED
      BY <2>1, <2>2
  <1>3. QED
    BY <1>1, <1>2, TypeInit, TypeNext, PTL DEF Spec

\* A value that a middleware served never reaches the "after" middleware.
THEOREM ServedKeptOut == Spec => []ServedNotStoredAgain
  <1>1. Init => ServedNotStoredAgain
    BY DEF Init, ServedNotStoredAgain
  <1>2. TypeOK /\ ServedNotStoredAgain /\ [Next]_vars => ServedNotStoredAgain'
    <2> SUFFICES ASSUME TypeOK, ServedNotStoredAgain, [Next]_vars, pc' = "after"
                 PROVE  ~byPass'
      BY DEF ServedNotStoredAgain
    <2>1. CASE InputType \/ SkipChain \/ Reduce
      BY <2>1, FollowingAfter, CatchTypes DEF InputType, SkipChain, Reduce, TypeOK
    <2>2. CASE LeaveChain
      <3>1. pc \in Chains /\ byPass' \in BOOLEAN
        BY <2>2 DEF LeaveChain, TypeOK, ChainTypeOK, Contexts
      <3>2. pc' = Following(pc, byPass')
        BY <2>2, CatchTypes DEF LeaveChain
      <3>3. QED
        BY <3>1, <3>2, FollowingAfter
    <2>3. CASE OutputType \/ ErrorReducer \/ ErrorOutputType
      BY <2>3, CatchTypes DEF OutputType, ErrorReducer, ErrorOutputType
    <2>4. CASE UNCHANGED <<pc, byPass>>
      BY <2>4 DEF ServedNotStoredAgain
    <2>5. QED
      BY <2>1, <2>2, <2>3, <2>4 DEF Next, Step, EnterChain, ChainStep, vars, entityVars
  <1>3. QED
    BY <1>1, <1>2, TypeInit, TypeNext, PTL DEF Spec

-----------------------------------------------------------------------------
(* How a run of middleware ends, when no handler calls next twice *)

OneTurn == MaxCalls = 1

\* All handlers taken off the stack have called next, but for those after n.
AllCalled(n) == \A h \in 1 .. n : calls[h] > 0

\* While done has not been called the last handler taken off the stack is awaited,
\* and no error has come; done is called without an error when none is awaited; with
\* one, a handler is still awaited only if it was thrown.
TurnInv ==
  running =>
    /\ shifted > 0
    /\ \A h \in Handler : h > shifted => calls[h] = 0
    /\ outcome = "none" =>
         threw = {} /\ failed = {} /\ calls[shifted] = 0 /\ AllCalled(shifted - 1)
    /\ outcome = "ok" => failed = {} /\ AllCalled(shifted)
    /\ outcome = "error" => failed # {} /\ (threw = {} => AllCalled(shifted))

LEMMA StackNumbers ==
  ASSUME TypeOK
  PROVE  /\ shifted \in Nat /\ len \in Nat /\ MaxLen \in Nat /\ shifted <= len /\ len <= MaxLen
         /\ \A h \in 1 .. shifted : h \in Handler
         /\ \A h \in Handler : h \in Nat /\ h > 0 /\ calls[h] \in Nat
  BY ChainAssumption DEF TypeOK, ChainTypeOK, Handler

\* A handler that acts is one taken off the stack.
LEMMA ActsOnStack ==
  ASSUME ChainTypeOK, NEW h \in Handler, Acts(h)
  PROVE  h \in 1 .. shifted
  <1>1. CASE Running(h)
    BY <1>1, PopType DEF Running
  <1>2. CASE ~Running(h)
    BY <1>2, ChainAssumption DEF Acts, Handler, ChainTypeOK
  <1>3. QED
    BY <1>1, <1>2

\* The run waits for a handler exactly if not all that were taken off have called.
LEMMA WaitingIsNotAll ==
  ASSUME TypeOK
  PROVE  Waiting <=> ~AllCalled(shifted)
  <1>1. ASSUME Waiting PROVE ~AllCalled(shifted)
    <2>1. PICK h \in Handler : h <= shifted /\ calls[h] = 0
      BY <1>1 DEF Waiting
    <2>2. h \in 1 .. shifted
      BY <2>1, StackNumbers
    <2>3. QED
      BY <2>1, <2>2 DEF AllCalled
  <1>2. ASSUME ~AllCalled(shifted) PROVE Waiting
    <2>1. PICK h \in 1 .. shifted : ~(calls[h] > 0)
      BY <1>2 DEF AllCalled
    <2>2. h \in Handler /\ h <= shifted /\ calls[h] = 0
      BY <2>1, StackNumbers
    <2>3. QED
      BY <2>2 DEF Waiting
  <1>3. QED
    BY <1>1, <1>2

\* A throw: it is heard if a handler was awaited.
LEMMA ThrowTurns ==
  ASSUME TypeOK, TurnInv, running, NEW h \in Handler, Throw(h)
  PROVE  TurnInv' /\ (outcome # "none" => UNCHANGED <<shifted, ctx, outcome>>)
  <1>1. /\ UNCHANGED <<shifted, ctx, calls>>
        /\ outcome' = IF outcome = "none" THEN "error" ELSE outcome
        /\ threw' # {}
    <2>1. Ends("error") /\ WithArg("error") = ctx
      BY ValueAssumption DEF Ends, WithArg
    <2>2. QED
      BY <2>1 DEF Throw, next, Done
  <1>2. failed' = IF ~AllCalled(shifted) THEN failed \cup {h} ELSE failed
    BY WaitingIsNotAll DEF Throw, Fails
  <1>3. AllCalled(shifted)' <=> AllCalled(shifted)
    BY <1>1 DEF AllCalled
  <1>4. CASE outcome = "none"
    <2>1. ~AllCalled(shifted)
      BY <1>4, StackNumbers DEF TurnInv, AllCalled
    <2>2. QED
      BY <1>1, <1>2, <1>4, <2>1 DEF TurnInv
  <1>5. CASE outcome # "none"
    BY <1>1, <1>2, <1>3, <1>5 DEF TurnInv
  <1>6. QED
    BY <1>4, <1>5

\* A call of next: the run ends with it, or the next handler is awaited; after an
\* error that was thrown it may start a handler that nobody awaits.
LEMMA CallTurns ==
  ASSUME OneTurn, TypeOK, TurnInv, running, NEW h \in Handler, NEW arg \in Args, CallNext(h, arg)
  PROVE  TurnInv' /\ (outcome # "none" => outcome = "error" /\ threw # {} /\ UNCHANGED outcome)
  <1>0. h \in 1 .. shifted /\ h <= shifted /\ calls[h] = 0
    BY ActsOnStack, StackNumbers DEF CallNext, OneTurn, TypeOK
  <1>1. calls' = [calls EXCEPT ![h] = 1] /\ threw' = threw
    BY <1>0 DEF CallNext
  <1>2. \A g \in Handler : calls'[g] = IF g = h THEN 1 ELSE calls[g]
    BY <1>1 DEF TypeOK, ChainTypeOK
  <1>3. ~AllCalled(shifted)
    BY <1>0 DEF AllCalled
  <1>4. failed' = IF arg = "error" THEN failed \cup {h} ELSE failed
    BY <1>3, WaitingIsNotAll DEF CallNext, Fails
  <1>5. outcome # "ok"
    BY <1>3 DEF TurnInv
  <1>6. \A g \in Handler : g > shifted => calls'[g] = 0
    BY <1>0, <1>2, StackNumbers DEF TurnInv
  <1>7. shifted > 0
    BY DEF TurnInv
  <1>8. CASE outcome = "none"
    <2>1. threw = {} /\ failed = {} /\ calls[shifted] = 0 /\ AllCalled(shifted - 1)
      BY <1>8 DEF TurnInv
    <2>2. h = shifted
      <3>1. h # shifted => h \in 1 .. shifted - 1
        BY <1>0, StackNumbers
      <3>2. QED
        BY <1>0, <2>1, <3>1 DEF AllCalled
    <2>3. \A g \in 1 .. shifted : calls'[g] > 0
      <3>1. \A g \in 1 .. shifted : g = h \/ g \in 1 .. shifted - 1
        BY <2>2, StackNumbers
      <3>2. QED
        BY <1>2, <2>1, <3>1, StackNumbers DEF AllCalled
    <2>4. CASE Ends(arg)
      <3>1. shifted' = shifted /\ outcome' = IF arg = "error" THEN "error" ELSE "ok"
        BY <1>8, <2>4 DEF CallNext, next, Done
      <3>2. AllCalled(shifted)'
        BY <2>3, <3>1 DEF AllCalled
      <3>3. QED
        BY <1>4, <1>6, <1>7, <1>8, <2>1, <3>1, <3>2 DEF TurnInv
    <2>5. CASE ~Ends(arg)
      <3>1. shifted' = shifted + 1 /\ outcome' = "none" /\ arg # "error" /\ shifted # len
        BY <1>8, <2>5 DEF CallNext, next, Shift, Ends
      <3>2. shifted' \in Handler /\ shifted' > shifted /\ shifted' > 0
        BY <3>1, StackNumbers DEF Handler
      <3>3. calls'[shifted'] = 0
        BY <1>6, <3>2
      <3>4. AllCalled(shifted - 1)'
        <4>1. shifted' - 1 = shifted
          BY <3>1, StackNumbers
        <4>2. QED
          BY <2>3, <4>1 DEF AllCalled
      <3>5. \A g \in Handler : g > shifted' => calls'[g] = 0
        BY <1>6, <3>1, StackNumbers
      <3>6. QED
        BY <1>1, <1>4, <1>8, <2>1, <3>1, <3>2, <3>3, <3>4, <3>5 DEF TurnInv
    <2>6. QED
      BY <1>8, <2>4, <2>5
  <1>9. CASE outcome = "error"
    <2>1. failed # {} /\ threw # {}
      BY <1>3, <1>9 DEF TurnInv
    <2>2. outcome' = "error"
      BY <1>9 DEF CallNext, next, Done, Shift
    <2>3. shifted' \in {shifted, shifted + 1}
      BY DEF CallNext, next, Shift
    <2>4. shifted' > 0 /\ \A g \in Handler : g > shifted' => calls'[g] = 0
      BY <1>6, <1>7, <2>3, StackNumbers
    <2>5. QED
      BY <1>1, <1>4, <1>9, <2>1, <2>2, <2>4 DEF TurnInv
  <1>10. QED
    BY <1>5, <1>8, <1>9 DEF TypeOK, ChainTypeOK

LEMMA HandlerTurns ==
  ASSUME OneTurn, TypeOK, TurnInv, running, running', NEW h \in Handler, HandlerStep(h)
  PROVE  /\ TurnInv'
         /\ outcome # "none" =>
              /\ UNCHANGED outcome
              /\ outcome = "ok" \/ threw = {} => UNCHANGED <<shifted, ctx>>
  <1>1. CASE Return(h)
    BY <1>1 DEF Return, TurnInv, AllCalled
  <1>2. CASE Throw(h)
    BY <1>2, ThrowTurns
  <1>3. ASSUME NEW arg \in Args, CallNext(h, arg)
        PROVE  TurnInv' /\ (outcome # "none" => outcome = "error" /\ threw # {} /\ UNCHANGED outcome)
    BY <1>3, CallTurns
  <1>4. QED
    BY <1>1, <1>2, <1>3 DEF HandlerStep, Return

THEOREM TurnInit == Init => TurnInv
  BY DEF Init, TurnInv

THEOREM TurnNext == OneTurn /\ TypeOK /\ TurnInv /\ [Next]_vars => TurnInv'
  <1> SUFFICES ASSUME OneTurn, TypeOK, TurnInv, [Next]_vars, running' PROVE TurnInv'
    BY DEF TurnInv
  <1>1. CASE EnterChain
    <2>1. PICK n \in 1 .. MaxLen : Run(n, value)
      BY <1>1 DEF EnterChain
    <2>2. 1 \in Handler /\ \A g \in Handler : calls'[g] = 0
      BY <2>1, ChainAssumption DEF Run, Handler
    <2>3. shifted' = 1 /\ outcome' = "none" /\ threw' = {} /\ failed' = {}
      BY <2>1 DEF Run
    <2>4. AllCalled(shifted - 1)'
      BY <2>3 DEF AllCalled
    <2>5. QED
      BY <2>2, <2>3, <2>4 DEF TurnInv
  <1>2. ASSUME NEW h \in Handler, ChainStep(h) PROVE TurnInv'
    BY <1>2, HandlerTurns DEF ChainStep
  <1>3. CASE UNCHANGED chainVars /\ UNCHANGED running
    BY <1>3 DEF TurnInv, AllCalled, chainVars
  <1>4. CASE LeaveChain
    BY <1>4 DEF LeaveChain
  <1>5. QED
    BY <1>1, <1>2, <1>3, <1>4 DEF Next, Step, InputType, SkipChain, Reduce, OutputType,
       ErrorReducer, ErrorOutputType, vars, entityVars

\* With handlers that do not call next twice, what done was called with stays, and
\* nothing else happens to the run but after an error that was thrown.
THEOREM RunEndsOnce == ASSUME OneTurn PROVE Spec => EndsOnce
  <1>1. TypeOK /\ TurnInv /\ [Next]_vars =>
          [running /\ running' /\ outcome # "none" =>
             /\ UNCHANGED outcome
             /\ outcome = "ok" \/ threw = {} => UNCHANGED <<shifted, ctx>>]_vars
    <2> SUFFICES ASSUME TypeOK, TurnInv, [Next]_vars, running, running', outcome # "none"
                 PROVE  /\ UNCHANGED outcome
                        /\ outcome = "ok" \/ threw = {} => UNCHANGED <<shifted, ctx>>
      OBVIOUS
    <2>1. CASE \E h \in Handler : ChainStep(h)
      BY <2>1, HandlerTurns DEF ChainStep
    <2>2. CASE UNCHANGED chainVars
      BY <2>2 DEF chainVars
    <2>3. CASE EnterChain \/ LeaveChain
      BY <2>3 DEF EnterChain, LeaveChain
    <2>4. QED
      BY <2>1, <2>2, <2>3 DEF Next, Step, InputType, SkipChain, Reduce, OutputType,
         ErrorReducer, ErrorOutputType, vars
  <1>2. QED
    BY <1>1, TypeInit, TypeNext, TurnInit, TurnNext, PTL DEF Spec, EndsOnce

\* No stage is followed by the error reducer, or by the end.
LEMMA FollowingGoesOn ==
  ASSUME pc \in Chains
  PROVE  \A skip \in BOOLEAN : Following(pc, skip) \notin {"error", "rejected"}
  BY DEF Following, Reducers, Chains

\* ... and a stack fails the entity exactly if an error, passed or thrown, has come
\* while one of its handlers was awaited.
THEOREM FailedRunFails == ASSUME OneTurn PROVE Spec => ErrorFails
  <1>1. TypeOK /\ TurnInv /\ [Next]_vars =>
          [running /\ ~running' => (pc' \in {"error", "rejected"} <=> failed # {})]_vars
    <2> SUFFICES ASSUME TypeOK, TurnInv, [Next]_vars, running, ~running'
                 PROVE  pc' \in {"error", "rejected"} <=> failed # {}
      OBVIOUS
    <2>1. CASE LeaveChain
      <3>1. pc \in Chains /\ outcome \in {"ok", "error"} /\ ctx.resolve \in BOOLEAN
        BY <2>1 DEF LeaveChain, Settled, TypeOK, ChainTypeOK, Contexts
      <3>2. CASE outcome = "error"
        BY <2>1, <3>2, CatchTypes DEF LeaveChain, TurnInv
      <3>3. CASE outcome = "ok"
        <4>1. pc' = Following(pc, byPass') /\ byPass' \in BOOLEAN
          BY <2>1, <3>1, <3>3 DEF LeaveChain, TypeOK
        <4>2. QED
          BY <3>1, <3>3, <4>1, FollowingGoesOn DEF TurnInv
      <3>4. QED
        BY <3>1, <3>2, <3>3
    <2>2. CASE running' = running \/ EnterChain
      BY <2>2 DEF EnterChain
    <2>3. QED
      BY <2>1, <2>2 DEF Next, Step, InputType, SkipChain, Reduce, OutputType,
         ErrorReducer, ErrorOutputType, ChainStep, vars, entityVars
  <1>2. QED
    BY <1>1, TypeInit, TypeNext, TurnInit, TurnNext, PTL DEF Spec, ErrorFails
=============================================================================
