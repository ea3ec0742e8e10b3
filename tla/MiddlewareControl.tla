------------------------- MODULE MiddlewareControl -------------------------
(***************************************************************************)
(* One run of a middleware stack (middleware-control/middleware.js of      *)
(* data-point): the handlers registered under a name are called in order,  *)
(* each with the context and the callback next.                            *)
(*                                                                         *)
(* A handler may call next while it still runs, and the handlers after it  *)
(* then run inside its call, or from a later turn of the event loop.       *)
(* Only the innermost of the handlers that are running can act; when none  *)
(* runs, any handler that has returned may.                                *)
(***************************************************************************)
EXTENDS Naturals, Sequences

CONSTANTS
  MaxLen,    \* longest stack
  MaxCalls,  \* how often a handler may call next: once, by the contract
  Value      \* values a handler may resolve the entity with

VARIABLES
  len,      \* handlers on the stack when the run starts
  shifted,  \* handlers taken off it so far
  frames,   \* the handlers that are running, the innermost last
  calls,    \* [Handler -> Nat] how often the handler has called next
  threw,    \* handlers that have thrown
  failed,   \* history: the errors, by their handlers, that came while one was awaited
  ctx,      \* the context: value, ___done and ___resolve
  outcome   \* what done was called with: "none" yet, "ok" or "error"

chainVars == <<len, shifted, frames, calls, threw, failed, ctx, outcome>>

ASSUME ChainAssumption ==
  /\ MaxLen \in Nat \ {0}
  /\ MaxCalls \in Nat \ {0}

Handler == 1 .. MaxLen
Contexts == [value : Value, done : BOOLEAN, resolve : BOOLEAN]

ChainTypeOK ==
  /\ len \in 0 .. MaxLen
  /\ shifted \in 0 .. len
  /\ frames \in Seq(1 .. shifted)
  /\ calls \in [Handler -> 0 .. MaxCalls]
  /\ threw \subseteq Handler
  /\ failed \subseteq Handler
  /\ ctx \in Contexts
  /\ outcome \in {"none", "ok", "error"}

-----------------------------------------------------------------------------
\* What a handler may pass to next: nothing, an error, a value.  "stop" is a
\* next() after the handler has set ___done itself.
Args == {"nothing", "error", "stop"} \cup Value

WithArg(arg) ==
  CASE arg \in Value  -> [value |-> arg, done |-> TRUE, resolve |-> TRUE]
    [] arg = "stop"   -> [ctx EXCEPT !.done = TRUE]
    [] arg \notin Value \cup {"stop"} -> ctx

\* done is called through once: only the first call counts.
Done(o) == outcome' = IF outcome = "none" THEN o ELSE outcome

\* next: either the run ends, or the next handler runs on top of the frames fs.
Ends(arg) == arg = "error" \/ WithArg(arg).done \/ shifted = len
Shift(fs) == shifted' = shifted + 1 /\ frames' = Append(fs, shifted + 1)

FaultyNextErr(arg, fs) ==        \* err is not looked at
  /\ ctx' = WithArg(arg)
  /\ IF WithArg(arg).done \/ shifted = len
       THEN Done("ok") /\ frames' = fs /\ UNCHANGED shifted
       ELSE Shift(fs) /\ UNCHANGED outcome
FaultyNextReturn(arg, fs) ==     \* done is called for a value, without return
  /\ ctx' = WithArg(arg)
  /\ IF Ends(arg) THEN Done(IF arg = "error" THEN "error" ELSE "ok") ELSE UNCHANGED outcome
  /\ IF shifted < len /\ arg # "error" THEN Shift(fs) ELSE frames' = fs /\ UNCHANGED shifted
FaultyNextEnd(arg, fs) ==        \* the end of the stack goes unnoticed
  /\ ctx' = WithArg(arg)
  /\ IF arg = "error" \/ WithArg(arg).done
       THEN Done(IF arg = "error" THEN "error" ELSE "ok") /\ frames' = fs /\ UNCHANGED shifted
       ELSE Shift(fs) /\ UNCHANGED outcome
next(arg, fs) ==
  /\ ctx' = WithArg(arg)
  /\ IF Ends(arg)
       THEN Done(IF arg = "error" THEN "error" ELSE "ok") /\ frames' = fs /\ UNCHANGED shifted
       ELSE Shift(fs) /\ UNCHANGED outcome

\* run, with n handlers and the value v in a new context.
Run(n, v) ==
  /\ len' = n
  /\ shifted' = 1
  /\ frames' = <<1>>
  /\ calls' = [h \in Handler |-> 0]
  /\ threw' = {}
  /\ failed' = {}
  /\ ctx' = [value |-> v, done |-> FALSE, resolve |-> FALSE]
  /\ outcome' = "none"

\* The handler can act now.
Running(h) == frames # <<>> /\ frames[Len(frames)] = h
Acts(h) == Running(h) \/ (frames = <<>> /\ h <= shifted)

\* The run waits for a handler: one taken off the stack has not called next.
Waiting == \E h \in Handler : h <= shifted /\ calls[h] = 0
Fails(h) == failed' = IF Waiting THEN failed \cup {h} ELSE failed

CallNext(h, arg) ==
  /\ Acts(h) /\ calls[h] < MaxCalls
  /\ calls' = [calls EXCEPT ![h] = @ + 1]
  /\ next(arg, frames)
  /\ IF arg = "error" THEN Fails(h) ELSE UNCHANGED failed
  /\ UNCHANGED <<len, threw>>

Return(h) ==
  /\ Running(h)
  /\ frames' = SubSeq(frames, 1, Len(frames) - 1)
  /\ UNCHANGED <<len, shifted, calls, threw, failed, ctx, outcome>>

\* A handler that throws, or returns an error, before or after it has called next:
\* attempt hands the error to next.  One that is an async function never throws:
\* its rejection is not seen.
FaultyThrow(h) ==                \* the error of attempt is dropped
  /\ Running(h)
  /\ threw' = threw \cup {h}
  /\ Fails(h)
  /\ frames' = SubSeq(frames, 1, Len(frames) - 1)
  /\ UNCHANGED <<len, shifted, calls, ctx, outcome>>
Throw(h) ==
  /\ Running(h)
  /\ threw' = threw \cup {h}
  /\ Fails(h)
  /\ next("error", SubSeq(frames, 1, Len(frames) - 1))
  /\ UNCHANGED <<len, calls>>

HandlerStep(h) == Return(h) \/ Throw(h) \/ \E arg \in Args : CallNext(h, arg)

\* The promise of the run settles and its caller goes on: not before the
\* handlers that are running have returned.
Settled == outcome # "none" /\ frames = <<>>

-----------------------------------------------------------------------------
(* The first run *)

ChainInit ==
  /\ len \in 1 .. MaxLen
  /\ shifted = 1
  /\ frames = <<1>>
  /\ calls = [h \in Handler |-> 0]
  /\ threw = {}
  /\ failed = {}
  /\ ctx \in [value : Value, done : {FALSE}, resolve : {FALSE}]
  /\ outcome = "none"
=============================================================================
