---------------------------- MODULE CacheParams ----------------------------
(***************************************************************************)
(* What the parameters of an entity say about its cache                    *)
(* (entity-cache-params.js), and how long redis keeps what is stored for a *)
(* time to live (cache.js and redis-client.js of data-point-cache).        *)
(*                                                                         *)
(* A setting is a record with the type of the JavaScript value; "text" has *)
(* the milliseconds that the library ms reads in it, or none when it reads *)
(* nothing.                                                                *)
(***************************************************************************)
EXTENDS Integers

Undefined == [type |-> "undefined"]
Null == [type |-> "null"]
True == [type |-> "true"]
False == [type |-> "false"]
Number(n) == [type |-> "number", ms |-> n]
Text(n) == [type |-> "text", ms |-> n]
BadText == [type |-> "text"]
NaN == [type |-> "NaN"]

IsMs(setting) == "ms" \in DOMAIN setting
IsNumber(setting) == setting.type = "number"

\* Also normalizeMilliseconds of cache.js.  An empty text is no setting here: ms throws
\* on it, and with it getCacheParams, before the middleware does anything.
parseMs(setting) ==
  IF setting.type # "text" THEN setting
  ELSE IF IsMs(setting) THEN Number(setting.ms) ELSE Undefined

\* What arithmetic makes of a setting that has been parsed.
ToNumber(setting) ==
  CASE setting.type = "number" -> setting
    [] setting.type \in {"null", "false"} -> Number(0)
    [] setting.type = "true" -> Number(1)
    [] OTHER -> NaN
Plus(a, b) == IF IsNumber(a) /\ IsNumber(b) THEN Number(a.ms + b.ms) ELSE NaN

defaultTo(setting, default) ==
  IF setting.type \in {"undefined", "null", "NaN"} THEN default ELSE setting

getStaleWhileRevalidateTtl(staleWhileRevalidate, ttl) ==
  LET fresh == ToNumber(parseMs(ttl)) IN
  IF staleWhileRevalidate = True THEN Plus(fresh, fresh)
  ELSE Plus(fresh, ToNumber(parseMs(staleWhileRevalidate)))

shouldUseStaleWhileRevalidate(setting) == setting.type \in {"text", "number", "NaN", "true"}

\* The object cache has precedence over the deprecated loose parameters.
getCacheParams(params) ==
  LET ttl == defaultTo(params.cache.ttl, params.ttl)
      staleWhileRevalidate ==
        defaultTo(params.cache.staleWhileRevalidate, params.staleWhileRevalidate)
      use == ttl # Undefined /\ shouldUseStaleWhileRevalidate(staleWhileRevalidate)
  IN  [ttl |-> ttl,
       useStaleWhileRevalidate |-> use,
       staleWhileRevalidateTtl |->
         IF use THEN getStaleWhileRevalidateTtl(staleWhileRevalidate, ttl) ELSE Undefined,
       revalidateTimeout |->
         IF use THEN defaultTo(parseMs(params.cache.revalidateTimeout), Number(5000))
         ELSE Undefined]

\* before and after cache nothing without a ttl that holds.
Caches(cache) ==
  /\ cache.ttl.type \notin {"undefined", "null", "false", "NaN"}
  /\ cache.ttl # Number(0)

-----------------------------------------------------------------------------
(* How long an entry lives *)

Minutes == 60000
Week == 7 * 24 * 60 * Minutes
Forever == [type |-> "forever"]

\* set of redis-client.js, after set of cache.js: each has a default of its own, and
\* what is not a positive number lets the entry stay for good.
Lifetime(ttl) ==
  LET asked == parseMs(IF ttl = Undefined THEN Number(20 * Minutes) ELSE ttl) IN
  CASE asked = Undefined -> Number(Week)
    [] IsNumber(asked) /\ asked.ms > 0 -> asked
    [] OTHER -> Forever

-----------------------------------------------------------------------------
\* Parameters as the README of data-point-service has them: durations, or true.
IsDuration(setting) ==
  setting.type \in {"number", "text"} /\ IsMs(setting) /\ setting.ms \in Nat \ {0}
Documented(params) ==
  LET ttl == defaultTo(params.cache.ttl, params.ttl)
      swr == defaultTo(params.cache.staleWhileRevalidate, params.staleWhileRevalidate)
      timeout == params.cache.revalidateTimeout
  IN  /\ IsDuration(ttl)
      /\ IsDuration(swr) \/ swr = True
      /\ IsDuration(timeout) \/ timeout = Undefined

\* With such parameters the three times are as stale-while-revalidate needs them:
\* redis drops every entry some time, and the value outlives its announcement.
TimesInOrder(cache) ==
  /\ Caches(cache) /\ cache.useStaleWhileRevalidate
  /\ \A time \in {cache.ttl, cache.staleWhileRevalidateTtl, cache.revalidateTimeout} :
       /\ IsNumber(Lifetime(time)) /\ IsMs(Lifetime(time))
       /\ Lifetime(time).ms \in Nat \ {0}
  /\ Lifetime(cache.staleWhileRevalidateTtl).ms > Lifetime(cache.ttl).ms
=============================================================================
