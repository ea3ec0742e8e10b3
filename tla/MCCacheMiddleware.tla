------------------------- MODULE MCCacheMiddleware -------------------------
(***************************************************************************)
(* Instances of CacheMiddleware for TLC, and the parameters that their     *)
(* times come from.                                                        *)
(***************************************************************************)
EXTENDS CacheMiddleware, Integers, TLC

P == INSTANCE CacheParams

\* Node instances are alike and so are the slots.
MCSymmetry == Permutations(Node) \cup Permutations(Slot)

AllReplies == {"ok", "lost", "rejected", "unconfirmed"}
OkReplies == {"ok"}
UnlostReplies == {"ok", "rejected", "unconfirmed"}
BothWays == {TRUE, FALSE}
AlwaysRoom == {TRUE}

-----------------------------------------------------------------------------
\* Entities with documented parameters and others, in the object cache or loose.
Given(settings) == P!getCacheParams(
  [cache |-> [ttl |-> settings[1], staleWhileRevalidate |-> settings[2],
              revalidateTimeout |-> settings[3]],
   ttl |-> settings[4], staleWhileRevalidate |-> settings[5]])
Settings == {P!Undefined, P!Null, P!True, P!False, P!BadText}
              \cup {P!Number(n) : n \in -1 .. 2} \cup {P!Text(n) : n \in 0 .. 2}

\* The times of the instance are those that some entity gets.
ASSUME TimesOfAnEntity ==
  \E swr \in Settings :
    LET cache == Given(<<P!Text(TTL), swr, P!Number(RevalidateTimeout), P!Null, P!Null>>) IN
    /\ P!Lifetime(cache.ttl) = P!Number(TTL)
    /\ P!Lifetime(cache.staleWhileRevalidateTtl) = P!Number(StaleTTL)
    /\ cache.revalidateTimeout = P!Number(RevalidateTimeout)

\* The three modes of CacheMiddleware are all there are (but see DoesNothing): without
\* ttl nothing is computed, and times are there exactly with staleWhileRevalidate.
ModeOf(cache) ==
  IF ~P!Caches(cache) THEN "none" ELSE IF cache.useStaleWhileRevalidate THEN "swr" ELSE "plain"
ASSUME ModesOfEntities ==
  LET all == {Given(<<t, s, r, P!Undefined, l>>) :
                t \in Settings, s \in Settings, l \in {P!True, P!Undefined},
                r \in {P!Undefined, P!Text(2), P!BadText}}
  IN  /\ {ModeOf(cache) : cache \in all} = {"none", "plain", "swr"}
      /\ \A cache \in all :
           cache.useStaleWhileRevalidate <=> P!IsNumber(cache.revalidateTimeout)
      /\ \E cache \in all : \* what ms cannot read: the value is kept for ever
           ModeOf(cache) = "swr" /\ P!Lifetime(cache.staleWhileRevalidateTtl) = P!Forever
=============================================================================
