-------------------------- MODULE MCDataPointCache --------------------------
(***************************************************************************)
(* Instances of DataPointCache for TLC.                                    *)
(***************************************************************************)
EXTENDS DataPointCache, TLC

\* Node instances are alike and so are the calls.
MCSymmetry == Permutations(Node) \cup Permutations(Call)

AllReplies == {"ok", "lost", "rejected", "unconfirmed"}
=============================================================================
