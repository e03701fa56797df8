----------------------------- MODULE MCRateLimit -----------------------------
(***************************************************************************)
(* Instances of RateLimit for TLC.                                         *)
(***************************************************************************)
EXTENDS RateLimit, TLC

\* The others have a burst of two, and auth of one, in a minute of three ticks.
MCKinds == {"general", "auth"}
MCRPM == [k \in MCKinds |-> IF k = "auth" THEN 1 ELSE 2]

\* Clients, limiters and requests are never told apart.
Symmetry == Permutations(Clients) \cup Permutations(Limiters) \cup Permutations(Calls)

=============================================================================
