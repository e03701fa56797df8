---------------------------- MODULE MCJobService ----------------------------
(***************************************************************************)
(* Instances of JobService for TLC.                                        *)
(***************************************************************************)
EXTENDS JobService, TLC

\* Clients play the same part, and so do jobs: the uuids are never compared.
ClientSymmetry == Permutations(Clients)
Symmetry == Permutations(Clients) \cup Permutations(Jobs)

=============================================================================
