----------------------------- MODULE MCThumbnails -----------------------------
(***************************************************************************)
(* Instances of Thumbnails for TLC.                                        *)
(***************************************************************************)
EXTENDS Thumbnails, TLC

\* Request goroutines play the same part.
CallSymmetry == Permutations(Calls)

=============================================================================
