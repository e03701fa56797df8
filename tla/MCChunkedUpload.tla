--------------------------- MODULE MCChunkedUpload ---------------------------
(***************************************************************************)
(* Instances of ChunkedUpload for TLC.                                     *)
(***************************************************************************)
EXTENDS ChunkedUpload, TLC

\* Request goroutines play the same part.
CallSymmetry == Permutations(Calls)

=============================================================================
