------------------------------ MODULE MCSessions ------------------------------
(***************************************************************************)
(* Instances of Sessions for TLC.                                          *)
(***************************************************************************)
EXTENDS Sessions, TLC

\* Request goroutines play the same part, and so do tokens.
Symmetry == Permutations(Calls) \cup Permutations(Tokens)

=============================================================================
