------------------------------- MODULE MCTrash -------------------------------
(***************************************************************************)
(* Instances of Trash, and with it of FileOps, for TLC.                    *)
(***************************************************************************)
EXTENDS Trash, TLC

\* Requests and directories are never told apart.
Symmetry == Permutations(Calls) \cup Permutations(Dirs)

=============================================================================
