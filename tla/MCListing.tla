------------------------------ MODULE MCListing ------------------------------
(***************************************************************************)
(* Instances of Listing for TLC.                                           *)
(***************************************************************************)
EXTENDS Listing

\* Two names that fold to the same, two files of one size, a directory, and a hidden one.
MCEntry(name, fold, size, time, kind, hidden) ==
    [name |-> name, fold |-> fold, size |-> size, time |-> time, kind |-> kind, hidden |-> hidden]
MCEntries == {MCEntry(1, 2, 5, 3, "file", FALSE), MCEntry(2, 1, 0, 1, "directory", FALSE),
              MCEntry(3, 3, 5, 4, "file", FALSE), MCEntry(4, 2, 7, 2, "file", FALSE),
              MCEntry(5, 4, 0, 5, "directory", TRUE)}

=============================================================================
