------------------------------- MODULE Listing -------------------------------
(***************************************************************************)
(* Listings in pages (internal/service/directory_service.go, List and      *)
(* Tree; search_service.go; repository/audit_repo.go, Query): each answer  *)
(* is one page of what there is by then, and says how many pages there     *)
(* are.  Nothing is kept from one page to the next.  A client walks        *)
(* through the pages, while entries come and go.                           *)
(*                                                                         *)
(* The entries are those of a directory, of a tree that is searched, or of *)
(* the audit log.  Paths, previews and sizes in words are left out, and    *)
(* so are the children of the nodes of a tree, which are not paged.        *)
(***************************************************************************)
EXTENDS Integers, Sequences, FiniteSets

CONSTANTS
    Entries,      \* what may be listed: records of type Entry
    Limits,       \* page sizes, within the bounds each view puts on them
    FirstPages,   \* the pages a client may ask for first
    MaxResults,   \* what a search finds at most (1000 in the code)
    MaxChanges,   \* bound on entries that come or go
    MaxInt        \* the largest int (2^63 - 1)

\* name: its place in the order in which directories are read and walked.  fold: that of
\* its lower-cased name.  hidden: .trash, .thumbnails and .chunks.
Entry == [name : Nat, fold : Nat, size : Nat, time : Nat,
          kind : {"directory", "file"}, hidden : BOOLEAN]

ASSUME ListingAssumption ==
    /\ Entries \subseteq Entry
    /\ \A a, b \in Entries : a.name = b.name \/ a.time = b.time => a = b
    /\ IsFiniteSet(Entries) /\ MaxInt \in Nat /\ Cardinality(Entries) <= MaxInt
    /\ Limits \subseteq 1..MaxInt /\ FirstPages \subseteq 1..MaxInt
    /\ MaxResults \in Nat /\ MaxChanges \in Nat

\* kinds: the type asked for, or the status.  Another field than these means the name.
Query == [view : {"list", "tree", "search", "audit"},
          field : {"name", "size", "modified_at", "type"}, descending : BOOLEAN,
          kinds : {{"directory"}, {"file"}, {"directory", "file"}}]

VARIABLES
    present,  \* the entries there are
    swapped,  \* in which order a search finds names that fold to the same
    changes,  \* the changes so far
    walk      \* the client, and the request it has made

vars == <<present, swapped, changes, walk>>

\* pages: as the last answer says.  found: what the request has read so far, total: how many.
\* History: had, what was there when the walk began; grown and shrunk, whether entries
\* came or went since; slipped, between the count and the page; cut, results left out.
Walk == [pc : {"idle", "ask", "answer", "done", "panic"}, query : Query, limit : Limits,
         page : 1..MaxInt, pages : Nat, found : SUBSET Entries, total : Nat, got : Seq(Entries),
         whole : BOOLEAN, had : SUBSET Entries,
         grown : BOOLEAN, shrunk : BOOLEAN, slipped : BOOLEAN, cut : BOOLEAN]

-----------------------------------------------------------------------------
(* What is listed, and in which order                                      *)

\* List takes no filter, and no query but List says how to sort.
Queries == {q \in Query :
    IF q.view = "list" THEN q.kinds = {"directory", "file"}
    ELSE /\ q.field = (IF q.view = "audit" THEN "modified_at" ELSE "name")
         /\ q.descending = (q.view = "audit")
         /\ q.view = "tree" => q.kinds # {"file"}}

Matches(q) == {e \in present : (q.view = "audit" \/ ~e.hidden) /\ e.kind \in q.kinds}

Less(a, b, field) ==
    CASE field = "size"        -> a.size < b.size
      [] field = "modified_at" -> a.time < b.time
      [] field = "type"        -> IF a.kind = b.kind THEN a.fold < b.fold ELSE a.kind = "directory"
      [] OTHER                 -> a.fold < b.fold
Ahead(a, b, q) == IF q.descending THEN Less(b, a, q.field) ELSE Less(a, b, q.field)
Tied(a, b, q) == ~Less(a, b, q.field) /\ ~Less(b, a, q.field)

\* sort.SliceStable keeps equals as they were read, also when descending.  A search sorts
\* with sort.Slice, which may turn them round, but in the same way while nothing changes.
Precedes(a, b, q) ==
    Ahead(a, b, q) \/ (Tied(a, b, q) /\ IF q.view = "search" /\ swapped THEN b.name < a.name
                                        ELSE a.name < b.name)
Place(e, S, q) == Cardinality({d \in S : Precedes(d, e, q)}) + 1
Sorted(S, q) == [i \in 1..Cardinality(S) |-> CHOOSE e \in S : Place(e, S, q) = i]

-----------------------------------------------------------------------------
(* The arithmetic of pages, in the width of an int                         *)

Wrap(x) == ((x + MaxInt + 1) % (2 * (MaxInt + 1))) - (MaxInt + 1)
Least(a, b) == IF a < b THEN a ELSE b

MutFirst(page, limit) == page * limit   \* pages counted from zero
First(page, limit) == Wrap((page - 1) * limit)
Start(page, limit, total) == Least(First(page, limit), total)
MutStop(page, limit, total) == First(page, limit) + limit   \* the last page is not shortened
Stop(page, limit, total) == Least(Start(page, limit, total) + limit, total)
MutTotalPages(total, limit) == total \div limit   \* the last, shorter page is not counted
MutLastPage(total, limit) == (total + limit - 1) \div limit - 1   \* counted from zero
TotalPages(total, limit) == (total + limit - 1) \div limit

-----------------------------------------------------------------------------
Init ==
    /\ present \in SUBSET Entries
    /\ swapped = FALSE /\ changes = 0
    /\ \E q \in Queries, l \in Limits, p \in FirstPages :
          walk = [pc |-> "ask", query |-> q, limit |-> l, page |-> p, pages |-> 0, found |-> {},
                  total |-> 0, got |-> <<>>, whole |-> (p = 1), had |-> Matches(q),
                  grown |-> FALSE, shrunk |-> FALSE, slipped |-> FALSE, cut |-> FALSE]

\* Those a search has seen by the time it stops, in the order of the walk.
Seen(all, n) == {e \in all : Cardinality({d \in all : d.name <= e.name}) <= n}

\* The directory is read, the tree walked, the rows counted.  A search stops at its time
\* limit or when it has enough, and forgets it: what it has not seen is left out.
Read ==
    LET q == walk.query
        all == Matches(q)
    IN  /\ walk.pc = "ask"
        /\ \E n \in 0..Cardinality(all) :
              /\ n = Cardinality(all) \/ (q.view = "search" /\ n <= MaxResults)
              /\ q.view = "search" => n <= MaxResults
              /\ walk' = [walk EXCEPT !.pc = "answer", !.found = Seen(all, n), !.total = n,
                                      !.cut = @ \/ n # Cardinality(all)]
        /\ UNCHANGED <<present, swapped, changes>>

\* An entry that is gone by now is dropped by List before the page is taken, and by Tree
\* from the page.  The audit log is read again.
Listed(q) == CASE q.view = "list" -> walk.found \cap present
               [] q.view = "audit" -> Matches(q)
               [] OTHER -> walk.found
Kept(page, q) == IF q.view = "tree" THEN Sorted({page[i] : i \in DOMAIN page} \cap present, q)
                 ELSE page

\* A page of them.  A slice out of range panics; SQL refuses a negative offset.
Answer ==
    LET q == walk.query
        items == Sorted(Listed(q), q)
        total == IF q.view = "audit" THEN walk.total ELSE Len(items)
        start == Start(walk.page, walk.limit, Len(items))
        stop == Stop(walk.page, walk.limit, Len(items))
        pages == TotalPages(total, walk.limit)
    IN  /\ walk.pc = "answer"
        /\ IF start < 0 \/ stop < start \/ stop > Len(items)
           THEN walk' = [walk EXCEPT !.pc = "panic", !.found = {}]
           ELSE walk' = [walk EXCEPT
                    !.got = @ \o Kept(SubSeq(items, start + 1, stop), q),
                    !.pages = pages, !.found = {}, !.total = 0,
                    !.pc = IF walk.page < pages THEN "ask" ELSE "done",
                    !.page = IF walk.page < pages THEN @ + 1 ELSE @]
        /\ UNCHANGED <<present, swapped, changes>>

\* Meanwhile entries come and go; the audit log only grows.
Counting == walk.pc = "answer" /\ walk.query.view = "audit"

Come(e) ==
    /\ e \notin present
    /\ changes < MaxChanges /\ changes' = changes + 1
    /\ present' = present \cup {e}
    /\ swapped' \in BOOLEAN
    /\ walk' = [walk EXCEPT !.grown = TRUE, !.slipped = @ \/ Counting]

Go(e) ==
    /\ e \in present /\ walk.query.view # "audit"
    /\ changes < MaxChanges /\ changes' = changes + 1
    /\ present' = present \ {e}
    /\ swapped' \in BOOLEAN
    /\ walk' = [walk EXCEPT !.shrunk = TRUE]

Next == Read \/ Answer \/ \E e \in Entries : walk.pc \in {"ask", "answer"} /\ (Come(e) \/ Go(e))

Spec == Init /\ [][Next]_vars

-----------------------------------------------------------------------------
(* Properties                                                              *)

Received == {walk.got[i] : i \in DOMAIN walk.got}
Done == walk.pc = "done" /\ walk.whole

\* Every variable keeps its type.
TypeOK ==
    /\ present \in SUBSET Entries /\ swapped \in BOOLEAN /\ changes \in 0..MaxChanges
    /\ walk \in Walk

\* Who walks through the pages of what does not change receives every entry that matches,
\* once, in the order asked for, and none that is hidden.
EachOnce ==
    Done /\ ~walk.grown /\ ~walk.shrunk /\ ~walk.cut =>
        /\ Received = walk.had /\ Len(walk.got) = Cardinality(walk.had)
        /\ \A i, j \in DOMAIN walk.got : i < j => ~Ahead(walk.got[j], walk.got[i], walk.query)

\* When entries are only added meanwhile, each that was there is still received: unless
\* the audit log grew between the count and the page, a search had to leave results out,
\* or turned round two names that fold to the same.
NoneMissed ==
    Done /\ ~walk.shrunk /\ ~walk.cut /\ ~walk.slipped =>
        \A e \in walk.had :
            \/ e \in Received
            \/ walk.query.view = "search" /\ \E d \in Entries \ {e} : Tied(d, e, walk.query)

\* Only a page so far that its first entry exceeds an int is out of range.
InRange == walk.pc = "panic" => (walk.page - 1) * walk.limit > MaxInt

=============================================================================
