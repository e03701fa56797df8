---------------------------- MODULE ListingProofs ----------------------------
(***************************************************************************)
(* Proofs about Listing, for any entries, page sizes and width of an int:  *)
(* that a walk through the pages misses nothing and repeats nothing, as    *)
(* far as the properties of Listing promise it.                            *)
(*                                                                         *)
(* The order of the entries depends on a variable, swapped.  The lemmas    *)
(* take its value as a parameter, and so speak of any moment.              *)
(***************************************************************************)
EXTENDS Listing, SequenceTheorems, FunctionTheorems, FiniteSetTheorems, TLAPS

Ord(a, b, q, swap) ==
    Ahead(a, b, q) \/ (Tied(a, b, q) /\ IF q.view = "search" /\ swap THEN b.name < a.name
                                        ELSE a.name < b.name)
Before(e, S, q, swap) == {d \in S : Ord(d, e, q, swap)}
Rank(e, S, q, swap) == Cardinality(Before(e, S, q, swap)) + 1
Enum(S, q, swap) == [i \in 1..Cardinality(S) |-> CHOOSE e \in S : Rank(e, S, q, swap) = i]

LEMMA SortedIsEnum ==
    ASSUME NEW S, NEW q PROVE Sorted(S, q) = Enum(S, q, swapped)
BY DEF Sorted, Enum, Place, Rank, Before, Precedes, Ord

-----------------------------------------------------------------------------
(* The order.                                                              *)

LEMMA EntryType ==
    \A e \in Entries : /\ e.name \in Nat /\ e.fold \in Nat /\ e.size \in Nat /\ e.time \in Nat
                       /\ e.kind \in {"directory", "file"}
BY ListingAssumption DEF Entry

\* Of two different entries one comes first, and the order is transitive.
LEMMA OrdIsOrder ==
    ASSUME NEW q \in Query, NEW swap \in BOOLEAN
    PROVE  /\ \A a \in Entries : ~Ord(a, a, q, swap)
           /\ \A a, b \in Entries : a # b => Ord(a, b, q, swap) \/ Ord(b, a, q, swap)
           /\ \A a, b, c \in Entries : Ord(a, b, q, swap) /\ Ord(b, c, q, swap) => Ord(a, c, q, swap)
           /\ \A a, b \in Entries : Ord(a, b, q, swap) => ~Ahead(b, a, q)
<1>1. \A a, b \in Entries : a.name = b.name => a = b BY ListingAssumption
<1>2. q.field \in {"name", "size", "modified_at", "type"} /\ q.descending \in BOOLEAN
  BY DEF Query
<1>3. \A a, b, c \in Entries :
        /\ ~Less(a, a, q.field)
        /\ ~(Less(a, b, q.field) /\ Less(b, a, q.field))
        /\ Less(a, b, q.field) => Less(a, c, q.field) \/ Less(c, b, q.field)
  <2>1. CASE q.field = "size" BY <2>1, EntryType DEF Less
  <2>2. CASE q.field = "modified_at" BY <2>2, EntryType DEF Less
  <2>3. CASE q.field = "type" BY <2>3, EntryType DEF Less
  <2>4. CASE q.field = "name" BY <2>4, EntryType DEF Less
  <2> QED BY <1>2, <2>1, <2>2, <2>3, <2>4
<1>4. \A a, b, c \in Entries :
        /\ ~Ahead(a, a, q)
        /\ ~(Ahead(a, b, q) /\ Ahead(b, a, q))
        /\ Ahead(a, b, q) => Ahead(a, c, q) \/ Ahead(c, b, q)
        /\ Tied(a, b, q) <=> ~Ahead(a, b, q) /\ ~Ahead(b, a, q)
  BY <1>2, <1>3 DEF Ahead, Tied
<1>5. \A a \in Entries : ~Ord(a, a, q, swap) BY <1>4, EntryType DEF Ord
<1>6. \A a, b \in Entries : a # b => Ord(a, b, q, swap) \/ Ord(b, a, q, swap)
  BY <1>1, <1>4, EntryType DEF Ord
<1>7. ASSUME NEW a \in Entries, NEW b \in Entries, NEW c \in Entries,
             Ord(a, b, q, swap), Ord(b, c, q, swap)
      PROVE  Ord(a, c, q, swap)
  BY <1>4, <1>7, EntryType DEF Ord
<1>8. \A a, b \in Entries : Ord(a, b, q, swap) => ~Ahead(b, a, q) BY <1>4 DEF Ord
<1> QED BY <1>5, <1>6, <1>7, <1>8

LEMMA SetsOfEntries ==
    ASSUME NEW S \in SUBSET Entries
    PROVE  IsFiniteSet(S) /\ Cardinality(S) \in Nat /\ Cardinality(S) <= MaxInt
<1>1. IsFiniteSet(Entries) /\ Cardinality(Entries) <= MaxInt BY ListingAssumption
<1>2. IsFiniteSet(S) /\ Cardinality(S) <= Cardinality(Entries) BY <1>1, FS_Subset
<1>3. Cardinality(S) \in Nat /\ Cardinality(Entries) \in Nat BY <1>1, <1>2, FS_CardinalityType
<1> QED BY <1>1, <1>2, <1>3, ListingAssumption

\* The places of the entries of a set are 1 to its size, each taken by one of them.
LEMMA RankIsPlace ==
    ASSUME NEW S \in SUBSET Entries, NEW q \in Query, NEW swap \in BOOLEAN
    PROVE  /\ \A e \in S : Rank(e, S, q, swap) \in 1..Cardinality(S)
           /\ \A a, b \in S : Ord(a, b, q, swap) => Rank(a, S, q, swap) < Rank(b, S, q, swap)
           /\ \A a, b \in S : Rank(a, S, q, swap) = Rank(b, S, q, swap) => a = b
           /\ \A i \in 1..Cardinality(S) : \E e \in S : Rank(e, S, q, swap) = i
<1>1. IsFiniteSet(S) /\ Cardinality(S) \in Nat BY SetsOfEntries
<1>2. ASSUME NEW e \in Entries
      PROVE  IsFiniteSet(Before(e, S, q, swap)) /\ Cardinality(Before(e, S, q, swap)) \in Nat
  <2>1. Before(e, S, q, swap) \in SUBSET Entries BY DEF Before
  <2> QED BY <2>1, SetsOfEntries
<1>3. ASSUME NEW e \in S PROVE Rank(e, S, q, swap) \in 1..Cardinality(S)
  <2>1. Before(e, S, q, swap) \in SUBSET (S \ {e}) BY OrdIsOrder DEF Before
  <2>2. IsFiniteSet(S \ {e}) /\ Cardinality(S \ {e}) = Cardinality(S) - 1
    BY <1>1, FS_RemoveElement
  <2>3. Cardinality(Before(e, S, q, swap)) <= Cardinality(S) - 1 BY <2>1, <2>2, FS_Subset
  <2> QED BY <1>1, <1>2, <2>3 DEF Rank
<1>4. ASSUME NEW a \in S, NEW b \in S, Ord(a, b, q, swap)
      PROVE  Rank(a, S, q, swap) < Rank(b, S, q, swap)
  <2>1. Before(a, S, q, swap) \in SUBSET Before(b, S, q, swap)
    BY <1>4, OrdIsOrder DEF Before
  <2>2. a \in Before(b, S, q, swap) /\ a \notin Before(a, S, q, swap)
    BY <1>4, OrdIsOrder DEF Before
  <2>3. /\ Cardinality(Before(a, S, q, swap)) <= Cardinality(Before(b, S, q, swap))
        /\ Cardinality(Before(a, S, q, swap)) # Cardinality(Before(b, S, q, swap))
    BY <1>2, <2>1, <2>2, FS_Subset
  <2> QED BY <1>2, <2>3 DEF Rank
<1>5. ASSUME NEW a \in S, NEW b \in S, Rank(a, S, q, swap) = Rank(b, S, q, swap)
      PROVE  a = b
  <2>1. Rank(a, S, q, swap) \in Int /\ Rank(b, S, q, swap) \in Int BY <1>3
  <2> QED BY <1>4, <1>5, <2>1, OrdIsOrder
<1>6. ASSUME NEW i \in 1..Cardinality(S) PROVE \E e \in S : Rank(e, S, q, swap) = i
  <2> DEFINE f == [e \in S |-> Rank(e, S, q, swap)]
  <2>1. f \in [S -> 1..Cardinality(S)] BY <1>3
  <2>2. \A a, b \in S : f[a] = f[b] => a = b BY <1>5
  <2>3. f \in Injection(S, 1..Cardinality(S)) BY <2>1, <2>2, Fun_IsInj
  <2>4. IsFiniteSet(1..Cardinality(S)) /\ Cardinality(1..Cardinality(S)) = Cardinality(S)
    BY <1>1, FS_Interval
  <2>5. f \in Surjection(S, 1..Cardinality(S)) BY <2>3, <2>4, FS_Injection
  <2>6. PICK g : g = f OBVIOUS
  <2>7. g \in Surjection(S, 1..Cardinality(S)) BY <2>5, <2>6
  <2>8. \A t \in 1..Cardinality(S) : \E e \in S : g[e] = t BY <2>7 DEF Surjection
  <2> QED BY <2>6, <2>8
<1> QED BY <1>3, <1>4, <1>5, <1>6

\* The list of a set holds each of its entries at its place.
LEMMA EnumFacts ==
    ASSUME NEW S \in SUBSET Entries, NEW q \in Query, NEW swap \in BOOLEAN
    PROVE  /\ Enum(S, q, swap) \in Seq(S) /\ Len(Enum(S, q, swap)) = Cardinality(S)
           /\ \A i \in 1..Cardinality(S) : /\ Enum(S, q, swap)[i] \in S
                                           /\ Rank(Enum(S, q, swap)[i], S, q, swap) = i
           /\ \A e \in S : Enum(S, q, swap)[Rank(e, S, q, swap)] = e
<1>1. Cardinality(S) \in Nat BY SetsOfEntries
<1>2. ASSUME NEW i \in 1..Cardinality(S)
      PROVE  Enum(S, q, swap)[i] \in S /\ Rank(Enum(S, q, swap)[i], S, q, swap) = i
  <2>1. \E e \in S : Rank(e, S, q, swap) = i BY RankIsPlace
  <2> QED BY <2>1 DEF Enum
<1>3. Enum(S, q, swap) \in [1..Cardinality(S) -> S] BY <1>2 DEF Enum
<1>4. Enum(S, q, swap) \in Seq(S) /\ Len(Enum(S, q, swap)) = Cardinality(S) BY <1>1, <1>3
<1>5. ASSUME NEW e \in S PROVE Enum(S, q, swap)[Rank(e, S, q, swap)] = e
  <2>1. Rank(e, S, q, swap) \in 1..Cardinality(S) BY RankIsPlace
  <2> QED BY <1>2, <2>1, RankIsPlace
<1> QED BY <1>2, <1>4, <1>5

\* Those that stand at places lo+1 to hi.
Section(S, q, swap, lo, hi) == {e \in S : lo < Rank(e, S, q, swap) /\ Rank(e, S, q, swap) <= hi}

LEMMA SectionSize ==
    ASSUME NEW S \in SUBSET Entries, NEW q \in Query, NEW swap \in BOOLEAN,
           NEW lo \in Nat, NEW hi \in lo..Cardinality(S)
    PROVE  Cardinality(Section(S, q, swap, lo, hi)) = hi - lo
<1>1. Cardinality(S) \in Nat BY SetsOfEntries
<1>2. \A e \in S : Rank(e, S, q, swap) \in 1..Cardinality(S) BY RankIsPlace
<1>3. IsFiniteSet(Section(S, q, swap, lo, hi)) BY SetsOfEntries DEF Section
<1> DEFINE f == [e \in Section(S, q, swap, lo, hi) |-> Rank(e, S, q, swap)]
<1>4. PICK g : g = f OBVIOUS
<1>5. g \in [Section(S, q, swap, lo, hi) -> (lo + 1)..hi] BY <1>1, <1>2, <1>4 DEF Section
<1>6. \A a, b \in Section(S, q, swap, lo, hi) : g[a] = g[b] => a = b
  BY <1>4, RankIsPlace DEF Section
<1>7. \A i \in (lo + 1)..hi : \E e \in Section(S, q, swap, lo, hi) : g[e] = i
  BY <1>1, <1>4, RankIsPlace DEF Section
<1>8. g \in Injection(Section(S, q, swap, lo, hi), (lo + 1)..hi) BY <1>5, <1>6, Fun_IsInj
<1>9. g \in Surjection(Section(S, q, swap, lo, hi), (lo + 1)..hi) BY <1>5, <1>7 DEF Surjection
<1>10. Cardinality((lo + 1)..hi) = Cardinality(Section(S, q, swap, lo, hi))
  BY <1>3, <1>8, <1>9, FS_Surjection
<1>11. Cardinality((lo + 1)..hi) = hi - lo
  <2>1. lo + 1 \in Int /\ hi \in Int /\ lo <= hi BY <1>1
  <2>2. Cardinality((lo + 1)..hi) = IF lo + 1 > hi THEN 0 ELSE hi - (lo + 1) + 1
    BY <2>1, FS_Interval
  <2> QED BY <2>1, <2>2
<1> QED BY <1>10, <1>11

\* The entries at these places, in order.
PageOf(S, q, swap, lo, hi) == SubSeq(Enum(S, q, swap), lo + 1, hi)

LEMMA PageSeq ==
    ASSUME NEW S \in SUBSET Entries, NEW q \in Query, NEW swap \in BOOLEAN,
           NEW lo \in Nat, NEW hi \in lo..Cardinality(S)
    PROVE  /\ PageOf(S, q, swap, lo, hi) \in Seq(S) /\ Len(PageOf(S, q, swap, lo, hi)) = hi - lo
           /\ \A k \in 1..(hi - lo) : PageOf(S, q, swap, lo, hi)[k] = Enum(S, q, swap)[lo + k]
<1>0. PICK page : page = SubSeq(Enum(S, q, swap), lo + 1, hi) OBVIOUS
<1>1. Cardinality(S) \in Nat BY SetsOfEntries
<1>2. /\ \A e \in S : /\ Rank(e, S, q, swap) \in 1..Cardinality(S)
                      /\ Enum(S, q, swap)[Rank(e, S, q, swap)] = e
      /\ \A i \in 1..Cardinality(S) : /\ Enum(S, q, swap)[i] \in S
                                      /\ Rank(Enum(S, q, swap)[i], S, q, swap) = i
  BY RankIsPlace, EnumFacts
<1>3. \A i \in (lo + 1)..hi : Enum(S, q, swap)[i] \in S BY <1>1, <1>2
<1>4. /\ SubSeq(Enum(S, q, swap), lo + 1, hi) \in Seq(S)
      /\ Len(SubSeq(Enum(S, q, swap), lo + 1, hi)) = IF lo + 1 <= hi THEN hi - (lo + 1) + 1 ELSE 0
      /\ \A i \in 1..(hi - (lo + 1) + 1) :
            SubSeq(Enum(S, q, swap), lo + 1, hi)[i] = Enum(S, q, swap)[lo + 1 + i - 1]
  BY <1>1, <1>3, SubSeqProperties
<1>5. /\ page \in Seq(S) /\ Len(page) = hi - lo
      /\ \A k \in 1..(hi - lo) : page[k] = Enum(S, q, swap)[lo + k]
  <2>1. hi - (lo + 1) + 1 = hi - lo /\ lo <= hi BY <1>1
  <2>2. page \in Seq(S) BY <1>0, <1>4
  <2>3. Len(page) = hi - lo
    <3>1. Len(page) = IF lo + 1 <= hi THEN hi - (lo + 1) + 1 ELSE 0 BY <1>0, <1>4
    <3> QED BY <1>1, <3>1
  <2>4. ASSUME NEW k \in 1..(hi - lo) PROVE page[k] = Enum(S, q, swap)[lo + k]
    <3>1. k \in 1..(hi - (lo + 1) + 1) BY <2>1
    <3>2. page[k] = Enum(S, q, swap)[lo + 1 + k - 1] BY <1>0, <1>4, <3>1
    <3>3. lo + 1 + k - 1 = lo + k BY <1>1
    <3> QED BY <3>2, <3>3
  <2> QED BY <2>2, <2>3, <2>4
<1>6. page = PageOf(S, q, swap, lo, hi) BY <1>0 DEF PageOf
<1> QED BY <1>5, <1>6

Items(seq) == {seq[i] : i \in DOMAIN seq}

\* A page holds the entries of its section, and sorting them again gives the page.
LEMMA PageEntries ==
    ASSUME NEW S \in SUBSET Entries, NEW q \in Query, NEW swap \in BOOLEAN,
           NEW lo \in Nat, NEW hi \in lo..Cardinality(S)
    PROVE  /\ Items(PageOf(S, q, swap, lo, hi)) = Section(S, q, swap, lo, hi)
           /\ Enum(Section(S, q, swap, lo, hi), q, swap) = PageOf(S, q, swap, lo, hi)
<1>0. PICK page : page = PageOf(S, q, swap, lo, hi) OBVIOUS
<1> DEFINE T == Section(S, q, swap, lo, hi)
<1>1. Cardinality(S) \in Nat BY SetsOfEntries
<1>2. /\ \A e \in S : /\ Rank(e, S, q, swap) \in 1..Cardinality(S)
                      /\ Enum(S, q, swap)[Rank(e, S, q, swap)] = e
      /\ \A i \in 1..Cardinality(S) : /\ Enum(S, q, swap)[i] \in S
                                      /\ Rank(Enum(S, q, swap)[i], S, q, swap) = i
  BY RankIsPlace, EnumFacts
<1>5. /\ page \in Seq(S) /\ Len(page) = hi - lo
      /\ \A k \in 1..(hi - lo) : page[k] = Enum(S, q, swap)[lo + k]
  BY <1>0, PageSeq
<1>6. /\ \A k \in DOMAIN page : page[k] \in T
      /\ \A e \in T : /\ Rank(e, S, q, swap) - lo \in DOMAIN page
                     /\ page[Rank(e, S, q, swap) - lo] = e
  <2>1. DOMAIN page = 1..(hi - lo) BY <1>5
  <2>2. ASSUME NEW k \in 1..(hi - lo) PROVE page[k] \in T
    <3>1. lo + k \in 1..Cardinality(S) /\ lo < lo + k /\ lo + k <= hi BY <1>1
    <3> QED BY <1>2, <1>5, <3>1 DEF Section
  <2>3. ASSUME NEW e \in T
        PROVE  /\ Rank(e, S, q, swap) - lo \in 1..(hi - lo)
               /\ page[Rank(e, S, q, swap) - lo] = e
    <3>1. PICK r \in 1..Cardinality(S) : r = Rank(e, S, q, swap) /\ lo < r /\ r <= hi
      BY <1>2 DEF Section
    <3>2. r - lo \in 1..(hi - lo) /\ lo + (r - lo) = r BY <1>1, <3>1
    <3> QED BY <1>2, <1>5, <3>1, <3>2 DEF Section
  <2> QED BY <2>1, <2>2, <2>3
<1>7. T \in SUBSET Entries /\ Cardinality(T) = hi - lo BY SectionSize DEF Section
<1>8. ASSUME NEW k \in 1..(hi - lo) PROVE Rank(page[k], T, q, swap) = k /\ page[k] \in T
  <2>1. PICK e \in S : e = page[k] /\ Rank(e, S, q, swap) = lo + k /\ e \in T
    <3>1. lo + k \in 1..Cardinality(S) /\ lo < lo + k /\ lo + k <= hi BY <1>1
    <3> QED BY <1>2, <1>5, <3>1 DEF Section
  <2>2. Before(e, T, q, swap) = Section(S, q, swap, lo, lo + k - 1)
    <3>1. \A d \in S : Ord(d, e, q, swap) <=> Rank(d, S, q, swap) < Rank(e, S, q, swap)
      <4>1. ASSUME NEW d \in S, Rank(d, S, q, swap) < Rank(e, S, q, swap)
            PROVE  Ord(d, e, q, swap)
        <5>1. Rank(d, S, q, swap) \in Int /\ Rank(e, S, q, swap) \in Int BY <1>2
        <5>2. d # e /\ ~Ord(e, d, q, swap) BY <4>1, <5>1, RankIsPlace
        <5> QED BY <5>2, OrdIsOrder
      <4> QED BY <4>1, RankIsPlace
    <3>2. \A d \in S : Rank(d, S, q, swap) \in Int BY <1>2
    <3> QED BY <1>1, <2>1, <3>1, <3>2 DEF Before, Section
  <2>3. lo + k - 1 \in lo..Cardinality(S) BY <1>1
  <2>4. Cardinality(Before(e, T, q, swap)) = lo + k - 1 - lo BY <2>2, <2>3, SectionSize
  <2> QED BY <2>1, <2>4 DEF Rank
<1>9. Enum(T, q, swap) = page
  <2>1. Enum(T, q, swap) \in Seq(T) /\ Len(Enum(T, q, swap)) = hi - lo BY <1>7, EnumFacts
  <2>2. page \in Seq(T) BY <1>5, <1>8
  <2>3. \A k \in 1..(hi - lo) : Enum(T, q, swap)[k] = page[k]
    BY <1>7, <1>8, EnumFacts
  <2> QED BY <1>5, <2>1, <2>2, <2>3, SeqEqual
<1>10. {page[i] : i \in DOMAIN page} = T BY <1>6
<1> QED BY <1>0, <1>9, <1>10 DEF Items

\* What is left of a page: all of it, or, in a tree, those still there.
Left(page, q, swap, there) ==
    IF q.view = "tree" THEN Enum(Items(page) \cap there, q, swap) ELSE page

LEMMA LeftFacts ==
    ASSUME NEW S \in SUBSET Entries, NEW q \in Query, NEW swap \in BOOLEAN, NEW there,
           NEW lo \in Nat, NEW hi \in lo..Cardinality(S)
    PROVE  /\ Left(PageOf(S, q, swap, lo, hi), q, swap, there) \in Seq(Entries)
           /\ \A e \in Section(S, q, swap, lo, hi) :
                 e \in there => e \in Items(Left(PageOf(S, q, swap, lo, hi), q, swap, there))
<1>0. PICK page : page = PageOf(S, q, swap, lo, hi) OBVIOUS
<1> DEFINE T == Section(S, q, swap, lo, hi)
           U == IF q.view = "tree" THEN T \cap there ELSE T
<1>1. Items(page) = T /\ Enum(T, q, swap) = page BY <1>0, PageEntries
<1>2. U \in SUBSET Entries BY DEF Section
<1>3. Left(page, q, swap, there) = Enum(U, q, swap) BY <1>1 DEF Left
<1>4. PICK V : V = U /\ V \in SUBSET Entries BY <1>2
<1>. V \in SUBSET Entries BY <1>4
<1>5. /\ Enum(V, q, swap) \in Seq(V) /\ Len(Enum(V, q, swap)) = Cardinality(V)
      /\ \A e \in V : Enum(V, q, swap)[Rank(e, V, q, swap)] = e
  BY EnumFacts
<1>6. \A e \in V : Rank(e, V, q, swap) \in 1..Cardinality(V) BY RankIsPlace
<1>7. Enum(V, q, swap) \in Seq(Entries) BY <1>4, <1>5, SeqMonotonic
<1>8. \A e \in T : e \in there => e \in V BY <1>4
<1>9. \A e \in V : e \in Items(Enum(V, q, swap)) BY <1>5, <1>6 DEF Items
<1> QED BY <1>0, <1>3, <1>4, <1>7, <1>8, <1>9

\* A page none of whose entries is gone is left as it is.
LEMMA LeftWhole ==
    ASSUME NEW S \in SUBSET Entries, NEW q \in Query, NEW swap \in BOOLEAN,
           NEW there \in SUBSET Entries, S \subseteq there,
           NEW lo \in Nat, NEW hi \in lo..Cardinality(S), NEW page,
           page = PageOf(S, q, swap, lo, hi)
    PROVE  Left(page, q, swap, there) = page
<1> DEFINE T == Section(S, q, swap, lo, hi)
<1>1. Items(page) = T /\ Enum(T, q, swap) = page BY PageEntries
<1>2. T \cap there = T BY DEF Section
<1> QED BY <1>1, <1>2 DEF Left

-----------------------------------------------------------------------------
(* The arithmetic of pages.                                                *)

\* What an int can hold is not changed.
LEMMA WrapFits ==
    ASSUME NEW x \in 0..MaxInt PROVE Wrap(x) = x
<1>1. MaxInt \in Nat BY ListingAssumption
<1>2. (x + MaxInt + 1) % (2 * (MaxInt + 1)) = x + MaxInt + 1
  BY <1>1
<1> QED BY <1>1, <1>2 DEF Wrap

\* There are as many pages as it takes to hold them all.
LEMMA PagesHoldAll ==
    ASSUME NEW total \in Nat, NEW limit \in Nat \ {0}
    PROVE  /\ TotalPages(total, limit) \in Nat /\ TotalPages(total, limit) <= total
           /\ TotalPages(total, limit) * limit >= total
           /\ total > 0 => (TotalPages(total, limit) - 1) * limit < total
<1>1. PICK x \in Nat : x = total + limit - 1 OBVIOUS
<1>2. PICK d : d = x \div limit OBVIOUS
<1>3. d \in Nat /\ d * limit <= x /\ x < d * limit + limit
  BY <1>2
<1>4. d <= total
  BY <1>1, <1>3
<1>5. TotalPages(total, limit) = d BY <1>1, <1>2 DEF TotalPages
<1> QED BY <1>1, <1>3, <1>4, <1>5

-----------------------------------------------------------------------------
(* The invariants.                                                         *)

\* What a row says of the pages before this one.
Passed == (walk.page - 1) * walk.limit

WalkInv == TypeOK /\ walk.total <= MaxInt

\* While nothing changes, what was received is the beginning of the list.
EachInv ==
    walk.whole /\ ~walk.grown /\ ~walk.shrunk /\ ~walk.cut =>
        /\ swapped = FALSE /\ Matches(walk.query) = walk.had
        /\ walk.pc = "answer" => walk.found = walk.had /\ walk.total = Cardinality(walk.had)
        /\ walk.pc \in {"ask", "answer"} =>
              /\ Passed <= Cardinality(walk.had)
              /\ walk.got = SubSeq(Enum(walk.had, walk.query, FALSE), 1, Passed)
        /\ walk.pc = "done" => walk.got = Enum(walk.had, walk.query, FALSE)

\* Its place does not depend on how a search turns equals round.
Steady(e, q) == q.view # "search" \/ \A d \in Entries \ {e} : ~Tied(d, e, q)

\* While entries are only added, one that was not received yet still lies ahead: others
\* may push it towards the end of the list, never towards the beginning.
MissInv ==
    walk.whole /\ ~walk.shrunk /\ ~walk.cut /\ ~walk.slipped =>
        /\ walk.had \subseteq Matches(walk.query)
        /\ walk.pc = "answer" =>
              /\ walk.had \subseteq walk.found /\ walk.found \subseteq Matches(walk.query)
              /\ walk.total = Cardinality(walk.found)
              /\ walk.query.view = "audit" => walk.found = Matches(walk.query)
        /\ \A e \in walk.had : Steady(e, walk.query) =>
              \/ e \in Received
              \/ walk.pc = "ask" /\ Rank(e, Matches(walk.query), walk.query, FALSE) > Passed
              \/ walk.pc = "answer" /\ Rank(e, walk.found, walk.query, FALSE) > Passed
              \/ walk.pc = "panic"

LEMMA WalkTypes ==
    ASSUME TypeOK
    PROVE  /\ walk \in Walk /\ walk.query \in Query /\ walk.limit \in Nat \ {0}
           /\ walk.limit <= MaxInt /\ MaxInt \in Nat
           /\ walk.page \in Nat \ {0} /\ walk.page <= MaxInt
           /\ walk.pages \in Nat /\ walk.total \in Nat /\ walk.got \in Seq(Entries)
           /\ walk.found \subseteq Entries /\ walk.had \subseteq Entries
           /\ present \subseteq Entries /\ Matches(walk.query) \subseteq present
           /\ swapped \in BOOLEAN /\ Passed \in Nat
<1>1. /\ walk \in Walk /\ walk.query \in Query /\ walk.limit \in Limits
      /\ walk.page \in 1..MaxInt /\ walk.pages \in Nat /\ walk.total \in Nat
      /\ walk.got \in Seq(Entries) /\ walk.found \subseteq Entries /\ walk.had \subseteq Entries
  BY DEF TypeOK, Walk
<1>2. MaxInt \in Nat /\ walk.limit \in 1..MaxInt BY <1>1, ListingAssumption
<1>3. Passed \in Nat
  <2>1. walk.page - 1 \in Nat /\ walk.limit \in Nat BY <1>1, <1>2
  <2> QED BY <2>1 DEF Passed
<1> QED BY <1>1, <1>2, <1>3 DEF TypeOK, Matches

\* Whoever has time to look at all of it finds all of it.
LEMMA AllSeen ==
    ASSUME NEW S \in SUBSET Entries PROVE Seen(S, Cardinality(S)) = S
<1>1. IsFiniteSet(S) BY SetsOfEntries
<1>2. ASSUME NEW e \in S PROVE Cardinality({d \in S : d.name <= e.name}) <= Cardinality(S)
  BY <1>1, FS_Subset
<1> QED BY <1>2 DEF Seen

\* What has been read, and how much.
LEMMA ReadFacts ==
    ASSUME TypeOK, Read
    PROVE  /\ walk.pc = "ask" /\ UNCHANGED <<present, swapped, changes>>
           /\ \E n \in 0..Cardinality(Matches(walk.query)) :
                 /\ walk' = [walk EXCEPT !.pc = "answer", !.found = Seen(Matches(walk.query), n),
                                         !.total = n,
                                         !.cut = @ \/ n # Cardinality(Matches(walk.query))]
                 /\ walk.query.view # "search" => n = Cardinality(Matches(walk.query))
BY DEF Read

LEMMA WrapInt ==
    ASSUME NEW x \in Int PROVE Wrap(x) \in Int
<1>1. MaxInt \in Nat BY ListingAssumption
<1> QED BY <1>1 DEF Wrap

\* The page that is taken.  It is out of range only when its first entry exceeds an int.
PageTaken(S, total, start, stop, page, pages) ==
    /\ page = SubSeq(Enum(S, walk.query, swapped), start + 1, stop)
    /\ pages = TotalPages(total, walk.limit)
    /\ Passed <= MaxInt => /\ start = Least(Passed, Cardinality(S))
                           /\ stop = Least(start + walk.limit, Cardinality(S))
    /\ walk' = [walk EXCEPT
            !.got = @ \o Kept(page, walk.query), !.pages = pages, !.found = {}, !.total = 0,
            !.pc = IF walk.page < pages THEN "ask" ELSE "done",
            !.page = IF walk.page < pages THEN @ + 1 ELSE @]

LEMMA AnswerFacts ==
    ASSUME TypeOK, walk.total <= MaxInt, Answer
    PROVE  \E S \in SUBSET Entries, total \in 0..MaxInt :
              /\ walk.pc = "answer" /\ UNCHANGED <<present, swapped, changes>>
              /\ S = Listed(walk.query)
              /\ total = (IF walk.query.view = "audit" THEN walk.total ELSE Cardinality(S))
              /\ \/ Passed > MaxInt /\ walk' = [walk EXCEPT !.pc = "panic", !.found = {}]
                 \/ \E start \in Nat : \E stop \in start..Cardinality(S) :
                    \E page \in Seq(S), pages \in 0..MaxInt :
                       PageTaken(S, total, start, stop, page, pages)
<1>1. PICK S \in SUBSET Entries : S = Listed(walk.query)
  BY WalkTypes DEF Listed
<1>2. Cardinality(S) \in Nat /\ Cardinality(S) <= MaxInt BY SetsOfEntries
<1>3. PICK total \in 0..MaxInt :
        total = IF walk.query.view = "audit" THEN walk.total ELSE Cardinality(S)
  BY <1>2, WalkTypes
<1>4. Len(Enum(S, walk.query, swapped)) = Cardinality(S) BY EnumFacts, WalkTypes
<1>5. PICK start, stop, pages :
        /\ start = Start(walk.page, walk.limit, Cardinality(S))
        /\ stop = Stop(walk.page, walk.limit, Cardinality(S))
        /\ pages = TotalPages(total, walk.limit)
  OBVIOUS
<1>6. /\ walk.pc = "answer" /\ UNCHANGED <<present, swapped, changes>>
      /\ IF start < 0 \/ stop < start \/ stop > Cardinality(S)
         THEN walk' = [walk EXCEPT !.pc = "panic", !.found = {}]
         ELSE walk' = [walk EXCEPT
                 !.got = @ \o Kept(SubSeq(Enum(S, walk.query, swapped), start + 1, stop), walk.query),
                 !.pages = pages, !.found = {}, !.total = 0,
                 !.pc = IF walk.page < pages THEN "ask" ELSE "done",
                 !.page = IF walk.page < pages THEN @ + 1 ELSE @]
  <2>1. Sorted(Listed(walk.query), walk.query) = Enum(S, walk.query, swapped)
    BY <1>1, SortedIsEnum
  <2> QED BY <1>3, <1>4, <1>5, <2>1 DEF Answer
<1>7. start \in Int /\ stop \in Int
  <2>1. (walk.page - 1) * walk.limit \in Int BY WalkTypes
  <2>2. First(walk.page, walk.limit) \in Int BY <2>1, WrapInt DEF First
  <2>3. start \in Int BY <1>2, <1>5, <2>2 DEF Start, Least
  <2> QED BY <1>2, <1>5, <2>3, WalkTypes DEF Stop, Least
<1>8. Passed <= MaxInt => /\ start = Least(Passed, Cardinality(S))
                          /\ stop = Least(start + walk.limit, Cardinality(S))
  <2>1. Passed <= MaxInt => First(walk.page, walk.limit) = Passed
    BY WalkTypes, WrapFits DEF First, Passed
  <2> QED BY <1>5, <2>1 DEF Start, Stop
<1>9. Passed <= MaxInt => 0 <= start /\ start <= stop /\ stop <= Cardinality(S)
  BY <1>2, <1>8, WalkTypes DEF Least
<1>10. pages \in 0..MaxInt
  <2>1. walk.limit \in Nat \ {0} /\ MaxInt \in Nat /\ total \in Nat BY <1>3, WalkTypes
  <2>2. pages \in Nat /\ pages <= total BY <1>5, <2>1, PagesHoldAll
  <2> QED BY <1>3, <2>1, <2>2
<1>11. CASE start < 0 \/ stop < start \/ stop > Cardinality(S)
  <2>1. walk' = [walk EXCEPT !.pc = "panic", !.found = {}] BY <1>6, <1>11
  <2>2. Passed > MaxInt BY <1>7, <1>9, <1>2, <1>11, WalkTypes
  <2> QED BY <1>1, <1>3, <1>6, <2>1, <2>2
<1>12. CASE ~(start < 0 \/ stop < start \/ stop > Cardinality(S))
  <2>1. start \in Nat /\ stop \in start..Cardinality(S) BY <1>2, <1>7, <1>12
  <2>2. PICK page : page = SubSeq(Enum(S, walk.query, swapped), start + 1, stop) OBVIOUS
  <2>3. page \in Seq(S) BY <2>1, <2>2, PageSeq, WalkTypes DEF PageOf
  <2>4. PageTaken(S, total, start, stop, page, pages)
    BY <1>5, <1>6, <1>8, <1>12, <2>2 DEF PageTaken
  <2> QED BY <1>1, <1>3, <1>6, <1>10, <2>1, <2>3, <2>4
<1> QED BY <1>11, <1>12

LEMMA KeptIsLeft ==
    ASSUME NEW page, NEW q PROVE Kept(page, q) = Left(page, q, swapped, present)
BY SortedIsEnum DEF Kept, Left, Items

-----------------------------------------------------------------------------
(* What the steps leave of the walk.                                       *)

\* The request, what it has read, and what was received stay as they are.
SameRequest ==
    /\ walk'.pc = walk.pc /\ walk'.query = walk.query /\ walk'.limit = walk.limit
    /\ walk'.page = walk.page /\ walk'.found = walk.found /\ walk'.total = walk.total
    /\ walk'.got = walk.got /\ walk'.whole = walk.whole /\ walk'.had = walk.had
    /\ walk'.cut = walk.cut

LEMMA ComeFacts ==
    ASSUME TypeOK, NEW e \in Entries, Come(e)
    PROVE  /\ TypeOK' /\ SameRequest
           /\ present' = present \cup {e} /\ walk'.grown = TRUE /\ walk'.shrunk = walk.shrunk
           /\ walk'.slipped = (walk.slipped \/ (walk.pc = "answer" /\ walk.query.view = "audit"))
<1>1. /\ changes < MaxChanges /\ changes' = changes + 1 /\ present' = present \cup {e}
      /\ swapped' \in BOOLEAN
      /\ walk' = [walk EXCEPT !.grown = TRUE, !.slipped = @ \/ Counting]
  BY DEF Come
<1>2. walk \in Walk /\ Counting \in BOOLEAN BY DEF TypeOK, Counting
<1>3. walk' \in Walk BY <1>1, <1>2 DEF Walk
<1>4. changes' \in 0..MaxChanges BY <1>1, ListingAssumption DEF TypeOK
<1>5. TypeOK' BY <1>1, <1>3, <1>4 DEF TypeOK
<1>6. SameRequest /\ walk'.grown = TRUE /\ walk'.shrunk = walk.shrunk
      /\ walk'.slipped = (walk.slipped \/ Counting)
  BY <1>1, <1>2 DEF Walk, SameRequest
<1> QED BY <1>1, <1>5, <1>6 DEF Counting

LEMMA GoFacts ==
    ASSUME TypeOK, NEW e \in Entries, Go(e)
    PROVE  TypeOK' /\ SameRequest /\ walk'.shrunk = TRUE
<1>1. /\ changes < MaxChanges /\ changes' = changes + 1 /\ present' = present \ {e}
      /\ swapped' \in BOOLEAN /\ walk' = [walk EXCEPT !.shrunk = TRUE]
  BY DEF Go
<1>2. walk \in Walk BY DEF TypeOK
<1>3. walk' \in Walk /\ SameRequest /\ walk'.shrunk = TRUE BY <1>1, <1>2 DEF Walk, SameRequest
<1>4. changes' \in 0..MaxChanges BY <1>1, ListingAssumption DEF TypeOK
<1> QED BY <1>1, <1>3, <1>4 DEF TypeOK

\* The request has read what there is, and the client stays where it is.
LEMMA ReadKeeps ==
    ASSUME TypeOK, Read
    PROVE  /\ WalkInv' /\ UNCHANGED <<present, swapped>> /\ walk.pc = "ask"
           /\ walk'.pc = "answer" /\ walk'.query = walk.query /\ walk'.limit = walk.limit
           /\ walk'.page = walk.page /\ walk'.got = walk.got /\ walk'.whole = walk.whole
           /\ walk'.had = walk.had /\ walk'.grown = walk.grown /\ walk'.shrunk = walk.shrunk
           /\ walk'.slipped = walk.slipped
           /\ ~walk'.cut => /\ ~walk.cut /\ walk'.found = Matches(walk.query)
                            /\ walk'.total = Cardinality(Matches(walk.query))
<1> DEFINE all == Matches(walk.query)
<1>1. PICK n \in 0..Cardinality(all) :
        walk' = [walk EXCEPT !.pc = "answer", !.found = Seen(all, n), !.total = n,
                             !.cut = @ \/ n # Cardinality(all)]
  BY ReadFacts
<1>2. walk.pc = "ask" /\ UNCHANGED <<present, swapped, changes>> BY ReadFacts
<1>3. PICK S \in SUBSET Entries : S = all BY WalkTypes
<1>4. Cardinality(S) \in Nat /\ Cardinality(S) <= MaxInt /\ Seen(S, Cardinality(S)) = S
  BY SetsOfEntries, AllSeen
<1>5. Seen(S, n) \subseteq Entries /\ n \in Nat /\ n <= MaxInt /\ MaxInt \in Nat
  BY <1>1, <1>3, <1>4, ListingAssumption DEF Seen
<1>6. walk \in Walk BY DEF TypeOK
<1>7. PICK b \in BOOLEAN : b = (n # Cardinality(S)) OBVIOUS
<1>8. walk' = [walk EXCEPT !.pc = "answer", !.found = Seen(S, n), !.total = n, !.cut = @ \/ b]
  BY <1>1, <1>3, <1>7
<1>9. walk' \in Walk BY <1>5, <1>6, <1>8 DEF Walk
<1>10. /\ walk'.pc = "answer" /\ walk'.query = walk.query /\ walk'.limit = walk.limit
       /\ walk'.page = walk.page /\ walk'.got = walk.got /\ walk'.whole = walk.whole
       /\ walk'.had = walk.had /\ walk'.grown = walk.grown /\ walk'.shrunk = walk.shrunk
       /\ walk'.slipped = walk.slipped
       /\ walk'.cut = (walk.cut \/ b) /\ walk'.found = Seen(S, n) /\ walk'.total = n
  BY <1>6, <1>8 DEF Walk
<1>11. WalkInv' BY <1>2, <1>5, <1>9, <1>10 DEF WalkInv, TypeOK
<1>12. ~walk'.cut => ~walk.cut /\ n = Cardinality(S)
  BY <1>7, <1>10
<1> QED BY <1>2, <1>3, <1>4, <1>10, <1>11, <1>12

LEMMA PanicKeeps ==
    ASSUME WalkInv, UNCHANGED <<present, swapped, changes>>,
           walk' = [walk EXCEPT !.pc = "panic", !.found = {}]
    PROVE  /\ WalkInv' /\ walk'.pc = "panic" /\ walk'.page = walk.page
           /\ walk'.limit = walk.limit /\ walk'.query = walk.query /\ walk'.had = walk.had
           /\ walk'.whole = walk.whole /\ walk'.grown = walk.grown /\ walk'.shrunk = walk.shrunk
           /\ walk'.slipped = walk.slipped /\ walk'.cut = walk.cut
<1>1. walk \in Walk BY DEF WalkInv, TypeOK
<1>2. walk' \in Walk BY <1>1 DEF Walk
<1>3. /\ walk'.pc = "panic" /\ walk'.page = walk.page /\ walk'.total = walk.total
      /\ walk'.limit = walk.limit /\ walk'.query = walk.query /\ walk'.had = walk.had
      /\ walk'.whole = walk.whole /\ walk'.grown = walk.grown /\ walk'.shrunk = walk.shrunk
      /\ walk'.slipped = walk.slipped /\ walk'.cut = walk.cut
  BY <1>1 DEF Walk
<1> QED BY <1>2, <1>3 DEF WalkInv, TypeOK

\* A page is added, and the client goes on while there are more.
LEMMA PageKeeps ==
    ASSUME WalkInv, UNCHANGED <<present, swapped, changes>>,
           NEW S \in SUBSET Entries, NEW total \in 0..MaxInt,
           NEW start \in Nat, NEW stop \in start..Cardinality(S), NEW page \in Seq(S),
           NEW pages \in 0..MaxInt, PageTaken(S, total, start, stop, page, pages)
    PROVE  /\ WalkInv' /\ walk'.query = walk.query /\ walk'.limit = walk.limit
           /\ walk'.had = walk.had /\ walk'.whole = walk.whole /\ walk'.grown = walk.grown
           /\ walk'.shrunk = walk.shrunk /\ walk'.slipped = walk.slipped /\ walk'.cut = walk.cut
           /\ walk'.got = walk.got \o Kept(page, walk.query)
           /\ walk'.pc = IF walk.page < pages THEN "ask" ELSE "done"
           /\ walk.page < pages => walk'.page = walk.page + 1
<1>1. walk \in Walk /\ walk.page \in 1..MaxInt /\ walk.got \in Seq(Entries) /\ MaxInt \in Nat
  BY ListingAssumption DEF WalkInv, TypeOK, Walk
<1>2. PICK rows \in Seq(Entries) : rows = walk.got \o Kept(page, walk.query)
  <2>1. PICK q \in Query, swap \in BOOLEAN : q = walk.query /\ swap = swapped
    BY WalkTypes DEF WalkInv
  <2>2. Kept(page, walk.query) = Left(page, q, swap, present) BY <2>1, KeptIsLeft
  <2>3. page = PageOf(S, q, swap, start, stop) BY <2>1 DEF PageTaken, PageOf
  <2>4. q \in Query /\ swap \in BOOLEAN BY <2>1
  <2>5. Left(page, q, swap, present) \in Seq(Entries) BY <2>3, <2>4, LeftFacts
  <2> QED BY <1>1, <2>2, <2>5, ConcatProperties
<1>3. PICK pc \in {"ask", "done"} : pc = IF walk.page < pages THEN "ask" ELSE "done" OBVIOUS
<1>4. PICK next \in 1..MaxInt : next = IF walk.page < pages THEN walk.page + 1 ELSE walk.page
  BY <1>1
<1>5. walk' = [walk EXCEPT !.got = rows, !.pages = pages, !.found = {}, !.total = 0,
                           !.pc = pc, !.page = next]
  BY <1>2, <1>3, <1>4 DEF PageTaken
<1>6. walk' \in Walk
  <2>1. /\ rows \in Seq(Entries) /\ pages \in Nat /\ {} \in SUBSET Entries /\ 0 \in Nat
        /\ pc \in {"idle", "ask", "answer", "done", "panic"} /\ next \in 1..MaxInt
    BY <1>1, <1>2, <1>3, <1>4
  <2> QED BY <1>1, <1>5, <2>1 DEF Walk
<1>7. /\ walk'.query = walk.query /\ walk'.limit = walk.limit
      /\ walk'.had = walk.had /\ walk'.whole = walk.whole /\ walk'.grown = walk.grown
      /\ walk'.shrunk = walk.shrunk /\ walk'.slipped = walk.slipped /\ walk'.cut = walk.cut
      /\ walk'.got = rows /\ walk'.pc = pc /\ walk'.page = next /\ walk'.total = 0
  BY <1>1, <1>5 DEF Walk
<1>8. WalkInv' BY <1>1, <1>6, <1>7 DEF WalkInv, TypeOK
<1> QED BY <1>2, <1>3, <1>4, <1>7, <1>8

-----------------------------------------------------------------------------
(* Types, and pages out of range.                                          *)

LEMMA WalkInit ==
    ASSUME Init
    PROVE  /\ WalkInv /\ walk.pc = "ask" /\ walk.got = <<>> /\ walk.whole = (walk.page = 1)
           /\ walk.had = Matches(walk.query) /\ swapped = FALSE
<1>1. PICK q \in Queries, l \in Limits, p \in FirstPages :
        walk = [pc |-> "ask", query |-> q, limit |-> l, page |-> p, pages |-> 0, found |-> {},
                total |-> 0, got |-> <<>>, whole |-> (p = 1), had |-> Matches(q),
                grown |-> FALSE, shrunk |-> FALSE, slipped |-> FALSE, cut |-> FALSE]
  BY DEF Init
<1>2. /\ present \in SUBSET Entries /\ swapped = FALSE /\ changes = 0 BY DEF Init
<1>3. q \in Query /\ p \in 1..MaxInt /\ MaxInt \in Nat /\ MaxChanges \in Nat
  BY <1>1, ListingAssumption DEF Queries
<1>4. PICK S \in SUBSET Entries : S = Matches(q) BY <1>2 DEF Matches
<1>5. PICK b \in BOOLEAN : b = (p = 1) OBVIOUS
<1>6. walk = [pc |-> "ask", query |-> q, limit |-> l, page |-> p, pages |-> 0, found |-> {},
              total |-> 0, got |-> <<>>, whole |-> b, had |-> S,
              grown |-> FALSE, shrunk |-> FALSE, slipped |-> FALSE, cut |-> FALSE]
  BY <1>1, <1>4, <1>5
<1>7. <<>> \in Seq(Entries) /\ {} \in SUBSET Entries OBVIOUS
<1>8. walk \in Walk BY <1>1, <1>3, <1>4, <1>5, <1>6, <1>7 DEF Walk
<1>9. WalkInv
  <2>1. walk.total = 0 BY <1>6
  <2>2. changes \in 0..MaxChanges BY <1>2, <1>3
  <2>3. TypeOK BY <1>2, <1>8, <2>2 DEF TypeOK
  <2> QED BY <1>3, <2>1, <2>3 DEF WalkInv
<1> QED BY <1>2, <1>4, <1>5, <1>6, <1>9

\* Whatever the step, the walk keeps its type, and a request that panicked is over.
LEMMA WalkNext ==
    ASSUME WalkInv, InRange, Next
    PROVE  WalkInv' /\ InRange'
<1>1. TypeOK /\ walk.total <= MaxInt BY DEF WalkInv
<1>2. CASE Read BY <1>1, <1>2, ReadKeeps DEF InRange
<1>3. CASE Answer
  <2>1. PICK S \in SUBSET Entries, total \in 0..MaxInt :
          /\ UNCHANGED <<present, swapped, changes>>
          /\ \/ Passed > MaxInt /\ walk' = [walk EXCEPT !.pc = "panic", !.found = {}]
             \/ \E start \in Nat : \E stop \in start..Cardinality(S) :
                \E page \in Seq(S), pages \in 0..MaxInt :
                   PageTaken(S, total, start, stop, page, pages)
    BY <1>1, <1>3, AnswerFacts
  <2>2. CASE Passed > MaxInt /\ walk' = [walk EXCEPT !.pc = "panic", !.found = {}]
    BY <2>1, <2>2, PanicKeeps DEF InRange, Passed
  <2>3. ASSUME NEW start \in Nat, NEW stop \in start..Cardinality(S), NEW page \in Seq(S),
               NEW pages \in 0..MaxInt, PageTaken(S, total, start, stop, page, pages)
        PROVE  WalkInv' /\ InRange'
    BY <2>1, <2>3, PageKeeps DEF InRange
  <2> QED BY <2>1, <2>2, <2>3
<1>4. ASSUME NEW e \in Entries, walk.pc \in {"ask", "answer"}, Come(e) PROVE WalkInv' /\ InRange'
  BY <1>1, <1>4, ComeFacts DEF InRange, WalkInv, SameRequest
<1>5. ASSUME NEW e \in Entries, walk.pc \in {"ask", "answer"}, Go(e) PROVE WalkInv' /\ InRange'
  BY <1>1, <1>5, GoFacts DEF InRange, WalkInv, SameRequest
<1> QED BY <1>2, <1>3, <1>4, <1>5 DEF Next

LEMMA WalkRange == Spec => [](WalkInv /\ InRange)
<1>1. Init => WalkInv /\ InRange BY WalkInit DEF InRange
<1>2. WalkInv /\ InRange /\ [Next]_vars => (WalkInv /\ InRange)'
  <2>1. ASSUME WalkInv, InRange, UNCHANGED vars PROVE (WalkInv /\ InRange)'
    BY <2>1 DEF vars, WalkInv, InRange, TypeOK
  <2> QED BY <2>1, WalkNext
<1> QED BY <1>1, <1>2, PTL DEF Spec

\* Every variable keeps its type, in List, Tree, Search and Query alike: what a request reads
\* is finite, the count of it fits an int, and so does every page number that is asked for.
THEOREM ListingTypes == Spec => []TypeOK
<1>1. WalkInv /\ InRange => TypeOK BY DEF WalkInv
<1> QED BY <1>1, WalkRange, PTL

\* A slice of List, Tree or Search is out of range, and an offset of Query negative, only for
\* a page so far that (page - 1) * page_size exceeds an int: whatever the page size, and
\* however many entries were dropped between the reading and the slice.
THEOREM OnlyFarPagesPanic == Spec => []InRange
<1>1. WalkInv /\ InRange => InRange OBVIOUS
<1> QED BY <1>1, WalkRange, PTL

-----------------------------------------------------------------------------
(* What does not change.                                                   *)

\* There are more pages just as long as there are more entries.
LEMMA MorePages ==
    ASSUME NEW total \in Nat, NEW limit \in Nat \ {0}, NEW page \in Nat \ {0}
    PROVE  /\ (page - 1) * limit + limit = page * limit /\ page * limit \in Nat
           /\ page < TotalPages(total, limit) => page * limit < total
           /\ page >= TotalPages(total, limit) => page * limit >= total
<1>1. PICK n \in Nat : n = TotalPages(total, limit) /\ n <= total BY PagesHoldAll
<1>2. n * limit >= total /\ (total > 0 => (n - 1) * limit < total) BY <1>1, PagesHoldAll
<1>3. \A a, b \in Nat : a <= b => a * limit <= b * limit BY <1>1
<1>4. page * limit \in Nat /\ n * limit \in Nat BY <1>1
<1>5. (page - 1) * limit + limit = page * limit OBVIOUS
<1>6. ASSUME page < n PROVE page * limit < total
  <2>1. n - 1 \in Nat /\ page <= n - 1 /\ total > 0 BY <1>1, <1>6
  <2>2. page * limit <= (n - 1) * limit /\ (n - 1) * limit \in Nat BY <1>3, <2>1
  <2> QED BY <1>2, <1>4, <2>1, <2>2
<1>7. ASSUME page >= n PROVE page * limit >= total
  <2>1. n * limit <= page * limit BY <1>1, <1>3, <1>7
  <2> QED BY <1>2, <1>4, <2>1
<1> QED BY <1>1, <1>4, <1>5, <1>6, <1>7

LEMMA EachInit == Init => EachInv
<1> SUFFICES ASSUME Init, walk.whole PROVE EachInv BY DEF EachInv
<1>1. /\ WalkInv /\ walk.pc = "ask" /\ walk.got = <<>> /\ walk.page = 1
      /\ walk.had = Matches(walk.query) /\ swapped = FALSE
  BY WalkInit
<1>2. Passed = 0 BY <1>1, WalkTypes DEF WalkInv, Passed
<1>3. SubSeq(Enum(walk.had, walk.query, FALSE), 1, 0) = <<>> BY SubSeqEmpty
<1>4. Cardinality(walk.had) >= 0 BY <1>1, WalkTypes, SetsOfEntries DEF WalkInv
<1> QED BY <1>1, <1>2, <1>3, <1>4 DEF EachInv

LEMMA EachRead ==
    ASSUME WalkInv, EachInv, Read PROVE EachInv'
<1>1. TypeOK BY DEF WalkInv
<1>2. /\ UNCHANGED <<present, swapped>> /\ walk.pc = "ask"
      /\ walk'.pc = "answer" /\ walk'.query = walk.query /\ walk'.limit = walk.limit
      /\ walk'.page = walk.page /\ walk'.got = walk.got /\ walk'.whole = walk.whole
      /\ walk'.had = walk.had /\ walk'.grown = walk.grown /\ walk'.shrunk = walk.shrunk
      /\ ~walk'.cut => /\ ~walk.cut /\ walk'.found = Matches(walk.query)
                       /\ walk'.total = Cardinality(Matches(walk.query))
  BY <1>1, ReadKeeps
<1>3. Matches(walk.query)' = Matches(walk.query) BY <1>2 DEF Matches
<1>4. Passed' = Passed BY <1>2 DEF Passed
<1> QED BY <1>2, <1>3, <1>4 DEF EachInv

\* The page continues where the pages before it ended.
LEMMA EachAnswer ==
    ASSUME WalkInv, EachInv, Answer PROVE EachInv'
<1> DEFINE calm == walk.whole /\ ~walk.grown /\ ~walk.shrunk /\ ~walk.cut
           list == Enum(walk.had, walk.query, FALSE)
           size == Cardinality(walk.had)
<1>1. TypeOK /\ walk.total <= MaxInt BY DEF WalkInv
<1>2. PICK S \in SUBSET Entries, total \in 0..MaxInt :
        /\ walk.pc = "answer" /\ UNCHANGED <<present, swapped, changes>>
        /\ S = Listed(walk.query)
        /\ total = (IF walk.query.view = "audit" THEN walk.total ELSE Cardinality(S))
        /\ \/ Passed > MaxInt /\ walk' = [walk EXCEPT !.pc = "panic", !.found = {}]
           \/ \E start \in Nat : \E stop \in start..Cardinality(S) :
              \E page \in Seq(S), pages \in 0..MaxInt :
                 PageTaken(S, total, start, stop, page, pages)
  BY <1>1, AnswerFacts
<1>3. walk.had \in SUBSET Entries /\ walk.query \in Query /\ MaxInt \in Nat BY <1>1, WalkTypes
<1>4. size \in Nat /\ size <= MaxInt BY <1>3, SetsOfEntries
<1>5. CASE calm
  <2>1. /\ swapped = FALSE /\ Matches(walk.query) = walk.had
        /\ walk.found = walk.had /\ walk.total = size
        /\ Passed <= size /\ walk.got = SubSeq(list, 1, Passed)
    BY <1>2, <1>5 DEF EachInv
  <2>2. S = walk.had BY <1>1, <1>2, <2>1, WalkTypes DEF Listed
  <2>3. total = size BY <1>2, <2>1, <2>2
  <2>4. Passed \in Nat /\ ~(Passed > MaxInt) BY <1>1, <1>4, <2>1, WalkTypes
  <2>5. PICK start \in Nat : \E stop \in start..Cardinality(S) :
             \E page \in Seq(S), pages \in 0..MaxInt :
                PageTaken(S, total, start, stop, page, pages)
    BY <1>2, <2>4
  <2>6. PICK stop \in start..Cardinality(S), page \in Seq(S), pages \in 0..MaxInt :
                PageTaken(S, total, start, stop, page, pages)
    BY <2>5
  <2>7. /\ walk'.query = walk.query /\ walk'.limit = walk.limit /\ walk'.had = walk.had
        /\ walk'.got = walk.got \o Kept(page, walk.query)
        /\ walk'.pc = IF walk.page < pages THEN "ask" ELSE "done"
        /\ walk.page < pages => walk'.page = walk.page + 1
    <3>1. UNCHANGED <<present, swapped, changes>> BY <1>2
    <3>2. /\ S \in SUBSET Entries /\ total \in 0..MaxInt /\ start \in Nat
          /\ stop \in start..Cardinality(S) /\ page \in Seq(S) /\ pages \in 0..MaxInt
          /\ PageTaken(S, total, start, stop, page, pages)
      BY <1>2, <2>5, <2>6
    <3> QED BY <3>1, <3>2, PageKeeps
  <2>8. Matches(walk.query)' = Matches(walk.query) /\ swapped' = swapped
    BY <1>2, <2>7 DEF Matches
  <2>9. /\ page = SubSeq(list, Passed + 1, stop) /\ pages = TotalPages(size, walk.limit)
        /\ start = Passed /\ stop = Least(Passed + walk.limit, size)
    <3>1. /\ page = SubSeq(list, start + 1, stop) /\ pages = TotalPages(size, walk.limit)
          /\ start = Least(Passed, size) /\ stop = Least(start + walk.limit, size)
      <4>1. Passed <= MaxInt BY <1>3, <2>4
      <4> QED BY <2>1, <2>2, <2>3, <2>6, <4>1 DEF PageTaken
    <3>2. start = Passed BY <1>4, <2>1, <2>4, <3>1 DEF Least
    <3> QED BY <3>1, <3>2
  <2>10. stop \in Passed..size BY <2>2, <2>6, <2>9
  <2>11. Kept(page, walk.query) = page
    <3>1. PICK q \in Query : q = walk.query BY <1>3
    <3>2. page = PageOf(S, q, FALSE, Passed, stop) BY <2>2, <2>9, <3>1 DEF PageOf
    <3>3. S \subseteq present BY <1>1, <2>1, <2>2, WalkTypes
    <3>4. stop \in Passed..Cardinality(S) BY <2>2, <2>10
    <3>5. PICK lo \in Nat, swap \in BOOLEAN : lo = Passed /\ swap = FALSE BY <2>4
    <3>6. /\ S \in SUBSET Entries /\ q \in Query /\ lo \in Nat /\ stop \in lo..Cardinality(S)
          /\ swap \in BOOLEAN /\ page = PageOf(S, q, swap, lo, stop)
      BY <1>2, <3>1, <3>2, <3>4, <3>5
    <3>7. Left(page, q, swap, present) = page
      <4>1. present \in SUBSET Entries BY <1>1, WalkTypes
      <4> QED BY <3>3, <3>6, <4>1, LeftWhole
    <3> QED BY <2>1, <3>1, <3>5, <3>7, KeptIsLeft
  <2>12. list \in Seq(walk.had) /\ Len(list) = size BY <1>3, EnumFacts
  <2>13. walk'.got = SubSeq(list, 1, stop)
    <3>1. 1 \in 1..(Len(list) + 1) /\ Passed \in (1 - 1)..Len(list) /\ stop \in Passed..Len(list)
      <4>1. PICK n \in Nat, len \in Nat : n = Passed /\ len = size BY <1>4, <2>4
      <4>2. Len(list) = len BY <2>12, <4>1
      <4>3. n <= len /\ stop \in n..len BY <2>1, <2>10, <4>1
      <4>4. 1 \in 1..(len + 1) /\ n \in (1 - 1)..len /\ stop \in n..len BY <4>1, <4>3
      <4> QED BY <4>1, <4>2, <4>4
    <3>2. SubSeq(list, 1, Passed) \o SubSeq(list, Passed + 1, stop) = SubSeq(list, 1, stop)
      BY <2>12, <3>1, ConcatAdjacentSubSeq
    <3> QED BY <2>1, <2>7, <2>9, <2>11, <3>2
  <2>14. /\ Passed + walk.limit = walk.page * walk.limit /\ walk.page * walk.limit \in Nat
         /\ walk.page < pages => walk.page * walk.limit < size
         /\ walk.page >= pages => walk.page * walk.limit >= size
    BY <1>1, <1>4, <2>9, WalkTypes, MorePages DEF Passed
  <2>15. CASE walk.page < pages
    <3>1. walk'.pc = "ask" /\ walk'.page = walk.page + 1 BY <2>7, <2>15
    <3>2. Passed' = walk.page * walk.limit BY <1>1, <2>7, <3>1, WalkTypes DEF Passed
    <3>3. stop = Passed' /\ Passed' <= size BY <1>4, <2>9, <2>14, <2>15, <3>2 DEF Least
    <3> QED BY <2>1, <2>7, <2>8, <2>13, <3>1, <3>3 DEF EachInv
  <2>16. CASE ~(walk.page < pages)
    <3>1. walk'.pc = "done" BY <2>7, <2>16
    <3>2. walk.page >= pages BY <1>1, <2>6, <2>16, WalkTypes
    <3>3. stop = size BY <1>4, <2>9, <2>14, <3>2 DEF Least
    <3>4. walk'.got = list BY <2>12, <2>13, <3>3, SubSeqFull
    <3> QED BY <2>1, <2>7, <2>8, <3>1, <3>4 DEF EachInv
  <2> QED BY <2>15, <2>16
<1>6. CASE ~calm
  <2>1. /\ walk'.whole = walk.whole /\ walk'.grown = walk.grown
        /\ walk'.shrunk = walk.shrunk /\ walk'.cut = walk.cut
    <3>1. CASE walk' = [walk EXCEPT !.pc = "panic", !.found = {}] BY <1>2, <3>1, PanicKeeps
    <3>2. ASSUME NEW start \in Nat, NEW stop \in start..Cardinality(S), NEW page \in Seq(S),
                 NEW pages \in 0..MaxInt, PageTaken(S, total, start, stop, page, pages)
          PROVE  /\ walk'.whole = walk.whole /\ walk'.grown = walk.grown
                 /\ walk'.shrunk = walk.shrunk /\ walk'.cut = walk.cut
      BY <1>2, <3>2, PageKeeps
    <3> QED BY <1>2, <3>1, <3>2
  <2> QED BY <1>6, <2>1 DEF EachInv
<1> QED BY <1>5, <1>6

LEMMA EachAlways == Spec => []EachInv
<1>1. Init => EachInv BY EachInit
<1>2. WalkInv /\ EachInv /\ [Next]_vars => EachInv'
  <2> SUFFICES ASSUME WalkInv, EachInv, [Next]_vars PROVE EachInv' OBVIOUS
  <2>1. CASE Read BY <2>1, EachRead
  <2>2. CASE Answer BY <2>2, EachAnswer
  <2>3. ASSUME NEW e \in Entries, Come(e) PROVE EachInv'
    BY <2>3, ComeFacts DEF WalkInv, EachInv
  <2>4. ASSUME NEW e \in Entries, Go(e) PROVE EachInv' BY <2>4, GoFacts DEF WalkInv, EachInv
  <2>5. CASE UNCHANGED vars BY <2>5 DEF vars, EachInv, Matches, Passed
  <2> QED BY <2>1, <2>2, <2>3, <2>4, <2>5 DEF Next
<1> QED BY <1>1, <1>2, WalkRange, PTL DEF Spec

\* Whoever asks List, Tree, Search or Query for page after page, from the first to the last
\* they announce, while nothing comes or goes and no search stops early, receives every entry
\* that matches, once, and in the order asked for: for any entries, page size and sorting.
THEOREM EachOnceReceived == Spec => []EachOnce
<1>1. WalkInv /\ EachInv => EachOnce
  <2> SUFFICES ASSUME WalkInv, EachInv, Done, ~walk.grown, ~walk.shrunk, ~walk.cut
               PROVE  /\ Received = walk.had /\ Len(walk.got) = Cardinality(walk.had)
                      /\ \A i, j \in DOMAIN walk.got :
                            i < j => ~Ahead(walk.got[j], walk.got[i], walk.query)
    BY DEF EachOnce
  <2>1. PICK S \in SUBSET Entries, q \in Query : S = walk.had /\ q = walk.query
    BY WalkTypes DEF WalkInv
  <2>2. walk.got = Enum(S, q, FALSE) BY <2>1 DEF EachInv, Done
  <2>3. Cardinality(S) \in Nat BY <2>1, SetsOfEntries
  <2>4. S \in SUBSET Entries /\ q \in Query /\ FALSE \in BOOLEAN BY <2>1
  <2>5. /\ walk.got \in Seq(S) /\ Len(walk.got) = Cardinality(S)
        /\ \A i \in 1..Cardinality(S) : walk.got[i] \in S /\ Rank(walk.got[i], S, q, FALSE) = i
        /\ \A e \in S : walk.got[Rank(e, S, q, FALSE)] = e
    <3>1. /\ Enum(S, q, FALSE) \in Seq(S) /\ Len(Enum(S, q, FALSE)) = Cardinality(S)
          /\ \A i \in 1..Cardinality(S) : /\ Enum(S, q, FALSE)[i] \in S
                                          /\ Rank(Enum(S, q, FALSE)[i], S, q, FALSE) = i
          /\ \A e \in S : Enum(S, q, FALSE)[Rank(e, S, q, FALSE)] = e
      BY <2>4, EnumFacts
    <3> QED BY <2>2, <3>1
  <2>6. DOMAIN walk.got = 1..Cardinality(S) BY <2>5
  <2>7. Received = S
    <3>1. \A e \in S : Rank(e, S, q, FALSE) \in 1..Cardinality(S) BY <2>4, RankIsPlace
    <3> QED BY <2>5, <2>6, <3>1 DEF Received
  <2>8. ASSUME NEW i \in 1..Cardinality(S), NEW j \in 1..Cardinality(S), i < j
        PROVE  ~Ahead(walk.got[j], walk.got[i], q)
    <3>1. PICK a \in S, b \in S : a = walk.got[i] /\ b = walk.got[j] BY <2>5
    <3>2. Rank(a, S, q, FALSE) = i /\ Rank(b, S, q, FALSE) = j BY <2>5, <3>1
    <3>3. a # b /\ ~Ord(b, a, q, FALSE)
      <4>1. i # j BY <2>3, <2>8
      <4>2. Ord(b, a, q, FALSE) => Rank(b, S, q, FALSE) < Rank(a, S, q, FALSE)
        BY <2>4, <3>1, RankIsPlace
      <4>3. ~(j < i) BY <2>3, <2>8
      <4>4. a # b BY <3>2, <4>1, Zenon
      <4> QED BY <3>2, <4>2, <4>3, <4>4
    <3>4. a \in Entries /\ b \in Entries BY <2>1, <3>1
    <3>5. Ord(a, b, q, FALSE) BY <2>4, <3>3, <3>4, OrdIsOrder
    <3> QED BY <2>4, <3>1, <3>4, <3>5, OrdIsOrder
  <2> QED BY <2>1, <2>5, <2>6, <2>7, <2>8
<1> QED BY <1>1, WalkRange, EachAlways, PTL

-----------------------------------------------------------------------------
(* What only grows.                                                        *)

\* Turning equals round does not move an entry that has none.
LEMMA SteadyRank ==
    ASSUME NEW S \in SUBSET Entries, NEW q \in Query, NEW swap \in BOOLEAN,
           NEW e \in Entries, Steady(e, q)
    PROVE  Rank(e, S, q, swap) = Rank(e, S, q, FALSE)
<1>1. ~(e.name < e.name) BY EntryType
<1>2. ASSUME NEW d \in S PROVE Ord(d, e, q, swap) <=> Ord(d, e, q, FALSE)
  <2>1. CASE q.view # "search" BY <2>1 DEF Ord
  <2>2. CASE d = e BY <1>1, <2>2 DEF Ord
  <2>3. CASE q.view = "search" /\ d # e
    <3>1. ~Tied(d, e, q) BY <2>3 DEF Steady
    <3> QED BY <3>1 DEF Ord
  <2> QED BY <2>1, <2>2, <2>3
<1>3. Before(e, S, q, swap) = Before(e, S, q, FALSE) BY <1>2 DEF Before
<1> QED BY <1>3 DEF Rank

\* Others may only push an entry towards the end.
LEMMA RankGrows ==
    ASSUME NEW T \in SUBSET Entries, NEW S \in SUBSET T, NEW q, NEW swap, NEW e
    PROVE  /\ Rank(e, S, q, swap) \in Nat \ {0} /\ Rank(e, T, q, swap) \in Nat \ {0}
           /\ Rank(e, S, q, swap) <= Rank(e, T, q, swap)
<1>0. /\ Before(e, S, q, swap) \subseteq Before(e, T, q, swap)
      /\ Before(e, S, q, swap) \in SUBSET Entries /\ Before(e, T, q, swap) \in SUBSET Entries
  BY DEF Before
<1>1. PICK A \in SUBSET Entries, B \in SUBSET Entries :
        A = Before(e, S, q, swap) /\ B = Before(e, T, q, swap) /\ A \subseteq B
  BY <1>0
<1>2. /\ IsFiniteSet(A) /\ Cardinality(A) \in Nat
      /\ IsFiniteSet(B) /\ Cardinality(B) \in Nat
  BY SetsOfEntries
<1>3. Cardinality(A) <= Cardinality(B) BY <1>1, <1>2, FS_Subset
<1> QED BY <1>1, <1>2, <1>3 DEF Rank

\* What holds of an entry that is still to come.
Awaited(e) ==
    \/ e \in Received
    \/ walk.pc = "ask" /\ Rank(e, Matches(walk.query), walk.query, FALSE) > Passed
    \/ walk.pc = "answer" /\ Rank(e, walk.found, walk.query, FALSE) > Passed
    \/ walk.pc = "panic"

LEMMA MissInit == Init => MissInv
<1> SUFFICES ASSUME Init, walk.whole PROVE MissInv BY DEF MissInv
<1>1. /\ WalkInv /\ walk.pc = "ask" /\ walk.got = <<>> /\ walk.page = 1
      /\ walk.had = Matches(walk.query)
  BY WalkInit
<1>2. Passed = 0 BY <1>1, WalkTypes DEF WalkInv, Passed
<1>3. PICK M \in SUBSET Entries : M = Matches(walk.query) BY <1>1, WalkTypes DEF WalkInv
<1>4. \A e : Rank(e, M, walk.query, FALSE) \in Nat \ {0} BY RankGrows
<1>5. ASSUME NEW e PROVE Rank(e, Matches(walk.query), walk.query, FALSE) > Passed
  <2>1. PICK r \in Nat \ {0} : r = Rank(e, M, walk.query, FALSE) BY <1>4
  <2>2. r > 0 OBVIOUS
  <2> QED BY <1>2, <1>3, <2>1, <2>2
<1> QED BY <1>1, <1>5 DEF MissInv

LEMMA MissRead ==
    ASSUME WalkInv, MissInv, Read PROVE MissInv'
<1> SUFFICES ASSUME (walk.whole /\ ~walk.shrunk /\ ~walk.cut /\ ~walk.slipped)'
             PROVE  /\ (walk.had \subseteq Matches(walk.query))'
                    /\ (walk.had \subseteq walk.found /\ walk.found \subseteq Matches(walk.query))'
                    /\ (walk.total = Cardinality(walk.found))'
                    /\ (walk.found = Matches(walk.query))'
                    /\ \A e \in walk'.had : Steady(e, walk'.query) => Awaited(e)'
  BY DEF MissInv, Awaited
<1>1. TypeOK BY DEF WalkInv
<1>2. /\ UNCHANGED <<present, swapped>> /\ walk.pc = "ask"
      /\ walk'.pc = "answer" /\ walk'.query = walk.query /\ walk'.limit = walk.limit
      /\ walk'.page = walk.page /\ walk'.got = walk.got /\ walk'.whole = walk.whole
      /\ walk'.had = walk.had /\ walk'.shrunk = walk.shrunk /\ walk'.slipped = walk.slipped
      /\ ~walk.cut /\ walk'.found = Matches(walk.query)
      /\ walk'.total = Cardinality(Matches(walk.query))
  BY <1>1, ReadKeeps
<1>3. Matches(walk.query)' = Matches(walk.query) BY <1>2 DEF Matches
<1>4. Passed' = Passed /\ Received' = Received BY <1>2 DEF Passed, Received
<1>5. /\ walk.had \subseteq Matches(walk.query)
      /\ \A e \in walk.had : Steady(e, walk.query) =>
            \/ e \in Received
            \/ Rank(e, Matches(walk.query), walk.query, FALSE) > Passed
  BY <1>2 DEF MissInv
<1>6. \A e \in walk'.had : Steady(e, walk'.query) => Awaited(e)'
  BY <1>2, <1>4, <1>5 DEF Awaited
<1> QED BY <1>2, <1>3, <1>5, <1>6

LEMMA MissCome ==
    ASSUME WalkInv, MissInv, NEW x \in Entries, Come(x) PROVE MissInv'
<1> SUFFICES ASSUME (walk.whole /\ ~walk.shrunk /\ ~walk.cut /\ ~walk.slipped)'
             PROVE  /\ (walk.had \subseteq Matches(walk.query))'
                    /\ walk'.pc = "answer" =>
                          /\ (walk.had \subseteq walk.found /\ walk.found \subseteq Matches(walk.query))'
                          /\ (walk.total = Cardinality(walk.found))'
                          /\ walk'.query.view # "audit"
                    /\ \A e \in walk'.had : Steady(e, walk'.query) => Awaited(e)'
  BY DEF MissInv, Awaited
<1>1. TypeOK BY DEF WalkInv
<1>2. /\ TypeOK' /\ SameRequest /\ present' = present \cup {x} /\ walk'.shrunk = walk.shrunk
      /\ walk'.slipped = (walk.slipped \/ (walk.pc = "answer" /\ walk.query.view = "audit"))
  BY <1>1, ComeFacts
<1>3. PICK M \in SUBSET Entries : M = Matches(walk.query) BY <1>1, WalkTypes
<1>4. PICK T \in SUBSET Entries : T = Matches(walk.query)' BY <1>2, WalkTypes DEF TypeOK, Matches
<1>5. M \subseteq T BY <1>2, <1>3, <1>4 DEF Matches, SameRequest
<1>6. Passed' = Passed /\ Received' = Received BY <1>2 DEF Passed, Received, SameRequest
<1>7. walk.whole /\ ~walk.shrunk /\ ~walk.cut /\ ~walk.slipped
      /\ ~(walk.pc = "answer" /\ walk.query.view = "audit")
  BY <1>2 DEF SameRequest
<1>8. /\ walk.had \subseteq M
      /\ walk.pc = "answer" => /\ walk.had \subseteq walk.found /\ walk.found \subseteq M
                               /\ walk.total = Cardinality(walk.found)
      /\ \A e \in walk.had : Steady(e, walk.query) => Awaited(e)
  BY <1>3, <1>7 DEF MissInv, Awaited
<1>9. ASSUME NEW e \in walk.had, Steady(e, walk.query) PROVE Awaited(e)'
  <2>1. /\ Rank(e, M, walk.query, FALSE) \in Nat /\ Rank(e, T, walk.query, FALSE) \in Nat
        /\ Rank(e, M, walk.query, FALSE) <= Rank(e, T, walk.query, FALSE)
    BY <1>5, RankGrows
  <2>2. Passed \in Nat BY <1>1, WalkTypes
  <2>3. Rank(e, M, walk.query, FALSE) > Passed => Rank(e, T, walk.query, FALSE) > Passed
    <3>1. PICK a \in Nat, b \in Nat, c \in Nat :
            /\ a = Rank(e, M, walk.query, FALSE) /\ b = Rank(e, T, walk.query, FALSE)
            /\ c = Passed
      BY <2>1, <2>2
    <3>2. a <= b BY <2>1, <3>1
    <3>3. a > c => b > c BY <3>2
    <3> QED BY <3>1, <3>3
  <2>4. Awaited(e) BY <1>8, <1>9
  <2>5. \/ e \in Received
        \/ walk.pc = "ask" /\ Rank(e, T, walk.query, FALSE) > Passed
        \/ walk.pc = "answer" /\ Rank(e, walk.found, walk.query, FALSE) > Passed
        \/ walk.pc = "panic"
    BY <1>3, <2>3, <2>4 DEF Awaited
  <2> QED BY <1>2, <1>4, <1>6, <2>5 DEF Awaited, SameRequest
<1> QED BY <1>2, <1>4, <1>5, <1>7, <1>8, <1>9 DEF SameRequest

LEMMA ItemsOfBoth ==
    ASSUME NEW a \in Seq(Entries), NEW b \in Seq(Entries)
    PROVE  Items(a \o b) = Items(a) \cup Items(b)
<1>1. Range(a \o b) = Range(a) \cup Range(b) BY RangeConcatenation
<1> QED BY <1>1 DEF Range, Items

\* An entry still to come is on this page, or on one after it.
LEMMA MissAnswer ==
    ASSUME WalkInv, MissInv, Answer PROVE MissInv'
<1>1. TypeOK /\ walk.total <= MaxInt BY DEF WalkInv
<1>2. PICK S \in SUBSET Entries, total \in 0..MaxInt :
        /\ walk.pc = "answer" /\ UNCHANGED <<present, swapped, changes>>
        /\ S = Listed(walk.query)
        /\ total = (IF walk.query.view = "audit" THEN walk.total ELSE Cardinality(S))
        /\ \/ Passed > MaxInt /\ walk' = [walk EXCEPT !.pc = "panic", !.found = {}]
           \/ \E start \in Nat : \E stop \in start..Cardinality(S) :
              \E page \in Seq(S), pages \in 0..MaxInt :
                 PageTaken(S, total, start, stop, page, pages)
  BY <1>1, AnswerFacts
<1> DEFINE Ongoing == walk.whole /\ ~walk.shrunk /\ ~walk.cut /\ ~walk.slipped
<1>3. Ongoing => /\ walk.had \subseteq Matches(walk.query)
                 /\ walk.had \subseteq walk.found /\ walk.found \subseteq Matches(walk.query)
                 /\ walk.total = Cardinality(walk.found)
                 /\ walk.query.view = "audit" => walk.found = Matches(walk.query)
                 /\ \A e \in walk.had : Steady(e, walk.query) =>
                       \/ e \in Received
                       \/ Rank(e, walk.found, walk.query, FALSE) > Passed
  BY <1>2 DEF MissInv
<1>4. CASE walk' = [walk EXCEPT !.pc = "panic", !.found = {}]
  <2>1. /\ walk'.pc = "panic" /\ walk'.query = walk.query /\ walk'.had = walk.had
        /\ walk'.whole = walk.whole /\ walk'.shrunk = walk.shrunk
        /\ walk'.slipped = walk.slipped /\ walk'.cut = walk.cut
    BY <1>2, <1>4, PanicKeeps
  <2>2. Matches(walk.query)' = Matches(walk.query) BY <1>2, <2>1 DEF Matches
  <2> QED BY <1>3, <2>1, <2>2 DEF MissInv
<1>5. ASSUME NEW start \in Nat, NEW stop \in start..Cardinality(S), NEW page \in Seq(S),
             NEW pages \in 0..MaxInt, PageTaken(S, total, start, stop, page, pages)
      PROVE  MissInv'
  <2>1. /\ walk'.query = walk.query /\ walk'.limit = walk.limit
        /\ walk'.had = walk.had /\ walk'.whole = walk.whole
        /\ walk'.shrunk = walk.shrunk /\ walk'.slipped = walk.slipped /\ walk'.cut = walk.cut
        /\ walk'.got = walk.got \o Kept(page, walk.query)
        /\ walk'.pc = IF walk.page < pages THEN "ask" ELSE "done"
        /\ walk.page < pages => walk'.page = walk.page + 1
    <3>1. UNCHANGED <<present, swapped, changes>> BY <1>2
    <3>2. S \in SUBSET Entries /\ total \in 0..MaxInt BY <1>2
    <3> QED BY <1>5, <3>1, <3>2, PageKeeps
  <2>2. Matches(walk.query)' = Matches(walk.query) BY <1>2, <2>1 DEF Matches
  <2> SUFFICES ASSUME Ongoing, NEW e \in walk.had, Steady(e, walk.query)
               PROVE  \/ e \in Received'
                      \/ /\ walk'.pc = "ask"
                         /\ Rank(e, Matches(walk.query), walk.query, FALSE) > Passed'
    BY <1>3, <2>1, <2>2 DEF MissInv
  <2>3. PICK q \in Query, swap \in BOOLEAN, M \in SUBSET Entries :
          q = walk.query /\ swap = swapped /\ M = Matches(q)
    BY <1>1, WalkTypes
  <2>4. S = walk.found /\ walk.found \subseteq M /\ M \subseteq present
    BY <1>1, <1>2, <1>3, <2>3, WalkTypes DEF Listed
  <2>5. /\ e \in S /\ e \in present /\ e \in Entries /\ total = Cardinality(S)
        /\ \/ e \in Received
           \/ Rank(e, S, q, FALSE) > Passed
    BY <1>2, <1>3, <2>3, <2>4
  <2>6. Kept(page, q) = Left(page, q, swap, present) BY <2>3, KeptIsLeft
  <2>7. page = PageOf(S, q, swap, start, stop) BY <1>5, <2>3 DEF PageTaken, PageOf
  <2>8. /\ Kept(page, q) \in Seq(Entries)
        /\ e \in Section(S, q, swap, start, stop) => e \in Items(Kept(page, q))
    <3>1. S \in SUBSET Entries /\ q \in Query /\ swap \in BOOLEAN BY <1>2, <2>3
    <3>2. /\ Left(page, q, swap, present) \in Seq(Entries)
          /\ \A d \in Section(S, q, swap, start, stop) :
                d \in present => d \in Items(Left(page, q, swap, present))
      BY <2>7, <3>1, LeftFacts
    <3> QED BY <2>5, <2>6, <3>2
  <2>9. /\ walk.got \in Seq(Entries) /\ walk'.got = walk.got \o Kept(page, q)
    BY <1>1, <2>1, <2>3, WalkTypes
  <2>10. /\ Received = Items(walk.got)
         /\ Received' = Items(walk.got) \cup Items(Kept(page, q))
    <3>1. Items(walk.got \o Kept(page, q)) = Items(walk.got) \cup Items(Kept(page, q))
      BY <2>8, <2>9, ItemsOfBoth
    <3>2. Received = Items(walk.got) /\ Received' = Items(walk'.got) BY DEF Received, Items
    <3> QED BY <2>9, <3>1, <3>2
  <2>11. e \in Section(S, q, swap, start, stop) => e \in Received' BY <2>8, <2>10
  <2>12. CASE e \in Received BY <2>10, <2>12
  <2>13. CASE Rank(e, S, q, FALSE) > Passed
    <3>1. Rank(e, S, q, swap) = Rank(e, S, q, FALSE) BY <2>3, <2>5, SteadyRank
    <3>2. PICK size \in Nat, rank \in Nat \ {0} :
            /\ size = Cardinality(S) /\ rank = Rank(e, S, q, swap)
            /\ rank <= size /\ size <= MaxInt
      BY <2>3, <2>5, SetsOfEntries, RankIsPlace
    <3>3. PICK past \in Nat, limit \in Nat \ {0}, at \in Nat \ {0} :
            past = Passed /\ limit = walk.limit /\ at = walk.page
      BY <1>1, WalkTypes
    <3>4. rank > past BY <2>13, <3>1, <3>2, <3>3
    <3>5. MaxInt \in Nat BY ListingAssumption
    <3>6. past <= MaxInt BY <3>2, <3>4, <3>5
    <3>7. start = Least(past, size) /\ stop = Least(start + limit, size)
          /\ pages = TotalPages(size, limit)
      BY <1>5, <2>5, <3>2, <3>3, <3>6 DEF PageTaken
    <3>8. start = past /\ stop = Least(past + limit, size) BY <3>2, <3>4, <3>7 DEF Least
    <3>9. /\ past + limit = at * limit /\ at * limit \in Nat
          /\ at >= pages => at * limit >= size
      BY <3>2, <3>3, <3>7, MorePages DEF Passed
    <3>10. CASE rank <= at * limit
      <4>0. PICK done \in Nat : done = at * limit /\ past + limit = done BY <3>9
      <4>1. start < rank /\ rank <= stop
        <5>1. start = past /\ stop = Least(done, size) /\ rank <= done BY <3>8, <3>10, <4>0
        <5> QED BY <3>2, <3>4, <4>0, <5>1 DEF Least
      <4>2. e \in Section(S, q, swap, start, stop) BY <2>5, <3>2, <4>1 DEF Section
      <4> QED BY <2>11, <4>2
    <3>11. CASE ~(rank <= at * limit)
      <4>0. PICK done \in Nat : done = at * limit BY <3>9
      <4>1. at < pages
        <5>1. pages \in Nat BY <3>2, <3>3, <3>7, PagesHoldAll
        <5>2. ~(rank <= done) /\ (at >= pages => done >= size) BY <3>9, <3>11, <4>0
        <5> QED BY <3>2, <3>3, <4>0, <5>1, <5>2
      <4>2. walk'.pc = "ask" /\ walk'.page = at + 1 BY <2>1, <3>3, <4>1
      <4>3. Passed' = at * limit BY <2>1, <3>3, <4>2 DEF Passed
      <4>4. /\ Rank(e, M, q, FALSE) \in Nat \ {0}
            /\ Rank(e, S, q, FALSE) <= Rank(e, M, q, FALSE)
        <5>1. S \in SUBSET M BY <2>4
        <5> QED BY <5>1, RankGrows
      <4>5. PICK later \in Nat \ {0} : later = Rank(e, M, q, FALSE) BY <4>4
      <4>6. rank <= later BY <3>1, <3>2, <4>4, <4>5
      <4>8. ~(rank <= done) BY <3>11, <4>0
      <4>9. later > done BY <4>6, <4>8
      <4> QED BY <2>2, <2>3, <4>0, <4>2, <4>3, <4>5, <4>9
    <3> QED BY <3>10, <3>11
  <2> QED BY <2>5, <2>12, <2>13
<1> QED BY <1>2, <1>4, <1>5

LEMMA MissAlways == Spec => []MissInv
<1>1. Init => MissInv BY MissInit
<1>2. WalkInv /\ MissInv /\ [Next]_vars => MissInv'
  <2> SUFFICES ASSUME WalkInv, MissInv, [Next]_vars PROVE MissInv' OBVIOUS
  <2>1. CASE Read BY <2>1, MissRead
  <2>2. CASE Answer BY <2>2, MissAnswer
  <2>3. ASSUME NEW e \in Entries, Come(e) PROVE MissInv' BY <2>3, MissCome
  <2>4. ASSUME NEW e \in Entries, Go(e) PROVE MissInv' BY <2>4, GoFacts DEF WalkInv, MissInv
  <2>5. CASE UNCHANGED vars BY <2>5 DEF vars, MissInv, Matches, Passed, Received
  <2> QED BY <2>1, <2>2, <2>3, <2>4, <2>5 DEF Next
<1> QED BY <1>1, <1>2, WalkRange, PTL DEF Spec

\* Entries that are only added between the requests may be received twice, but push none out:
\* what List, Tree, Search or Query would have shown at first is received all the same, with
\* the exceptions that NoneMissed names.
THEOREM NoneIsMissed == Spec => []NoneMissed
<1>1. MissInv => NoneMissed
  <2> SUFFICES ASSUME MissInv, Done, ~walk.shrunk, ~walk.cut, ~walk.slipped, NEW e \in walk.had
               PROVE  \/ e \in Received
                      \/ walk.query.view = "search" /\ \E d \in Entries \ {e} : Tied(d, e, walk.query)
    BY DEF NoneMissed
  <2>1. Steady(e, walk.query) => e \in Received BY DEF MissInv, Done
  <2> QED BY <2>1 DEF Steady
<1> QED BY <1>1, MissAlways, PTL

=============================================================================
