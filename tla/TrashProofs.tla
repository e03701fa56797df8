------------------------------ MODULE TrashProofs ------------------------------
(***************************************************************************)
(* Proofs about Trash and FileOps, for any directories, names, records,    *)
(* contents, requests and faults: which data of the trash has its row,     *)
(* which row its data, and which files are not whole.                      *)
(***************************************************************************)
EXTENDS Trash, FiniteSetTheorems, TLAPS

\* Where a request without a record may be, and one with a single record.
OfFiles == {"idle", "resolve", "relocate", "open", "body", "mkdir"}
OfOne == {"transfer", "unlink", "insert", "check", "mark", "purge", "erase"}
Moving(k) == k.pc \in {"transfer", "unlink"}

\* A move of record r into the trash, and out of it.
Toward(k, r) == k.src = origin[r] /\ k.dst = Slot(r)
Back(k, r) == k.src = Slot(r) /\ k.dst = origin[r]

\* What a request knows of names, data and records, by where it is.
Shape(k) ==
    /\ k.todo \subseteq k.held
    /\ k.pc # "empty" => k.todo = {}
    /\ k.pc \in OfFiles => k.held = {}
    /\ k.pc = "resolve" =>
        /\ k.then \in {"relocate", "open"} /\ k.dst \in Paths /\ k.src \in Paths \cup {NoPlace}
        /\ k.then = "relocate" => k.src \in Paths /\ k.src[1] # k.dst[1]
    /\ k.pc = "relocate" => k.src \in Paths /\ k.dst \in Paths /\ k.src # k.dst
    /\ k.pc = "open" => k.dst \in Paths /\ k.src \in Paths \cup {NoPlace}
    /\ k.pc \in {"resolve", "open"} /\ k.src = NoPlace => k.data \in Versions
    /\ k.pc = "mkdir" => k.dst \in Paths /\ k.data \in Versions
    /\ k.pc = "body" => k.data \in Contents
    /\ k.pc \in OfOne => \E r \in 1..drawn : k.held = {r}
    /\ Moving(k) => \A r \in k.held :
        \/ Toward(k, r) /\ k.then \in {"insert", "idle"}
        \/ Back(k, r) /\ k.then \in {"mark", "idle"}

Shapes == \A c \in Calls : Shape(call[c])

\* An id that is not drawn yet has neither row nor data, and nobody has it in hand.
Drawn ==
    /\ \A r \in 1..drawn : origin[r] \in Paths
    /\ \A r \in Records : r > drawn => row[r] = "none" /\ ~Occupied(Slot(r))
    /\ \A c \in Calls : call[c].held \subseteq 1..drawn

\* An open file that has a name is there.
Opened ==
    \A c \in Calls : At(c, "body") =>
        \A p \in {call[c].src, call[c].dst} \cap Places : Occupied(p)

HeldOnce == \A r \in Records \ doubtful : \A c, d \in Holders(r) : c = d

Alone == \A c, d \in Calls : call[c].alone /\ c # d => At(d, "idle")

\* What is true of a record that request k alone has in hand.
Handled(r, k) ==
    LET there == Occupied(Slot(r))
        listed == row[r] = "trashed"
    IN  /\ k.pc = "transfer" /\ k.then = "insert" => ~there
        /\ k.pc = "unlink" /\ Toward(k, r) => there
        /\ k.pc = "unlink" /\ Back(k, r) /\ k.alone => Occupied(origin[r])
        /\ Moving(k) /\ k.then = "insert" => ~listed
        /\ Moving(k) /\ Back(k, r) /\ k.then = "idle" => ~listed
        /\ k.pc = "insert" => there /\ ~listed
        /\ k.pc \in {"check", "purge"} \/ (Moving(k) /\ k.then = "mark") =>
              listed /\ (there \/ r \in purged)
        /\ k.pc = "mark" => listed /\ ~there /\ (k.alone => Occupied(origin[r]))
        /\ Moving(k) /\ Toward(k, r) /\ k.then = "idle" =>
              listed /\ (k.pc = "transfer" /\ k.alone => Occupied(origin[r]))
        /\ k.pc = "erase" => ~there /\ r \in purged
        /\ k.pc = "empty" =>
              listed /\ IF r \in k.todo THEN there \/ r \in purged ELSE ~there /\ r \in purged

Handling == \A c \in Calls : \A r \in call[c].held \ doubtful : Handled(r, call[c])

\* Data and row agree, or the data was purged.
Settled(r) ==
    /\ Occupied(Slot(r)) => row[r] = "trashed"
    /\ row[r] = "trashed" => Occupied(Slot(r)) \/ r \in purged
Resting == \A r \in Records \ doubtful : ~InHand(r) => Settled(r)

\* What is not whole, and may be written by a request, is explained.
Disturbed ==
    \A c \in Calls :
        /\ call[c].dirty => tangled
        /\ At(c, "body") /\ call[c].data = Partial => tangled \/ accident

RowsInv == Shapes /\ Drawn /\ HeldOnce /\ Alone /\ Handling /\ Resting
IInv == TypeOK /\ RowsInv /\ Opened /\ Disturbed /\ PartialExplained

-----------------------------------------------------------------------------
(* Places, contents and requests.                                          *)

LEMMA PlaceFacts ==
    /\ Paths \subseteq Places /\ NoPlace \notin Places
    /\ \A r \in Records : Slot(r) \in Places /\ Slot(r) \notin Paths
    /\ \A r, q \in Records : Slot(r) = Slot(q) => r = q
    /\ \A p \in Places \ Paths : \E r \in Records : p = Slot(r)
BY FileAssumption DEF Places, Paths, Slot

LEMMA ContentFacts ==
    /\ NoFile \notin Contents /\ Partial \in Contents /\ Versions \subseteq Contents
    /\ Partial \notin Versions /\ Partial # NoFile
BY FileAssumption DEF Contents

LEMMA IdleFacts ==
    /\ Idle \in Call /\ Idle.pc = "idle" /\ Idle.held = {} /\ Idle.todo = {}
    /\ Idle.dirty = FALSE /\ Idle.alone = FALSE
BY DEF Idle, Call, Pc, Policies

LEMMA HeldIs ==
    ASSUME NEW c, NEW r, call[c].held = {r} PROVE Held(c) = r
BY DEF Held

\* A file is there when it has some content.
LEMMA OccupiedIs ==
    ASSUME TypeOK, NEW p \in Places PROVE Occupied(p) <=> at[p] \in Contents
BY ContentFacts DEF TypeOK, Occupied

-----------------------------------------------------------------------------
(* What the step of one request does to the others.                        *)

\* A request that is not at work: only its open files may move.
Kept(e) ==
    /\ call'[e].pc = call[e].pc /\ call'[e].then = call[e].then
    /\ call'[e].held = call[e].held /\ call'[e].todo = call[e].todo
    /\ call'[e].data = call[e].data /\ ~call'[e].alone
    /\ call[e].pc # "body" => call'[e].src = call[e].src /\ call'[e].dst = call[e].dst
    /\ call'[e].dirty => call[e].dirty \/ tangled'
Others(c) == \A e \in Calls \ {c} : Kept(e)
Solo(c) == call'[c].alone => \A e \in Calls \ {c} : At(e, "idle")
OthersOpen(c) == \A e \in Calls \ {c} : call'[e].src = call[e].src /\ call'[e].dst = call[e].dst
CallsTyped == call' \in [Calls -> Call] /\ \A e \in Calls : At(e, "idle")' => call'[e] = Idle

\* A request may go on as k.
Next1(c, k) == k \in Call /\ (k.pc = "idle" => k = Idle) /\ (k.alone => call[c].alone)

LEMMA IdleGoes ==
    ASSUME NEW c PROVE Next1(c, Idle)
BY IdleFacts DEF Next1

LEMMA NotAlone ==
    ASSUME TypeOK, Alone, NEW c \in Calls, ~At(c, "idle")
    PROVE  \A e \in Calls \ {c} : ~call[e].alone
BY DEF Alone

LEMMA OneWorks ==
    ASSUME TypeOK, Alone, NEW c \in Calls, ~At(c, "idle"), NEW k, Next1(c, k),
           call' = [call EXCEPT ![c] = k]
    PROVE  CallsTyped /\ call'[c] = k /\ Others(c) /\ Solo(c) /\ OthersOpen(c)
<1>1. call'[c] = k /\ \A e \in Calls \ {c} : call'[e] = call[e] BY DEF TypeOK
<1>2. CallsTyped BY <1>1 DEF TypeOK, Next1, CallsTyped, At
<1>3. Others(c) /\ OthersOpen(c) BY <1>1, NotAlone DEF Others, Kept, OthersOpen
<1>4. Solo(c) BY <1>1 DEF Solo, Next1, Alone
<1> QED BY <1>1, <1>2, <1>3, <1>4

\* Where an open file is, once s is renamed to d.
Shift(p, s, d) == IF p = s THEN d ELSE IF p = d THEN NoPlace ELSE p

LEMMA FollowIs ==
    ASSUME TypeOK, NEW s, NEW d \in Places \cup {NoPlace}
    PROVE  /\ Follow(call, s, d) \in [Calls -> Call]
           /\ \A e \in Calls :
                LET f == Follow(call, s, d)[e]
                IN  IF call[e].pc # "body" THEN f = call[e]
                    ELSE /\ f.src = Shift(call[e].src, s, d) /\ f.dst = Shift(call[e].dst, s, d)
                         /\ f.pc = call[e].pc /\ f.then = call[e].then
                         /\ f.held = call[e].held /\ f.todo = call[e].todo
                         /\ f.data = call[e].data /\ f.alone = call[e].alone
                         /\ f.dirty = call[e].dirty
<1>1. ASSUME NEW e \in Calls
      PROVE  LET f == Follow(call, s, d)[e]
             IN  /\ f \in Call
                 /\ IF call[e].pc # "body" THEN f = call[e]
                    ELSE /\ f.src = Shift(call[e].src, s, d) /\ f.dst = Shift(call[e].dst, s, d)
                         /\ f.pc = call[e].pc /\ f.then = call[e].then
                         /\ f.held = call[e].held /\ f.todo = call[e].todo
                         /\ f.data = call[e].data /\ f.alone = call[e].alone
                         /\ f.dirty = call[e].dirty
  <2> DEFINE f == Follow(call, s, d)[e]
  <2>1. call[e] \in Call BY DEF TypeOK
  <2>2. f = IF call[e].pc # "body" THEN call[e]
            ELSE [call[e] EXCEPT !.src = Shift(call[e].src, s, d),
                                 !.dst = Shift(call[e].dst, s, d)]
    BY <2>1 DEF Follow, Shift, Call
  <2>3. Shift(call[e].src, s, d) \in Places \cup {NoPlace}
        /\ Shift(call[e].dst, s, d) \in Places \cup {NoPlace}
    BY <2>1 DEF Shift, Call
  <2> QED BY <2>1, <2>2, <2>3 DEF Call
<1>2. Follow(call, s, d) \in [Calls -> Call] BY <1>1 DEF Follow
<1> QED BY <1>1, <1>2

\* Request c goes on as k, and open files follow the rename of s to d.
Followed(c, k, s, d) == call' = [Follow(call, s, d) EXCEPT ![c] = k]

LEMMA FollowWorks ==
    ASSUME TypeOK, Alone, NEW c \in Calls, ~At(c, "idle"), NEW k, Next1(c, k),
           NEW s, NEW d \in Places \cup {NoPlace}, Followed(c, k, s, d)
    PROVE  /\ CallsTyped /\ call'[c] = k /\ Others(c) /\ Solo(c)
           /\ \A e \in Calls \ {c} : At(e, "body") =>
                 /\ call'[e].src = Shift(call[e].src, s, d)
                 /\ call'[e].dst = Shift(call[e].dst, s, d)
<1>1. call'[c] = k /\ \A e \in Calls \ {c} : call'[e] = Follow(call, s, d)[e]
  BY FollowIs DEF Followed
<1>2. \A e \in Calls \ {c} : call[e].pc # "body" => call'[e] = call[e]
  BY <1>1, FollowIs
<1>3. CallsTyped
  <2>1. call' \in [Calls -> Call] BY FollowIs DEF Next1, Followed
  <2>2. ASSUME NEW e \in Calls \ {c}, call'[e].pc = "idle" PROVE call'[e] = Idle
    <3>1. call[e].pc # "body" BY <1>1, <2>2, FollowIs
    <3> QED BY <1>2, <2>2, <3>1 DEF TypeOK, At
  <2> QED BY <1>1, <2>1, <2>2 DEF CallsTyped, Next1, At
<1>4. Others(c) BY <1>1, FollowIs, NotAlone DEF Others, Kept
<1>5. Solo(c) BY <1>1 DEF Solo, Next1, Alone
<1> QED BY <1>1, <1>3, <1>4, <1>5, FollowIs DEF At

LEMMA EnterWorks ==
    ASSUME TypeOK, NEW c \in Calls, NEW begun \in Call, begun.pc # "idle", Enter(c, begun)
    PROVE  /\ CallsTyped /\ Others(c) /\ Solo(c) /\ OthersOpen(c) /\ At(c, "idle")
           /\ call'[c].pc = begun.pc /\ call'[c].then = begun.then /\ call'[c].data = begun.data
           /\ call'[c].src = begun.src /\ call'[c].dst = begun.dst
           /\ call'[c].held = begun.held /\ call'[c].todo = begun.todo
           /\ call'[c].dirty = begun.dirty
           /\ requests' \in 0..MaxRequests
<1>1. call'[c] = [begun EXCEPT !.alone = \A d \in Calls : At(d, "idle")]
  BY DEF Enter
<1>2. \A e \in Calls \ {c} : call'[e] = [call[e] EXCEPT !.alone = FALSE]
  BY DEF Enter
<1>3. call'[c] \in Call /\ (call'[c].alone => \A d \in Calls : At(d, "idle"))
      /\ call'[c].pc = begun.pc /\ call'[c].then = begun.then /\ call'[c].data = begun.data
      /\ call'[c].src = begun.src /\ call'[c].dst = begun.dst
      /\ call'[c].held = begun.held /\ call'[c].todo = begun.todo
      /\ call'[c].dirty = begun.dirty
  <2>1. PICK b \in BOOLEAN : b = \A d \in Calls : At(d, "idle") OBVIOUS
  <2>2. call'[c] = [begun EXCEPT !.alone = b] BY <1>1, <2>1
  <2> QED BY <2>1, <2>2 DEF Call
<1>4. \A e \in Calls \ {c} : call'[e] \in Call /\ ~call'[e].alone
        /\ call'[e].pc = call[e].pc /\ call'[e].then = call[e].then
        /\ call'[e].data = call[e].data /\ call'[e].src = call[e].src
        /\ call'[e].dst = call[e].dst /\ call'[e].held = call[e].held
        /\ call'[e].todo = call[e].todo /\ call'[e].dirty = call[e].dirty
  <2> TAKE e \in Calls \ {c}
  <2>1. call[e] \in Call /\ call'[e] = [call[e] EXCEPT !.alone = FALSE] BY <1>2 DEF TypeOK
  <2> QED BY <2>1 DEF Call
<1>5. CallsTyped
  <2>1. ASSUME NEW e \in Calls \ {c}, call'[e].pc = "idle" PROVE call'[e] = Idle
    <3>1. call[e] = Idle BY <1>4, <2>1 DEF TypeOK, At
    <3> QED BY <1>2, <3>1 DEF Idle
  <2>2. call' \in [Calls -> Call]
    <3>1. DOMAIN call' = Calls /\ call' = [e \in Calls |-> call'[e]] BY DEF Enter
    <3> QED BY <1>3, <1>4, <3>1
  <2> QED BY <1>3, <2>1, <2>2 DEF CallsTyped, At
<1>6. Others(c) /\ OthersOpen(c) BY <1>4 DEF Others, Kept, OthersOpen
<1>7. Solo(c) BY <1>3 DEF Solo
<1>8. At(c, "idle") /\ requests' \in 0..MaxRequests
  BY FileAssumption DEF Enter, TypeOK
<1> QED BY <1>3, <1>5, <1>6, <1>7, <1>8

-----------------------------------------------------------------------------
(* The records.                                                            *)

\* Records that the request of the step has not in hand are left alone, or doubtful;
\* what it takes in hand nobody else has, or it is doubtful.
Local(c) ==
    /\ doubtful \subseteq doubtful' /\ purged \subseteq purged'
    /\ drawn <= drawn' /\ \A r \in 1..drawn : origin'[r] = origin[r]
    /\ \A r \in Records : r \notin call[c].held \cup call'[c].held =>
          /\ Occupied(Slot(r))' <=> Occupied(Slot(r))
          /\ row'[r] = row[r] \/ (row[r] = "trashed" /\ r \in doubtful')
    /\ \A r \in call'[c].held \ doubtful' : r \in call[c].held \/ ~InHand(r)
    /\ call'[c].held \subseteq 1..drawn' /\ \A r \in 1..drawn' : origin'[r] \in Paths

\* What the request does to the records it has in hand.
Own(c) ==
    \A r \in (call[c].held \cup call'[c].held) \ doubtful' :
        IF r \in call'[c].held THEN Handled(r, call[c])' ELSE Settled(r)'

LEMMA HeldRecords ==
    ASSUME TypeOK, NEW c \in Calls PROVE call[c].held \subseteq Records
BY DEF TypeOK, Call

LEMMA HeldHere ==
    ASSUME NEW c \in Calls, NEW r PROVE r \in call[c].held => c \in Holders(r) /\ InHand(r)
BY DEF Holders, InHand

\* What the others have in hand is not touched.
LEMMA OthersHandled ==
    ASSUME IInv, NEW c \in Calls, Others(c), Local(c), CallsTyped,
           NEW e \in Calls \ {c}, NEW r \in call'[e].held \ doubtful'
    PROVE  Handled(r, call[e])'
<1> USE DEF IInv, RowsInv
<1>1. /\ r \in call[e].held /\ r \in Records /\ r \notin doubtful
      /\ r \in 1..drawn /\ drawn \in Nat
  BY HeldRecords, FileAssumption DEF Others, Kept, Local, Drawn, TypeOK
<1>2. r \notin call[c].held
  BY <1>1 DEF HeldOnce, Holders
<1>3. r \notin call'[c].held
  BY <1>1, <1>2, HeldHere DEF Local
<1>4. /\ Occupied(Slot(r))' <=> Occupied(Slot(r))
      /\ row'[r] = row[r] /\ origin'[r] = origin[r] /\ (r \in purged => r \in purged')
  BY <1>1, <1>2, <1>3 DEF Local
<1>5. Handled(r, call[e]) BY <1>1 DEF Handling
<1>6. call[e].pc # "body" BY <1>1 DEF Shapes, Shape, OfFiles
<1>7. /\ call'[e].pc = call[e].pc /\ call'[e].then = call[e].then
      /\ call'[e].todo = call[e].todo /\ ~call'[e].alone
      /\ call'[e].src = call[e].src /\ call'[e].dst = call[e].dst
  BY <1>6 DEF Others, Kept
<1> QED BY <1>4, <1>5, <1>7 DEF Handled, Moving, Toward, Back, Slot

LEMMA RowsStep ==
    ASSUME IInv, NEW c \in Calls, CallsTyped, Others(c), Solo(c), Local(c), Own(c),
           row' \in [Records -> {"none", "trashed", "restored", "gone"}],
           drawn' \in 0..MaxRecords, Shape(call[c])'
    PROVE  RowsInv'
<1> USE DEF IInv, RowsInv
<1>1. drawn \in Nat /\ drawn' \in Nat BY FileAssumption DEF TypeOK
<1>2. Shapes'
  <2> SUFFICES ASSUME NEW e \in Calls \ {c} PROVE Shape(call[e])'
    BY DEF Shapes
  <2>1. Shape(call[e]) /\ Kept(e) BY DEF Shapes, Others
  <2>2. \A r \in call[e].held : r \in 1..drawn /\ r \in 1..drawn' /\ origin'[r] = origin[r]
    BY <1>1 DEF Drawn, Local
  <2> QED BY <2>1, <2>2 DEF Shape, Kept, Moving, Toward, Back, OfFiles, OfOne, Slot
<1>3. Drawn'
  <2>1. ASSUME NEW r \in Records, r > drawn' PROVE row'[r] = "none" /\ ~Occupied(Slot(r))'
    <3>1. r > drawn /\ r \notin call'[c].held /\ r \notin call[c].held
      BY <1>1, <2>1 DEF Local, Drawn, Records
    <3>2. row[r] = "none" /\ ~Occupied(Slot(r)) BY <3>1 DEF Drawn
    <3> QED BY <3>1, <3>2 DEF Local
  <2>2. ASSUME NEW e \in Calls PROVE call'[e].held \subseteq 1..drawn'
    <3>1. CASE e = c BY <3>1 DEF Local
    <3>2. CASE e # c
      <4>1. call'[e].held \subseteq 1..drawn BY <3>2 DEF Others, Kept, Drawn
      <4> QED BY <1>1, <4>1 DEF Local
    <3> QED BY <3>1, <3>2
  <2> QED BY <2>1, <2>2 DEF Drawn, Local
<1>4. HeldOnce'
  <2> SUFFICES ASSUME NEW r \in Records \ doubtful', NEW a \in Calls, NEW b \in Calls,
                      r \in call'[a].held, r \in call'[b].held, a # b
               PROVE  FALSE
    BY DEF HeldOnce, Holders
  <2>1. r \notin doubtful BY DEF Local
  <2>2. CASE a # c /\ b # c
    BY <2>1, <2>2 DEF Others, Kept, HeldOnce, Holders
  <2>3. ASSUME NEW e \in Calls \ {c}, r \in call'[e].held, r \in call'[c].held PROVE FALSE
    <3>1. r \in call[e].held BY <2>3 DEF Others, Kept
    <3>2. r \notin call[c].held BY <2>1, <3>1 DEF HeldOnce, Holders
    <3> QED BY <2>3, <3>1, <3>2, HeldHere DEF Local
  <2> QED BY <2>2, <2>3
<1>5. Alone'
  <2> SUFFICES ASSUME NEW a \in Calls, NEW b \in Calls, call'[a].alone, a # b
               PROVE  call'[b].pc = "idle"
    BY DEF Alone, At
  <2>1. a = c BY DEF Others, Kept
  <2> QED BY <2>1 DEF Others, Kept, Solo, At
<1>6. Handling'
  <2> SUFFICES ASSUME NEW e \in Calls, NEW r \in call'[e].held \ doubtful'
               PROVE  Handled(r, call[e])'
    BY DEF Handling
  <2>1. CASE e = c BY <2>1 DEF Own
  <2>2. CASE e # c BY <2>2, OthersHandled
  <2> QED BY <2>1, <2>2
<1>7. Resting'
  <2> SUFFICES ASSUME NEW r \in Records \ doubtful', ~InHand(r)' PROVE Settled(r)'
    BY DEF Resting
  <2>1. \A e \in Calls : r \notin call'[e].held BY DEF InHand
  <2>2. CASE r \in call[c].held BY <2>1, <2>2 DEF Own
  <2>3. CASE r \notin call[c].held
    <3>1. ~InHand(r) BY <2>1, <2>3 DEF InHand, Others, Kept
    <3>2. Settled(r) BY <3>1 DEF Resting, Local
    <3>3. /\ Occupied(Slot(r))' <=> Occupied(Slot(r))
          /\ row'[r] = row[r] /\ (r \in purged => r \in purged')
      BY <2>1, <2>3 DEF Local
    <3> QED BY <3>2, <3>3 DEF Settled, Slot
  <2> QED BY <2>2, <2>3
<1> QED BY <1>2, <1>3, <1>4, <1>5, <1>6, <1>7

-----------------------------------------------------------------------------
(* The files.                                                              *)

History == (tangled => tangled') /\ (accident => accident')

\* The step of a request that has no file open keeps the explanations.
LEMMA DisturbedStep ==
    ASSUME IInv, NEW c \in Calls, Others(c), History, ~At(c, "body")',
           call'[c].dirty => call[c].dirty \/ tangled'
    PROVE  Disturbed'
BY DEF IInv, Disturbed, Others, Kept, History, At

\* Nothing on the disk moves.
LEMMA QuietDisk ==
    ASSUME IInv, NEW c \in Calls, Others(c), OthersOpen(c), History, at' = at,
           ~At(c, "body"), ~At(c, "body")'
    PROVE  Opened' /\ PartialExplained'
<1> USE DEF IInv
<1>1. \A e \in Calls : At(e, "body")' <=> At(e, "body")
  BY DEF Others, Kept, At
<1>2. Opened' BY <1>1 DEF Opened, OthersOpen, Occupied, At
<1>3. PartialExplained'
  <2> SUFFICES ASSUME NEW p \in Places, at'[p] = Partial, ~accident', ~tangled'
               PROVE  \E e \in Calls : call'[e].pc = "body" /\ call'[e].dst = p
    BY DEF PartialExplained, Writing, At
  <2>1. PICK e \in Calls : At(e, "body") /\ call[e].dst = p
    BY DEF PartialExplained, Writing, History
  <2> QED BY <1>1, <2>1 DEF OthersOpen, At
<1> QED BY <1>2, <1>3

\* The file d, if it has that name, gets content x, written by nobody any more.
LEMMA GrowDisk ==
    ASSUME IInv, NEW c \in Calls, Others(c), OthersOpen(c), History, ~At(c, "body")',
           NEW d, At(c, "body") => call[c].dst = d,
           NEW x \in Contents, x = Partial => tangled' \/ accident',
           \A p \in Places : at'[p] = IF p = d THEN x ELSE at[p]
    PROVE  Opened' /\ PartialExplained'
<1>1. Opened'
  <2> SUFFICES ASSUME NEW e \in Calls, call'[e].pc = "body",
                      NEW p \in Places, p = call'[e].src \/ p = call'[e].dst
               PROVE  at'[p] # NoFile
    BY DEF Opened, Occupied, At
  <2>1. e # c /\ At(e, "body") BY DEF Others, Kept, At
  <2>2. Occupied(p) BY <2>1 DEF IInv, Opened, OthersOpen
  <2> QED BY <2>2, ContentFacts DEF Occupied
<1>2. PartialExplained'
  <2> SUFFICES ASSUME NEW p \in Places, at'[p] = Partial, ~accident', ~tangled'
               PROVE  \E e \in Calls : call'[e].pc = "body" /\ call'[e].dst = p
    BY DEF PartialExplained, Writing, At
  <2>1. p # d /\ at[p] = Partial OBVIOUS
  <2>2. PICK e \in Calls : call[e].pc = "body" /\ call[e].dst = p
    BY <2>1 DEF IInv, PartialExplained, Writing, History, At
  <2>3. e # c BY <2>1, <2>2 DEF At
  <2> QED BY <2>2, <2>3 DEF Others, Kept, OthersOpen
<1> QED BY <1>1, <1>2

\* A file moves from s to d, or is removed, and who has it open follows.
LEMMA ShiftDisk ==
    ASSUME IInv, NEW c \in Calls, Others(c), History, ~At(c, "body"), ~At(c, "body")',
           NEW s \in Places, NEW d \in Places \cup {NoPlace}, s # d,
           d \in Places => Occupied(s),
           \A p \in Places : at'[p] = IF p = s THEN NoFile ELSE IF p = d THEN at[s] ELSE at[p],
           \A e \in Calls \ {c} : At(e, "body") =>
                 /\ call'[e].src = Shift(call[e].src, s, d)
                 /\ call'[e].dst = Shift(call[e].dst, s, d)
    PROVE  Opened' /\ PartialExplained'
<1> USE DEF IInv
<1>1. \A e \in Calls : At(e, "body")' <=> At(e, "body")
  BY DEF Others, Kept, At
<1>2. ASSUME NEW p, Shift(p, s, d) \in Places, p \in Places => Occupied(p), p \in Places \cup {NoPlace}
      PROVE  at'[Shift(p, s, d)] # NoFile
  BY <1>2, PlaceFacts DEF Shift, Occupied
<1>3. Opened'
  <2> SUFFICES ASSUME NEW e \in Calls, call'[e].pc = "body",
                      NEW p \in Places, p = call'[e].src \/ p = call'[e].dst
               PROVE  at'[p] # NoFile
    BY DEF Opened, Occupied, At
  <2>1. e # c /\ At(e, "body") BY <1>1 DEF At
  <2>2. call[e].src \in Places \cup {NoPlace} /\ call[e].dst \in Places \cup {NoPlace}
    BY DEF TypeOK, Call
  <2>3. \A q \in {call[e].src, call[e].dst} \cap Places : Occupied(q)
    BY <2>1 DEF Opened
  <2> QED BY <1>2, <2>1, <2>2, <2>3
<1>4. PartialExplained'
  <2> SUFFICES ASSUME NEW p \in Places, at'[p] = Partial, ~accident', ~tangled'
               PROVE  \E e \in Calls : call'[e].pc = "body" /\ call'[e].dst = p
    BY DEF PartialExplained, Writing, At
  <2>1. p # s BY ContentFacts
  <2>2. PICK q \in Places : at[q] = Partial /\ Shift(q, s, d) = p
    BY <2>1 DEF Shift
  <2>3. PICK e \in Calls : At(e, "body") /\ call[e].dst = q
    BY <2>2 DEF PartialExplained, Writing, History
  <2> QED BY <1>1, <2>2, <2>3 DEF At
<1> QED BY <1>3, <1>4

-----------------------------------------------------------------------------
(* The steps of FileOps keep the invariant.                                *)

\* A request without a record leaves the records to the others.
LEMMA FileStep ==
    ASSUME IInv, NEW c \in Calls, CallsTyped, Others(c), Solo(c), UNCHANGED trash,
           call[c].held = {}, call'[c].held = {}, Shape(call[c])',
           \A r \in Records : Occupied(Slot(r))' <=> Occupied(Slot(r))
    PROVE  RowsInv'
<1>1. /\ row' = row /\ origin' = origin /\ drawn' = drawn
      /\ purged' = purged /\ doubtful' = doubtful
  BY DEF trash
<1>2. Local(c)
  BY <1>1, FileAssumption DEF Local, IInv, RowsInv, TypeOK, Drawn
<1>3. Own(c) BY DEF Own
<1> QED BY <1>1, <1>2, <1>3, RowsStep DEF IInv, TypeOK

LEMMA FileTyped ==
    ASSUME TypeOK, CallsTyped, UNCHANGED trash, sameDevice' = sameDevice,
           at' \in [Places -> Contents \cup {NoFile}],
           requests' \in 0..MaxRequests, faults' \in 0..MaxFaults,
           tangled' \in BOOLEAN, accident' \in BOOLEAN
    PROVE  TypeOK'
BY DEF TypeOK, CallsTyped, trash

LEMMA SlotsSame ==
    ASSUME at' = at PROVE \A r \in Records : Occupied(Slot(r))' <=> Occupied(Slot(r))
BY DEF Occupied, Slot

LEMMA StartKeeps ==
    ASSUME IInv, NEW c \in Calls, NEW begun \in Call, Enter(c, begun), UNCHANGED trash,
           begun.pc \in {"resolve", "relocate", "open", "mkdir"}, begun.held = {},
           begun.todo = {}, begun.dirty = FALSE, Shape(begun)
    PROVE  IInv'
<1>1. /\ CallsTyped /\ Others(c) /\ Solo(c) /\ OthersOpen(c) /\ At(c, "idle")
      /\ call'[c].pc = begun.pc /\ call'[c].then = begun.then /\ call'[c].data = begun.data
      /\ call'[c].src = begun.src /\ call'[c].dst = begun.dst
      /\ call'[c].held = begun.held /\ call'[c].todo = begun.todo
      /\ call'[c].dirty = begun.dirty /\ requests' \in 0..MaxRequests
  BY EnterWorks DEF IInv
<1>2. at' = at /\ sameDevice' = sameDevice /\ faults' = faults
      /\ tangled' = tangled /\ accident' = accident
  BY DEF Enter, disk
<1>3. call[c].held = {} BY <1>1, IdleFacts DEF IInv, TypeOK, At
<1>4. Shape(call[c])'
  BY <1>1 DEF Shape, Moving, OfFiles, OfOne
<1>5. TypeOK' BY <1>1, <1>2, FileTyped DEF IInv, TypeOK
<1>6. RowsInv' BY <1>1, <1>2, <1>3, <1>4, SlotsSame, FileStep
<1>7. Opened' /\ PartialExplained'
  BY <1>1, <1>2, QuietDisk DEF At, History
<1>8. Disturbed' BY <1>1, <1>2, DisturbedStep DEF At, History
<1> QED BY <1>5, <1>6, <1>7, <1>8 DEF IInv

LEMMA StartRenameKeeps ==
    ASSUME IInv, NEW c \in Calls, StartRename(c), UNCHANGED trash PROVE IInv'
<1>1. PICK s \in Paths, n \in Names :
        /\ RenameAllowed(s, <<s[1], n>>)
        /\ Enter(c, [Idle EXCEPT !.pc = "relocate", !.src = s, !.dst = <<s[1], n>>])
  BY DEF StartRename
<1> DEFINE begun == [Idle EXCEPT !.pc = "relocate", !.src = s, !.dst = <<s[1], n>>]
<1>2. <<s[1], n>> \in Paths /\ s # <<s[1], n>>
  BY <1>1 DEF Paths, RenameAllowed
<1>3. begun \in Call BY <1>2, PlaceFacts DEF Idle, Call, Pc, Policies
<1>4. Shape(begun) BY <1>2 DEF Shape, Idle, OfFiles, OfOne, Moving
<1> QED BY <1>1, <1>3, <1>4, StartKeeps DEF Idle

LEMMA StartMoveKeeps ==
    ASSUME IInv, NEW c \in Calls, StartMove(c), UNCHANGED trash PROVE IInv'
<1>1. PICK s \in Paths, d \in Dirs, policy \in Policies :
        /\ s # <<d, s[2]>>
        /\ Enter(c, [Idle EXCEPT !.pc = "resolve", !.then = "relocate", !.policy = policy,
                                 !.src = s, !.dst = <<d, s[2]>>])
  BY DEF StartMove
<1> DEFINE begun == [Idle EXCEPT !.pc = "resolve", !.then = "relocate", !.policy = policy,
                                 !.src = s, !.dst = <<d, s[2]>>]
<1>2. <<d, s[2]>> \in Paths /\ s[1] # <<d, s[2]>>[1]
  BY <1>1 DEF Paths
<1>3. begun \in Call BY <1>2, PlaceFacts DEF Idle, Call, Pc, Policies
<1>4. Shape(begun) BY <1>2, PlaceFacts DEF Shape, Idle, OfFiles, OfOne, Moving
<1> QED BY <1>1, <1>3, <1>4, StartKeeps DEF Idle

LEMMA StartCopyKeeps ==
    ASSUME IInv, NEW c \in Calls, StartCopy(c), UNCHANGED trash PROVE IInv'
<1>1. PICK s \in Paths, d \in Dirs, policy \in Policies :
        Enter(c, [Idle EXCEPT !.pc = "resolve", !.then = "open", !.policy = policy,
                              !.src = s, !.dst = <<d, s[2]>>])
  BY DEF StartCopy
<1> DEFINE begun == [Idle EXCEPT !.pc = "resolve", !.then = "open", !.policy = policy,
                                 !.src = s, !.dst = <<d, s[2]>>]
<1>2. <<d, s[2]>> \in Paths BY <1>1 DEF Paths
<1>3. begun \in Call BY <1>2, PlaceFacts DEF Idle, Call, Pc, Policies
<1>4. Shape(begun) BY <1>2, PlaceFacts DEF Shape, Idle, OfFiles, OfOne, Moving
<1> QED BY <1>1, <1>3, <1>4, StartKeeps DEF Idle

LEMMA StartUploadKeeps ==
    ASSUME IInv, NEW c \in Calls, StartUpload(c), UNCHANGED trash PROVE IInv'
<1>1. PICK d \in Dirs, v \in Versions, policy \in Policies :
        Enter(c, [Idle EXCEPT !.pc = "resolve", !.then = "open", !.policy = policy,
                              !.dst = <<d, 0>>, !.data = v])
  BY DEF StartUpload
<1> DEFINE begun == [Idle EXCEPT !.pc = "resolve", !.then = "open", !.policy = policy,
                                 !.dst = <<d, 0>>, !.data = v]
<1>2. <<d, 0>> \in Paths BY FileAssumption DEF Paths, Names
<1>3. begun \in Call BY <1>2, PlaceFacts, ContentFacts DEF Idle, Call, Pc, Policies
<1>4. Shape(begun) BY <1>2, PlaceFacts DEF Shape, Idle, OfFiles, OfOne, Moving
<1> QED BY <1>1, <1>3, <1>4, StartKeeps DEF Idle

LEMMA StartCreateKeeps ==
    ASSUME IInv, NEW c \in Calls, StartCreate(c), UNCHANGED trash PROVE IInv'
<1>1. PICK p \in Paths, v \in Versions :
        Enter(c, [Idle EXCEPT !.pc = "mkdir", !.dst = p, !.data = v])
  BY DEF StartCreate
<1> DEFINE begun == [Idle EXCEPT !.pc = "mkdir", !.dst = p, !.data = v]
<1>2. begun \in Call BY PlaceFacts, ContentFacts DEF Idle, Call, Pc, Policies
<1>3. Shape(begun) BY PlaceFacts DEF Shape, Idle, OfFiles, OfOne, Moving
<1> QED BY <1>1, <1>2, <1>3, StartKeeps DEF Idle

\* A request goes on as k, and leaves the disk.
LEMMA QuietFile ==
    ASSUME IInv, NEW c \in Calls, NEW k, Next1(c, k), call' = [call EXCEPT ![c] = k],
           call[c].pc \in {"resolve", "relocate", "open", "mkdir"}, k.pc # "body",
           UNCHANGED <<at, sameDevice, requests, faults, tangled, accident, trash>>,
           k.held = {}, Shape(k), k.dirty => call[c].dirty
    PROVE  IInv'
<1>0. ~At(c, "idle") /\ ~At(c, "body") BY DEF At
<1>1. /\ CallsTyped /\ call'[c] = k /\ Others(c) /\ Solo(c) /\ OthersOpen(c)
      /\ ~At(c, "body") /\ ~At(c, "body")'
  <2>1. CallsTyped /\ call'[c] = k /\ Others(c) /\ Solo(c) /\ OthersOpen(c)
    BY <1>0, OneWorks DEF IInv, RowsInv
  <2> QED BY <1>0, <2>1 DEF At
<1>2. call[c].held = {} BY DEF IInv, RowsInv, Shapes, Shape, OfFiles
<1>3. Shape(call[c])' BY <1>1 DEF Shape, Moving, Toward, Back, trash, Slot
<1>4. TypeOK' BY <1>1, FileTyped DEF IInv, TypeOK
<1>5. RowsInv' BY <1>1, <1>2, <1>3, SlotsSame, FileStep
<1>6. Opened' /\ PartialExplained' BY <1>1, QuietDisk DEF History
<1>7. Disturbed' BY <1>1, DisturbedStep DEF History
<1> QED BY <1>4, <1>5, <1>6, <1>7 DEF IInv

LEMMA IdleShape == Shape(Idle)
BY IdleFacts DEF Shape, OfFiles, OfOne, Moving

\* A file is renamed, or removed, by a request that goes on as k.
LEMMA ShiftFile ==
    ASSUME IInv, NEW c \in Calls, NEW k, Next1(c, k),
           NEW s \in Paths, NEW d \in Paths \cup {NoPlace}, s # d, d \in Places => Occupied(s),
           Followed(c, k, s, d),
           \A p \in Places : at'[p] = IF p = s THEN NoFile ELSE IF p = d THEN at[s] ELSE at[p],
           at' \in [Places -> Contents \cup {NoFile}],
           call[c].pc \in {"resolve", "relocate"}, k.pc # "body",
           UNCHANGED <<sameDevice, requests, faults, tangled, accident, trash>>,
           k.held = {}, Shape(k), k.dirty => call[c].dirty
    PROVE  IInv'
<1>0. ~At(c, "idle") /\ ~At(c, "body") BY DEF At
<1>1. /\ CallsTyped /\ call'[c] = k /\ Others(c) /\ Solo(c)
      /\ ~At(c, "body") /\ ~At(c, "body")'
      /\ \A e \in Calls \ {c} : At(e, "body") =>
            /\ call'[e].src = Shift(call[e].src, s, d)
            /\ call'[e].dst = Shift(call[e].dst, s, d)
  <2>1. d \in Places \cup {NoPlace} BY PlaceFacts
  <2>2. /\ CallsTyped /\ call'[c] = k /\ Others(c) /\ Solo(c)
        /\ \A e \in Calls \ {c} : At(e, "body") =>
              /\ call'[e].src = Shift(call[e].src, s, d)
              /\ call'[e].dst = Shift(call[e].dst, s, d)
    BY <1>0, <2>1, FollowWorks DEF IInv, RowsInv
  <2> QED BY <1>0, <2>2 DEF At
<1>2. call[c].held = {} BY DEF IInv, RowsInv, Shapes, Shape, OfFiles
<1>3. Shape(call[c])' BY <1>1 DEF Shape, Moving, Toward, Back, trash, Slot
<1>4. TypeOK' BY <1>1, FileTyped DEF IInv, TypeOK
<1>5. \A r \in Records : Occupied(Slot(r))' <=> Occupied(Slot(r))
  BY PlaceFacts DEF Occupied, Slot
<1>6. RowsInv' BY <1>1, <1>2, <1>3, <1>5, FileStep
<1>7. Opened' /\ PartialExplained' BY <1>1, PlaceFacts, ShiftDisk DEF History
<1>8. Disturbed' BY <1>1, DisturbedStep DEF History
<1> QED BY <1>4, <1>6, <1>7, <1>8 DEF IInv

LEMMA AnswerFile ==
    ASSUME IInv, NEW c \in Calls, Answer(c),
           call[c].pc \in {"resolve", "relocate", "open", "mkdir"},
           UNCHANGED <<at, sameDevice, requests, faults, tangled, accident, trash>>
    PROVE  IInv'
BY QuietFile, IdleGoes, IdleShape, IdleFacts DEF Answer

\* The name that is left to a request is free, or freed, in the directory it asked for.
LEMMA ChosenGoes ==
    ASSUME IInv, NEW c \in Calls, At(c, "resolve"), NEW p \in Paths, p[1] = call[c].dst[1]
    PROVE  LET k == [call[c] EXCEPT !.pc = call[c].then, !.dst = p]
           IN  /\ Next1(c, k) /\ Shape(k) /\ k.held = {} /\ k.pc # "body"
               /\ k.dirty = call[c].dirty
<1> DEFINE k == [call[c] EXCEPT !.pc = call[c].then, !.dst = p]
<1>1. call[c] \in Call /\ Shape(call[c]) BY DEF IInv, TypeOK, RowsInv, Shapes
<1>2. call[c].then \in {"relocate", "open"} /\ call[c].held = {} /\ call[c].todo = {}
  BY <1>1 DEF Shape, At, OfFiles
<1>3. k \in Call /\ k.alone = call[c].alone /\ k.pc = call[c].then /\ k.held = {}
      /\ k.todo = {} /\ k.dst = p /\ k.src = call[c].src /\ k.data = call[c].data
      /\ k.dirty = call[c].dirty
  BY <1>1, <1>2, PlaceFacts DEF Call
<1>4. Shape(k)
  BY <1>1, <1>2, <1>3 DEF Shape, Moving, OfFiles, OfOne, At
<1> QED BY <1>2, <1>3, <1>4 DEF Next1

LEMMA ResolveKeeps ==
    ASSUME IInv, NEW c \in Calls, Resolve(c), UNCHANGED trash PROVE IInv'
<1> DEFINE d == call[c].dst
           free == {p \in Candidates(d) : ~Occupied(p)}
<1>1. /\ At(c, "resolve") /\ sameDevice' = sameDevice /\ requests' = requests
      /\ faults' = faults /\ tangled' = tangled /\ accident' = accident
  BY DEF Resolve, counts
<1>2. d \in Paths BY <1>1 DEF IInv, RowsInv, Shapes, Shape, At
<1>3. CASE Answer(c) /\ at' = at BY <1>1, <1>3, AnswerFile DEF At
<1>4. ASSUME NEW p \in Paths, p[1] = d[1], Chosen(c, p), at' = at PROVE IInv'
  BY <1>1, <1>4, ChosenGoes, QuietFile DEF Chosen, At
<1>5. CASE /\ at' = Removed(d)
           /\ call' = [Follow(call, d, NoPlace) EXCEPT ![c] = [@ EXCEPT !.pc = call[c].then]]
  <2> DEFINE k == [call[c] EXCEPT !.pc = call[c].then, !.dst = d]
  <2>1. Follow(call, d, NoPlace)[c] = call[c]
    BY <1>1, FollowIs DEF IInv, At
  <2>2. k = [call[c] EXCEPT !.pc = call[c].then] BY DEF IInv, TypeOK, Call
  <2>3. Followed(c, k, d, NoPlace)
    BY <1>5, <2>1, <2>2, FollowIs DEF IInv, Followed
  <2>4. at' \in [Places -> Contents \cup {NoFile}]
        /\ \A p \in Places : at'[p] = IF p = d THEN NoFile
                                        ELSE IF p = NoPlace THEN at[d] ELSE at[p]
    BY <1>5, PlaceFacts DEF Removed, IInv, TypeOK
  <2>5. NoPlace \notin Places /\ d # NoPlace BY <1>2, PlaceFacts
  <2>6. Next1(c, k) /\ Shape(k) /\ k.held = {} /\ k.pc # "body" /\ k.dirty = call[c].dirty
    BY <1>1, <1>2, ChosenGoes
  <2>7. call[c].pc \in {"resolve", "relocate"} BY <1>1 DEF At
  <2>8. UNCHANGED <<sameDevice, requests, faults, tangled, accident, trash>> BY <1>1
  <2> HIDE DEF k, d
  <2> QED BY <1>2, <2>3, <2>4, <2>5, <2>6, <2>7, <2>8, ShiftFile
<1>6. \A p \in Candidates(d) : p \in Paths /\ p[1] = d[1]
  BY <1>2, FileAssumption DEF Candidates, Paths, Names
<1> QED BY <1>2, <1>3, <1>4, <1>5, <1>6 DEF Resolve

LEMMA RelocateKeeps ==
    ASSUME IInv, NEW c \in Calls, Relocate(c), UNCHANGED trash PROVE IInv'
<1> DEFINE s == call[c].src
           d == call[c].dst
<1>1. /\ At(c, "relocate") /\ sameDevice' = sameDevice /\ requests' = requests
      /\ faults' = faults /\ tangled' = tangled /\ accident' = accident
  BY DEF Relocate, counts
<1>2. s \in Paths /\ d \in Paths /\ s # d BY <1>1 DEF IInv, RowsInv, Shapes, Shape, At
<1>3. CASE Answer(c) /\ at' = at BY <1>1, <1>3, AnswerFile DEF At
<1>4. CASE /\ Occupied(s) /\ at' = Renamed(s, d)
           /\ call' = [Follow(call, s, d) EXCEPT ![c] = Idle]
  <2>1. at' \in [Places -> Contents \cup {NoFile}]
        /\ \A p \in Places : at'[p] = IF p = s THEN NoFile ELSE IF p = d THEN at[s] ELSE at[p]
    BY <1>2, <1>4, PlaceFacts DEF Renamed, IInv, TypeOK
  <2>2. call[c].pc \in {"resolve", "relocate"} BY <1>1 DEF At
  <2>3. UNCHANGED <<sameDevice, requests, faults, tangled, accident, trash>> BY <1>1
  <2>4. Followed(c, Idle, s, d) BY <1>4 DEF Followed
  <2>5. Next1(c, Idle) /\ Shape(Idle) /\ Idle.held = {} /\ Idle.pc # "body" /\ ~Idle.dirty
    BY IdleGoes, IdleShape, IdleFacts
  <2> HIDE DEF s, d
  <2> QED BY <1>2, <1>4, <2>1, <2>2, <2>3, <2>4, <2>5, ShiftFile
<1> QED BY <1>3, <1>4 DEF Relocate

LEMMA MakeDirectoryKeeps ==
    ASSUME IInv, NEW c \in Calls, MakeDirectory(c), UNCHANGED trash PROVE IInv'
<1> DEFINE d == call[c].dst
<1>1. /\ At(c, "mkdir") /\ sameDevice' = sameDevice /\ requests' = requests
      /\ faults' = faults /\ tangled' = tangled /\ accident' = accident
      /\ Answer(c) /\ at' = IF Occupied(d) THEN at ELSE [at EXCEPT ![d] = call[c].data]
  BY DEF MakeDirectory, counts
<1>2. d \in Paths /\ call[c].data \in Versions /\ call[c].held = {}
  BY <1>1 DEF IInv, RowsInv, Shapes, Shape, At, OfFiles
<1>3. CASE at' = at BY <1>1, <1>3, AnswerFile DEF At
<1>4. CASE ~Occupied(d) /\ at' = [at EXCEPT ![d] = call[c].data]
  <2>1. /\ CallsTyped /\ call'[c] = Idle /\ Others(c) /\ Solo(c) /\ OthersOpen(c)
        /\ ~At(c, "body") /\ ~At(c, "body")'
    BY <1>1, OneWorks, IdleGoes, IdleFacts DEF IInv, RowsInv, At, Answer
  <2>2. at' \in [Places -> Contents \cup {NoFile}]
        /\ \A p \in Places : at'[p] = IF p = d THEN call[c].data ELSE at[p]
    BY <1>2, <1>4, PlaceFacts, ContentFacts DEF IInv, TypeOK
  <2>3. TypeOK' BY <1>1, <2>1, <2>2, FileTyped DEF IInv, TypeOK
  <2>4. \A r \in Records : Occupied(Slot(r))' <=> Occupied(Slot(r))
    BY <1>2, <2>2, PlaceFacts DEF Occupied, Slot
  <2>5. Shape(call[c])'
    BY <2>1, IdleFacts DEF Shape, OfFiles, OfOne, Moving
  <2>6. RowsInv' BY <1>2, <2>1, <2>4, <2>5, IdleFacts, FileStep
  <2>7. Opened' /\ PartialExplained'
    BY <1>1, <1>2, <2>1, <2>2, ContentFacts, GrowDisk DEF History
  <2>8. Disturbed' BY <1>1, <2>1, IdleFacts, DisturbedStep DEF History
  <2> QED BY <2>3, <2>6, <2>7, <2>8 DEF IInv
<1> QED BY <1>1, <1>3, <1>4

\* A file is opened to be written by request c.
LEMMA OpenStep ==
    ASSUME IInv, NEW c \in Calls, At(c, "open"), NEW data \in Contents, OpenTruncated(c, data),
           UNCHANGED <<sameDevice, requests, faults, accident, trash>>,
           call[c].src \in Places => Occupied(call[c].src),
           data = Partial => call[c].src \in Places /\ at[call[c].src] = Partial
    PROVE  IInv'
<1> DEFINE s == call[c].src
           d == call[c].dst
           disturbed == {e \in Calls : At(e, "body") /\ d \in {call[e].src, call[e].dst}}
           dirty == Writing(d) \cup Writing(s) # {} \/ s = d
<1>1. /\ d \in Paths /\ s \in Paths \cup {NoPlace} /\ call[c].held = {} /\ call[c].todo = {}
      /\ call[c] \in Call
  BY DEF IInv, RowsInv, Shapes, Shape, At, OfFiles, TypeOK
<1>2. call'[c] \in Call /\ call'[c].pc = "body" /\ call'[c].data = data
      /\ call'[c].dirty = dirty /\ call'[c].alone = call[c].alone /\ call'[c].held = {}
      /\ call'[c].todo = {} /\ call'[c].src = s /\ call'[c].dst = d
  <2>1. PICK b \in BOOLEAN : b = dirty OBVIOUS
  <2>2. call'[c] = [call[c] EXCEPT !.pc = "body", !.data = data, !.dirty = b]
    BY <2>1 DEF OpenTruncated
  <2> QED BY <1>1, <2>1, <2>2 DEF Call, Pc
<1>3. \A e \in Calls \ {c} :
        call'[e] = IF e \in disturbed THEN [call[e] EXCEPT !.dirty = TRUE] ELSE call[e]
  BY DEF OpenTruncated
<1>4. (tangled' <=> (tangled \/ dirty \/ disturbed # {})) /\ tangled' \in BOOLEAN
      /\ at' = [at EXCEPT ![d] = Partial]
  BY DEF OpenTruncated, IInv, TypeOK
<1>5. \A e \in Calls \ {c} : ~call[e].alone
  BY NotAlone DEF IInv, RowsInv, At
<1>6. ASSUME NEW e \in Calls \ {c}
      PROVE  /\ call'[e] \in Call /\ call'[e].pc = call[e].pc /\ call'[e].then = call[e].then
             /\ call'[e].held = call[e].held /\ call'[e].todo = call[e].todo
             /\ call'[e].data = call[e].data /\ ~call'[e].alone
             /\ call'[e].src = call[e].src /\ call'[e].dst = call[e].dst
             /\ call'[e].dirty => call[e].dirty \/ tangled'
             /\ call'[e].pc = "idle" => call'[e] = Idle
  <2>1. call[e] \in Call /\ (call[e].pc = "idle" => call[e] = Idle) BY DEF IInv, TypeOK, At
  <2>2. CASE e \in disturbed
    <3>1. call'[e] = [call[e] EXCEPT !.dirty = TRUE] BY <1>3, <2>2
    <3>2. call[e].pc = "body" BY <2>2 DEF At
    <3>3. tangled' BY <1>4, <2>2
    <3> QED BY <1>5, <2>1, <3>1, <3>2, <3>3 DEF Call
  <2>3. CASE e \notin disturbed BY <1>3, <1>5, <2>1, <2>3
  <2> QED BY <2>2, <2>3
<1> HIDE DEF disturbed
<1>7. Others(c) /\ OthersOpen(c) BY <1>6 DEF Others, Kept, OthersOpen
<1>8. Solo(c) BY <1>2 DEF Solo, IInv, RowsInv, Alone
<1>9. CallsTyped
  <2>1. DOMAIN call' = Calls /\ call' = [e \in Calls |-> call'[e]] BY DEF OpenTruncated
  <2>2. call' \in [Calls -> Call] BY <1>2, <1>6, <2>1
  <2> QED BY <1>2, <1>6, <2>2 DEF CallsTyped, At
<1>10. at' \in [Places -> Contents \cup {NoFile}]
       /\ \A p \in Places : at'[p] = IF p = d THEN Partial ELSE at[p]
  BY <1>1, <1>4, PlaceFacts, ContentFacts DEF IInv, TypeOK
<1>11. TypeOK' BY <1>4, <1>9, <1>10, FileTyped DEF IInv, TypeOK
<1>12. \A r \in Records : Occupied(Slot(r))' <=> Occupied(Slot(r))
  BY <1>1, <1>10, PlaceFacts DEF Occupied, Slot
<1>13. Shape(call[c])'
  BY <1>2 DEF Shape, OfFiles, OfOne, Moving
<1>14. RowsInv' BY <1>1, <1>2, <1>7, <1>8, <1>9, <1>12, <1>13, FileStep
<1>15. Opened'
  <2> SUFFICES ASSUME NEW e \in Calls, call'[e].pc = "body",
                      NEW p \in Places, p = call'[e].src \/ p = call'[e].dst
               PROVE  at'[p] # NoFile
    BY DEF Opened, Occupied, At
  <2>1. CASE p = d BY <1>10, <2>1, ContentFacts
  <2>2. CASE p # d /\ e = c BY <1>2, <1>10, <2>2 DEF Occupied
  <2>3. CASE p # d /\ e # c
    <3>1. At(e, "body") /\ p \in {call[e].src, call[e].dst} BY <1>6, <2>3 DEF At
    <3> QED BY <1>10, <2>3, <3>1 DEF IInv, Opened, Occupied
  <2> QED BY <2>1, <2>2, <2>3
<1>16. PartialExplained'
  <2> SUFFICES ASSUME NEW p \in Places, at'[p] = Partial, ~accident', ~tangled'
               PROVE  \E e \in Calls : call'[e].pc = "body" /\ call'[e].dst = p
    BY DEF PartialExplained, Writing, At
  <2>1. CASE p = d BY <1>2, <2>1
  <2>2. CASE p # d
    <3>1. PICK e \in Calls : call[e].pc = "body" /\ call[e].dst = p
      BY <1>4, <1>10, <2>2 DEF IInv, PartialExplained, Writing, At
    <3>2. e # c BY <3>1 DEF At
    <3> QED BY <1>6, <3>1, <3>2
  <2> QED BY <2>1, <2>2
<1>17. Disturbed'
  <2>1. ASSUME NEW e \in Calls \ {c}
        PROVE  /\ call'[e].dirty => tangled'
               /\ call'[e].pc = "body" /\ call'[e].data = Partial => tangled' \/ accident'
    BY <1>4, <1>6 DEF IInv, Disturbed, At
  <2>2. call'[c].dirty => tangled' BY <1>2, <1>4
  <2>3. ASSUME data = Partial PROVE tangled' \/ accident'
    <3>1. Writing(s) # {} \/ accident \/ tangled
      BY <2>3 DEF IInv, PartialExplained
    <3> QED BY <1>4, <3>1
  <2> QED BY <1>2, <2>1, <2>2, <2>3 DEF Disturbed, At
<1> QED BY <1>11, <1>14, <1>15, <1>16, <1>17 DEF IInv

LEMMA CopyOpenKeeps ==
    ASSUME IInv, NEW c \in Calls, CopyOpen(c), UNCHANGED trash PROVE IInv'
<1>1. At(c, "open") /\ UNCHANGED <<sameDevice, requests, faults, accident>>
  BY DEF CopyOpen
<1>2. call[c].src \in Places
  BY <1>1, PlaceFacts DEF CopyOpen, IInv, RowsInv, Shapes, Shape, At
<1>3. CASE Answer(c) /\ UNCHANGED <<at, tangled>>
  BY <1>1, <1>3, AnswerFile DEF At
<1>4. CASE Occupied(call[c].src) /\ OpenTruncated(c, at[call[c].src])
  BY <1>1, <1>2, <1>4, OpenStep, OccupiedIs DEF IInv
<1> QED BY <1>3, <1>4 DEF CopyOpen

LEMMA UploadOpenKeeps ==
    ASSUME IInv, NEW c \in Calls, UploadOpen(c), UNCHANGED trash PROVE IInv'
<1>1. /\ At(c, "open") /\ UNCHANGED <<sameDevice, requests, faults, accident>>
      /\ call[c].src = NoPlace
  BY DEF UploadOpen
<1>2. call[c].data \in Versions /\ NoPlace \notin Places
  BY <1>1, PlaceFacts DEF IInv, RowsInv, Shapes, Shape, At
<1>3. CASE Answer(c) /\ UNCHANGED <<at, tangled>>
  BY <1>1, <1>3, AnswerFile DEF At
<1>4. CASE OpenTruncated(c, call[c].data)
  BY <1>1, <1>2, <1>4, OpenStep, ContentFacts
<1> QED BY <1>3, <1>4 DEF UploadOpen

LEMMA WriteBodyKeeps ==
    ASSUME IInv, NEW c \in Calls, WriteBody(c), UNCHANGED trash PROVE IInv'
<1> DEFINE s == call[c].src
           d == call[c].dst
<1>1. /\ At(c, "body") /\ Answer(c) /\ sameDevice' = sameDevice /\ requests' = requests
      /\ tangled' = tangled
  BY DEF WriteBody
<1>2. /\ call[c].held = {} /\ call[c].data \in Contents
      /\ s \in Places \cup {NoPlace} /\ d \in Places \cup {NoPlace}
  BY <1>1 DEF IInv, RowsInv, Shapes, Shape, At, OfFiles, TypeOK, Call
<1>3. PICK x \in Contents :
        /\ at' = IF d \in Places THEN [at EXCEPT ![d] = x] ELSE at
        /\ x = Partial => tangled \/ accident'
        /\ faults' \in 0..MaxFaults /\ accident' \in BOOLEAN /\ (accident => accident')
  <2>1. CASE /\ \E x \in {call[c].data} \cup (IF call[c].dirty
                   THEN {Partial} \cup (IF s \in Places THEN {at[s]} ELSE {}) ELSE {}) :
                      at' = IF d \in Places THEN [at EXCEPT ![d] = x] ELSE at
             /\ NoFault
    <3>1. PICK x \in {call[c].data} \cup (IF call[c].dirty
                   THEN {Partial} \cup (IF s \in Places THEN {at[s]} ELSE {}) ELSE {}) :
                      at' = IF d \in Places THEN [at EXCEPT ![d] = x] ELSE at
      BY <2>1
    <3>2. s \in Places => at[s] \in Contents
      BY <1>1, OccupiedIs DEF IInv, Opened
    <3>3. x \in Contents BY <1>2, <3>1, <3>2, ContentFacts
    <3>4. x = Partial => tangled \/ accident
      BY <1>1, <3>1 DEF IInv, Disturbed
    <3> QED BY <2>1, <3>1, <3>3, <3>4 DEF NoFault, IInv, TypeOK
  <2>2. CASE (at' = IF d \in Places THEN [at EXCEPT ![d] = Partial] ELSE at) /\ Fault
    <3>1. faults' \in 0..MaxFaults /\ accident' = TRUE
      BY <2>2, FileAssumption DEF Fault, IInv, TypeOK
    <3> QED BY <2>2, <3>1, ContentFacts
  <2> QED BY <2>1, <2>2 DEF WriteBody
<1>4. /\ CallsTyped /\ call'[c] = Idle /\ Others(c) /\ Solo(c) /\ OthersOpen(c)
      /\ ~At(c, "body")'
  BY <1>1, OneWorks, IdleGoes, IdleFacts DEF IInv, RowsInv, At, Answer
<1>5. at' \in [Places -> Contents \cup {NoFile}]
      /\ \A p \in Places : at'[p] = IF p = d THEN x ELSE at[p]
  BY <1>3 DEF IInv, TypeOK
<1>6. d \in Places => Occupied(d) BY <1>1 DEF IInv, Opened
<1>7. \A p \in Places : Occupied(p)' <=> Occupied(p)
  BY <1>5, <1>6, ContentFacts DEF Occupied
<1>8. TypeOK' BY <1>1, <1>3, <1>4, <1>5, FileTyped DEF IInv, TypeOK
<1>9. \A r \in Records : Occupied(Slot(r))' <=> Occupied(Slot(r))
  BY <1>7, PlaceFacts DEF Occupied, Slot
<1>10. Shape(call[c])' BY <1>4, IdleFacts DEF Shape, OfFiles, OfOne, Moving
<1>11. RowsInv' BY <1>2, <1>4, <1>9, <1>10, IdleFacts, FileStep
<1>12. Opened' /\ PartialExplained'
  BY <1>1, <1>3, <1>4, <1>5, GrowDisk DEF History
<1>13. Disturbed' BY <1>1, <1>3, <1>4, IdleFacts, DisturbedStep DEF History
<1> QED BY <1>8, <1>11, <1>12, <1>13 DEF IInv

-----------------------------------------------------------------------------
(* The steps of Trash keep the invariant.                                  *)

\* The table, the counters and the histories keep their types.
TableTyped ==
    /\ row' \in [Records -> {"none", "trashed", "restored", "gone"}]
    /\ origin' \in [Records -> Paths \cup {NoPlace}] /\ drawn' \in 0..MaxRecords
    /\ purged' \subseteq Records /\ doubtful' \subseteq Records
    /\ sameDevice' = sameDevice /\ requests' \in 0..MaxRequests /\ faults' \in 0..MaxFaults
    /\ tangled' \in BOOLEAN /\ accident' \in BOOLEAN

\* What there is to show of the step of a request that writes no open file.
LEMMA TrashStep ==
    ASSUME IInv, NEW c \in Calls, CallsTyped, Others(c), Solo(c), History, TableTyped,
           at' \in [Places -> Contents \cup {NoFile}], Opened' /\ PartialExplained',
           ~At(c, "body")', call'[c].dirty => call[c].dirty,
           Local(c), Own(c), Shape(call[c])'
    PROVE  IInv'
<1>1. TypeOK' BY DEF TypeOK, IInv, CallsTyped, TableTyped
<1>2. RowsInv' BY RowsStep DEF TableTyped
<1>3. Disturbed' BY DisturbedStep
<1> QED BY <1>1, <1>2, <1>3 DEF IInv

LEMMA QuietTrash ==
    ASSUME IInv, NEW c \in Calls, CallsTyped, Others(c), Solo(c), OthersOpen(c), History,
           TableTyped, at' = at, ~At(c, "body"), ~At(c, "body")',
           call'[c].dirty => call[c].dirty, Local(c), Own(c), Shape(call[c])'
    PROVE  IInv'
<1>1. Opened' /\ PartialExplained' BY QuietDisk
<1>2. at' \in [Places -> Contents \cup {NoFile}] BY DEF IInv, TypeOK
<1> QED BY <1>1, <1>2, TrashStep

\* A record nobody has in hand.
LEMMA AtRest ==
    ASSUME IInv, NEW r \in Records, r \notin doubtful, Holders(r) = {} PROVE Settled(r)
BY DEF IInv, RowsInv, Resting, InHand, Holders

\* A request begins with some records in hand.
LEMMA TakeStep ==
    ASSUME IInv, NEW c \in Calls, NEW begun \in Call, Enter(c, begun),
           Doubt({r \in begun.held : Holders(r) # {}}),
           begun.pc \in {"transfer", "check", "purge", "empty"}, begun.dirty = FALSE,
           row' = row, purged' = purged, drawn' \in 0..MaxRecords, drawn <= drawn',
           origin' \in [Records -> Paths \cup {NoPlace}],
           \A r \in 1..drawn : origin'[r] = origin[r],
           \A r \in 1..drawn' : origin'[r] \in Paths,
           begun.held \subseteq 1..drawn', Shape(call[c])',
           \A r \in begun.held \ doubtful : Holders(r) = {} => Handled(r, call[c])'
    PROVE  IInv'
<1>1. /\ CallsTyped /\ Others(c) /\ Solo(c) /\ OthersOpen(c) /\ At(c, "idle")
      /\ call'[c].pc = begun.pc /\ call'[c].held = begun.held
      /\ call'[c].dirty = begun.dirty /\ requests' \in 0..MaxRequests
  BY EnterWorks DEF IInv
<1>2. /\ at' = at /\ sameDevice' = sameDevice /\ faults' = faults
      /\ tangled' = tangled /\ accident' = accident
  BY DEF Enter, disk
<1>3. call[c].held = {} BY <1>1, IdleFacts DEF IInv, TypeOK, At
<1>4. begun.held \subseteq Records BY DEF Call
<1>5. doubtful' = doubtful \cup {r \in begun.held : Holders(r) # {}} BY DEF Doubt
<1>6. Local(c)
  <2>1. \A r \in Records : Occupied(Slot(r))' <=> Occupied(Slot(r))
    BY <1>2, SlotsSame
  <2>2. \A r \in begun.held \ doubtful' : ~InHand(r)
    BY <1>5 DEF Holders, InHand
  <2> QED BY <1>1, <1>3, <1>5, <2>1, <2>2 DEF Local
<1>7. Own(c) BY <1>1, <1>3, <1>5 DEF Own
<1>8. TableTyped BY <1>1, <1>2, <1>4, <1>5 DEF TableTyped, IInv, TypeOK
<1> QED BY <1>1, <1>2, <1>6, <1>7, <1>8, QuietTrash DEF At, History

LEMMA DeleteStartKeeps ==
    ASSUME IInv, NEW c \in Calls, DeleteStart(c) PROVE IInv'
<1>0. PICK r : r = drawn + 1 OBVIOUS
<1>1. PICK p \in Paths :
        /\ r \in Records
        /\ Take(c, {r}, [Idle EXCEPT !.pc = "transfer", !.src = p, !.dst = Slot(r),
                                     !.then = "insert"])
        /\ drawn' = r /\ origin' = [origin EXCEPT ![r] = p]
        /\ row' = row /\ purged' = purged
  BY <1>0 DEF DeleteStart
<1>2. PICK begun :
        begun = [[Idle EXCEPT !.pc = "transfer", !.src = p, !.dst = Slot(r), !.then = "insert"]
                     EXCEPT !.held = {r}]
  OBVIOUS
<1>3. /\ begun \in Call /\ begun.pc = "transfer" /\ begun.src = p /\ begun.dst = Slot(r)
      /\ begun.then = "insert" /\ begun.held = {r} /\ begun.todo = {} /\ begun.dirty = FALSE
  BY <1>1, <1>2, PlaceFacts DEF Idle, Call, Pc, Policies
<1>4. Enter(c, begun) /\ Doubt({q \in begun.held : Holders(q) # {}})
  BY <1>1, <1>2, <1>3 DEF Take
<1>5. drawn \in Nat /\ drawn' \in 0..MaxRecords /\ drawn <= drawn' /\ r \in 1..drawn'
      /\ r \notin 1..drawn
  BY <1>0, <1>1, FileAssumption DEF IInv, TypeOK, Records
<1>6. /\ origin' \in [Records -> Paths \cup {NoPlace}] /\ origin'[r] = p
      /\ \A q \in 1..drawn : origin'[q] = origin[q]
      /\ \A q \in 1..drawn' : origin'[q] \in Paths
  <2>1. origin' \in [Records -> Paths \cup {NoPlace}] /\ origin'[r] = p
        /\ \A q \in Records \ {r} : origin'[q] = origin[q]
    BY <1>1 DEF IInv, TypeOK
  <2>2. \A q \in 1..drawn' : q \in Records /\ (q = r \/ q \in 1..drawn)
    BY <1>0, <1>1, <1>5, FileAssumption DEF Records
  <2>3. \A q \in 1..drawn : q \in 1..drawn' /\ q # r BY <1>1, <1>5
  <2> QED BY <2>1, <2>2, <2>3 DEF IInv, RowsInv, Drawn
<1>7. /\ call'[c].pc = begun.pc /\ call'[c].then = begun.then
      /\ call'[c].src = begun.src /\ call'[c].dst = begun.dst
      /\ call'[c].held = begun.held /\ call'[c].todo = begun.todo
      /\ at' = at
  BY <1>3, <1>4, EnterWorks DEF IInv, Enter, disk
<1>8. Shape(call[c])'
  BY <1>3, <1>5, <1>6, <1>7 DEF Shape, OfFiles, OfOne, Moving, Toward, Slot
<1>9. Handled(r, call[c])'
  <2>1. row[r] = "none" /\ ~Occupied(Slot(r))
    BY <1>0, <1>1, <1>5 DEF IInv, RowsInv, Drawn
  <2>2. row'[r] = "none" /\ ~Occupied(Slot(r))'
    BY <1>1, <1>7, <2>1, SlotsSame
  <2>3. p # Slot(r) BY <1>1, PlaceFacts
  <2>4. ~Back(call[c], r)' BY <1>3, <1>7, <2>3 DEF Back, Slot
  <2> QED BY <1>3, <1>7, <2>2, <2>4 DEF Handled, Moving
<1>10. begun.held \subseteq 1..drawn' /\ row' = row /\ purged' = purged
  BY <1>1, <1>3, <1>5
<1>11. \A q \in begun.held \ doubtful : Holders(q) = {} => Handled(q, call[c])'
  BY <1>3, <1>9
<1> QED BY <1>3, <1>4, <1>5, <1>6, <1>8, <1>10, <1>11, TakeStep

\* A request takes listed records in hand, and moves nothing yet.
LEMMA TakeListed ==
    ASSUME IInv, NEW c \in Calls, NEW taken \in SUBSET Listed, NEW begun \in Call,
           begun.held = {}, begun.dirty = FALSE, Take(c, taken, begun),
           \/ begun.pc \in {"check", "purge"} /\ begun.todo = {} /\ \E r \in Listed : taken = {r}
           \/ begun.pc = "empty" /\ begun.todo = taken,
           UNCHANGED <<table, purged>>
    PROVE  IInv'
<1>1. PICK b : b = [begun EXCEPT !.held = taken] OBVIOUS
<1>2. b \in Call /\ b.pc = begun.pc /\ b.held = taken /\ b.todo = begun.todo /\ b.dirty = FALSE
  BY <1>1 DEF Call, Listed
<1>3. Enter(c, b) /\ Doubt({r \in b.held : Holders(r) # {}})
  BY <1>1, <1>2 DEF Take
<1>4. row' = row /\ purged' = purged /\ drawn' = drawn /\ origin' = origin
  BY DEF table
<1>5. /\ call'[c].pc = b.pc /\ call'[c].held = b.held /\ call'[c].todo = b.todo /\ at' = at
  BY <1>2, <1>3, EnterWorks DEF IInv, Enter, disk
<1>6. drawn \in 0..MaxRecords /\ \A r \in Listed : r \in 1..drawn
  BY FileAssumption DEF IInv, RowsInv, TypeOK, Drawn, Listed, Records
<1>7. Shape(call[c])'
  BY <1>2, <1>4, <1>5, <1>6 DEF Shape, OfFiles, OfOne, Moving
<1>8. ASSUME NEW r \in b.held \ doubtful, Holders(r) = {} PROVE Handled(r, call[c])'
  <2>1. r \in Records /\ row[r] = "trashed" BY <1>2 DEF Listed
  <2>2. Settled(r) BY <1>8, <2>1, AtRest
  <2>3. row'[r] = "trashed" /\ (Occupied(Slot(r))' \/ r \in purged')
    BY <1>4, <1>5, <2>1, <2>2, SlotsSame DEF Settled
  <2> QED BY <1>2, <1>5, <2>3 DEF Handled, Moving
<1>9. /\ \A r \in 1..drawn' : origin'[r] \in Paths
      /\ \A r \in 1..drawn : origin'[r] = origin[r]
      /\ origin' \in [Records -> Paths \cup {NoPlace}]
  BY <1>4 DEF IInv, RowsInv, Drawn, TypeOK
<1>10. drawn' \in 0..MaxRecords /\ drawn <= drawn' /\ b.held \subseteq 1..drawn'
  BY <1>2, <1>4, <1>6
<1>11. b.pc \in {"transfer", "check", "purge", "empty"} BY <1>2
<1> QED BY <1>2, <1>3, <1>4, <1>7, <1>8, <1>9, <1>10, <1>11, TakeStep

LEMMA RestoreStartKeeps ==
    ASSUME IInv, NEW c \in Calls, RestoreStart(c) PROVE IInv'
<1>1. PICK r \in Listed : Take(c, {r}, [Idle EXCEPT !.pc = "check"]) /\ UNCHANGED <<table, purged>>
  BY DEF RestoreStart, IsLatest
<1>2. PICK b : b = [Idle EXCEPT !.pc = "check"] OBVIOUS
<1>3. b \in Call /\ b.pc = "check" /\ b.held = {} /\ b.todo = {} /\ b.dirty = FALSE
  BY <1>2, IdleFacts DEF Call, Pc
<1> QED BY <1>1, <1>2, <1>3, TakeListed

LEMMA PurgeStartKeeps ==
    ASSUME IInv, NEW c \in Calls, PurgeStart(c) PROVE IInv'
<1>1. PICK r \in Listed : Take(c, {r}, [Idle EXCEPT !.pc = "purge"]) /\ UNCHANGED <<table, purged>>
  BY DEF PurgeStart
<1>2. PICK b : b = [Idle EXCEPT !.pc = "purge"] OBVIOUS
<1>3. b \in Call /\ b.pc = "purge" /\ b.held = {} /\ b.todo = {} /\ b.dirty = FALSE
  BY <1>2, IdleFacts DEF Call, Pc
<1> QED BY <1>1, <1>2, <1>3, TakeListed

LEMMA EmptyStartKeeps ==
    ASSUME IInv, NEW c \in Calls, EmptyStart(c) PROVE IInv'
<1>1. Take(c, Listed, [Idle EXCEPT !.pc = "empty", !.todo = Listed]) /\ UNCHANGED <<table, purged>>
  BY DEF EmptyStart
<1>2. PICK b : b = [Idle EXCEPT !.pc = "empty", !.todo = Listed] OBVIOUS
<1>3. b \in Call /\ b.pc = "empty" /\ b.held = {} /\ b.todo = Listed /\ b.dirty = FALSE
  BY <1>2, IdleFacts DEF Idle, Call, Pc, Policies, Listed
<1> QED BY <1>1, <1>2, <1>3, TakeListed

\* A request that works on one record.
LEMMA OneHeld ==
    ASSUME IInv, NEW c \in Calls, call[c].pc \in OfOne
    PROVE  \E r \in Records :
              /\ call[c].held = {r} /\ Held(c) = r /\ r \in 1..drawn /\ origin[r] \in Paths
              /\ call[c].todo = {} /\ call[c] \in Call
              /\ r \notin doubtful => Handled(r, call[c])
              /\ Moving(call[c]) =>
                    \/ Toward(call[c], r) /\ call[c].then \in {"insert", "idle"}
                    \/ Back(call[c], r) /\ call[c].then \in {"mark", "idle"}
<1>1. Shape(call[c]) /\ call[c] \in Call BY DEF IInv, RowsInv, Shapes, TypeOK
<1>2. PICK r \in 1..drawn : call[c].held = {r} BY <1>1 DEF Shape
<1>3. r \in Records BY <1>1, <1>2 DEF Call
<1>4. origin[r] \in Paths BY <1>2 DEF IInv, RowsInv, Drawn
<1>5. call[c].todo = {} BY <1>1 DEF Shape, OfOne
<1>6. r \notin doubtful => Handled(r, call[c]) BY <1>2 DEF IInv, RowsInv, Handling
<1> QED BY <1>1, <1>2, <1>3, <1>4, <1>5, <1>6, HeldIs DEF Shape

\* A request that has records in hand goes on as k, and the disk stays as it is.
LEMMA GoOn ==
    ASSUME IInv, NEW c \in Calls, call[c].pc \in {"check", "insert", "mark", "erase", "empty"},
           NEW k, Next1(c, k), call' = [call EXCEPT ![c] = k], k.held \subseteq call[c].held,
           k.pc # "body", k.dirty => call[c].dirty,
           UNCHANGED <<at, sameDevice, requests, tangled, accident, origin, drawn, purged>>,
           faults' \in 0..MaxFaults, row' \in [Records -> {"none", "trashed", "restored", "gone"}],
           doubtful \subseteq doubtful', doubtful' \subseteq Records,
           \A r \in Records \ call[c].held :
              row'[r] = row[r] \/ (row[r] = "trashed" /\ r \in doubtful'),
           Shape(k),
           \A r \in call[c].held \ doubtful' :
              IF r \in k.held THEN Handled(r, k)' ELSE Settled(r)'
    PROVE  IInv'
<1>0. ~At(c, "idle") /\ ~At(c, "body") BY DEF At
<1>1. CallsTyped /\ call'[c] = k /\ Others(c) /\ Solo(c) /\ OthersOpen(c)
  BY <1>0, OneWorks DEF IInv, RowsInv
<1>2. Shape(call[c])' BY <1>1 DEF Shape, Moving, Toward, Back, Slot
<1>3. Own(c) BY <1>1 DEF Own, Handled, Moving, Toward, Back, Slot, Occupied
<1>4. Local(c)
  <2>1. \A r \in Records : Occupied(Slot(r))' <=> Occupied(Slot(r)) BY SlotsSame
  <2>2. drawn \in Nat BY FileAssumption DEF IInv, TypeOK
  <2> QED BY <1>1, <2>1, <2>2 DEF Local, IInv, RowsInv, Drawn
<1>5. TableTyped BY DEF TableTyped, IInv, TypeOK
<1> QED BY <1>0, <1>1, <1>2, <1>3, <1>4, <1>5, QuietTrash DEF At, History

LEMMA FaultTyped ==
    ASSUME TypeOK, NoFault \/ SqlFault PROVE faults' \in 0..MaxFaults /\ accident' = accident
BY FileAssumption DEF TypeOK, NoFault, SqlFault

\* A move that a request begins with the one record it has in hand.
LEMMA MoveBegins ==
    ASSUME IInv, NEW c \in Calls, call[c].pc \in OfOne,
           NEW r \in Records, call[c].held = {r}, r \in 1..drawn, origin[r] \in Paths,
           NEW s \in Places, NEW d \in Places, NEW then \in Pc
    PROVE  LET k == MovePath(c, s, d, then)
           IN  /\ Next1(c, k) /\ k.pc = "transfer" /\ k.src = s /\ k.dst = d /\ k.then = then
               /\ k.held = {r} /\ k.dirty = call[c].dirty /\ k.alone = call[c].alone
               /\ s = Slot(r) /\ d = origin[r] /\ then \in {"mark", "idle"} => Shape(k)
               /\ s = origin[r] /\ d = Slot(r) /\ then \in {"insert", "idle"} => Shape(k)
<1> DEFINE k == MovePath(c, s, d, then)
<1>1. call[c] \in Call /\ call[c].todo = {}
  BY DEF IInv, TypeOK, RowsInv, Shapes, Shape, OfOne
<1>2. /\ k \in Call /\ k.pc = "transfer" /\ k.src = s /\ k.dst = d /\ k.then = then
      /\ k.held = {r} /\ k.todo = {} /\ k.dirty = call[c].dirty /\ k.alone = call[c].alone
  BY <1>1 DEF MovePath, Call, Pc
<1> HIDE DEF k
<1>3. s = Slot(r) /\ d = origin[r] /\ then \in {"mark", "idle"} => Shape(k)
  BY <1>2 DEF Shape, OfFiles, OfOne, Moving, Back
<1>4. s = origin[r] /\ d = Slot(r) /\ then \in {"insert", "idle"} => Shape(k)
  BY <1>2 DEF Shape, OfFiles, OfOne, Moving, Toward
<1> QED BY <1>2, <1>3, <1>4 DEF Next1, k

LEMMA DeleteInsertKeeps ==
    ASSUME IInv, NEW c \in Calls, DeleteInsert(c) PROVE IInv'
<1>1. /\ call[c].pc = "insert" /\ (NoFault \/ SqlFault)
      /\ UNCHANGED <<at, sameDevice, requests, tangled, origin, drawn, purged, doubtful>>
  BY DEF DeleteInsert, At, disk
<1>2. PICK r \in Records :
        /\ call[c].held = {r} /\ Held(c) = r /\ r \in 1..drawn /\ origin[r] \in Paths
        /\ r \notin doubtful => Handled(r, call[c])
  BY <1>1, OneHeld DEF OfOne
<1>3. faults' \in 0..MaxFaults /\ accident' = accident BY <1>1, FaultTyped DEF IInv
<1>4. r \notin doubtful => Occupied(Slot(r)) /\ row[r] # "trashed"
  BY <1>1, <1>2 DEF Handled
<1>5. doubtful \subseteq Records /\ row \in [Records -> {"none", "trashed", "restored", "gone"}]
  BY DEF IInv, TypeOK
<1>6. CASE row' = [row EXCEPT ![r] = "trashed"] /\ Answer(c)
  <2>1. r \notin doubtful => Settled(r)'
    BY <1>1, <1>4, <1>5, <1>6, SlotsSame DEF Settled
  <2> QED BY <1>1, <1>2, <1>3, <1>5, <1>6, <2>1, GoOn, IdleGoes, IdleShape, IdleFacts DEF Answer
<1>7. CASE call' = [call EXCEPT ![c] = UndoDelete(c)] /\ row' = row
  <2>1. PICK k : k = MovePath(c, Slot(r), origin[r], "idle") OBVIOUS
  <2>2. /\ Next1(c, k) /\ k.pc = "transfer" /\ k.src = Slot(r) /\ k.dst = origin[r]
        /\ k.then = "idle" /\ k.held = {r} /\ k.dirty = call[c].dirty /\ Shape(k)
    BY <1>1, <1>2, <2>1, MoveBegins, PlaceFacts DEF OfOne, Pc
  <2>3. call' = [call EXCEPT ![c] = k] BY <1>2, <1>7, <2>1 DEF UndoDelete
  <2>4. r \notin doubtful => Handled(r, k)'
    <3>1. origin[r] # Slot(r) /\ origin' = origin /\ row' = row BY <1>1, <1>2, <1>7, PlaceFacts
    <3>2. ~Toward(k, r)' BY <2>2, <3>1 DEF Toward, Slot
    <3> QED BY <1>4, <2>2, <3>1, <3>2 DEF Handled, Moving
  <2> QED BY <1>1, <1>2, <1>3, <1>5, <1>7, <2>2, <2>3, <2>4, GoOn
<1> QED BY <1>2, <1>6, <1>7 DEF DeleteInsert

LEMMA RestoreCheckKeeps ==
    ASSUME IInv, NEW c \in Calls, RestoreCheck(c) PROVE IInv'
<1>1. /\ call[c].pc = "check"
      /\ UNCHANGED <<at, sameDevice, requests, faults, tangled, accident,
                     row, origin, drawn, purged, doubtful>>
  BY DEF RestoreCheck, At, disk, counts, trash
<1>2. PICK r \in Records :
        /\ call[c].held = {r} /\ Held(c) = r /\ r \in 1..drawn /\ origin[r] \in Paths
        /\ r \notin doubtful => Handled(r, call[c])
  BY <1>1, OneHeld DEF OfOne
<1>3. r \notin doubtful => row[r] = "trashed" /\ (Occupied(Slot(r)) \/ r \in purged)
  BY <1>1, <1>2 DEF Handled
<1>4. /\ doubtful \subseteq Records /\ row \in [Records -> {"none", "trashed", "restored", "gone"}]
      /\ faults \in 0..MaxFaults
  BY DEF IInv, TypeOK
<1>5. CASE Answer(c)
  <2>1. r \notin doubtful => Settled(r)' BY <1>1, <1>3, SlotsSame DEF Settled
  <2> QED BY <1>1, <1>2, <1>4, <1>5, <2>1, GoOn, IdleGoes, IdleShape, IdleFacts DEF Answer
<1>6. CASE call' = [call EXCEPT ![c] = MovePath(c, Slot(r), origin[r], "mark")]
  <2>1. PICK k : k = MovePath(c, Slot(r), origin[r], "mark") OBVIOUS
  <2>2. /\ Next1(c, k) /\ k.pc = "transfer" /\ k.src = Slot(r) /\ k.dst = origin[r]
        /\ k.then = "mark" /\ k.held = {r} /\ k.dirty = call[c].dirty /\ Shape(k)
    BY <1>1, <1>2, <2>1, MoveBegins, PlaceFacts DEF OfOne, Pc
  <2>3. r \notin doubtful => Handled(r, k)'
    BY <1>1, <1>3, <2>2, SlotsSame DEF Handled, Moving
  <2> QED BY <1>1, <1>2, <1>4, <1>6, <2>1, <2>2, <2>3, GoOn
<1> QED BY <1>2, <1>5, <1>6 DEF RestoreCheck

LEMMA RestoreMarkKeeps ==
    ASSUME IInv, NEW c \in Calls, RestoreMark(c) PROVE IInv'
<1>1. /\ call[c].pc = "mark" /\ (NoFault \/ SqlFault)
      /\ UNCHANGED <<at, sameDevice, requests, tangled, origin, drawn, purged, doubtful>>
  BY DEF RestoreMark, At, disk
<1>2. PICK r \in Records :
        /\ call[c].held = {r} /\ Held(c) = r /\ r \in 1..drawn /\ origin[r] \in Paths
        /\ r \notin doubtful => Handled(r, call[c])
  BY <1>1, OneHeld DEF OfOne
<1>3. faults' \in 0..MaxFaults /\ accident' = accident BY <1>1, FaultTyped DEF IInv
<1>4. r \notin doubtful =>
        row[r] = "trashed" /\ ~Occupied(Slot(r)) /\ (call[c].alone => Occupied(origin[r]))
  BY <1>1, <1>2 DEF Handled
<1>5. doubtful \subseteq Records /\ row \in [Records -> {"none", "trashed", "restored", "gone"}]
  BY DEF IInv, TypeOK
<1>6. CASE row' = [row EXCEPT ![r] = "restored"] /\ Answer(c)
  <2>1. r \notin doubtful => Settled(r)'
    BY <1>1, <1>4, <1>5, <1>6, SlotsSame DEF Settled
  <2> QED BY <1>1, <1>2, <1>3, <1>5, <1>6, <2>1, GoOn, IdleGoes, IdleShape, IdleFacts DEF Answer
<1>7. CASE call' = [call EXCEPT ![c] = UndoRestore(c)] /\ row' = row
  <2>1. PICK k : k = MovePath(c, origin[r], Slot(r), "idle") OBVIOUS
  <2>2. /\ Next1(c, k) /\ k.pc = "transfer" /\ k.src = origin[r] /\ k.dst = Slot(r)
        /\ k.then = "idle" /\ k.held = {r} /\ k.dirty = call[c].dirty /\ Shape(k)
        /\ k.alone = call[c].alone
    BY <1>1, <1>2, <2>1, MoveBegins, PlaceFacts DEF OfOne, Pc
  <2>3. call' = [call EXCEPT ![c] = k] BY <1>2, <1>7, <2>1 DEF UndoRestore
  <2>4. r \notin doubtful => Handled(r, k)'
    <3>1. origin[r] # Slot(r) /\ origin' = origin /\ row' = row /\ at' = at
      BY <1>1, <1>2, <1>7, PlaceFacts
    <3>2. ~Back(k, r)' BY <2>2, <3>1 DEF Back, Slot
    <3> QED BY <1>4, <2>2, <3>1, <3>2 DEF Handled, Moving, Occupied
  <2> QED BY <1>1, <1>2, <1>3, <1>5, <1>7, <2>2, <2>3, <2>4, GoOn
<1> QED BY <1>2, <1>6, <1>7 DEF RestoreMark

LEMMA PurgeEraseKeeps ==
    ASSUME IInv, NEW c \in Calls, PurgeErase(c) PROVE IInv'
<1>1. /\ call[c].pc = "erase" /\ (NoFault \/ SqlFault) /\ Answer(c)
      /\ UNCHANGED <<at, sameDevice, requests, tangled, origin, drawn, purged, doubtful>>
  BY DEF PurgeErase, At, disk
<1>2. PICK r \in Records :
        /\ call[c].held = {r} /\ Held(c) = r /\ r \in 1..drawn
        /\ r \notin doubtful => Handled(r, call[c])
  BY <1>1, OneHeld DEF OfOne
<1>3. faults' \in 0..MaxFaults /\ accident' = accident BY <1>1, FaultTyped DEF IInv
<1>4. r \notin doubtful => ~Occupied(Slot(r)) /\ r \in purged
  BY <1>1, <1>2 DEF Handled
<1>5. doubtful \subseteq Records /\ row \in [Records -> {"none", "trashed", "restored", "gone"}]
  BY DEF IInv, TypeOK
<1>6. row' = [row EXCEPT ![r] = "gone"] \/ row' = row BY <1>2 DEF PurgeErase
<1>7. r \notin doubtful => Settled(r)'
  BY <1>1, <1>4, <1>5, <1>6, SlotsSame DEF Settled
<1> QED BY <1>1, <1>2, <1>3, <1>5, <1>6, <1>7, GoOn, IdleGoes, IdleShape, IdleFacts DEF Answer

LEMMA EmptySweepKeeps ==
    ASSUME IInv, NEW c \in Calls, EmptySweep(c) PROVE IInv'
<1>1. /\ call[c].pc = "empty" /\ call[c].todo = {} /\ (NoFault \/ SqlFault) /\ Answer(c)
      /\ UNCHANGED <<at, sameDevice, requests, tangled, origin, drawn, purged>>
  BY DEF EmptySweep, At, disk
<1>2. \A r \in call[c].held \ doubtful :
        r \in Records /\ row[r] = "trashed" /\ ~Occupied(Slot(r)) /\ r \in purged
  BY <1>1 DEF IInv, RowsInv, Handling, Handled, TypeOK, Call
<1>3. faults' \in 0..MaxFaults /\ accident' = accident BY <1>1, FaultTyped DEF IInv
<1>4. doubtful \subseteq Records /\ row \in [Records -> {"none", "trashed", "restored", "gone"}]
  BY DEF IInv, TypeOK
<1>5. /\ doubtful \subseteq doubtful' /\ doubtful' \subseteq Records
      /\ row' \in [Records -> {"none", "trashed", "restored", "gone"}]
      /\ \A r \in Records \ call[c].held :
            row'[r] = row[r] \/ (row[r] = "trashed" /\ r \in doubtful')
  BY <1>4 DEF EmptySweep, Swept, Listed, Doubt
<1>6. \A r \in call[c].held \ doubtful' : Settled(r)'
  BY <1>1, <1>2, <1>5, SlotsSame DEF Settled
<1> QED BY <1>1, <1>3, <1>5, <1>6, GoOn, IdleGoes, IdleShape, IdleFacts DEF Answer

\* A request that moves or removes the data of a record in hand goes on as k.
LEMMA DiskGoOn ==
    ASSUME IInv, NEW c \in Calls, NEW k, CallsTyped, call'[c] = k, Others(c), Solo(c),
           k.held \subseteq call[c].held, k.pc # "body", k.dirty => call[c].dirty, History,
           UNCHANGED <<sameDevice, requests, row, origin, drawn>>,
           purged \subseteq purged', purged' \subseteq Records,
           doubtful \subseteq doubtful', doubtful' \subseteq Records,
           faults' \in 0..MaxFaults, tangled' \in BOOLEAN, accident' \in BOOLEAN,
           at' \in [Places -> Contents \cup {NoFile}], Opened' /\ PartialExplained',
           \A r \in Records \ call[c].held : at'[Slot(r)] = at[Slot(r)],
           Shape(k),
           \A r \in call[c].held \ doubtful' :
              IF r \in k.held THEN Handled(r, k)' ELSE Settled(r)'
    PROVE  IInv'
<1>1. Shape(call[c])' BY DEF Shape, Moving, Toward, Back, Slot
<1>2. Own(c) BY DEF Own, Handled, Moving, Toward, Back, Slot, Occupied
<1>3. Local(c)
  <2>1. \A r \in Records : r \notin call[c].held => (Occupied(Slot(r))' <=> Occupied(Slot(r)))
    BY DEF Occupied, Slot
  <2>2. drawn \in Nat BY FileAssumption DEF IInv, TypeOK
  <2> QED BY <2>1, <2>2 DEF Local, IInv, RowsInv, Drawn
<1>4. TableTyped BY DEF TableTyped, IInv, TypeOK
<1>5. ~At(c, "body")' BY DEF At
<1> QED BY <1>1, <1>2, <1>3, <1>4, <1>5, TrashStep

\* The record of a move, and its ends.
LEMMA MoveOf ==
    ASSUME IInv, NEW c \in Calls, Moving(call[c])
    PROVE  \E r \in Records :
              /\ call[c].held = {r} /\ origin[r] \in Paths /\ origin[r] # Slot(r)
              /\ call[c] \in Call
              /\ call[c].src \in Places /\ call[c].dst \in Places /\ call[c].src # call[c].dst
              /\ \A q \in Records \ {r} : Slot(q) # call[c].src /\ Slot(q) # call[c].dst
              /\ r \notin doubtful => Handled(r, call[c])
              /\ \/ Toward(call[c], r) /\ ~Back(call[c], r) /\ call[c].then \in {"insert", "idle"}
                 \/ Back(call[c], r) /\ ~Toward(call[c], r) /\ call[c].then \in {"mark", "idle"}
<1>1. PICK r \in Records :
        /\ call[c].held = {r} /\ origin[r] \in Paths /\ call[c] \in Call
        /\ r \notin doubtful => Handled(r, call[c])
        /\ \/ Toward(call[c], r) /\ call[c].then \in {"insert", "idle"}
           \/ Back(call[c], r) /\ call[c].then \in {"mark", "idle"}
  BY OneHeld DEF Moving, OfOne
<1>2. Slot(r) \in Places /\ origin[r] \in Places /\ origin[r] # Slot(r)
      /\ \A q \in Records \ {r} : Slot(q) # Slot(r) /\ Slot(q) # origin[r]
  BY <1>1, PlaceFacts
<1> QED BY <1>1, <1>2 DEF Toward, Back

\* What a move goes on to, once it is done.
LEMMA ContinueGoes ==
    ASSUME IInv, NEW c \in Calls, Moving(call[c])
    PROVE  LET k == Continue(c)
           IN  /\ Next1(c, k) /\ Shape(k) /\ k.held \subseteq call[c].held /\ k.pc # "body"
               /\ k.dirty => call[c].dirty
               /\ k.pc = call[c].then
               /\ call[c].then = "idle" => k.held = {}
               /\ call[c].then # "idle" => k.held = call[c].held /\ k.alone = call[c].alone
<1> DEFINE k == Continue(c)
<1>1. call[c] \in Call /\ Shape(call[c]) BY DEF IInv, TypeOK, RowsInv, Shapes
<1>2. call[c].then \in {"insert", "mark", "idle"} BY MoveOf
<1>3. CASE call[c].then = "idle"
  <2>1. k = Idle BY <1>3 DEF Continue
  <2> QED BY <1>3, <2>1, IdleGoes, IdleShape, IdleFacts
<1>4. CASE call[c].then # "idle"
  <2>1. k = [call[c] EXCEPT !.pc = call[c].then] BY <1>4 DEF Continue
  <2>2. /\ k \in Call /\ k.pc = call[c].then /\ k.held = call[c].held /\ k.todo = call[c].todo
        /\ k.dirty = call[c].dirty /\ k.alone = call[c].alone
    BY <1>1, <1>2, <2>1 DEF Call
  <2>3. Shape(k)
    BY <1>1, <1>2, <1>4, <2>2 DEF Shape, Moving, OfFiles, OfOne
  <2> HIDE DEF k
  <2>4. Next1(c, k) BY <1>4, <2>2 DEF Next1
  <2>5. k.pc # "body" BY <1>2, <2>2
  <2> QED BY <1>4, <2>2, <2>3, <2>4, <2>5 DEF k
<1> QED BY <1>3, <1>4

\* What is true of the record of a move, once the file is at its end.
LEMMA MoveEnds ==
    ASSUME IInv, NEW c \in Calls, Moving(call[c]), NEW r \in Records \ doubtful,
           call[c].held = {r}, UNCHANGED <<row, origin, purged>>, NEW k, k = Continue(c),
           at'[call[c].src] = NoFile,
           call[c].pc = "transfer" => at'[call[c].dst] # NoFile,
           call[c].pc = "unlink" => at'[call[c].dst] = at[call[c].dst]
    PROVE  IF r \in k.held THEN Handled(r, k)' ELSE Settled(r)'
<1>1. /\ origin[r] # Slot(r) /\ Handled(r, call[c])
      /\ \/ Toward(call[c], r) /\ ~Back(call[c], r) /\ call[c].then \in {"insert", "idle"}
         \/ Back(call[c], r) /\ ~Toward(call[c], r) /\ call[c].then \in {"mark", "idle"}
  BY MoveOf
<1>2. /\ k.pc = call[c].then
      /\ call[c].then = "idle" => k.held = {}
      /\ call[c].then # "idle" => k.held = {r} /\ k.alone = call[c].alone
  BY ContinueGoes
<1>3. CASE Toward(call[c], r)
  <2>1. at'[Slot(r)] # NoFile BY <1>1, <1>3 DEF Toward, Handled, Moving, Occupied
  <2>2. CASE call[c].then = "insert"
    <3>1. row'[r] # "trashed" BY <1>1, <1>3, <2>2 DEF Handled
    <3>2. r \in k.held /\ k.pc = "insert" BY <1>2, <2>2
    <3>3. Handled(r, k)' BY <2>1, <3>1, <3>2 DEF Handled, Moving, Occupied, Slot
    <3> QED BY <3>2, <3>3
  <2>3. CASE call[c].then = "idle"
    <3>1. row'[r] = "trashed" BY <1>1, <1>3, <2>3 DEF Handled
    <3>2. Settled(r)' BY <2>1, <3>1 DEF Settled, Occupied, Slot
    <3> QED BY <1>2, <2>3, <3>2
  <2> QED BY <1>1, <1>3, <2>2, <2>3
<1>4. CASE Back(call[c], r)
  <2>1. at'[Slot(r)] = NoFile BY <1>4 DEF Back
  <2>2. CASE call[c].then = "mark"
    <3>1. row'[r] = "trashed" BY <1>1, <1>4, <2>2 DEF Handled
    <3>2. r \in k.held /\ k.pc = "mark" /\ k.alone = call[c].alone BY <1>2, <2>2
    <3>3. call[c].alone => at'[origin[r]] # NoFile
      BY <1>1, <1>4 DEF Back, Handled, Occupied, Moving
    <3>4. Handled(r, k)'
      BY <2>1, <3>1, <3>2, <3>3 DEF Handled, Moving, Occupied, Slot
    <3> QED BY <3>2, <3>4
  <2>3. CASE call[c].then = "idle"
    <3>1. row'[r] # "trashed" BY <1>1, <1>4, <2>3 DEF Handled
    <3>2. Settled(r)' BY <2>1, <3>1 DEF Settled, Occupied, Slot
    <3> QED BY <1>2, <2>3, <3>2
  <2> QED BY <1>1, <1>4, <2>2, <2>3
<1> QED BY <1>1, <1>3, <1>4

\* A request answers while its record is doubtful, or settled.
LEMMA GivesUp ==
    ASSUME IInv, NEW c \in Calls, Answer(c),
           call[c].pc \in {"transfer", "unlink", "purge"}, History,
           UNCHANGED <<sameDevice, requests, row, origin, drawn, purged>>,
           doubtful \subseteq doubtful', doubtful' \subseteq Records,
           faults' \in 0..MaxFaults, tangled' \in BOOLEAN, accident' \in BOOLEAN,
           \/ at' = at
           \/ /\ Moving(call[c]) /\ accident'
              /\ at' = [at EXCEPT ![call[c].dst] = Partial],
           \A r \in call[c].held \ doubtful' : Settled(r)'
    PROVE  IInv'
<1>1. ~At(c, "idle") /\ ~At(c, "body") BY DEF At
<1>2. CallsTyped /\ call'[c] = Idle /\ Others(c) /\ Solo(c) /\ OthersOpen(c)
  BY <1>1, OneWorks, IdleGoes DEF IInv, RowsInv, Answer
<1>3. ~At(c, "body")' /\ purged \subseteq purged' /\ purged' \subseteq Records
  BY <1>2, IdleFacts DEF At, IInv, TypeOK
<1>4. CASE at' = at
  <2>1. Opened' /\ PartialExplained' BY <1>1, <1>2, <1>3, <1>4, QuietDisk
  <2>2. at' \in [Places -> Contents \cup {NoFile}] BY <1>4 DEF IInv, TypeOK
  <2> QED BY <1>2, <1>3, <1>4, <2>1, <2>2, DiskGoOn, IdleShape, IdleFacts
<1>5. CASE /\ Moving(call[c]) /\ accident'
           /\ at' = [at EXCEPT ![call[c].dst] = Partial]
  <2>1. /\ call[c].dst \in Places
        /\ \A q \in Records \ call[c].held : Slot(q) \in Places /\ Slot(q) # call[c].dst
    BY <1>5, MoveOf, PlaceFacts
  <2>2. at' \in [Places -> Contents \cup {NoFile}]
        /\ \A p \in Places : at'[p] = IF p = call[c].dst THEN Partial ELSE at[p]
    BY <1>5, <2>1, ContentFacts DEF IInv, TypeOK
  <2>3. Opened' /\ PartialExplained'
    BY <1>1, <1>2, <1>3, <1>5, <2>2, ContentFacts, GrowDisk
  <2>4. \A q \in Records \ call[c].held : at'[Slot(q)] = at[Slot(q)] BY <2>1, <2>2
  <2> QED BY <1>2, <1>3, <2>2, <2>3, <2>4, DiskGoOn, IdleShape, IdleFacts
<1> QED BY <1>4, <1>5

\* The file moves, and its source is gone.
LEMMA MoveDone ==
    ASSUME IInv, NEW c \in Calls, Moving(call[c]), NEW d \in Places \cup {NoPlace},
           Followed(c, Continue(c), call[c].src, d), History, NoFault,
           UNCHANGED <<sameDevice, requests, row, origin, drawn, purged>>,
           tangled' \in BOOLEAN, doubtful \subseteq doubtful', doubtful' \subseteq Records,
           \/ /\ call[c].pc = "transfer" /\ d = call[c].dst /\ Occupied(call[c].src)
              /\ at' = Renamed(call[c].src, d)
           \/ call[c].pc = "unlink" /\ d = NoPlace /\ at' = Removed(call[c].src)
    PROVE  IInv'
<1>1. PICK s, k : s = call[c].src /\ k = Continue(c) OBVIOUS
<1>2. PICK r \in Records :
        /\ call[c].held = {r} /\ call[c].src \in Places /\ call[c].dst \in Places
        /\ call[c].src # call[c].dst
        /\ \A q \in Records \ {r} : Slot(q) # call[c].src /\ Slot(q) # call[c].dst
  BY MoveOf
<1>3. /\ Next1(c, k) /\ Shape(k) /\ k.held \subseteq call[c].held /\ k.pc # "body"
      /\ k.dirty => call[c].dirty
  BY <1>1, ContinueGoes
<1>4. ~At(c, "idle") /\ ~At(c, "body") BY DEF At, Moving
<1>5. /\ CallsTyped /\ call'[c] = k /\ Others(c) /\ Solo(c)
      /\ \A e \in Calls \ {c} : At(e, "body") =>
            /\ call'[e].src = Shift(call[e].src, s, d)
            /\ call'[e].dst = Shift(call[e].dst, s, d)
  BY <1>1, <1>3, <1>4, FollowWorks DEF IInv, RowsInv
<1>6. /\ at' \in [Places -> Contents \cup {NoFile}]
      /\ \A p \in Places : at'[p] = IF p = s THEN NoFile ELSE IF p = d THEN at[s] ELSE at[p]
      /\ s \in Places /\ s # d /\ (d \in Places => Occupied(s))
  BY <1>1, <1>2, PlaceFacts DEF Renamed, Removed, IInv, TypeOK
<1>7. Opened' /\ PartialExplained'
  <2>1. ~At(c, "body")' BY <1>3, <1>5 DEF At
  <2> QED BY <1>4, <1>5, <1>6, <2>1, ShiftDisk
<1>8. \A q \in Records \ call[c].held : at'[Slot(q)] = at[Slot(q)]
  <2>1. d = call[c].dst \/ d = NoPlace OBVIOUS
  <2> QED BY <1>1, <1>2, <1>6, <2>1, PlaceFacts
<1>9. \A q \in call[c].held \ doubtful' : IF q \in k.held THEN Handled(q, k)' ELSE Settled(q)'
  <2> SUFFICES ASSUME r \notin doubtful
               PROVE  IF r \in k.held THEN Handled(r, k)' ELSE Settled(r)'
    BY <1>2
  <2>1. at'[call[c].src] = NoFile BY <1>1, <1>6
  <2>2. call[c].pc = "transfer" => at'[call[c].dst] # NoFile
    BY <1>1, <1>2, <1>6 DEF Occupied
  <2>3. call[c].pc = "unlink" => at'[call[c].dst] = at[call[c].dst]
    BY <1>1, <1>2, <1>6, PlaceFacts
  <2> QED BY <1>1, <1>2, <2>1, <2>2, <2>3, MoveEnds
<1>10. /\ faults' \in 0..MaxFaults /\ accident' \in BOOLEAN
       /\ purged \subseteq purged' /\ purged' \subseteq Records
  BY DEF NoFault, IInv, TypeOK
<1> QED BY <1>3, <1>5, <1>6, <1>7, <1>8, <1>9, <1>10, DiskGoOn

\* Across devices the file is at both ends, before its source is removed.
LEMMA CopiedOver ==
    ASSUME IInv, NEW c \in Calls, At(c, "transfer"), Occupied(call[c].src), ~sameDevice,
           at' = [at EXCEPT ![call[c].dst] = at[call[c].src]], GoTo(c, "unlink"), NoFault,
           History, Writing(call[c].src) # {} => tangled', tangled' \in BOOLEAN,
           doubtful \subseteq doubtful', doubtful' \subseteq Records,
           UNCHANGED <<sameDevice, requests, row, origin, drawn, purged>>
    PROVE  IInv'
<1>0. Moving(call[c]) BY DEF At, Moving
<1>1. PICK k : k = [call[c] EXCEPT !.pc = "unlink"] OBVIOUS
<1>2. PICK r \in Records :
        /\ call[c].held = {r} /\ origin[r] # Slot(r) /\ call[c] \in Call
        /\ call[c].src \in Places /\ call[c].dst \in Places /\ call[c].src # call[c].dst
        /\ \A q \in Records \ {r} : Slot(q) # call[c].src /\ Slot(q) # call[c].dst
        /\ r \notin doubtful => Handled(r, call[c])
        /\ \/ Toward(call[c], r) /\ ~Back(call[c], r) /\ call[c].then \in {"insert", "idle"}
           \/ Back(call[c], r) /\ ~Toward(call[c], r) /\ call[c].then \in {"mark", "idle"}
  BY <1>0, MoveOf
<1>3. /\ k \in Call /\ k.pc = "unlink" /\ k.then = call[c].then /\ k.src = call[c].src
      /\ k.dst = call[c].dst /\ k.held = {r} /\ k.todo = call[c].todo
      /\ k.dirty = call[c].dirty /\ k.alone = call[c].alone
  BY <1>1, <1>2 DEF Call, Pc
<1>4. ~At(c, "idle") /\ ~At(c, "body") /\ Next1(c, k) BY <1>3 DEF At, Next1
<1>5. call' = [call EXCEPT ![c] = k] BY <1>1 DEF GoTo
<1>6. CallsTyped /\ call'[c] = k /\ Others(c) /\ Solo(c) /\ OthersOpen(c)
  BY <1>4, <1>5, OneWorks DEF IInv, RowsInv
<1>7. at[call[c].src] \in Contents BY <1>2, OccupiedIs DEF IInv
<1>8. /\ at' \in [Places -> Contents \cup {NoFile}]
      /\ \A p \in Places : at'[p] = IF p = call[c].dst THEN at[call[c].src] ELSE at[p]
  BY <1>2, <1>7 DEF IInv, TypeOK
<1>9. at[call[c].src] = Partial => tangled' \/ accident'
  BY <1>2 DEF IInv, PartialExplained, History
<1>10. ~At(c, "body")' BY <1>3, <1>6 DEF At
<1>11. Opened' /\ PartialExplained'
  BY <1>4, <1>6, <1>7, <1>8, <1>9, <1>10, GrowDisk
<1>12. Shape(k)
  <2>1. Shape(call[c]) BY DEF IInv, RowsInv, Shapes
  <2>2. r \in 1..drawn /\ k.todo = {} BY <1>0, <1>2, <1>3, <2>1 DEF Shape, Moving, OfOne
  <2>3. \/ Toward(k, r) /\ k.then \in {"insert", "idle"}
        \/ Back(k, r) /\ k.then \in {"mark", "idle"}
    BY <1>2, <1>3 DEF Toward, Back
  <2> QED BY <1>3, <2>2, <2>3 DEF Shape, Moving, OfFiles, OfOne
<1>13. r \notin doubtful => Handled(r, k)'
  <2> SUFFICES ASSUME r \notin doubtful PROVE Handled(r, k)' OBVIOUS
  <2>1. at'[call[c].dst] # NoFile /\ at'[call[c].src] = at[call[c].src]
    BY <1>2, <1>7, <1>8, ContentFacts
  <2>2. CASE Toward(call[c], r)
    <3>1. at'[Slot(r)] # NoFile BY <2>1, <2>2 DEF Toward
    <3>2. Toward(k, r)' /\ ~Back(k, r)' BY <1>2, <1>3, <2>2 DEF Toward, Back, Slot
    <3>3. /\ call[c].then = "insert" => row'[r] # "trashed"
          /\ call[c].then = "idle" => row'[r] = "trashed"
      BY <1>0, <1>2, <2>2 DEF Handled
    <3>4. call[c].then \in {"insert", "idle"} BY <1>2, <2>2
    <3> QED BY <1>3, <3>1, <3>2, <3>3, <3>4 DEF Handled, Moving, Occupied, Slot
  <2>3. CASE Back(call[c], r)
    <3>1. at'[Slot(r)] = at[Slot(r)] /\ at'[origin[r]] # NoFile BY <2>1, <2>3 DEF Back
    <3>2. Back(k, r)' /\ ~Toward(k, r)' BY <1>2, <1>3, <2>3 DEF Toward, Back, Slot
    <3>3. /\ call[c].then = "idle" => row'[r] # "trashed"
          /\ call[c].then = "mark" =>
                row'[r] = "trashed" /\ (at[Slot(r)] # NoFile \/ r \in purged)
      BY <1>0, <1>2, <2>3 DEF Handled, Occupied
    <3>4. call[c].then \in {"mark", "idle"} BY <1>2, <2>3
    <3> QED BY <1>3, <3>1, <3>2, <3>3, <3>4 DEF Handled, Moving, Occupied, Slot
  <2> QED BY <1>2, <2>2, <2>3
<1>14. /\ faults' \in 0..MaxFaults /\ accident' \in BOOLEAN
       /\ purged \subseteq purged' /\ purged' \subseteq Records
       /\ \A q \in Records \ call[c].held : at'[Slot(q)] = at[Slot(q)]
  BY <1>2, <1>8, PlaceFacts DEF NoFault, IInv, TypeOK
<1>15. \A q \in call[c].held \ doubtful' : IF q \in k.held THEN Handled(q, k)' ELSE Settled(q)'
  BY <1>2, <1>3, <1>13
<1>16. k.held \subseteq call[c].held /\ k.pc # "body" BY <1>2, <1>3
<1> QED BY <1>3, <1>6, <1>8, <1>11, <1>12, <1>14, <1>15, <1>16, DiskGoOn

LEMMA TransferKeeps ==
    ASSUME IInv, NEW c \in Calls, Transfer(c) PROVE IInv'
<1> DEFINE s == call[c].src
           d == call[c].dst
<1>0. Moving(call[c]) /\ call[c].pc = "transfer" /\ At(c, "transfer")
  BY DEF Transfer, Moving, At
<1>1. PICK r \in Records :
        /\ call[c].held = {r} /\ d \in Places
        /\ r \notin doubtful => Handled(r, call[c])
        /\ \/ Toward(call[c], r) /\ ~Back(call[c], r) /\ call[c].then \in {"insert", "idle"}
           \/ Back(call[c], r) /\ ~Toward(call[c], r) /\ call[c].then \in {"mark", "idle"}
  BY <1>0, MoveOf
<1>2. UNCHANGED <<sameDevice, requests, row, origin, drawn, purged>>
  BY DEF Transfer, table
<1>3. /\ tangled' \in BOOLEAN /\ (tangled => tangled')
      /\ ~sameDevice /\ Writing(s) # {} => tangled'
  <2>1. PICK b \in BOOLEAN : b = (~sameDevice /\ Writing(s) \cup Writing(d) # {}) OBVIOUS
  <2>2. tangled' = (tangled \/ b) BY <2>1 DEF Transfer
  <2> QED BY <2>1, <2>2 DEF IInv, TypeOK
<1>4. /\ doubtful \subseteq doubtful' /\ doubtful' \subseteq Records
      /\ r \notin doubtful' => r \notin doubtful /\ faults' = faults /\ (Occupied(s) \/ call[c].alone)
  BY <1>1 DEF Transfer, IInv, TypeOK
<1>5. CASE ~Occupied(s) /\ Answer(c) /\ UNCHANGED at /\ NoFault
  <2>1. r \notin doubtful' => Settled(r)'
    <3> SUFFICES ASSUME r \notin doubtful' PROVE Settled(r)' OBVIOUS
    <3>1. Handled(r, call[c]) /\ call[c].alone BY <1>1, <1>4, <1>5
    <3>2. at' = at /\ row' = row /\ purged' = purged BY <1>2, <1>5
    <3>3. CASE Toward(call[c], r)
      <4>1. call[c].then = "insert" BY <1>0, <1>1, <1>5, <3>1, <3>3 DEF Handled, Toward
      <4>2. ~Occupied(Slot(r)) /\ row[r] # "trashed" BY <1>0, <3>1, <4>1 DEF Handled
      <4> QED BY <3>2, <4>2, SlotsSame DEF Settled
    <3>4. CASE Back(call[c], r)
      <4>1. ~Occupied(Slot(r)) BY <1>5, <3>4 DEF Back
      <4>2. row[r] = "trashed" => r \in purged
        BY <1>0, <1>1, <3>1, <3>4, <4>1 DEF Handled
      <4> QED BY <3>2, <4>1, <4>2, SlotsSame DEF Settled
    <3> QED BY <1>1, <3>3, <3>4
  <2>2. faults' \in 0..MaxFaults /\ accident' \in BOOLEAN /\ History
    BY <1>3, <1>5 DEF NoFault, IInv, TypeOK, History
  <2> QED BY <1>0, <1>1, <1>2, <1>3, <1>4, <1>5, <2>1, <2>2, GivesUp
<1>6. CASE /\ Occupied(s) /\ sameDevice /\ at' = Renamed(s, d)
           /\ call' = [Follow(call, s, d) EXCEPT ![c] = Continue(c)] /\ NoFault
  <2>1. Followed(c, Continue(c), s, d) BY <1>6 DEF Followed
  <2>2. History BY <1>3, <1>6 DEF NoFault, History
  <2> QED BY <1>0, <1>1, <1>2, <1>3, <1>4, <1>6, <2>1, <2>2, MoveDone
<1>7. CASE /\ Occupied(s) /\ ~sameDevice /\ at' = [at EXCEPT ![d] = at[s]]
           /\ GoTo(c, "unlink") /\ NoFault
  <2>1. History BY <1>3, <1>7 DEF NoFault, History
  <2> QED BY <1>0, <1>1, <1>2, <1>3, <1>4, <1>7, <2>1, CopiedOver
<1>8. CASE /\ Occupied(s) /\ Fault
           /\ at' = IF sameDevice THEN at ELSE [at EXCEPT ![d] = Partial]
           /\ Answer(c)
  <2>1. /\ faults' \in 0..MaxFaults /\ accident' = TRUE /\ faults' # faults /\ History
    BY <1>3, <1>8, FileAssumption DEF Fault, IInv, TypeOK, History
  <2>2. r \in doubtful' BY <1>4, <2>1
  <2> QED BY <1>0, <1>1, <1>2, <1>3, <1>4, <1>8, <2>1, <2>2, GivesUp
<1> QED BY <1>5, <1>6, <1>7, <1>8 DEF Transfer

LEMMA UnlinkKeeps ==
    ASSUME IInv, NEW c \in Calls, Unlink(c) PROVE IInv'
<1>1. /\ Moving(call[c]) /\ call[c].pc = "unlink"
      /\ UNCHANGED <<sameDevice, requests, tangled, row, origin, drawn, purged>>
  BY DEF Unlink, Moving, At, table
<1>2. CASE /\ at' = Removed(call[c].src)
           /\ call' = [Follow(call, call[c].src, NoPlace) EXCEPT ![c] = Continue(c)]
           /\ NoFault /\ UNCHANGED doubtful
  <2>1. Followed(c, Continue(c), call[c].src, NoPlace) BY <1>2 DEF Followed
  <2>2. History BY <1>1, <1>2 DEF NoFault, History
  <2>3. doubtful' \subseteq Records /\ tangled' \in BOOLEAN BY <1>1, <1>2 DEF IInv, TypeOK
  <2> QED BY <1>1, <1>2, <2>1, <2>2, <2>3, MoveDone
<1>3. CASE Fault /\ Answer(c) /\ Doubt(call[c].held) /\ UNCHANGED at
  <2>1. faults' \in 0..MaxFaults /\ accident' = TRUE /\ History
    BY <1>1, <1>3, FileAssumption DEF Fault, IInv, TypeOK, History
  <2>2. doubtful' = doubtful \cup call[c].held BY <1>3 DEF Doubt
  <2>3. doubtful' \subseteq Records /\ tangled' \in BOOLEAN
    BY <1>1, <2>2, HeldRecords DEF IInv, TypeOK
  <2> QED BY <1>1, <1>3, <2>1, <2>2, <2>3, GivesUp
<1> QED BY <1>2, <1>3 DEF Unlink

\* The data of a record in hand is removed, by a request that goes on as k.
LEMMA SlotRemoved ==
    ASSUME IInv, NEW c \in Calls, call[c].pc \in {"purge", "empty"}, NEW r \in call[c].held,
           NEW k, Next1(c, k), Shape(k), k.held \subseteq call[c].held, k.pc # "body",
           k.dirty => call[c].dirty, RemoveSlot(c, r, k), History,
           UNCHANGED <<sameDevice, requests, tangled, row, origin, drawn>>,
           faults' \in 0..MaxFaults, accident' \in BOOLEAN,
           doubtful \subseteq doubtful', doubtful' \subseteq Records,
           \A q \in call[c].held \ doubtful' :
              IF q \in k.held THEN Handled(q, k)' ELSE Settled(q)'
    PROVE  IInv'
<1>0. r \in Records /\ Slot(r) \in Places /\ NoPlace \notin Places
  BY HeldRecords, PlaceFacts DEF IInv
<1>1. ~At(c, "idle") /\ ~At(c, "body") BY DEF At
<1>2. Followed(c, k, Slot(r), NoPlace) BY DEF RemoveSlot, Followed
<1>3. /\ CallsTyped /\ call'[c] = k /\ Others(c) /\ Solo(c)
      /\ \A e \in Calls \ {c} : At(e, "body") =>
            /\ call'[e].src = Shift(call[e].src, Slot(r), NoPlace)
            /\ call'[e].dst = Shift(call[e].dst, Slot(r), NoPlace)
  <2>1. NoPlace \in Places \cup {NoPlace} OBVIOUS
  <2> QED BY <1>1, <1>2, <2>1, FollowWorks DEF IInv, RowsInv
<1>4. /\ at' \in [Places -> Contents \cup {NoFile}]
      /\ \A p \in Places : at'[p] = IF p = Slot(r) THEN NoFile
                                      ELSE IF p = NoPlace THEN at[Slot(r)] ELSE at[p]
  BY <1>0 DEF RemoveSlot, Removed, IInv, TypeOK
<1>5. Opened' /\ PartialExplained'
  <2>1. ~At(c, "body")' BY <1>3 DEF At
  <2>2. NoPlace \in Places \cup {NoPlace} /\ Slot(r) # NoPlace BY <1>0
  <2> QED BY <1>0, <1>1, <1>3, <1>4, <2>1, <2>2, ShiftDisk
<1>6. \A q \in Records \ call[c].held : at'[Slot(q)] = at[Slot(q)]
  BY <1>0, <1>4, PlaceFacts
<1>7. purged \subseteq purged' /\ purged' \subseteq Records /\ tangled' \in BOOLEAN
  BY <1>0 DEF RemoveSlot, IInv, TypeOK
<1> QED BY <1>3, <1>4, <1>5, <1>6, <1>7, DiskGoOn

LEMMA FaultFacts ==
    ASSUME TypeOK, Fault PROVE faults' \in 0..MaxFaults /\ accident' = TRUE
BY FileAssumption DEF TypeOK, Fault

LEMMA PurgeDataKeeps ==
    ASSUME IInv, NEW c \in Calls, PurgeData(c) PROVE IInv'
<1>1. /\ call[c].pc = "purge" /\ Shape(call[c])
      /\ UNCHANGED <<sameDevice, requests, tangled, row, origin, drawn>>
  BY DEF PurgeData, At, table, IInv, RowsInv, Shapes
<1>2. PICK r \in Records :
        /\ call[c].held = {r} /\ Held(c) = r /\ r \in 1..drawn /\ call[c] \in Call
        /\ call[c].todo = {}
  BY <1>1, OneHeld DEF OfOne
<1>3. doubtful \subseteq Records BY DEF IInv, TypeOK
<1>4. CASE /\ RemoveSlot(c, r, [call[c] EXCEPT !.pc = "erase"]) /\ NoFault
           /\ doubtful' = doubtful
  <2>1. PICK k : k = [call[c] EXCEPT !.pc = "erase"] OBVIOUS
  <2>2. /\ k \in Call /\ k.pc = "erase" /\ k.held = {r} /\ k.todo = {}
        /\ k.dirty = call[c].dirty /\ k.alone = call[c].alone
    BY <1>2, <2>1 DEF Call, Pc
  <2>3. Next1(c, k) /\ Shape(k)
    BY <1>2, <2>2 DEF Next1, Shape, OfFiles, OfOne, Moving
  <2>4. Handled(r, k)'
    <3>1. at'[Slot(r)] = NoFile /\ r \in purged'
      BY <1>2, <1>4, PlaceFacts DEF RemoveSlot, Removed, IInv, TypeOK
    <3> QED BY <2>2, <3>1 DEF Handled, Moving, Occupied, Slot
  <2>5. faults' \in 0..MaxFaults /\ accident' \in BOOLEAN /\ History
    BY <1>1, <1>4 DEF NoFault, IInv, TypeOK, History
  <2> QED BY <1>1, <1>2, <1>3, <1>4, <2>1, <2>2, <2>3, <2>4, <2>5, SlotRemoved
<1>5. ASSUME Fault, Doubt({r}), RemoveSlot(c, r, Idle) PROVE IInv'
  <2>1. /\ faults' \in 0..MaxFaults /\ accident' \in BOOLEAN /\ History
        /\ doubtful' = doubtful \cup {r}
    BY <1>1, <1>5, FaultFacts DEF History, Doubt, IInv
  <2> QED BY <1>1, <1>2, <1>3, <1>5, <2>1, SlotRemoved, IdleGoes, IdleShape, IdleFacts
<1>6. ASSUME Fault, Doubt({r}), Answer(c), UNCHANGED <<at, purged>> PROVE IInv'
  <2>1. /\ faults' \in 0..MaxFaults /\ accident' \in BOOLEAN /\ History
        /\ doubtful' = doubtful \cup {r} /\ tangled' \in BOOLEAN
    BY <1>1, <1>6, FaultFacts DEF History, Doubt, IInv, TypeOK
  <2> QED BY <1>1, <1>2, <1>3, <1>6, <2>1, GivesUp
<1> QED BY <1>2, <1>4, <1>5, <1>6 DEF PurgeData

LEMMA EmptyOneKeeps ==
    ASSUME IInv, NEW c \in Calls, EmptyOne(c) PROVE IInv'
<1>0. PICK r \in call[c].todo :
        LET rest == [call[c] EXCEPT !.todo = @ \ {r}]
        IN  /\ At(c, "empty")
            /\ \/ RemoveSlot(c, r, rest) /\ NoFault /\ UNCHANGED doubtful
               \/ /\ \/ RemoveSlot(c, r, rest)
                     \/ call' = [call EXCEPT ![c] = rest] /\ UNCHANGED <<at, purged>>
                  /\ Fault /\ Doubt({r})
            /\ UNCHANGED <<sameDevice, requests, tangled, table>>
  BY DEF EmptyOne
<1>1. PICK k :
        /\ k = [call[c] EXCEPT !.todo = @ \ {r}] /\ At(c, "empty")
        /\ \/ RemoveSlot(c, r, k) /\ NoFault /\ UNCHANGED doubtful
           \/ /\ \/ RemoveSlot(c, r, k)
                 \/ call' = [call EXCEPT ![c] = k] /\ UNCHANGED <<at, purged>>
              /\ Fault /\ Doubt({r})
        /\ UNCHANGED <<sameDevice, requests, tangled, table>>
  BY <1>0
<1>2. /\ call[c].pc = "empty" /\ Shape(call[c]) /\ call[c] \in Call
      /\ UNCHANGED <<sameDevice, requests, tangled, row, origin, drawn>>
      /\ doubtful \subseteq Records
  BY <1>1 DEF At, table, IInv, RowsInv, Shapes, TypeOK
<1>3. /\ k \in Call /\ k.pc = "empty" /\ k.held = call[c].held /\ k.todo = call[c].todo \ {r}
      /\ k.dirty = call[c].dirty /\ k.alone = call[c].alone
      /\ r \in call[c].held /\ call[c].held \subseteq Records
  BY <1>1, <1>2 DEF Call, Shape
<1>4. Next1(c, k) /\ Shape(k)
  BY <1>2, <1>3 DEF Next1, Shape, OfFiles, OfOne, Moving
<1>5. \A q \in call[c].held \ doubtful :
        row'[q] = "trashed" /\ IF q \in call[c].todo THEN Occupied(Slot(q)) \/ q \in purged
                                ELSE ~Occupied(Slot(q)) /\ q \in purged
  BY <1>2 DEF IInv, RowsInv, Handling, Handled
<1>6. /\ faults' \in 0..MaxFaults /\ accident' \in BOOLEAN /\ History /\ tangled' \in BOOLEAN
      /\ doubtful \subseteq doubtful' /\ doubtful' \subseteq Records
  <2>1. CASE NoFault /\ doubtful' = doubtful
    BY <1>2, <2>1 DEF NoFault, IInv, TypeOK, History
  <2>2. CASE Fault /\ Doubt({r})
    BY <1>2, <1>3, <2>2, FaultFacts DEF IInv, TypeOK, History, Doubt
  <2> QED BY <1>1, <2>1, <2>2
<1>7. CASE RemoveSlot(c, r, k)
  <2>1. /\ \A q \in Records : at'[Slot(q)] = IF q = r THEN NoFile ELSE at[Slot(q)]
        /\ r \in purged' /\ purged \subseteq purged'
    BY <1>3, <1>7, PlaceFacts DEF RemoveSlot, Removed, IInv, TypeOK
  <2>2. ASSUME NEW q \in call[c].held \ doubtful' PROVE Handled(q, k)'
    <3>1. q \in Records /\ q \notin doubtful BY <1>3, <1>6
    <3>2. row'[q] = "trashed" BY <1>5, <3>1
    <3>3. IF q \in k.todo THEN at'[Slot(q)] # NoFile \/ q \in purged'
          ELSE at'[Slot(q)] = NoFile /\ q \in purged'
      BY <1>3, <1>5, <2>1, <3>1 DEF Occupied
    <3> QED BY <1>3, <3>2, <3>3 DEF Handled, Moving, Occupied, Slot
  <2> QED BY <1>2, <1>3, <1>4, <1>6, <1>7, <2>2, SlotRemoved
<1>8. CASE Fault /\ Doubt({r}) /\ call' = [call EXCEPT ![c] = k] /\ UNCHANGED <<at, purged>>
  <2>1. ~At(c, "idle") /\ ~At(c, "body") BY <1>2 DEF At
  <2>2. CallsTyped /\ call'[c] = k /\ Others(c) /\ Solo(c) /\ OthersOpen(c)
    BY <1>4, <1>8, <2>1, OneWorks DEF IInv, RowsInv
  <2>3. ~At(c, "body")' BY <1>3, <2>2 DEF At
  <2>4. Opened' /\ PartialExplained' BY <1>6, <1>8, <2>1, <2>2, <2>3, QuietDisk
  <2>5. ASSUME NEW q \in call[c].held \ doubtful' PROVE Handled(q, k)'
    <3>1. q \in Records /\ q \notin doubtful /\ q # r
      BY <1>3, <1>6, <1>8 DEF Doubt
    <3>2. row'[q] = "trashed" /\ (Occupied(Slot(q))' <=> Occupied(Slot(q))) /\ purged' = purged
      BY <1>5, <1>8, <3>1, SlotsSame
    <3> QED BY <1>3, <1>5, <3>1, <3>2 DEF Handled, Moving
  <2>6. at' \in [Places -> Contents \cup {NoFile}] /\ purged' = purged /\ purged \subseteq Records
    BY <1>8 DEF IInv, TypeOK
  <2> QED BY <1>2, <1>3, <1>4, <1>6, <1>8, <2>2, <2>4, <2>5, <2>6, DiskGoOn
<1> QED BY <1>1, <1>7, <1>8

LEMMA CrashKeeps ==
    ASSUME IInv, Crash PROVE IInv'
<1>1. /\ call' = [c \in Calls |-> Idle] /\ accident' = TRUE
      /\ UNCHANGED <<at, sameDevice, requests, faults, tangled, row, origin, drawn, purged>>
      /\ doubtful' = doubtful \cup UNION {call[c].held : c \in Calls}
  BY DEF Crash, disk, table, Doubt
<1>2. \A c \in Calls : call'[c] = Idle /\ call'[c].pc = "idle" /\ call'[c].held = {}
        /\ call'[c].dirty = FALSE /\ call'[c].alone = FALSE
  BY <1>1, IdleFacts
<1>3. TypeOK'
  <2>1. call' \in [Calls -> Call] BY <1>1, IdleFacts
  <2>2. doubtful' \subseteq Records BY <1>1, HeldRecords DEF IInv, TypeOK
  <2> QED BY <1>1, <1>2, <2>1, <2>2 DEF IInv, TypeOK, At
<1>4. Shapes'
  <2> SUFFICES ASSUME NEW c \in Calls PROVE Shape(call[c])' BY DEF Shapes
  <2>1. call'[c] = Idle BY <1>2
  <2> QED BY <2>1, IdleFacts DEF Shape, OfFiles, OfOne, Moving
<1>5. Drawn'
  <2>1. \A r \in Records : Occupied(Slot(r))' <=> Occupied(Slot(r)) BY <1>1, SlotsSame
  <2> QED BY <1>1, <1>2, <2>1 DEF IInv, RowsInv, Drawn
<1>6. HeldOnce' /\ Handling' BY <1>2 DEF HeldOnce, Holders, Handling
<1>7. Alone' BY <1>2 DEF Alone, At
<1>8. Resting'
  <2> SUFFICES ASSUME NEW r \in Records \ doubtful' PROVE Settled(r)'
    BY DEF Resting
  <2>1. r \notin doubtful /\ ~InHand(r) BY <1>1 DEF InHand
  <2>2. Settled(r) BY <2>1 DEF IInv, RowsInv, Resting
  <2> QED BY <1>1, <2>2, SlotsSame DEF Settled
<1>9. Opened' BY <1>2 DEF Opened, At
<1>10. Disturbed' BY <1>2 DEF Disturbed, At
<1>11. PartialExplained' BY <1>1 DEF PartialExplained
<1> QED BY <1>3, <1>4, <1>5, <1>6, <1>7, <1>8, <1>9, <1>10, <1>11 DEF IInv, RowsInv

-----------------------------------------------------------------------------
(* The theorems.                                                           *)

LEMMA InitKeeps ==
    ASSUME Init PROVE IInv
<1>1. /\ at \in [Places -> Versions \cup {NoFile}] /\ sameDevice \in BOOLEAN
      /\ requests = 0 /\ faults = 0 /\ tangled = FALSE /\ accident = FALSE
      /\ purged = {} /\ doubtful = {} /\ drawn \in 0..MaxRecords
      /\ row = [r \in Records |-> IF r <= drawn THEN "trashed" ELSE "none"]
      /\ origin \in [Records -> Paths \cup {NoPlace}]
      /\ \A r \in Records :
            /\ (origin[r] = NoPlace) <=> (r > drawn)
            /\ Occupied(Slot(r)) <=> (r <= drawn)
  BY DEF Init, FileInit
<1>2. call = [c \in Calls |-> Idle] BY DEF Init, FileInit
<1>3. \A c \in Calls : call[c] = Idle /\ call[c].pc = "idle" /\ call[c].held = {}
        /\ call[c].dirty = FALSE /\ call[c].alone = FALSE
  BY <1>2, IdleFacts
<1>4. TypeOK
  <2>1. call \in [Calls -> Call] BY <1>2, IdleFacts
  <2>2. at \in [Places -> Contents \cup {NoFile}] BY <1>1, ContentFacts
  <2>3. requests \in 0..MaxRequests /\ faults \in 0..MaxFaults BY <1>1, FileAssumption
  <2> QED BY <1>1, <1>3, <2>1, <2>2, <2>3 DEF TypeOK, At
<1>5. Shapes BY <1>3, IdleShape DEF Shapes
<1>6. Drawn
  <2>1. \A r \in 1..drawn : r \in Records /\ r <= drawn BY <1>1, FileAssumption DEF Records
  <2>2. \A r \in 1..drawn : origin[r] \in Paths
    <3>1. \A r \in 1..drawn : ~(r > drawn) BY <1>1, FileAssumption
    <3> QED BY <1>1, <2>1, <3>1
  <2>3. \A r \in Records : r > drawn => row[r] = "none" /\ ~Occupied(Slot(r))
    BY <1>1, FileAssumption DEF Records
  <2> QED BY <1>3, <2>2, <2>3 DEF Drawn
<1>7. HeldOnce /\ Handling BY <1>3 DEF HeldOnce, Holders, Handling
<1>8. Alone BY <1>3 DEF Alone, At
<1>9. Resting BY <1>1 DEF Resting, Settled
<1>10. Opened BY <1>3 DEF Opened, At
<1>11. Disturbed BY <1>3 DEF Disturbed, At
<1>12. PartialExplained BY <1>1, ContentFacts DEF PartialExplained
<1> QED BY <1>4, <1>5, <1>6, <1>7, <1>8, <1>9, <1>10, <1>11, <1>12 DEF IInv, RowsInv

LEMMA StutterKeeps ==
    ASSUME IInv, UNCHANGED vars PROVE IInv'
<1> USE DEF vars
<1>1. TypeOK' BY DEF IInv, TypeOK, At
<1>2. Shapes'
  BY DEF IInv, RowsInv, Shapes, Shape, Moving, Toward, Back, OfFiles, OfOne, Slot
<1>3. Drawn' /\ HeldOnce' /\ Alone'
  BY DEF IInv, RowsInv, Drawn, HeldOnce, Holders, Alone, At, Occupied, Slot
<1>4. Handling'
  BY DEF IInv, RowsInv, Handling, Handled, Moving, Toward, Back, Occupied, Slot
<1>5. Resting' BY DEF IInv, RowsInv, Resting, Settled, InHand, Occupied, Slot
<1>6. Opened' /\ Disturbed' /\ PartialExplained'
  BY DEF IInv, Opened, Disturbed, PartialExplained, Writing, Occupied, At
<1> QED BY <1>1, <1>2, <1>3, <1>4, <1>5, <1>6 DEF IInv, RowsInv

LEMMA FileNextKeeps ==
    ASSUME IInv, FileNext, UNCHANGED trash PROVE IInv'
<1>1. PICK c \in Calls :
        \/ StartRename(c) \/ StartMove(c) \/ StartCopy(c) \/ StartUpload(c) \/ StartCreate(c)
        \/ MakeDirectory(c) \/ Resolve(c) \/ Relocate(c) \/ CopyOpen(c) \/ UploadOpen(c) \/ WriteBody(c)
  BY DEF FileNext
<1>2. CASE StartRename(c) BY <1>2, StartRenameKeeps
<1>3. CASE StartMove(c) BY <1>3, StartMoveKeeps
<1>4. CASE StartCopy(c) BY <1>4, StartCopyKeeps
<1>5. CASE StartUpload(c) BY <1>5, StartUploadKeeps
<1>6. CASE StartCreate(c) BY <1>6, StartCreateKeeps
<1>7. CASE MakeDirectory(c) BY <1>7, MakeDirectoryKeeps
<1>8. CASE Resolve(c) BY <1>8, ResolveKeeps
<1>9. CASE Relocate(c) BY <1>9, RelocateKeeps
<1>10. CASE CopyOpen(c) BY <1>10, CopyOpenKeeps
<1>11. CASE UploadOpen(c) BY <1>11, UploadOpenKeeps
<1>12. CASE WriteBody(c) BY <1>12, WriteBodyKeeps
<1> QED BY <1>1, <1>2, <1>3, <1>4, <1>5, <1>6, <1>7, <1>8, <1>9, <1>10, <1>11, <1>12

LEMMA TrashNextKeeps ==
    ASSUME IInv, TrashNext PROVE IInv'
<1>1. PICK c \in Calls :
        \/ Transfer(c) \/ Unlink(c)
        \/ DeleteStart(c) \/ DeleteInsert(c)
        \/ RestoreStart(c) \/ RestoreCheck(c) \/ RestoreMark(c)
        \/ PurgeStart(c) \/ PurgeData(c) \/ PurgeErase(c)
        \/ EmptyStart(c) \/ EmptyOne(c) \/ EmptySweep(c)
  BY DEF TrashNext
<1>2. CASE Transfer(c) BY <1>2, TransferKeeps
<1>3. CASE Unlink(c) BY <1>3, UnlinkKeeps
<1>4. CASE DeleteStart(c) BY <1>4, DeleteStartKeeps
<1>5. CASE DeleteInsert(c) BY <1>5, DeleteInsertKeeps
<1>6. CASE RestoreStart(c) BY <1>6, RestoreStartKeeps
<1>7. CASE RestoreCheck(c) BY <1>7, RestoreCheckKeeps
<1>8. CASE RestoreMark(c) BY <1>8, RestoreMarkKeeps
<1>9. CASE PurgeStart(c) BY <1>9, PurgeStartKeeps
<1>10. CASE PurgeData(c) BY <1>10, PurgeDataKeeps
<1>11. CASE PurgeErase(c) BY <1>11, PurgeEraseKeeps
<1>12. CASE EmptyStart(c) BY <1>12, EmptyStartKeeps
<1>13. CASE EmptyOne(c) BY <1>13, EmptyOneKeeps
<1>14. CASE EmptySweep(c) BY <1>14, EmptySweepKeeps
<1> QED BY <1>1, <1>2, <1>3, <1>4, <1>5, <1>6, <1>7, <1>8, <1>9, <1>10, <1>11, <1>12, <1>13, <1>14

\* The invariant is inductive: every step of every handler, and a crash, keeps it.
THEOREM Invariant == Spec => []IInv
<1>1. Init => IInv BY InitKeeps
<1>2. IInv /\ [Next]_vars => IInv'
  <2> SUFFICES ASSUME IInv, [Next]_vars PROVE IInv' OBVIOUS
  <2>1. CASE FileNext /\ UNCHANGED trash BY <2>1, FileNextKeeps
  <2>2. CASE TrashNext BY <2>2, TrashNextKeeps
  <2>3. CASE Crash BY <2>3, CrashKeeps
  <2>4. CASE UNCHANGED vars BY <2>4, StutterKeeps
  <2> QED BY <2>1, <2>2, <2>3, <2>4 DEF Next
<1> QED BY <1>1, <1>2, PTL DEF Spec

\* Every variable keeps its type, and a request that has answered has nothing in hand,
\* whichever way a handler of a file operation or of the trash ends.
THEOREM TypeCorrect == Spec => []TypeOK
<1>1. IInv => TypeOK BY DEF IInv
<1> QED BY <1>1, Invariant, PTL

\* SoftDelete, RestoreLatest, PermanentDelete and EmptyTrash lose sight of no data they
\* keep: what is in the trash directory has a row that lists it, unless its record was
\* in hand of two requests or in hand when something failed.
THEOREM DataStaysListed == Spec => []DataHasRow
<1>1. IInv => DataHasRow BY DEF IInv, RowsInv, Resting, Settled, DataHasRow, Listed
<1> QED BY <1>1, Invariant, PTL

\* The four leave no row whose data is nowhere, but for data a purge removed.
THEOREM RowsKeepData == Spec => []RowHasData
<1>1. IInv => RowHasData BY DEF IInv, RowsInv, Resting, Settled, RowHasData, Listed
<1> QED BY <1>1, Invariant, PTL

\* Copy, Upload and movePath leave a file that is not whole only while they write it,
\* after an error or a crash, or when two requests had it open together.
THEOREM PartialsExplained == Spec => []PartialExplained
<1>1. IInv => PartialExplained BY DEF IInv
<1> QED BY <1>1, Invariant, PTL

-----------------------------------------------------------------------------
(* Which steps destroy a file.  Not the typed state alone decides that,    *)
(* but what a request that is alone knows of the disk from its last look.  *)

\* A request that is alone writes where nothing is, and knows where its file is.
Safe(k) == k.alone =>
    /\ k.pc \in {"relocate", "open", "transfer"} => ~Occupied(k.dst)
    /\ k.pc = "body" /\ k.dst \in Places => at[k.dst] = Partial
    /\ k.pc = "unlink" => at[k.dst] = at[k.src]
    /\ k.pc = "insert" => \A r \in k.held : ~Occupied(origin[r])
    /\ k.pc = "mark" => \A r \in k.held : ~Occupied(Slot(r))
Safely == \A c \in Calls : Safe(call[c])

NoLoss == \A v \in Versions : ~(Copies(v)' < Copies(v))
Excused(c) == NoLoss \/ Destroys(c)

LEMMA PlacesFinite == IsFiniteSet(Places)
<1>1. IsFiniteSet(Dirs) /\ MaxNames \in Nat /\ MaxRecords \in Nat BY FileAssumption
<1>2. IsFiniteSet(Names) BY <1>1, FS_Interval DEF Names
<1>3. IsFiniteSet(Paths) BY <1>1, <1>2, FS_Product DEF Paths
<1>4. IsFiniteSet(Records) BY <1>1, FS_Interval DEF Records
<1>5. IsFiniteSet({Slot(r) : r \in Records})
  <2>1. IsFiniteSet({Bin} \X Records) BY <1>4, FS_Singleton, FS_Product
  <2>2. {Slot(r) : r \in Records} \in SUBSET ({Bin} \X Records) BY DEF Slot
  <2> QED BY <2>1, <2>2, FS_Subset
<1> QED BY <1>3, <1>5, FS_Union DEF Places

\* What is lost by no place is lost by no set of places.
LEMMA MoreCopies ==
    ASSUME NEW A \in SUBSET Places, NEW B \in SUBSET Places, A \subseteq B
    PROVE  ~(Cardinality(B) < Cardinality(A))
<1>1. IsFiniteSet(B) BY PlacesFinite, FS_Subset
<1>2. IsFiniteSet(A) /\ Cardinality(A) <= Cardinality(B) BY <1>1, FS_Subset
<1>3. Cardinality(A) \in Nat /\ Cardinality(B) \in Nat BY <1>1, <1>2, FS_CardinalityType
<1> QED BY <1>2, <1>3

\* Only place d changes, and no whole file was there.
LEMMA FillLosesNone ==
    ASSUME NEW d, at[d] \notin Versions, \A p \in Places : p # d => at'[p] = at[p]
    PROVE  NoLoss
<1> SUFFICES ASSUME NEW v \in Versions PROVE ~(Copies(v)' < Copies(v)) BY DEF NoLoss
<1>1. PICK A \in SUBSET Places, B \in SUBSET Places :
        A = {p \in Places : at[p] = v} /\ B = {p \in Places : at'[p] = v}
  OBVIOUS
<1>2. A \subseteq B BY <1>1
<1> QED BY <1>1, <1>2, MoreCopies DEF Copies

LEMMA QuietLosesNone ==
    ASSUME at' = at PROVE NoLoss
<1> SUFFICES ASSUME NEW v \in Versions PROVE ~(Copies(v)' < Copies(v)) BY DEF NoLoss
<1>1. PICK A \in SUBSET Places : A = {p \in Places : at[p] = v} OBVIOUS
<1> QED BY <1>1, MoreCopies DEF Copies

\* A file moves to where no whole file was.
LEMMA MoveLosesNone ==
    ASSUME NEW s \in Places, NEW d \in Places, s # d, at[d] \notin Versions, at'[d] = at[s],
           \A p \in Places : p # s /\ p # d => at'[p] = at[p]
    PROVE  NoLoss
<1> SUFFICES ASSUME NEW v \in Versions PROVE ~(Copies(v)' < Copies(v)) BY DEF NoLoss
<1>1. PICK A \in SUBSET Places, B \in SUBSET Places :
        A = {p \in Places : at[p] = v} /\ B = {p \in Places : at'[p] = v}
  OBVIOUS
<1>2. CASE at[s] # v
  <2>1. A \subseteq B BY <1>1, <1>2
  <2> QED BY <1>1, <2>1, MoreCopies DEF Copies
<1>3. CASE at[s] = v
  <2>1. s \in A /\ d \notin A BY <1>1, <1>3
  <2>2. PICK C \in SUBSET Places : C = (A \ {s}) \cup {d} OBVIOUS
  <2>3. C \subseteq B BY <1>1, <1>3, <2>2
  <2>4. IsFiniteSet(A) BY PlacesFinite, FS_Subset
  <2>5. IsFiniteSet(A \ {s}) /\ Cardinality(A \ {s}) = Cardinality(A) - 1
    BY <2>1, <2>4, FS_RemoveElement
  <2>6. Cardinality(C) = Cardinality(A \ {s}) + 1
    BY <2>1, <2>2, <2>5, FS_AddElement
  <2>7. Cardinality(A) \in Nat BY <2>4, FS_CardinalityType
  <2>8. Cardinality(C) = Cardinality(A) BY <2>5, <2>6, <2>7
  <2>9. ~(Cardinality(B) < Cardinality(C)) BY <2>3, MoreCopies
  <2> QED BY <1>1, <2>8, <2>9 DEF Copies
<1> QED BY <1>2, <1>3

LEMMA NotAloneExcused ==
    ASSUME NEW c, ~call[c].alone, call'[c] # call[c] PROVE Excused(c)
BY DEF Excused, Destroys

\* Where request c goes, and the others not alone, nothing else is to be shown.
LEMMA LoneStep ==
    ASSUME NEW c \in Calls, \A e \in Calls \ {c} : ~call'[e].alone, Safe(call[c])'
    PROVE  Safely'
BY DEF Safely, Safe

LEMMA SafeOne ==
    ASSUME IInv, NEW c \in Calls, ~At(c, "idle"), NEW k, Next1(c, k), Safe(k)',
           call' = [call EXCEPT ![c] = k]
    PROVE  Safely' /\ call'[c] = k
<1>1. call'[c] = k /\ Others(c) BY OneWorks DEF IInv, RowsInv
<1>2. Safe(call[c])' BY <1>1 DEF Safe, Occupied, Slot
<1> QED BY <1>1, <1>2, LoneStep DEF Others, Kept

LEMMA SafeFollowed ==
    ASSUME IInv, NEW c \in Calls, ~At(c, "idle"), NEW k, Next1(c, k), Safe(k)',
           NEW s, NEW d \in Places \cup {NoPlace}, Followed(c, k, s, d)
    PROVE  Safely' /\ call'[c] = k
<1>1. call'[c] = k /\ Others(c) BY FollowWorks DEF IInv, RowsInv
<1>2. Safe(call[c])' BY <1>1 DEF Safe, Occupied, Slot
<1> QED BY <1>1, <1>2, LoneStep DEF Others, Kept

\* A request begins: it has found that nothing is where it goes.
LEMMA SafeEntered ==
    ASSUME IInv, NEW c \in Calls, NEW begun \in Call,
           begun.pc \in {"resolve", "relocate", "mkdir", "transfer", "check", "purge", "empty"},
           begun.pc \in {"relocate", "transfer"} => ~Occupied(begun.dst),
           Enter(c, begun)
    PROVE  Safely' /\ Excused(c)
<1>1. Others(c) /\ call'[c].pc = begun.pc /\ call'[c].dst = begun.dst
  BY EnterWorks DEF IInv
<1>2. at' = at BY DEF Enter, disk
<1>3. Safe(call[c])' BY <1>1, <1>2 DEF Safe, Occupied
<1>4. Safely' BY <1>1, <1>3, LoneStep DEF Others, Kept
<1> QED BY <1>2, <1>4, QuietLosesNone DEF Excused

LEMMA SafeIdle == Safe(Idle)'
BY IdleFacts DEF Safe

\* A request answers, and leaves the disk as it is.
LEMMA SafeAnswer ==
    ASSUME IInv, NEW c \in Calls, ~At(c, "idle"), Answer(c), at' = at
    PROVE  Safely' /\ Excused(c)
<1>1. Safely' BY SafeOne, SafeIdle, IdleGoes DEF Answer
<1> QED BY <1>1, QuietLosesNone DEF Excused

-----------------------------------------------------------------------------
(* The steps of FileOps.                                                   *)

LEMMA NowhereIsNone ==
    ASSUME NEW p, ~Occupied(p) PROVE at[p] \notin Versions
BY ContentFacts DEF Occupied

LEMMA StartsSafe ==
    ASSUME IInv, NEW c \in Calls,
           StartRename(c) \/ StartMove(c) \/ StartCopy(c) \/ StartUpload(c) \/ StartCreate(c)
    PROVE  Safely' /\ Excused(c)
<1>2. CASE StartRename(c)
  <2>1. PICK s \in Paths, n \in Names :
          /\ ~Occupied(<<s[1], n>>)
          /\ Enter(c, [Idle EXCEPT !.pc = "relocate", !.src = s, !.dst = <<s[1], n>>])
    BY <1>2 DEF StartRename, RenameAllowed
  <2>2. PICK k : k = [Idle EXCEPT !.pc = "relocate", !.src = s, !.dst = <<s[1], n>>] OBVIOUS
  <2>3. PICK t \in Paths : t = <<s[1], n>> BY DEF Paths
  <2>4. k \in Call /\ k.pc = "relocate" /\ k.dst = t
    BY <2>2, <2>3, PlaceFacts DEF Idle, Call, Pc, Policies
  <2> QED BY <2>1, <2>2, <2>3, <2>4, SafeEntered
<1>3. CASE StartMove(c)
  <2>1. PICK s \in Paths, d \in Dirs, policy \in Policies :
          Enter(c, [Idle EXCEPT !.pc = "resolve", !.then = "relocate", !.policy = policy,
                                !.src = s, !.dst = <<d, s[2]>>])
    BY <1>3 DEF StartMove
  <2>2. PICK k : k = [Idle EXCEPT !.pc = "resolve", !.then = "relocate", !.policy = policy,
                                  !.src = s, !.dst = <<d, s[2]>>] OBVIOUS
  <2>3. <<d, s[2]>> \in Paths BY DEF Paths
  <2>4. k \in Call /\ k.pc = "resolve"
    BY <2>2, <2>3, PlaceFacts DEF Idle, Call, Pc, Policies
  <2> QED BY <2>1, <2>2, <2>4, SafeEntered
<1>4. CASE StartCopy(c)
  <2>1. PICK s \in Paths, d \in Dirs, policy \in Policies :
          Enter(c, [Idle EXCEPT !.pc = "resolve", !.then = "open", !.policy = policy,
                                !.src = s, !.dst = <<d, s[2]>>])
    BY <1>4 DEF StartCopy
  <2>2. PICK k : k = [Idle EXCEPT !.pc = "resolve", !.then = "open", !.policy = policy,
                                  !.src = s, !.dst = <<d, s[2]>>] OBVIOUS
  <2>3. <<d, s[2]>> \in Paths BY DEF Paths
  <2>4. k \in Call /\ k.pc = "resolve"
    BY <2>2, <2>3, PlaceFacts DEF Idle, Call, Pc, Policies
  <2> QED BY <2>1, <2>2, <2>4, SafeEntered
<1>5. CASE StartUpload(c)
  <2>1. PICK d \in Dirs, v \in Versions, policy \in Policies :
          Enter(c, [Idle EXCEPT !.pc = "resolve", !.then = "open", !.policy = policy,
                                !.dst = <<d, 0>>, !.data = v])
    BY <1>5 DEF StartUpload
  <2>2. PICK k : k = [Idle EXCEPT !.pc = "resolve", !.then = "open", !.policy = policy,
                                  !.dst = <<d, 0>>, !.data = v] OBVIOUS
  <2>3. <<d, 0>> \in Paths BY FileAssumption DEF Paths, Names
  <2>4. k \in Call /\ k.pc = "resolve"
    BY <2>2, <2>3, PlaceFacts, ContentFacts DEF Idle, Call, Pc, Policies
  <2> QED BY <2>1, <2>2, <2>4, SafeEntered
<1>6. CASE StartCreate(c)
  <2>1. PICK p \in Paths, v \in Versions :
          Enter(c, [Idle EXCEPT !.pc = "mkdir", !.dst = p, !.data = v])
    BY <1>6 DEF StartCreate
  <2>2. PICK k : k = [Idle EXCEPT !.pc = "mkdir", !.dst = p, !.data = v] OBVIOUS
  <2>3. k \in Call /\ k.pc = "mkdir"
    BY <2>2, PlaceFacts, ContentFacts DEF Idle, Call, Pc, Policies
  <2> QED BY <2>1, <2>2, <2>3, SafeEntered
<1> QED BY <1>2, <1>3, <1>4, <1>5, <1>6

LEMMA MakeDirectorySafe ==
    ASSUME IInv, NEW c \in Calls, MakeDirectory(c) PROVE Safely' /\ Excused(c)
<1>1. /\ call[c].pc = "mkdir" /\ Answer(c)
      /\ at' = IF Occupied(call[c].dst) THEN at ELSE [at EXCEPT ![call[c].dst] = call[c].data]
  BY DEF MakeDirectory, At
<1>2. Safely' BY <1>1, SafeOne, SafeIdle, IdleGoes DEF Answer, At
<1>3. NoLoss
  <2>1. CASE Occupied(call[c].dst) BY <1>1, <2>1, QuietLosesNone
  <2>2. CASE ~Occupied(call[c].dst)
    <3>1. \A p \in Places : p # call[c].dst => at'[p] = at[p]
      BY <1>1, <2>2 DEF IInv, TypeOK
    <3> QED BY <2>2, <3>1, NowhereIsNone, FillLosesNone
  <2> QED BY <2>1, <2>2
<1> QED BY <1>2, <1>3 DEF Excused

LEMMA ResolveSafe ==
    ASSUME IInv, NEW c \in Calls, Resolve(c) PROVE Safely' /\ Excused(c)
<1> DEFINE d == call[c].dst
           free == {p \in Candidates(d) : ~Occupied(p)}
<1>1. call[c].pc = "resolve" /\ ~At(c, "idle") BY DEF Resolve, At
<1>2. d \in Paths BY <1>1 DEF IInv, RowsInv, Shapes, Shape
<1>3. CASE Answer(c) /\ at' = at BY <1>1, <1>3, SafeAnswer
<1>4. ASSUME NEW p \in Paths, p[1] = d[1], ~Occupied(p), Chosen(c, p), at' = at
      PROVE  Safely' /\ Excused(c)
  <2>1. PICK k : k = [call[c] EXCEPT !.pc = call[c].then, !.dst = p] OBVIOUS
  <2>2. Next1(c, k) /\ call' = [call EXCEPT ![c] = k]
    BY <1>1, <1>4, <2>1, ChosenGoes DEF Chosen, At
  <2>3. k.dst = p /\ k.pc \in {"relocate", "open"}
    BY <1>1, <2>1 DEF IInv, TypeOK, RowsInv, Shapes, Shape, Call
  <2>4. Safe(k)' BY <1>4, <2>3 DEF Safe, Occupied
  <2>5. Safely' BY <1>1, <2>2, <2>4, SafeOne
  <2> QED BY <1>4, <2>5, QuietLosesNone DEF Excused
<1>5. CASE /\ call[c].policy = "overwrite" /\ at' = Removed(d)
           /\ call' = [Follow(call, d, NoPlace) EXCEPT ![c] = [@ EXCEPT !.pc = call[c].then]]
  <2>1. PICK k : k = [call[c] EXCEPT !.pc = call[c].then, !.dst = d] OBVIOUS
  <2>2. Follow(call, d, NoPlace)[c] = call[c] BY <1>1, FollowIs DEF IInv
  <2>3. k = [call[c] EXCEPT !.pc = call[c].then] BY <2>1 DEF IInv, TypeOK, Call
  <2>4. Followed(c, k, d, NoPlace) BY <1>5, <2>2, <2>3, FollowIs DEF IInv, Followed
  <2>5. Next1(c, k) BY <1>1, <1>2, <2>1, ChosenGoes DEF At
  <2>6. k.dst = d /\ k.pc \in {"relocate", "open"}
    BY <1>1, <2>1 DEF IInv, TypeOK, RowsInv, Shapes, Shape, Call
  <2>7. at'[d] = NoFile BY <1>2, <1>5, PlaceFacts DEF Removed, IInv, TypeOK
  <2>8. Safe(k)' BY <2>6, <2>7 DEF Safe, Occupied
  <2>9. Safely' /\ call'[c] = k BY <1>1, <2>4, <2>5, <2>8, SafeFollowed
  <2>10. call'[c] # call[c] BY <1>1, <2>6, <2>9
  <2> QED BY <1>1, <1>5, <2>9, <2>10 DEF Excused, Destroys
<1>6. \A p \in Candidates(d) : p \in Paths /\ p[1] = d[1]
  BY <1>2, FileAssumption DEF Candidates, Paths, Names
<1> QED BY <1>2, <1>3, <1>4, <1>5, <1>6 DEF Resolve

LEMMA RelocateSafe ==
    ASSUME IInv, Safely, NEW c \in Calls, Relocate(c) PROVE Safely' /\ Excused(c)
<1> DEFINE s == call[c].src
           d == call[c].dst
<1>1. call[c].pc = "relocate" /\ ~At(c, "idle") BY DEF Relocate, At
<1>2. s \in Places /\ d \in Places /\ s # d
  BY <1>1, PlaceFacts DEF IInv, RowsInv, Shapes, Shape
<1>3. CASE Answer(c) /\ at' = at BY <1>1, <1>3, SafeAnswer
<1>4. CASE at' = Renamed(s, d) /\ call' = [Follow(call, s, d) EXCEPT ![c] = Idle]
  <2>1. Followed(c, Idle, s, d) BY <1>4 DEF Followed
  <2>2. Safely' /\ call'[c] = Idle BY <1>1, <1>2, <2>1, IdleGoes, SafeIdle, SafeFollowed
  <2>3. call'[c] # call[c] BY <1>1, <2>2, IdleFacts
  <2>4. /\ at'[d] = at[s]
        /\ \A p \in Places : p # s /\ p # d => at'[p] = at[p]
    BY <1>2, <1>4 DEF Renamed, IInv, TypeOK
  <2>5. CASE call[c].alone
    <3>1. at[d] \notin Versions BY <1>1, <2>5, NowhereIsNone DEF Safely, Safe
    <3> QED BY <1>2, <2>2, <2>4, <3>1, MoveLosesNone DEF Excused
  <2> QED BY <2>2, <2>3, <2>5, NotAloneExcused
<1> QED BY <1>3, <1>4 DEF Relocate

LEMMA OpenSafe ==
    ASSUME IInv, Safely, NEW c \in Calls, CopyOpen(c) \/ UploadOpen(c)
    PROVE  Safely' /\ Excused(c)
<1> DEFINE d == call[c].dst
<1>1. call[c].pc = "open" /\ ~At(c, "idle") BY DEF CopyOpen, UploadOpen, At
<1>2. d \in Places BY <1>1, PlaceFacts DEF IInv, RowsInv, Shapes, Shape
<1>3. CASE Answer(c) /\ at' = at BY <1>1, <1>3, SafeAnswer
<1>4. ASSUME NEW data, OpenTruncated(c, data) PROVE Safely' /\ Excused(c)
  <2>1. PICK dirty : call'[c] = [call[c] EXCEPT !.pc = "body", !.data = data, !.dirty = dirty]
    BY <1>4 DEF OpenTruncated
  <2>2. call'[c].pc = "body" /\ call'[c].dst = d /\ call'[c].alone = call[c].alone
    BY <2>1 DEF IInv, TypeOK, Call
  <2>3. at'[d] = Partial /\ \A p \in Places : p # d => at'[p] = at[p]
    BY <1>2, <1>4 DEF OpenTruncated, IInv, TypeOK
  <2>4. \A e \in Calls \ {c} : ~call'[e].alone
    <3> TAKE e \in Calls \ {c}
    <3>1. ~call[e].alone /\ call[e] \in Call BY <1>1, NotAlone DEF IInv, RowsInv, TypeOK
    <3>2. call'[e] = call[e] \/ call'[e] = [call[e] EXCEPT !.dirty = TRUE]
      BY <1>4 DEF OpenTruncated
    <3> QED BY <3>1, <3>2 DEF Call
  <2>5. Safe(call[c])' BY <2>2, <2>3 DEF Safe
  <2>6. Safely' BY <2>4, <2>5, LoneStep
  <2>7. call'[c] # call[c] BY <1>1, <2>2
  <2>8. CASE call[c].alone
    <3>1. at[d] \notin Versions BY <1>1, <2>8, NowhereIsNone DEF Safely, Safe
    <3> QED BY <2>3, <2>6, <3>1, FillLosesNone DEF Excused
  <2> QED BY <2>6, <2>7, <2>8, NotAloneExcused
<1> QED BY <1>3, <1>4 DEF CopyOpen, UploadOpen

LEMMA WriteBodySafe ==
    ASSUME IInv, Safely, NEW c \in Calls, WriteBody(c) PROVE Safely' /\ Excused(c)
<1> DEFINE d == call[c].dst
<1>1. call[c].pc = "body" /\ ~At(c, "idle") /\ Answer(c) BY DEF WriteBody, At
<1>2. \E data : at' = IF d \in Places THEN [at EXCEPT ![d] = data] ELSE at
  BY DEF WriteBody
<1>3. Safely' /\ call'[c] = Idle BY <1>1, SafeOne, SafeIdle, IdleGoes DEF Answer
<1>4. call'[c] # call[c] BY <1>1, <1>3, IdleFacts
<1>5. \A p \in Places : p # d => at'[p] = at[p] BY <1>2 DEF IInv, TypeOK
<1>6. CASE call[c].alone /\ d \in Places
  <2>1. at[d] \notin Versions BY <1>1, <1>6, ContentFacts DEF Safely, Safe
  <2> QED BY <1>3, <1>5, <2>1, FillLosesNone DEF Excused
<1>7. CASE d \notin Places
  <2>1. at' = at BY <1>2, <1>7
  <2> QED BY <1>3, <2>1, QuietLosesNone DEF Excused
<1> QED BY <1>3, <1>4, <1>6, <1>7, NotAloneExcused

-----------------------------------------------------------------------------
(* The steps of the trash.                                                 *)

LEMMA TakeSafe ==
    ASSUME IInv, NEW c \in Calls, NEW taken \in SUBSET Records, NEW begun \in Call,
           begun.pc \in {"transfer", "check", "purge", "empty"},
           begun.pc = "transfer" => ~Occupied(begun.dst), Take(c, taken, begun)
    PROVE  Safely' /\ Excused(c)
<1>1. PICK k : k = [begun EXCEPT !.held = taken] OBVIOUS
<1>2. k \in Call /\ k.pc = begun.pc /\ k.dst = begun.dst BY <1>1 DEF Call
<1>3. Enter(c, k) BY <1>1 DEF Take
<1> QED BY <1>2, <1>3, SafeEntered

LEMMA TakesSafe ==
    ASSUME IInv, NEW c \in Calls,
           DeleteStart(c) \/ RestoreStart(c) \/ PurgeStart(c) \/ EmptyStart(c)
    PROVE  Safely' /\ Excused(c)
<1>1. CASE DeleteStart(c)
  <2>1. PICK r \in Records : r = drawn + 1 BY <1>1 DEF DeleteStart
  <2>2. PICK p \in Paths :
          Take(c, {r}, [Idle EXCEPT !.pc = "transfer", !.src = p, !.dst = Slot(r), !.then = "insert"])
    BY <1>1, <2>1 DEF DeleteStart
  <2>3. PICK k : k = [Idle EXCEPT !.pc = "transfer", !.src = p, !.dst = Slot(r), !.then = "insert"]
    OBVIOUS
  <2>4. k \in Call /\ k.pc = "transfer" /\ k.dst = Slot(r)
    BY <2>3, PlaceFacts DEF Idle, Call, Pc, Policies
  <2>5. drawn \in Nat /\ r > drawn BY <2>1, FileAssumption DEF IInv, TypeOK
  <2>6. ~Occupied(Slot(r)) BY <2>5 DEF IInv, RowsInv, Drawn
  <2>7. {r} \in SUBSET Records OBVIOUS
  <2> QED BY <2>2, <2>3, <2>4, <2>6, <2>7, TakeSafe
<1>2. CASE RestoreStart(c)
  <2>1. PICK r \in Records : Take(c, {r}, [Idle EXCEPT !.pc = "check"])
    BY <1>2 DEF RestoreStart
  <2>2. PICK k : k = [Idle EXCEPT !.pc = "check"] OBVIOUS
  <2>3. k \in Call /\ k.pc = "check" BY <2>2, IdleFacts DEF Call, Pc
  <2>4. {r} \in SUBSET Records OBVIOUS
  <2> QED BY <2>1, <2>2, <2>3, <2>4, TakeSafe
<1>3. CASE PurgeStart(c)
  <2>1. PICK r \in Listed : Take(c, {r}, [Idle EXCEPT !.pc = "purge"])
    BY <1>3 DEF PurgeStart
  <2>2. PICK k : k = [Idle EXCEPT !.pc = "purge"] OBVIOUS
  <2>3. k \in Call /\ k.pc = "purge" BY <2>2, IdleFacts DEF Call, Pc
  <2>4. {r} \in SUBSET Records BY DEF Listed
  <2> QED BY <2>1, <2>2, <2>3, <2>4, TakeSafe
<1>4. CASE EmptyStart(c)
  <2>1. PICK k : k = [Idle EXCEPT !.pc = "empty", !.todo = Listed] OBVIOUS
  <2>2. Listed \in SUBSET Records BY DEF Listed
  <2>3. k \in Call /\ k.pc = "empty" BY <2>1, <2>2, IdleFacts DEF Call, Pc
  <2> QED BY <1>4, <2>1, <2>2, <2>3, TakeSafe DEF EmptyStart
<1> QED BY <1>1, <1>2, <1>3, <1>4

\* A request begins to move its file to where it has found nothing.
LEMMA MoveSafe ==
    ASSUME IInv, NEW c \in Calls, call[c].pc \in OfOne,
           NEW s \in Places, NEW d \in Places, NEW then \in Pc,
           call[c].alone => ~Occupied(d), at' = at,
           call' = [call EXCEPT ![c] = MovePath(c, s, d, then)]
    PROVE  Safely' /\ Excused(c)
<1>1. PICK k : k = MovePath(c, s, d, then) OBVIOUS
<1>2. PICK r \in Records : call[c].held = {r} /\ r \in 1..drawn /\ origin[r] \in Paths
  BY OneHeld
<1>3. Next1(c, k) /\ k.pc = "transfer" /\ k.dst = d /\ k.alone = call[c].alone
  BY <1>1, <1>2, MoveBegins
<1>4. Safe(k)' BY <1>3 DEF Safe, Occupied
<1>5. ~At(c, "idle") BY DEF At, OfOne
<1>6. Safely' BY <1>1, <1>3, <1>4, <1>5, SafeOne
<1> QED BY <1>6, QuietLosesNone DEF Excused

LEMMA InsertCheckMarkSafe ==
    ASSUME IInv, Safely, NEW c \in Calls, DeleteInsert(c) \/ RestoreCheck(c) \/ RestoreMark(c)
    PROVE  Safely' /\ Excused(c)
<1>1. call[c].pc \in {"insert", "check", "mark"} /\ at' = at
  BY DEF DeleteInsert, RestoreCheck, RestoreMark, At, disk
<1>2. PICK r \in Records : call[c].held = {r} /\ Held(c) = r /\ origin[r] \in Paths
  BY <1>1, OneHeld DEF OfOne
<1>3. origin[r] \in Places /\ Slot(r) \in Places BY <1>2, PlaceFacts
<1>4. CASE Answer(c) BY <1>1, <1>4, SafeAnswer DEF At
<1>5. CASE DeleteInsert(c) /\ call' = [call EXCEPT ![c] = UndoDelete(c)]
  <2>1. call[c].alone => ~Occupied(origin[r])
    BY <1>2, <1>5 DEF DeleteInsert, At, Safely, Safe
  <2>2. call' = [call EXCEPT ![c] = MovePath(c, Slot(r), origin[r], "idle")]
    BY <1>2, <1>5 DEF UndoDelete
  <2> QED BY <1>1, <1>3, <2>1, <2>2, MoveSafe DEF OfOne, Pc
<1>6. CASE RestoreCheck(c) /\ ~Answer(c)
  <2>1. /\ ~Occupied(origin[r])
        /\ call' = [call EXCEPT ![c] = MovePath(c, Slot(r), origin[r], "mark")]
    BY <1>2, <1>6 DEF RestoreCheck, RestoreAllowed
  <2> QED BY <1>1, <1>3, <2>1, MoveSafe DEF OfOne, Pc
<1>7. CASE RestoreMark(c) /\ call' = [call EXCEPT ![c] = UndoRestore(c)]
  <2>1. call[c].alone => ~Occupied(Slot(r))
    BY <1>2, <1>7 DEF RestoreMark, At, Safely, Safe
  <2>2. call' = [call EXCEPT ![c] = MovePath(c, origin[r], Slot(r), "idle")]
    BY <1>2, <1>7 DEF UndoRestore
  <2> QED BY <1>1, <1>3, <2>1, <2>2, MoveSafe DEF OfOne, Pc
<1> QED BY <1>4, <1>5, <1>6, <1>7 DEF DeleteInsert, RestoreMark

LEMMA EraseSweepSafe ==
    ASSUME IInv, NEW c \in Calls, PurgeErase(c) \/ EmptySweep(c) PROVE Safely' /\ Excused(c)
<1>1. ~At(c, "idle") /\ Answer(c) /\ at' = at
  BY DEF PurgeErase, EmptySweep, At, disk
<1> QED BY <1>1, SafeAnswer

LEMMA PurgeDataSafe ==
    ASSUME IInv, NEW c \in Calls, PurgeData(c) PROVE Safely' /\ Excused(c)
<1>1. call[c].pc = "purge" /\ ~At(c, "idle") BY DEF PurgeData, At
<1>2. CASE Answer(c) /\ at' = at BY <1>1, <1>2, SafeAnswer
<1>3. ASSUME NEW k, RemoveSlot(c, Held(c), k),
             k = Idle \/ k = [call[c] EXCEPT !.pc = "erase"]
      PROVE  Safely' /\ Excused(c)
  <2>1. k.pc \in {"idle", "erase"} /\ Next1(c, k)
    BY <1>1, <1>3, IdleFacts, IdleGoes DEF IInv, TypeOK, Call, Pc, Next1
  <2>2. Safe(k)' BY <2>1 DEF Safe
  <2>3. Followed(c, k, Slot(Held(c)), NoPlace) BY <1>3 DEF RemoveSlot, Followed
  <2>4. Safely' /\ call'[c] = k BY <1>1, <2>1, <2>2, <2>3, SafeFollowed
  <2>5. call'[c] # call[c] BY <1>1, <2>1, <2>4
  <2> QED BY <1>1, <2>4, <2>5 DEF Excused, Destroys
<1> QED BY <1>2, <1>3 DEF PurgeData

LEMMA EmptyOneSafe ==
    ASSUME IInv, NEW c \in Calls, EmptyOne(c) PROVE Safely' /\ Excused(c)
<1>1. call[c].pc = "empty" /\ ~At(c, "idle") BY DEF EmptyOne, At
<1>2. PICK k, r : /\ r \in call[c].todo
                   /\ k = [call[c] EXCEPT !.todo = @ \ {r}]
                   /\ \/ RemoveSlot(c, r, k)
                      \/ call' = [call EXCEPT ![c] = k] /\ UNCHANGED <<at, purged>>
  BY DEF EmptyOne
<1>3. k \in Call /\ k.pc = "empty" /\ k.todo # call[c].todo /\ k.alone = call[c].alone
  <2>1. call[c] \in Call BY DEF IInv, TypeOK
  <2>2. k.pc = call[c].pc /\ k.alone = call[c].alone /\ k.todo = call[c].todo \ {r}
    BY <1>2, <2>1 DEF Call
  <2>3. k \in Call BY <1>2, <2>1 DEF Call
  <2> QED BY <1>1, <1>2, <2>2, <2>3
<1>4. Next1(c, k) /\ Safe(k)' BY <1>3 DEF Next1, Safe
<1>5. Safely' /\ call'[c] = k
  <2>1. CASE RemoveSlot(c, r, k)
    <3>1. Followed(c, k, Slot(r), NoPlace) BY <2>1 DEF RemoveSlot, Followed
    <3> QED BY <1>1, <1>4, <3>1, SafeFollowed
  <2>2. CASE call' = [call EXCEPT ![c] = k] BY <1>1, <1>4, <2>2, SafeOne
  <2> QED BY <1>2, <2>1, <2>2
<1>6. call'[c] # call[c] BY <1>3, <1>5
<1> QED BY <1>1, <1>5, <1>6 DEF Excused, Destroys

\* A move has come to its end, and what it moved is no longer where it was.
LEMMA EndSafe ==
    ASSUME IInv, NEW c \in Calls, Moving(call[c]), NEW d \in Places \cup {NoPlace},
           Followed(c, Continue(c), call[c].src, d), at'[call[c].src] = NoFile,
           origin' = origin
    PROVE  Safely' /\ call'[c] # call[c]
<1>1. PICK r \in Records :
        /\ call[c].held = {r}
        /\ \/ Toward(call[c], r) /\ call[c].then \in {"insert", "idle"}
           \/ Back(call[c], r) /\ call[c].then \in {"mark", "idle"}
  BY MoveOf
<1>2. PICK k : k = Continue(c) OBVIOUS
<1>3. /\ Next1(c, k) /\ k.held \subseteq {r} /\ k.pc = call[c].then
  BY <1>1, <1>2, ContinueGoes
<1>4. Safe(k)' BY <1>1, <1>3 DEF Safe, Toward, Back, Occupied, Slot
<1>5. ~At(c, "idle") BY DEF At, Moving
<1>6. Safely' /\ call'[c] = k BY <1>2, <1>3, <1>4, <1>5, SafeFollowed
<1>7. call'[c].pc # call[c].pc BY <1>1, <1>3, <1>6 DEF Moving
<1> QED BY <1>6, <1>7

LEMMA TransferSafe ==
    ASSUME IInv, Safely, NEW c \in Calls, Transfer(c) PROVE Safely' /\ Excused(c)
<1> DEFINE s == call[c].src
           d == call[c].dst
<1>1. Moving(call[c]) /\ call[c].pc = "transfer" /\ ~At(c, "idle") /\ origin' = origin
  BY DEF Transfer, Moving, At, table
<1>2. s \in Places /\ d \in Places /\ s # d /\ call[c] \in Call BY <1>1, MoveOf
<1>3. call[c].alone => at[d] \notin Versions BY <1>1, NowhereIsNone DEF Safely, Safe
<1>4. CASE Answer(c) /\ at' = at BY <1>1, <1>4, SafeAnswer
<1>5. CASE at' = Renamed(s, d) /\ call' = [Follow(call, s, d) EXCEPT ![c] = Continue(c)]
  <2>1. /\ at'[s] = NoFile /\ at'[d] = at[s]
        /\ \A p \in Places : p # s /\ p # d => at'[p] = at[p]
    BY <1>2, <1>5 DEF Renamed, IInv, TypeOK
  <2>2. Followed(c, Continue(c), s, d) BY <1>5 DEF Followed
  <2>3. Safely' /\ call'[c] # call[c] BY <1>1, <1>2, <2>1, <2>2, EndSafe
  <2>4. CASE call[c].alone BY <1>2, <1>3, <2>1, <2>3, <2>4, MoveLosesNone DEF Excused
  <2> QED BY <2>3, <2>4, NotAloneExcused
<1>6. CASE at' = [at EXCEPT ![d] = at[s]] /\ GoTo(c, "unlink")
  <2>1. PICK k : k = [call[c] EXCEPT !.pc = "unlink"] OBVIOUS
  <2>2. /\ k \in Call /\ k.pc = "unlink" /\ k.src = s /\ k.dst = d /\ k.alone = call[c].alone
    BY <1>2, <2>1 DEF Call, Pc
  <2>3. at'[d] = at[s] /\ at'[s] = at[s] /\ \A p \in Places : p # d => at'[p] = at[p]
    BY <1>2, <1>6 DEF IInv, TypeOK
  <2>4. Safe(k)' BY <2>2, <2>3 DEF Safe
  <2>5. call' = [call EXCEPT ![c] = k] BY <1>6, <2>1 DEF GoTo
  <2>6. Next1(c, k) BY <2>2 DEF Next1
  <2>7. Safely' /\ call'[c] = k BY <1>1, <2>4, <2>5, <2>6, SafeOne
  <2>8. call'[c] # call[c] BY <1>1, <2>2, <2>7
  <2>9. CASE call[c].alone BY <1>3, <2>3, <2>7, <2>9, FillLosesNone DEF Excused
  <2> QED BY <2>7, <2>8, <2>9, NotAloneExcused
<1>7. CASE at' = [at EXCEPT ![d] = Partial] /\ Answer(c)
  <2>1. Safely' /\ call'[c] = Idle BY <1>1, <1>7, SafeOne, SafeIdle, IdleGoes DEF Answer
  <2>2. call'[c] # call[c] BY <1>1, <2>1, IdleFacts
  <2>3. \A p \in Places : p # d => at'[p] = at[p] BY <1>7 DEF IInv, TypeOK
  <2>4. CASE call[c].alone BY <1>3, <2>1, <2>3, <2>4, FillLosesNone DEF Excused
  <2> QED BY <2>1, <2>2, <2>4, NotAloneExcused
<1> QED BY <1>4, <1>5, <1>6, <1>7 DEF Transfer

LEMMA UnlinkSafe ==
    ASSUME IInv, Safely, NEW c \in Calls, Unlink(c) PROVE Safely' /\ Excused(c)
<1> DEFINE s == call[c].src
<1>1. Moving(call[c]) /\ call[c].pc = "unlink" /\ ~At(c, "idle") /\ origin' = origin
  BY DEF Unlink, Moving, At, table
<1>2. s \in Places BY <1>1, MoveOf
<1>3. CASE Answer(c) /\ at' = at BY <1>1, <1>3, SafeAnswer
<1>4. CASE at' = Removed(s) /\ call' = [Follow(call, s, NoPlace) EXCEPT ![c] = Continue(c)]
  <2>1. at'[s] = NoFile BY <1>2, <1>4 DEF Removed, IInv, TypeOK
  <2>2. Followed(c, Continue(c), s, NoPlace) BY <1>4 DEF Followed
  <2>3. Safely' /\ call'[c] # call[c] BY <1>1, <2>1, <2>2, EndSafe
  <2>4. ~call[c].alone \/ at[call[c].dst] = at[s] BY <1>1 DEF Safely, Safe
  <2> QED BY <1>1, <2>3, <2>4 DEF Excused, Destroys
<1> QED BY <1>3, <1>4 DEF Unlink

\* Whatever the step: what it destroys it was asked to, or two requests met.
LEMMA NextSafe ==
    ASSUME IInv, Safely, [Next]_vars PROVE Safely' /\ (NoLoss \/ \E c \in Calls : Destroys(c))
<1>1. CASE FileNext
  <2>1. PICK c \in Calls :
          \/ StartRename(c) \/ StartMove(c) \/ StartCopy(c) \/ StartUpload(c) \/ StartCreate(c)
          \/ MakeDirectory(c) \/ Resolve(c) \/ Relocate(c) \/ CopyOpen(c) \/ UploadOpen(c) \/ WriteBody(c)
    BY <1>1 DEF FileNext
  <2>2. Safely' /\ Excused(c)
    BY <2>1, StartsSafe, MakeDirectorySafe, ResolveSafe, RelocateSafe, OpenSafe, WriteBodySafe
  <2> QED BY <2>2 DEF Excused
<1>2. CASE TrashNext
  <2>1. PICK c \in Calls :
          \/ Transfer(c) \/ Unlink(c)
          \/ DeleteStart(c) \/ DeleteInsert(c)
          \/ RestoreStart(c) \/ RestoreCheck(c) \/ RestoreMark(c)
          \/ PurgeStart(c) \/ PurgeData(c) \/ PurgeErase(c)
          \/ EmptyStart(c) \/ EmptyOne(c) \/ EmptySweep(c)
    BY <1>2 DEF TrashNext
  <2>2. Safely' /\ Excused(c)
    BY <2>1, TransferSafe, UnlinkSafe, TakesSafe, InsertCheckMarkSafe, EraseSweepSafe,
       PurgeDataSafe, EmptyOneSafe
  <2> QED BY <2>2 DEF Excused
<1>3. CASE Crash
  <2>1. at' = at /\ \A c \in Calls : call'[c] = Idle BY <1>3 DEF Crash, disk
  <2>2. Safely' BY <2>1, IdleFacts DEF Safely, Safe
  <2> QED BY <2>1, <2>2, QuietLosesNone
<1>4. CASE UNCHANGED vars
  <2>1. at' = at /\ call' = call /\ origin' = origin BY <1>4 DEF vars
  <2>2. Safely' BY <2>1 DEF Safely, Safe, Occupied, Slot
  <2> QED BY <2>1, <2>2, QuietLosesNone
<1> QED BY <1>1, <1>2, <1>3, <1>4 DEF Next

LEMMA SafelyAlways == Spec => []Safely
<1>1. Init => Safely BY IdleFacts DEF Init, FileInit, Safely, Safe
<1>2. IInv /\ Safely /\ [Next]_vars => Safely' BY NextSafe
<1> QED BY <1>1, <1>2, Invariant, PTL DEF Spec

\* Rename, Move, Copy, Upload and Create, SoftDelete and RestoreLatest, and what the last two
\* undo when their statement fails, lose no file: a whole file disappears only in a purge, by
\* the overwrite policy, or in a step of a request that another one met under way.
THEOREM AloneDestroysNothing == Spec => AloneKeeps
<1>1. IInv /\ Safely /\ [Next]_vars =>
         [\A v \in Versions : Copies(v)' < Copies(v) => \E c \in Calls : Destroys(c)]_vars
  BY NextSafe DEF NoLoss
<1> QED BY <1>1, Invariant, SafelyAlways, PTL DEF Spec, AloneKeeps

=============================================================================
