-------------------------------- MODULE Trash --------------------------------
(***************************************************************************)
(* The trash (internal/service/trash_service.go, trash_repo.go), composed  *)
(* with the other operations on files: both work on one disk, and the      *)
(* trash also on table trash_records.                                      *)
(*                                                                         *)
(* Nothing holds the two together: a deletion moves the file and then      *)
(* inserts its row, a restore moves the file and then marks the row, a     *)
(* purge removes the data and then deletes the row.  When the statement    *)
(* fails, the first two move the file back.  Every step is one call to the *)
(* file system or one SQL statement.                                       *)
(***************************************************************************)
EXTENDS FileOps

VARIABLES
    row,       \* id -> the state of its row; ids are drawn in the order of deleted_at
    origin,    \* id -> original_path of the record
    drawn,     \* the ids drawn so far
    purged,    \* history: ids whose data a purge removed
    doubtful   \* history: ids that two requests had in hand, that were swept unseen, whose
               \* file was taken before it was moved, or in hand of a request at an accident

table == <<row, origin, drawn>>
trash == <<row, origin, drawn, purged, doubtful>>
vars == <<at, sameDevice, call, requests, faults, tangled, accident,
          row, origin, drawn, purged, doubtful>>

Listed == {r \in Records : row[r] = "trashed"}

\* The trash may hold files of earlier requests.
Init ==
    /\ FileInit
    /\ drawn \in 0..MaxRecords
    /\ origin \in [Records -> Paths \cup {NoPlace}]
    /\ \A r \in Records :
        /\ (origin[r] = NoPlace) <=> (r > drawn)
        /\ Occupied(Slot(r)) <=> (r <= drawn)
    /\ row = [r \in Records |-> IF r <= drawn THEN "trashed" ELSE "none"]
    /\ purged = {} /\ doubtful = {}

\* An SQL statement fails: nothing has changed.
SqlFault == faults < MaxFaults /\ faults' = faults + 1 /\ UNCHANGED accident

\* A request takes records in hand: doubtful when another already has one.
Doubt(records) == doubtful' = doubtful \cup records
Holders(r) == {c \in Calls : r \in call[c].held}
Take(c, taken, begun) ==
    /\ Enter(c, [begun EXCEPT !.held = taken])
    /\ Doubt({r \in taken : Holders(r) # {}})
Held(c) == CHOOSE r \in call[c].held : TRUE

-----------------------------------------------------------------------------
(* movePath.  On one device it is a rename.  Across devices the data is    *)
(* copied, then the source removed.                                        *)

MovePath(c, s, d, then) == [call[c] EXCEPT !.pc = "transfer", !.src = s, !.dst = d, !.then = then]
MutContinue(c) == [call[c] EXCEPT !.pc = call[c].then]   \* still has the record in hand
Continue(c) == IF call[c].then = "idle" THEN Idle ELSE [call[c] EXCEPT !.pc = call[c].then]

\* A copy that fails leaves a part of the file.
Transfer(c) ==
    LET s == call[c].src
        d == call[c].dst
    IN  /\ At(c, "transfer")
        /\ \/ ~Occupied(s) /\ Answer(c) /\ UNCHANGED at /\ NoFault
           \/ /\ Occupied(s) /\ sameDevice
              /\ at' = Renamed(s, d)
              /\ call' = [Follow(call, s, d) EXCEPT ![c] = Continue(c)]
              /\ NoFault
           \/ /\ Occupied(s) /\ ~sameDevice
              /\ at' = [at EXCEPT ![d] = at[s]]
              /\ GoTo(c, "unlink")
              /\ NoFault
           \/ /\ Occupied(s) /\ Fault
              /\ at' = IF sameDevice THEN at ELSE [at EXCEPT ![d] = Partial]
              /\ Answer(c)
        /\ tangled' = (tangled \/ (~sameDevice /\ Writing(s) \cup Writing(d) # {}))
        /\ doubtful' = IF (Occupied(s) \/ call[c].alone) /\ faults' = faults THEN doubtful
                       ELSE doubtful \cup call[c].held
        /\ UNCHANGED <<sameDevice, requests, table, purged>>

\* os.RemoveAll of the source, whatever it is by now.
Unlink(c) ==
    LET s == call[c].src
    IN  /\ At(c, "unlink")
        /\ \/ /\ at' = Removed(s)
              /\ call' = [Follow(call, s, NoPlace) EXCEPT ![c] = Continue(c)]
              /\ NoFault /\ UNCHANGED doubtful
           \/ Fault /\ Answer(c) /\ Doubt(call[c].held) /\ UNCHANGED at
        /\ UNCHANGED <<sameDevice, requests, tangled, table, purged>>

-----------------------------------------------------------------------------
(* SoftDelete                                                              *)

DeleteStart(c) ==
    \E p \in Paths :
        LET r == drawn + 1
        IN  /\ r \in Records
            /\ Occupied(p)
            /\ Take(c, {r}, [Idle EXCEPT !.pc = "transfer", !.src = p, !.dst = Slot(r),
                                         !.then = "insert"])
            /\ drawn' = r
            /\ origin' = [origin EXCEPT ![r] = p]
            /\ UNCHANGED <<row, purged>>

\* The file goes back when its row cannot be inserted, and how that ends is ignored.
MutUndoDelete(c) == Idle   \* nothing is moved back
UndoDelete(c) == MovePath(c, Slot(Held(c)), origin[Held(c)], "idle")

DeleteInsert(c) ==
    /\ At(c, "insert")
    /\ \/ row' = [row EXCEPT ![Held(c)] = "trashed"] /\ Answer(c) /\ NoFault
       \/ SqlFault /\ call' = [call EXCEPT ![c] = UndoDelete(c)] /\ UNCHANGED row
    /\ UNCHANGED <<disk, requests, tangled, origin, drawn, purged, doubtful>>

-----------------------------------------------------------------------------
(* RestoreLatest                                                           *)

\* FindLatestByPath: the rows not restored, the latest deletion first.
IsLatest(r, p) ==
    /\ r \in Listed /\ origin[r] = p
    /\ \A q \in Listed : origin[q] = p => q <= r

RestoreAllowed(r) == ~Occupied(origin[r])

RestoreStart(c) ==
    \E r \in Records :
        /\ IsLatest(r, origin[r])
        /\ Take(c, {r}, [Idle EXCEPT !.pc = "check"])
        /\ UNCHANGED <<table, purged>>

\* os.Stat of the target: what has been trashed since then is not looked for.
RestoreCheck(c) ==
    LET r == Held(c)
    IN  /\ At(c, "check")
        /\ IF RestoreAllowed(r)
           THEN call' = [call EXCEPT ![c] = MovePath(c, Slot(r), origin[r], "mark")]
           ELSE Answer(c)
        /\ UNCHANGED <<disk, counts, trash>>

\* MarkRestored says so when there is no row to mark.  The file then goes back into
\* the trash: what is by now under its name does.
MutUndoRestore(c) == Idle   \* nothing is moved back
UndoRestore(c) == MovePath(c, origin[Held(c)], Slot(Held(c)), "idle")

RestoreMark(c) ==
    LET r == Held(c)
    IN  /\ At(c, "mark")
        /\ \/ /\ r \in Listed
              /\ row' = [row EXCEPT ![r] = "restored"]
              /\ Answer(c) /\ NoFault
           \/ /\ (r \notin Listed /\ NoFault) \/ SqlFault
              /\ call' = [call EXCEPT ![c] = UndoRestore(c)]
              /\ UNCHANGED row
        /\ UNCHANGED <<disk, requests, tangled, origin, drawn, purged, doubtful>>

-----------------------------------------------------------------------------
(* PermanentDelete                                                         *)

\* FindByID
PurgeStart(c) ==
    \E r \in Listed :
        /\ Take(c, {r}, [Idle EXCEPT !.pc = "purge"])
        /\ UNCHANGED <<table, purged>>

\* then: where request c goes from here.
RemoveSlot(c, r, then) ==
    /\ at' = Removed(Slot(r))
    /\ purged' = purged \cup {r}
    /\ call' = [Follow(call, Slot(r), NoPlace) EXCEPT ![c] = then]

\* os.RemoveAll, and the thumbnails of the file: when they cannot be removed the row
\* stays.  Missing data is no error.
PurgeData(c) ==
    LET r == Held(c)
    IN  /\ At(c, "purge")
        /\ \/ RemoveSlot(c, r, [call[c] EXCEPT !.pc = "erase"]) /\ NoFault /\ UNCHANGED doubtful
           \/ /\ RemoveSlot(c, r, Idle) \/ (Answer(c) /\ UNCHANGED <<at, purged>>)
              /\ Fault /\ Doubt({r})
        /\ UNCHANGED <<sameDevice, requests, tangled, table>>

\* Delete is by id, of a row that may have been restored since.
PurgeErase(c) ==
    /\ At(c, "erase")
    /\ \/ NoFault /\ row' = [row EXCEPT ![Held(c)] = "gone"]
       \/ SqlFault /\ UNCHANGED row
    /\ Answer(c)
    /\ UNCHANGED <<disk, requests, tangled, origin, drawn, purged, doubtful>>

-----------------------------------------------------------------------------
(* EmptyTrash                                                              *)

EmptyStart(c) ==
    /\ Take(c, Listed, [Idle EXCEPT !.pc = "empty", !.todo = Listed])
    /\ UNCHANGED <<table, purged>>

\* The records in the order of the list.  One whose data or thumbnails cannot be
\* removed is passed over.
EmptyOne(c) ==
    \E r \in call[c].todo :
        LET rest == [call[c] EXCEPT !.todo = @ \ {r}]
        IN  /\ At(c, "empty")
            /\ \A q \in call[c].todo : q <= r
            /\ \/ RemoveSlot(c, r, rest) /\ NoFault /\ UNCHANGED doubtful
               \/ /\ \/ RemoveSlot(c, r, rest)
                     \/ call' = [call EXCEPT ![c] = rest] /\ UNCHANGED <<at, purged>>
                  /\ Fault /\ Doubt({r})
            /\ UNCHANGED <<sameDevice, requests, tangled, table>>

\* DeleteAllNotRestored: every row there is by now, listed or not.
Swept(c) == Listed

EmptySweep(c) ==
    /\ At(c, "empty") /\ call[c].todo = {}
    /\ \/ /\ NoFault
          /\ row' = [r \in Records |-> IF r \in Swept(c) THEN "gone" ELSE row[r]]
          /\ Doubt(Swept(c) \ call[c].held)
       \/ SqlFault /\ UNCHANGED <<row, doubtful>>
    /\ Answer(c)
    /\ UNCHANGED <<disk, requests, tangled, origin, drawn, purged>>

-----------------------------------------------------------------------------
(* The process is killed: the disk and the table stay as they are.         *)
Crash ==
    /\ \E c \in Calls : ~At(c, "idle")
    /\ accident' = TRUE
    /\ Doubt(UNION {call[c].held : c \in Calls})
    /\ call' = [c \in Calls |-> Idle]
    /\ UNCHANGED <<disk, requests, faults, tangled, table, purged>>

TrashNext ==
    \E c \in Calls :
        \/ Transfer(c) \/ Unlink(c)
        \/ DeleteStart(c) \/ DeleteInsert(c)
        \/ RestoreStart(c) \/ RestoreCheck(c) \/ RestoreMark(c)
        \/ PurgeStart(c) \/ PurgeData(c) \/ PurgeErase(c)
        \/ EmptyStart(c) \/ EmptyOne(c) \/ EmptySweep(c)

Next ==
    \/ FileNext /\ UNCHANGED trash
    \/ TrashNext
    \/ Crash

Spec == Init /\ [][Next]_vars

-----------------------------------------------------------------------------
(* Properties                                                              *)

\* Every variable keeps its type, and a request that has answered has nothing in hand.
TypeOK ==
    /\ at \in [Places -> Contents \cup {NoFile}] /\ sameDevice \in BOOLEAN
    /\ call \in [Calls -> Call] /\ \A c \in Calls : At(c, "idle") => call[c] = Idle
    /\ requests \in 0..MaxRequests /\ faults \in 0..MaxFaults
    /\ tangled \in BOOLEAN /\ accident \in BOOLEAN
    /\ row \in [Records -> {"none", "trashed", "restored", "gone"}]
    /\ origin \in [Records -> Paths \cup {NoPlace}]
    /\ drawn \in 0..MaxRecords
    /\ purged \subseteq Records /\ doubtful \subseteq Records

Copies(v) == Cardinality({p \in Places : at[p] = v})

\* What may make a whole file disappear, at the step of request c: a purge, the
\* overwrite policy, the end of a move across devices, and the company of another
\* request between a check and the act.
Destroys(c) ==
    /\ call'[c] # call[c]
    /\ \/ call[c].pc \in {"purge", "empty"}
       \/ call[c].pc = "resolve" /\ call[c].policy = "overwrite"
       \/ call[c].pc = "unlink" /\ at[call[c].dst] = at[call[c].src]
       \/ ~call[c].alone

\* A request that is alone destroys no file unless it was asked to: rename, move, copy
\* and upload with skip or rename, deletion and restore, and their undoing when a
\* statement fails, leave every file somewhere.
AloneKeeps ==
    [][\A v \in Versions : Copies(v)' < Copies(v) => \E c \in Calls : Destroys(c)]_vars

InHand(r) == \E c \in Calls : r \in call[c].held

\* Data in the trash directory is always found through a row that lists it, but for
\* records in hand at a crash or a file-system error, or in hand of two requests: a
\* failed insert takes its file back, and no operation loses sight of data it keeps.
DataHasRow ==
    \A r \in Records :
        Occupied(Slot(r)) /\ ~InHand(r) /\ r \notin doubtful => r \in Listed

\* A row that lists a file finds its data, unless a purge removed it and could not
\* delete the row: no deletion or restore, undone or not, leaves a row without data.
RowHasData ==
    \A r \in Listed :
        Occupied(Slot(r)) \/ InHand(r) \/ r \in purged \cup doubtful

\* A file that is not whole is being written, or was left by an error, a crash, or two
\* requests that had it open together.
PartialExplained ==
    \A p \in Places :
        at[p] = Partial => Writing(p) # {} \/ accident \/ tangled

=============================================================================
