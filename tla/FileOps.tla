------------------------------- MODULE FileOps -------------------------------
(***************************************************************************)
(* Operations on the stored files (internal/service/operations_service.go, *)
(* conflict_service.go, file_service.go Upload, directory_service.go       *)
(* Create, internal/storage): rename, move, copy, upload and the creation  *)
(* of directories, by requests that share nothing but the disk.            *)
(*                                                                         *)
(* A step is one call to the file system; calls that only look, with       *)
(* nothing done between them, are one step.  A request for several paths   *)
(* is the sequence of its paths: the loops of Move, Copy, Delete and       *)
(* Restore carry nothing from one to the next but the list of answers.     *)
(* A file stands for a file or for a whole directory that moves as one.    *)
(* The trash directory is on this disk too: module Trash adds it.          *)
(***************************************************************************)
EXTENDS Integers, FiniteSets

CONSTANTS
    Dirs,          \* directories of the storage root
    Bin,           \* the trash directory
    MaxNames,      \* variants "name (k)" of a name (10000 in the code)
    MaxRecords,    \* bound on what is moved to the trash
    Versions,      \* contents a file may have
    Calls,         \* request goroutines; one that has answered serves again
    MaxRequests,   \* bound on the requests taken
    MaxFaults,     \* bound on file-system and SQL calls that fail
    NoFile, Partial, NoPlace

Names == 0..MaxNames
Records == 1..MaxRecords
Paths == Dirs \X Names
Slot(r) == <<Bin, r>>
Places == Paths \cup {Slot(r) : r \in Records}
Policies == {"overwrite", "rename", "skip"}

\* Partial: bytes of a write that is not over, that failed, or of two at once.
Contents == Versions \cup {Partial}

ASSUME FileAssumption ==
    /\ MaxNames \in Nat /\ MaxRecords \in Nat /\ MaxRequests \in Nat /\ MaxFaults \in Nat
    /\ IsFiniteSet(Dirs) /\ Bin \notin Dirs
    /\ NoFile \notin Contents /\ Partial \notin Versions /\ NoPlace \notin Places

VARIABLES
    at,         \* place -> what is stored there
    sameDevice, \* whether the trash and the storage root share a device
    call,       \* request -> where its handler is
    requests,   \* the requests taken so far
    faults,     \* the calls that failed so far
    tangled,    \* history: a file was opened to be written while open in another request
    accident    \* history: a file-system call failed under way, or the process was killed

disk == <<at, sameDevice>>
counts == <<requests, faults, tangled, accident>>

Pc == {"idle", "resolve", "relocate", "open", "body", "mkdir",                      \* FileOps
       "transfer", "unlink", "insert", "check", "mark", "purge", "erase", "empty"}  \* Trash
\* src and dst are names, until the body is copied: then they are the open files,
\* wherever a rename takes them, NoPlace once they have lost their name.  alone: no
\* other request was under way since this one began.
Call == [pc : Pc, policy : Policies, src : Places \cup {NoPlace}, dst : Places \cup {NoPlace},
         data : Contents \cup {NoFile}, dirty : BOOLEAN, alone : BOOLEAN,
         then : Pc, held : SUBSET Records, todo : SUBSET Records]
Idle == [pc |-> "idle", policy |-> "rename", src |-> NoPlace, dst |-> NoPlace,
         data |-> NoFile, dirty |-> FALSE, alone |-> FALSE,
         then |-> "idle", held |-> {}, todo |-> {}]

FileInit ==
    /\ at \in [Places -> Versions \cup {NoFile}]
    /\ sameDevice \in BOOLEAN
    /\ call = [c \in Calls |-> Idle]
    /\ requests = 0 /\ faults = 0 /\ tangled = FALSE /\ accident = FALSE

At(c, pc) == call[c].pc = pc
GoTo(c, pc) == call' = [call EXCEPT ![c] = [@ EXCEPT !.pc = pc]]
Answer(c) == call' = [call EXCEPT ![c] = Idle]
Occupied(p) == at[p] # NoFile

\* A request begins, or the next path of one: from now on neither it nor those under way are alone.
Enter(c, begun) ==
    /\ At(c, "idle")
    /\ requests < MaxRequests
    /\ requests' = requests + 1
    /\ call' = [e \in Calls |->
          IF e = c THEN [begun EXCEPT !.alone = \A d \in Calls : At(d, "idle")]
          ELSE [call[e] EXCEPT !.alone = FALSE]]
    /\ UNCHANGED <<disk, faults, tangled, accident>>

\* A file-system call fails half way.
Fault ==
    /\ faults < MaxFaults
    /\ faults' = faults + 1
    /\ accident' = TRUE
NoFault == UNCHANGED <<faults, accident>>

-----------------------------------------------------------------------------
(* What the calls to the file system do.                                   *)

\* Open files follow the rename of s to d; those at d lose their name.
Follow(cs, s, d) ==
    LET shift(p) == IF p = s THEN d ELSE IF p = d THEN NoPlace ELSE p
    IN  [c \in Calls |-> IF cs[c].pc # "body" THEN cs[c]
                         ELSE [cs[c] EXCEPT !.src = shift(@), !.dst = shift(@)]]
Renamed(s, d) == [at EXCEPT ![d] = at[s], ![s] = NoFile]
Removed(p) == [at EXCEPT ![p] = NoFile]

-----------------------------------------------------------------------------
(* The beginning of a request.  One that is refused at once has no action. *)

MutRenameAllowed(s, d) == Occupied(s)   \* the target is not looked at

\* os.Stat of both names.
RenameAllowed(s, d) == Occupied(s) /\ ~Occupied(d)

StartRename(c) ==
    \E s \in Paths, n \in Names :
        /\ RenameAllowed(s, <<s[1], n>>)
        /\ Enter(c, [Idle EXCEPT !.pc = "relocate", !.src = s, !.dst = <<s[1], n>>])

\* Move does not look whether its source exists.
StartMove(c) ==
    \E s \in Paths, d \in Dirs, policy \in Policies :
        /\ s # <<d, s[2]>>
        /\ Enter(c, [Idle EXCEPT !.pc = "resolve", !.then = "relocate", !.policy = policy,
                                 !.src = s, !.dst = <<d, s[2]>>])

StartCopy(c) ==
    \E s \in Paths, d \in Dirs, policy \in Policies :
        /\ Occupied(s)
        /\ Enter(c, [Idle EXCEPT !.pc = "resolve", !.then = "open", !.policy = policy,
                                 !.src = s, !.dst = <<d, s[2]>>])

StartUpload(c) ==
    \E d \in Dirs, v \in Versions, policy \in Policies :
        Enter(c, [Idle EXCEPT !.pc = "resolve", !.then = "open", !.policy = policy,
                              !.dst = <<d, 0>>, !.data = v])

\* A new directory is a whole file of its own.
StartCreate(c) ==
    \E p \in Paths, v \in Versions :
        /\ ~Occupied(p)
        /\ Enter(c, [Idle EXCEPT !.pc = "mkdir", !.dst = p, !.data = v])

-----------------------------------------------------------------------------
(* resolveConflictTarget, before a move, a copy or an upload               *)

\* The variants of a name that a rename tries, in order.  Those of a variant are not
\* in the model: there the tries are used up at once.
Candidates(p) == IF p[2] = 0 THEN {<<p[1], k>> : k \in 1..MaxNames} ELSE {}
Chosen(c, target) ==
    call' = [call EXCEPT ![c] = [@ EXCEPT !.pc = call[c].then, !.dst = target]]

Resolve(c) ==
    LET d == call[c].dst
        free == {p \in Candidates(d) : ~Occupied(p)}
    IN  /\ At(c, "resolve")
        /\ \/ ~Occupied(d) /\ Chosen(c, d) /\ UNCHANGED at
           \/ Occupied(d) /\ call[c].policy = "skip" /\ Answer(c) /\ UNCHANGED at
           \/ /\ Occupied(d) /\ call[c].policy = "overwrite"
              /\ at' = Removed(d)
              /\ call' = [Follow(call, d, NoPlace) EXCEPT ![c] = [@ EXCEPT !.pc = call[c].then]]
           \/ /\ Occupied(d) /\ call[c].policy = "rename"
              /\ IF free = {} THEN Answer(c)
                 ELSE \E p \in free : Chosen(c, p) /\ \A q \in free : p[2] <= q[2]
              /\ UNCHANGED at
        /\ UNCHANGED <<sameDevice, counts>>

-----------------------------------------------------------------------------
(* Storage.Rename, which ends Rename and Move.  os.Rename replaces what it *)
(* finds, and fails when the source is gone or for a reason of its own.    *)

Relocate(c) ==
    LET s == call[c].src
        d == call[c].dst
    IN  /\ At(c, "relocate")
        /\ \/ /\ Occupied(s)
              /\ at' = Renamed(s, d)
              /\ call' = [Follow(call, s, d) EXCEPT ![c] = Idle]
           \/ Answer(c) /\ UNCHANGED at
        /\ UNCHANGED <<sameDevice, counts>>

\* os.MkdirAll makes nothing where something is by now, and need not say so.
MakeDirectory(c) ==
    LET d == call[c].dst
    IN  /\ At(c, "mkdir")
        /\ at' = IF Occupied(d) THEN at ELSE [at EXCEPT ![d] = call[c].data]
        /\ Answer(c)
        /\ UNCHANGED <<sameDevice, counts>>

-----------------------------------------------------------------------------
(* Copy and Upload write a file                                            *)

Writing(p) == {e \in Calls : At(e, "body") /\ call[e].dst = p}

\* os.OpenFile with O_TRUNC.  Whoever has the file open, to read or to write, is
\* disturbed; so is this request, by one that is writing the file or its source.
OpenTruncated(c, data) ==
    LET s == call[c].src
        d == call[c].dst
        disturbed == {e \in Calls : At(e, "body") /\ d \in {call[e].src, call[e].dst}}
        dirty == Writing(d) \cup Writing(s) # {} \/ s = d
    IN  /\ at' = [at EXCEPT ![d] = Partial]
        /\ call' = [e \in Calls |->
              IF e = c THEN [call[e] EXCEPT !.pc = "body", !.data = data, !.dirty = dirty]
              ELSE IF e \in disturbed THEN [call[e] EXCEPT !.dirty = TRUE] ELSE call[e]]
        /\ tangled' = (tangled \/ dirty \/ disturbed # {})

\* copyRecursive stats and opens its source, which may be gone by now.
CopyOpen(c) ==
    /\ At(c, "open") /\ call[c].src # NoPlace
    /\ \/ Occupied(call[c].src) /\ OpenTruncated(c, at[call[c].src])
       \/ Answer(c) /\ UNCHANGED <<at, tangled>>
    /\ UNCHANGED <<sameDevice, requests, faults, accident>>

MutUploadOpen(c) ==   \* the type is looked at once the file is open
    /\ At(c, "open") /\ call[c].src = NoPlace
    /\ \/ OpenTruncated(c, call[c].data)
       \/ at' = [at EXCEPT ![call[c].dst] = Partial] /\ Answer(c) /\ UNCHANGED tangled
    /\ UNCHANGED <<sameDevice, requests, faults, accident>>

\* Upload sniffs its first bytes: a type that is not allowed is refused only now.
UploadOpen(c) ==
    /\ At(c, "open") /\ call[c].src = NoPlace
    /\ \/ OpenTruncated(c, call[c].data)
       \/ Answer(c) /\ UNCHANGED <<at, tangled>>
    /\ UNCHANGED <<sameDevice, requests, faults, accident>>

\* io.Copy.  A disturbed request leaves its data, what its source has become, or a
\* mixture.  An error leaves what was written so far.  A file without a name is
\* written to no end.
WriteBody(c) ==
    LET s == call[c].src
        d == call[c].dst
        read == {call[c].data} \cup (IF call[c].dirty
                  THEN {Partial} \cup (IF s \in Places THEN {at[s]} ELSE {}) ELSE {})
        store(data) == at' = IF d \in Places THEN [at EXCEPT ![d] = data] ELSE at
    IN  /\ At(c, "body")
        /\ \/ (\E data \in read : store(data)) /\ NoFault
           \/ store(Partial) /\ Fault
        /\ Answer(c)
        /\ UNCHANGED <<sameDevice, requests, tangled>>

FileNext ==
    \E c \in Calls :
        \/ StartRename(c) \/ StartMove(c) \/ StartCopy(c) \/ StartUpload(c) \/ StartCreate(c)
        \/ MakeDirectory(c) \/ Resolve(c) \/ Relocate(c) \/ CopyOpen(c) \/ UploadOpen(c) \/ WriteBody(c)

=============================================================================
