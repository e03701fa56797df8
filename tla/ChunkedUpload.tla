---------------------------- MODULE ChunkedUpload ----------------------------
(***************************************************************************)
(* Resumable uploads (internal/service/chunked_upload_service.go): the     *)
(* requests that open a session, write its chunks, complete or abort it,   *)
(* and the goroutine that clears what expired.                             *)
(*                                                                         *)
(* A session lives in memory, its bytes in a temp file, the result under a *)
(* name of the destination directory.  Two locks protect them: mu guards   *)
(* the map of sessions, and a mutex per session is held by WriteChunk and  *)
(* CompleteUpload over their whole work.  AbortUpload and CleanupExpired   *)
(* remove the temp file without it.  A step is what no other goroutine     *)
(* sees half done: a critical section of mu or one file-system call.       *)
(*                                                                         *)
(* Every upload asks for the same name of the same directory: name 0, and  *)
(* names 1..MaxNames are those conflict_policy=rename tries after it.      *)
(***************************************************************************)
EXTENDS Integers, FiniteSets

CONSTANTS
    Uploads,       \* the ids InitUpload will draw (random: never reused)
    Calls,         \* request goroutines; one that has answered serves again
    TotalChunks,   \* chunks of an upload
    MaxNames,      \* tries of conflict_policy=rename (10000 in the code)
    SameDevice,    \* whether the temp and storage directories share a device
    MaxCrashes,    \* bound on the process being killed
    NoCall, NoUpload, NoFile, Hole, Old

ASSUME CountsAssumption == TotalChunks \in Nat \ {0} /\ MaxNames \in Nat /\ MaxCrashes \in Nat
ASSUME DeviceAssumption == SameDevice \in BOOLEAN

Chunks == 1..TotalChunks
Names == 0..MaxNames
Policies == {"overwrite", "rename", "skip"}

\* What a file under a destination name holds, chunk by chunk: bytes of an
\* upload, bytes it had before, or bytes nobody wrote.
File == [Chunks -> Uploads \cup {Hole, Old}]
OldFile == [k \in Chunks |-> Old]
EmptyFile == [k \in Chunks |-> Hole]

ASSUME MarkersAssumption ==
    /\ NoCall \notin Calls /\ NoUpload \notin Uploads
    /\ NoFile \notin File /\ \A written \in SUBSET Chunks : NoFile # written
    /\ Hole # Old /\ {Hole, Old} \cap Uploads = {}

VARIABLES
    sessions,    \* the keys of s.sessions
    upload,      \* id -> the session object: its policy and the chunks it counted
    temp,        \* id -> the chunks wholly in its temp file, NoFile when absent
    dest,        \* name -> the file under it, or NoFile
    holder,      \* id -> the call that holds the session's mutex
    call,        \* call -> where its handler is
    cleaner,     \* CleanupExpired: where it is, the temp files it has yet to look at
    expired,     \* ids whose session was created more than maxAge ago
    stale,       \* ids whose temp file was last written more than maxAge ago
    completed,   \* history: id -> the times CompleteUpload answered a file
    withdrawn,   \* history: ids whose temp file abort, expiry or a crash gave up
    emptied,     \* history: ids that removed the file they replace, their own not in place
    interrupted, \* history: names whose copy a crash cut short
    crashes

files == <<temp, dest>>
ages == <<expired, stale>>
history == <<completed, withdrawn, emptied, interrupted>>
vars == <<sessions, upload, temp, dest, holder, call, cleaner, expired, stale,
          completed, withdrawn, emptied, interrupted, crashes>>

\* allowed: whether the first bytes are of an allowed type.
Session == [policy : Policies \cup {"none"}, allowed : BOOLEAN,
            received : SUBSET Chunks, count : Nat]
NotDrawn == [policy |-> "none", allowed |-> FALSE, received |-> {}, count |-> 0]

Pc == {"idle", "register", "writeLock", "copyBody",
       "completeLock", "drop", "forget", "resolve", "move", "copy", "unlink", "stat", "finish",
       "abortLock", "abortRemove", "abortForget"}
\* chunk is the index written, or copied next; linked, whether the open copy is
\* still the file under target.
Call == [pc : Pc, id : Uploads \cup {NoUpload}, chunk : 0..TotalChunks + 1,
         target : Names, source : SUBSET Chunks, linked : BOOLEAN]
Idle == [pc |-> "idle", id |-> NoUpload, chunk |-> 0, target |-> 0,
         source |-> {}, linked |-> FALSE]

Cleaner == [pc : {"idle", "expire", "scan"}, left : SUBSET Uploads]

Init ==
    /\ sessions = {}
    /\ upload = [u \in Uploads |-> NotDrawn]
    /\ temp = [u \in Uploads |-> NoFile]
    /\ \E taken \in SUBSET Names :
        dest = [n \in Names |-> IF n \in taken THEN OldFile ELSE NoFile]
    /\ holder = [u \in Uploads |-> NoCall]
    /\ call = [c \in Calls |-> Idle]
    /\ cleaner = [pc |-> "idle", left |-> {}]
    /\ expired = {} /\ stale = {}
    /\ completed = [u \in Uploads |-> 0]
    /\ withdrawn = {} /\ emptied = {} /\ interrupted = {}
    /\ crashes = 0

At(c, pc) == call[c].pc = pc
GoTo(c, pc) == call' = [call EXCEPT ![c].pc = pc]
Answer(c) == call' = [call EXCEPT ![c] = Idle]
Lock(c) == holder' = [holder EXCEPT ![call[c].id] = c]
Unlock(c) == holder' = [holder EXCEPT ![call[c].id] = NoCall]
RemoveTemp(u) == temp' = [temp EXCEPT ![u] = NoFile]

\* Only CleanupExpired keeps mu for more than one step.
MuFree == cleaner.pc # "expire"

-----------------------------------------------------------------------------
(* InitUpload: the temp file exists before its session does.               *)

InitTemp(c, u) ==
    /\ At(c, "idle")
    /\ upload[u] = NotDrawn
    /\ \E p \in Policies, ok \in BOOLEAN :
        upload' = [upload EXCEPT ![u] = [@ EXCEPT !.policy = p, !.allowed = ok]]
    /\ temp' = [temp EXCEPT ![u] = {}]
    /\ call' = [call EXCEPT ![c] = [@ EXCEPT !.pc = "register", !.id = u]]
    /\ UNCHANGED <<sessions, dest, holder, cleaner, ages, history, crashes>>

InitRegister(c) ==
    /\ At(c, "register")
    /\ MuFree
    /\ sessions' = sessions \cup {call[c].id}
    /\ Answer(c)
    /\ UNCHANGED <<upload, files, holder, cleaner, ages, history, crashes>>

\* WriteChunk, CompleteUpload and AbortUpload look the session up under mu, and
\* keep the pointer.  An id that is not found is answered 404.
Lookup(c, u, pc) ==
    /\ At(c, "idle")
    /\ MuFree
    /\ u \in sessions
    /\ call' = [call EXCEPT ![c] = [@ EXCEPT !.pc = pc, !.id = u]]
    /\ UNCHANGED <<sessions, upload, files, holder, cleaner, ages, history, crashes>>

-----------------------------------------------------------------------------
(* WriteChunk                                                              *)

WriteLookup(c, u) == Lookup(c, u, "writeLock")

\* The mutex, then OpenFile, which fails when the temp file is gone.
WriteOpen(c) ==
    /\ At(c, "writeLock")
    /\ holder[call[c].id] = NoCall
    /\ IF temp[call[c].id] = NoFile
       THEN Answer(c) /\ UNCHANGED holder
       ELSE /\ Lock(c)
            /\ \E k \in Chunks :
                call' = [call EXCEPT ![c] = [@ EXCEPT !.pc = "copyBody", !.chunk = k]]
    /\ UNCHANGED <<sessions, upload, files, cleaner, ages, history, crashes>>

MutReceive(session, k) ==   \* a chunk sent twice counts twice
    [session EXCEPT !.received = @ \cup {k}, !.count = @ + 1]

\* A chunk sent again is not counted again.
Receive(session, k) ==
    IF k \in session.received THEN session
    ELSE [session EXCEPT !.received = @ \cup {k}, !.count = @ + 1]

\* The body is copied over the chunk's place in the open file.  A body cut short is
\* an error: what it wrote stays, as a prefix of the same bytes.  The file may have
\* lost its name meanwhile: then the bytes go nowhere, and the chunk counts.
WriteBody(c) ==
    LET u == call[c].id
        k == call[c].chunk
    IN  /\ At(c, "copyBody")
        /\ \E whole \in BOOLEAN :
            /\ temp' = IF whole /\ temp[u] # NoFile
                       THEN [temp EXCEPT ![u] = @ \cup {k}] ELSE temp
            /\ upload' = IF whole THEN [upload EXCEPT ![u] = Receive(@, k)] ELSE upload
        /\ stale' = stale \ {u}
        /\ Unlock(c)
        /\ Answer(c)
        /\ UNCHANGED <<sessions, dest, cleaner, expired, history, crashes>>

-----------------------------------------------------------------------------
(* CompleteUpload, under the session's mutex from CompleteCheck on          *)

CompleteLookup(c, u) == Lookup(c, u, "completeLock")

MutReadyToMove(u) == upload[u].count = TotalChunks   \* the file is opened only to move it

\* All chunks are counted, and the temp file opens to sniff its type.
ReadyToMove(u) == upload[u].count = TotalChunks /\ temp[u] # NoFile

\* Missing chunks, or a file that does not open, are answered as errors that keep
\* the session.  The first bytes decide whether the type is allowed.
CompleteCheck(c) ==
    /\ At(c, "completeLock")
    /\ holder[call[c].id] = NoCall
    /\ IF ReadyToMove(call[c].id)
       THEN /\ Lock(c)
            /\ GoTo(c, IF upload[call[c].id].allowed THEN "resolve" ELSE "drop")
       ELSE Answer(c) /\ UNCHANGED holder
    /\ UNCHANGED <<sessions, upload, files, cleaner, ages, history, crashes>>

\* A type that is not allowed, or skip: the temp file and the session are removed.
CompleteDrop(c) ==
    /\ At(c, "drop")
    /\ RemoveTemp(call[c].id)
    /\ GoTo(c, "forget")
    /\ UNCHANGED <<sessions, upload, dest, holder, cleaner, ages, history, crashes>>

MutCompleteForget(c) ==   \* returns without unlocking
    /\ At(c, "forget")
    /\ MuFree
    /\ sessions' = sessions \ {call[c].id}
    /\ Answer(c)
    /\ UNCHANGED <<upload, files, holder, cleaner, ages, history, crashes>>

CompleteForget(c) ==
    /\ At(c, "forget")
    /\ MuFree
    /\ sessions' = sessions \ {call[c].id}
    /\ Unlock(c)
    /\ Answer(c)
    /\ UNCHANGED <<upload, files, cleaner, ages, history, crashes>>

\* A copy in progress whose file is removed goes on without a name.
Detached(n) == [d \in Calls |-> IF call[d].target = n THEN [call[d] EXCEPT !.linked = FALSE]
                                ELSE call[d]]

\* MkdirAll and resolveConflictTarget: overwrite removes what it will replace before
\* the move.  Either may fail: a file system error, no free name within MaxNames.
CompleteResolve(c) ==
    LET u == call[c].id
        free == {n \in Names : dest[n] = NoFile}
        chosen(n) == call' = [call EXCEPT ![c] = [@ EXCEPT !.pc = "move", !.target = n]]
    IN  /\ At(c, "resolve")
        /\ \/ 0 \in free /\ chosen(0) /\ UNCHANGED <<dest, holder, emptied>>
           \/ /\ 0 \notin free /\ upload[u].policy = "skip"
              /\ GoTo(c, "drop")
              /\ UNCHANGED <<dest, holder, emptied>>
           \/ /\ 0 \notin free /\ upload[u].policy = "overwrite"
              /\ dest' = [dest EXCEPT ![0] = NoFile]
              /\ emptied' = emptied \cup {u}
              /\ call' = [Detached(0) EXCEPT ![c] = [@ EXCEPT !.pc = "move", !.target = 0]]
              /\ UNCHANGED holder
           \/ /\ 0 \notin free /\ upload[u].policy = "rename"
              /\ \E n \in free : chosen(n) /\ \A m \in free : n <= m
              /\ UNCHANGED <<dest, holder, emptied>>
           \/ Unlock(c) /\ Answer(c) /\ UNCHANGED <<dest, emptied>>
        /\ UNCHANGED <<sessions, upload, temp, cleaner, ages, completed, withdrawn,
                       interrupted, crashes>>

\* The bytes of the temp file, as they appear under the destination name.
Content(u, written) == [k \in Chunks |-> IF k \in written THEN u ELSE Hole]

\* Rename, on one device.  Across devices: both files are opened, to be copied.  Either
\* may fail, and does when the temp file is gone: the session is kept.
CompleteMove(c) ==
    LET u == call[c].id
        n == call[c].target
    IN  /\ At(c, "move")
        /\ \/ Unlock(c) /\ Answer(c) /\ UNCHANGED <<files, emptied>>
           \/ /\ temp[u] # NoFile /\ SameDevice
              /\ dest' = [dest EXCEPT ![n] = Content(u, temp[u])]
              /\ RemoveTemp(u)
              /\ emptied' = emptied \ {u}
              /\ GoTo(c, "stat")
              /\ UNCHANGED holder
           \/ /\ temp[u] # NoFile /\ ~SameDevice
              /\ dest' = [dest EXCEPT ![n] = EmptyFile]
              /\ call' = [call EXCEPT ![c] = [@ EXCEPT !.pc = "copy", !.chunk = 1,
                                                       !.source = temp[u], !.linked = TRUE]]
              /\ UNCHANGED <<temp, holder, emptied>>
        /\ UNCHANGED <<sessions, upload, cleaner, ages, completed, withdrawn,
                       interrupted, crashes>>

MutMoreToCopy(k) == k <= TotalChunks + 1
MoreToCopy(k) == k <= TotalChunks

\* io.Copy, a chunk at a time; a copy that fails removes the file under the name.
CompleteCopy(c) ==
    LET u == call[c].id
        n == call[c].target
        k == call[c].chunk
    IN  /\ At(c, "copy")
        /\ \/ /\ MoreToCopy(k)
              /\ dest' = IF call[c].linked
                         THEN [dest EXCEPT ![n][k] = IF k \in call[c].source THEN u ELSE Hole]
                         ELSE dest
              /\ call' = [call EXCEPT ![c].chunk = k + 1]
              /\ UNCHANGED holder
           \/ /\ ~MoreToCopy(k)
              /\ GoTo(c, "unlink")
              /\ UNCHANGED <<dest, holder>>
           \/ /\ dest' = [dest EXCEPT ![n] = NoFile]
              /\ Unlock(c)
              /\ call' = [Detached(n) EXCEPT ![c] = Idle]
        /\ UNCHANGED <<sessions, upload, temp, cleaner, ages, history, crashes>>

MutCompleteUnlink(c) ==   \* the copied temp file is left to CleanupExpired
    /\ At(c, "unlink")
    /\ GoTo(c, "stat")
    /\ UNCHANGED <<sessions, upload, files, holder, cleaner, ages, history, crashes>>

CompleteUnlink(c) ==
    /\ At(c, "unlink")
    /\ RemoveTemp(call[c].id)
    /\ emptied' = emptied \ {call[c].id}
    /\ GoTo(c, "stat")
    /\ UNCHANGED <<sessions, upload, dest, holder, cleaner, ages, completed, withdrawn,
                   interrupted, crashes>>

\* Another request may have removed the file: the answer is an error, and the
\* session stays without its bytes.
CompleteStat(c) ==
    /\ At(c, "stat")
    /\ IF dest[call[c].target] = NoFile
       THEN Unlock(c) /\ Answer(c)
       ELSE GoTo(c, "finish") /\ UNCHANGED holder
    /\ UNCHANGED <<sessions, upload, files, cleaner, ages, history, crashes>>

CompleteFinish(c) ==
    /\ At(c, "finish")
    /\ MuFree
    /\ sessions' = sessions \ {call[c].id}
    /\ completed' = [completed EXCEPT ![call[c].id] = @ + 1]
    /\ Unlock(c)
    /\ Answer(c)
    /\ UNCHANGED <<upload, files, cleaner, ages, withdrawn, emptied, interrupted, crashes>>

-----------------------------------------------------------------------------
(* AbortUpload: the mutex is held to read the path, and released before the *)
(* temp file is removed.                                                   *)

AbortLookup(c, u) == Lookup(c, u, "abortLock")

AbortPath(c) ==
    /\ At(c, "abortLock")
    /\ holder[call[c].id] = NoCall
    /\ GoTo(c, "abortRemove")
    /\ UNCHANGED <<sessions, upload, files, holder, cleaner, ages, history, crashes>>

AbortRemove(c) ==
    /\ At(c, "abortRemove")
    /\ RemoveTemp(call[c].id)
    /\ withdrawn' = withdrawn \cup ({call[c].id} \cap {u \in Uploads : temp[u] # NoFile})
    /\ GoTo(c, "abortForget")
    /\ UNCHANGED <<sessions, upload, dest, holder, cleaner, ages, completed, emptied,
                   interrupted, crashes>>

AbortForget(c) ==
    /\ At(c, "abortForget")
    /\ MuFree
    /\ sessions' = sessions \ {call[c].id}
    /\ Answer(c)
    /\ UNCHANGED <<upload, files, holder, cleaner, ages, history, crashes>>

-----------------------------------------------------------------------------
(* CleanupExpired, at the start of the process and then every hour          *)

CleanupLock ==
    /\ cleaner.pc = "idle"
    /\ cleaner' = [cleaner EXCEPT !.pc = "expire"]
    /\ UNCHANGED <<sessions, upload, files, holder, call, ages, history, crashes>>

\* The expired sessions go with their temp files, under mu but not under their
\* mutexes; then ReadDir lists what is left.
CleanupSessions ==
    LET old == sessions \cap expired
    IN  /\ cleaner.pc = "expire"
        /\ sessions' = sessions \ old
        /\ temp' = [u \in Uploads |-> IF u \in old THEN NoFile ELSE temp[u]]
        /\ withdrawn' = withdrawn \cup old
        /\ cleaner' = [pc |-> "scan", left |-> {u \in Uploads : temp'[u] # NoFile}]
        /\ UNCHANGED <<upload, dest, holder, call, ages, completed, emptied, interrupted,
                       crashes>>

MutOrphan(u) == u \notin sessions   \* whatever the age of the file
MutOrphanTracked(u) == u \in stale /\ u \in sessions   \* the test of the map inverted

\* An old file whose id has no session.
Orphan(u) == u \in stale /\ u \notin sessions

CleanupOrphan(u) ==
    /\ cleaner.pc = "scan"
    /\ u \in cleaner.left
    /\ temp' = IF Orphan(u) THEN [temp EXCEPT ![u] = NoFile] ELSE temp
    /\ withdrawn' = IF Orphan(u) THEN withdrawn \cup {u} ELSE withdrawn
    /\ cleaner' = [cleaner EXCEPT !.left = @ \ {u}]
    /\ UNCHANGED <<sessions, upload, dest, holder, call, ages, completed, emptied,
                   interrupted, crashes>>

CleanupEnd ==
    /\ cleaner.pc = "scan"
    /\ cleaner.left = {}
    /\ cleaner' = [cleaner EXCEPT !.pc = "idle"]
    /\ UNCHANGED <<sessions, upload, files, holder, call, ages, history, crashes>>

\* Time.  Ages are compared with the time a cleanup started, so they need not grow
\* during one; InitUpload takes far less than maxAge; a file is no older than its
\* session.
Expire(u) ==
    /\ cleaner.pc = "idle"
    /\ temp[u] # NoFile \/ u \in sessions
    /\ \A c \in Calls : ~(At(c, "register") /\ call[c].id = u)
    /\ \/ u \notin expired /\ expired' = expired \cup {u} /\ UNCHANGED stale
       \/ u \in expired \ stale /\ stale' = stale \cup {u} /\ UNCHANGED expired
    /\ UNCHANGED <<sessions, upload, files, holder, call, cleaner, history, crashes>>

\* The process is killed and started again: the files are what is left.
Crash ==
    /\ crashes < MaxCrashes
    /\ crashes' = crashes + 1
    /\ sessions' = {}
    /\ holder' = [u \in Uploads |-> NoCall]
    /\ call' = [c \in Calls |-> Idle]
    /\ cleaner' = [pc |-> "idle", left |-> {}]
    /\ withdrawn' = withdrawn \cup {u \in Uploads : temp[u] # NoFile}
    /\ interrupted' = interrupted \cup {call[c].target : c \in {d \in Calls : At(d, "copy")}}
    /\ UNCHANGED <<upload, files, ages, completed, emptied>>

-----------------------------------------------------------------------------
Step(c) ==
    \/ InitRegister(c)
    \/ WriteOpen(c) \/ WriteBody(c)
    \/ CompleteCheck(c) \/ CompleteDrop(c) \/ CompleteForget(c) \/ CompleteResolve(c)
    \/ CompleteMove(c) \/ CompleteCopy(c) \/ CompleteUnlink(c) \/ CompleteStat(c)
    \/ CompleteFinish(c)
    \/ AbortPath(c) \/ AbortRemove(c) \/ AbortForget(c)

Begin(c, u) ==
    InitTemp(c, u) \/ WriteLookup(c, u) \/ CompleteLookup(c, u) \/ AbortLookup(c, u)

Cleanup == CleanupLock \/ CleanupSessions \/ (\E u \in Uploads : CleanupOrphan(u)) \/ CleanupEnd

Next ==
    \/ \E c \in Calls, u \in Uploads : Begin(c, u)
    \/ \E c \in Calls : Step(c)
    \/ Cleanup
    \/ \E u \in Uploads : Expire(u)
    \/ Crash

Spec == Init /\ [][Next]_vars

\* sync.Mutex and sync.RWMutex starve nobody who waits, a body arrives or its
\* connection is dropped, the ticker ticks, and time passes.
FairSpec ==
    /\ Spec
    /\ \A c \in Calls : SF_vars(Step(c))
    /\ WF_vars(Cleanup)
    /\ \A u \in Uploads : SF_vars(Expire(u))

-----------------------------------------------------------------------------
(* Properties                                                              *)

\* The variables keep the types declared with them.
TypeOK ==
    /\ sessions \subseteq Uploads
    /\ upload \in [Uploads -> Session]
    /\ temp \in [Uploads -> (SUBSET Chunks) \cup {NoFile}]
    /\ dest \in [Names -> File \cup {NoFile}]
    /\ holder \in [Uploads -> Calls \cup {NoCall}]
    /\ call \in [Calls -> Call]
    /\ cleaner \in Cleaner
    /\ expired \subseteq Uploads /\ stale \subseteq Uploads
    /\ completed \in [Uploads -> Nat]
    /\ withdrawn \subseteq Uploads /\ emptied \subseteq Uploads
    /\ interrupted \subseteq Names
    /\ crashes \in 0..MaxCrashes

\* A file CompleteUpload puts under a name has every byte of its upload, whatever
\* chunks were sent twice, cut short or written while the upload was aborted or
\* expired: CompleteUpload trusts receivedChunks for it.  Only
\* the copy across devices shows an unfinished file, and a crash may leave it.
DeliveredWhole ==
    \A n \in Names :
        \/ dest[n] \in {NoFile, OldFile} \cup {[k \in Chunks |-> u] : u \in Uploads}
        \/ \E c \in Calls : At(c, "copy") /\ call[c].target = n
        \/ n \in interrupted

\* An upload is answered as a file at most once, however many CompleteUpload calls
\* wait for its mutex with the pointer they looked up (a client that timed out
\* retries while the first handler still runs).
OnceCompleted == \A u \in Uploads : completed[u] <= 1

\* A client that finds its session can go on: the temp file is there, unless a call
\* that takes both away is between its two steps.
SessionHasTemp ==
    \A u \in sessions :
        \/ temp[u] # NoFile
        \/ \E c \in Calls : call[c].id = u /\ call[c].pc \in {"forget", "stat", "finish", "abortForget"}

\* conflict_policy=overwrite removes the file it replaces before it has moved its
\* own.  Whatever fails in between, the new bytes are still in the temp file for
\* another try: both are lost only when an abort, an expiry or a crash gave it up.
ReplacedOrWithdrawn == \A u \in emptied \ withdrawn : temp[u] = Chunks

\* Every request is answered: the two mutexes are never waited for in a circle.
RequestsReturn == \A c \in Calls : ~At(c, "idle") ~> At(c, "idle")

\* No temp file stays for ever: what no request removes, and no session of a past
\* process knows, CleanupExpired removes.
TempsReclaimed == \A u \in Uploads : temp[u] # NoFile ~> temp[u] = NoFile

-----------------------------------------------------------------------------
(* The inductive invariant behind TypeOK, OnceCompleted and                *)
(* ReplacedOrWithdrawn, and on one device DeliveredWhole.                  *)

\* Where a call holds the mutex of its session.
Holding == {"copyBody", "drop", "forget", "resolve", "move", "copy", "unlink", "stat", "finish"}

Owned == \A c \in Calls : call[c].pc \in Holding => holder[call[c].id] = c

\* Nobody has, or works on, an upload that InitUpload has not drawn.
Drawn ==
    /\ \A c \in Calls : At(c, "idle") <=> call[c].id = NoUpload
    /\ \A u \in Uploads : upload[u] = NotDrawn =>
        /\ temp[u] = NoFile /\ completed[u] = 0
        /\ u \notin sessions /\ u \notin emptied
        /\ \A c \in Calls : call[c].id # u

\* The counter counts, and what it counts is in the temp file.
Counted ==
    \A u \in Uploads :
        /\ upload[u].count = Cardinality(upload[u].received)
        /\ temp[u] # NoFile => upload[u].received \subseteq temp[u]

\* What a call at work on a chunk, or on a complete file, has established.
Checked ==
    \A c \in Calls : LET u == call[c].id IN
        /\ At(c, "copyBody") => call[c].chunk \in Chunks
        /\ call[c].pc \in {"resolve", "move"} =>
              /\ upload[u].count = TotalChunks /\ upload[u].allowed
              /\ temp[u] = NoFile => u \in withdrawn
        /\ At(c, "drop") => ~upload[u].allowed \/ upload[u].policy = "skip"
        /\ call[c].pc \in {"stat", "finish"} => temp[u] = NoFile

\* An upload answered as a file has no temp file, and no call past its checks.
Spent ==
    \A u \in Uploads : completed[u] # 0 =>
        /\ completed[u] = 1
        /\ temp[u] = NoFile
        /\ \A c \in Calls : call[c].id = u => call[c].pc \notin Holding

Replacing ==
    /\ \A u \in emptied : /\ upload[u].policy = "overwrite" /\ upload[u].allowed
                          /\ upload[u].count = TotalChunks
    /\ ReplacedOrWithdrawn

\* An open copy that still has its name has a file to write to.
Linked ==
    \A c \in Calls : At(c, "copy") /\ call[c].linked => dest[call[c].target] # NoFile

\* On one device no file is copied, and only whole ones are moved.
OneDevice ==
    SameDevice =>
        /\ \A c \in Calls : call[c].pc \notin {"copy", "unlink"}
        /\ \A n \in Names :
            dest[n] \in {NoFile, OldFile} \cup {[k \in Chunks |-> u] : u \in Uploads}

IInv ==
    /\ TypeOK
    /\ Owned /\ Drawn /\ Counted /\ Checked /\ Spent /\ Replacing /\ Linked /\ OneDevice

=============================================================================
