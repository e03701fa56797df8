----------------------------- MODULE JobService -----------------------------
(***************************************************************************)
(* The asynchronous job service (internal/service/job_service.go): HTTP    *)
(* goroutines that create jobs, the one worker goroutine that runs them,   *)
(* the table rows that record them, and the server-sent-event streams that *)
(* report them (internal/handler/jobs_handler.go).                         *)
(*                                                                         *)
(* A step of the model is a piece of code that no other goroutine sees     *)
(* half done: a critical section of mu or subsMu, one SQL statement, one   *)
(* channel operation.  The two mutexes need no variable: every critical    *)
(* section is one step, except finalize, which keeps mu while it notifies, *)
(* persists and closes; MuFree says when the others may take mu.           *)
(***************************************************************************)
EXTENDS Integers, Sequences, FiniteSets, SequencesExt

CONSTANTS
    Jobs,        \* the identifiers CreateOperationJob will draw (uuids: never reused)
    Clients,     \* one stream request each: a client that comes back is another
    MaxItems,    \* bound on the sources or paths of one job
    QueueCap,    \* capacity of the queue channel (256 in the code)
    ChanCap,     \* capacity of a subscriber channel (64 in the code)
    DbResults,   \* what an SQL statement may return: TRUE done, FALSE an error
    MaxCancels,  \* bound on the streams whose request context ends
    MaxCrashes,  \* bound on the process being killed (or shut down)
    NoJob, NoRow

ASSUME BoundsAssumption ==
    /\ MaxItems \in Nat \ {0}
    /\ QueueCap \in Nat \ {0}
    /\ ChanCap \in Nat \ {0}
    /\ MaxCancels \in Nat /\ MaxCrashes \in Nat
ASSUME DbAssumption == DbResults \subseteq BOOLEAN

VARIABLES
    jobs,        \* s.jobs: id -> the job's data, NoJob when absent
    requests,    \* the keys of s.requests
    queue,       \* s.queue
    subscribers, \* s.subscribers: id -> the slice of channels, named by client
    capacity,    \* id -> capacity of the slice's backing array
    channel,     \* client -> its channel: what is buffered, whether it is closed
    worker,      \* the goroutine of workerLoop
    creator,     \* id -> where its CreateOperationJob call is
    stream,      \* client -> where its Stream handler is
    rows,        \* tables jobs and job_items: id -> its row, NoRow when absent
    audience,    \* history: the clients registered when the outcome is announced
    dbErrors,    \* history: ids with a failed write
    cancels, crashes

memory == <<jobs, requests, queue>>
feeds == <<subscribers, capacity, channel>>
bounds == <<cancels, crashes>>
history == <<audience, dbErrors>>
vars == <<jobs, requests, queue, subscribers, capacity, channel, worker,
          creator, stream, rows, audience, dbErrors, cancels, crashes>>

Terminal == {"completed", "partial", "failed"}
Statuses == {"queued", "running"} \cup Terminal

Job == [status : Statuses, total : 1..MaxItems,
        processed : 0..MaxItems, success : 0..MaxItems, failed : 0..MaxItems]
Row == [status : Statuses, total : 1..MaxItems, processed : 0..MaxItems,
        success : 0..MaxItems, failed : 0..MaxItems, items : 0..MaxItems]

ASSUME NamesAssumption == NoJob \notin Jobs \cup Job /\ NoRow \notin Row

NewJob(n) == [status |-> "queued", total |-> n,
              processed |-> 0, success |-> 0, failed |-> 0]

\* The columns INSERT writes, and those UPDATE changes.
Inserted(job) ==
    [status |-> job.status, total |-> job.total, processed |-> job.processed,
     success |-> job.success, failed |-> job.failed, items |-> 0]
Updated(row, job) ==
    [row EXCEPT !.status = job.status, !.processed = job.processed,
                !.success = job.success, !.failed = job.failed]

Finished(j) == jobs[j] # NoJob /\ jobs[j].status \in Terminal

\* A worker at rest.  snap is the slice notifySubscribers iterates, shared
\* whether it still has the backing array of the registered slice.
Idle == [pc |-> "idle", job |-> NoJob, snap |-> <<>>, shared |-> FALSE,
         pos |-> 0, success |-> 0, failed |-> 0]
Fresh == [buf |-> <<>>, closed |-> FALSE]
Away == [pc |-> "away", job |-> NoJob, seen |-> "none"]

WorkerPc == {"idle", "saveRunning", "readRunning", "sendRunning", "operate",
             "finalize", "readOutcome", "sendOutcome", "saveOutcome",
             "saveItems", "close"}
InFinalize == {"readOutcome", "sendOutcome", "saveOutcome", "saveItems", "close"}

\* Definitions named Mut... are deliberate mistakes: each replaces the definition
\* after it to show that a property can fail.

MutMuFree ==   \* CreateOperationJob keeps mu until its send is done
    worker.pc \notin InFinalize /\ \A j \in Jobs : creator[j] \notin {"insert", "send"}

\* finalize holds mu from its first line to its last; every other section that
\* takes it is one step.
MuFree == worker.pc \notin InFinalize

Init ==
    /\ jobs = [j \in Jobs |-> NoJob]
    /\ requests = {}
    /\ queue = <<>>
    /\ subscribers = [j \in Jobs |-> <<>>]
    /\ capacity = [j \in Jobs |-> 0]
    /\ channel = [c \in Clients |-> Fresh]
    /\ worker = Idle
    /\ creator = [j \in Jobs |-> "idle"]
    /\ stream = [c \in Clients |-> Away]
    /\ rows = [j \in Jobs |-> NoRow]
    /\ audience = {}
    /\ dbErrors = {}
    /\ cancels = 0
    /\ crashes = 0

-----------------------------------------------------------------------------
(* CreateOperationJob.  A request that fails validation changes nothing.   *)

MutCreateRegister(j) ==   \* the request is not stored with the job
    /\ creator[j] = "idle"
    /\ MuFree
    /\ \E n \in 1..MaxItems : jobs' = [jobs EXCEPT ![j] = NewJob(n)]
    /\ creator' = [creator EXCEPT ![j] = "insert"]
    /\ UNCHANGED <<requests, queue, feeds, worker, stream, rows, history, bounds>>

\* The job and its request are registered together under mu.
CreateRegister(j) ==
    /\ creator[j] = "idle"
    /\ MuFree
    /\ \E n \in 1..MaxItems : jobs' = [jobs EXCEPT ![j] = NewJob(n)]
    /\ requests' = requests \cup {j}
    /\ creator' = [creator EXCEPT ![j] = "insert"]
    /\ UNCHANGED <<queue, feeds, worker, stream, rows, history, bounds>>

\* persistJobCreate: the INSERT; its error is dropped.
CreateInsert(j) ==
    /\ creator[j] = "insert"
    /\ \E ok \in DbResults :
        /\ rows' = IF ok THEN [rows EXCEPT ![j] = Inserted(jobs[j])] ELSE rows
        /\ dbErrors' = IF ok THEN dbErrors ELSE dbErrors \cup {j}
    /\ creator' = [creator EXCEPT ![j] = "send"]
    /\ UNCHANGED <<memory, feeds, worker, stream, audience, bounds>>

\* The send on the queue channel blocks while the buffer is full.
CreateSend(j) ==
    /\ creator[j] = "send"
    /\ Len(queue) < QueueCap
    /\ queue' = Append(queue, j)
    /\ creator' = [creator EXCEPT ![j] = "reply"]
    /\ UNCHANGED <<jobs, requests, feeds, worker, stream, rows, history, bounds>>

\* cloneJob, read without mu: the reply may already say "running" or later.
CreateReply(j) ==
    /\ creator[j] = "reply"
    /\ creator' = [creator EXCEPT ![j] = "done"]
    /\ UNCHANGED <<memory, feeds, worker, stream, rows, history, bounds>>

-----------------------------------------------------------------------------
(* The worker: workerLoop, process, finalize.                              *)

MutDequeued == queue   \* the id is looked at, not taken
Dequeued == Tail(queue)

\* Receive the next id and mark its job running, under mu.  An id that is not
\* registered is dropped.
WorkerStart ==
    /\ worker.pc = "idle"
    /\ queue # <<>>
    /\ MuFree
    /\ queue' = Dequeued
    /\ LET j == Head(queue) IN
        IF jobs[j] = NoJob
        THEN UNCHANGED <<jobs, worker>>
        ELSE /\ jobs' = [jobs EXCEPT ![j].status = "running"]
             /\ worker' = [Idle EXCEPT !.pc = "saveRunning", !.job = j]
    /\ UNCHANGED <<requests, feeds, creator, stream, rows, history, bounds>>

\* persistJobUpdate: an UPDATE that fails, or finds no row, goes unnoticed.
SaveJob(from, to) ==
    /\ worker.pc = from
    /\ \E ok \in DbResults :
        LET j == worker.job IN
        /\ rows' = IF ok /\ rows[j] # NoRow
                   THEN [rows EXCEPT ![j] = Updated(rows[j], jobs[j])] ELSE rows
        /\ dbErrors' = IF ok THEN dbErrors ELSE dbErrors \cup {j}
    /\ worker' = [worker EXCEPT !.pc = to]
    /\ UNCHANGED <<memory, feeds, creator, stream, audience, bounds>>

\* notifySubscribers, first half: the slice header is read under subsMu; the
\* elements are read later, one before each send.
ReadSubscribers(from, to, after) ==
    LET subs == subscribers[worker.job] IN
    /\ worker.pc = from
    /\ worker' = [worker EXCEPT !.pc = IF subs = <<>> THEN after ELSE to,
                                !.snap = subs, !.shared = (subs # <<>>), !.pos = 1]
    /\ UNCHANGED <<memory, feeds, creator, stream, rows, dbErrors, bounds>>

MutSendTo(c, update) ==   \* an update is dropped while another is pending
    IF channel[c].buf = <<>> THEN [channel EXCEPT ![c].buf = Append(@, update)] ELSE channel

\* Second half: a send that never blocks; the update of a full channel is dropped.
SendTo(c, update) ==
    IF Len(channel[c].buf) < ChanCap
    THEN [channel EXCEPT ![c].buf = Append(@, update)]
    ELSE channel

SendNext(from, after) ==
    /\ worker.pc = from
    /\ channel' = SendTo(worker.snap[worker.pos], jobs[worker.job].status)
    /\ worker' = IF worker.pos < Len(worker.snap)
                 THEN [worker EXCEPT !.pos = @ + 1]
                 ELSE [worker EXCEPT !.pc = after, !.snap = <<>>, !.shared = FALSE, !.pos = 0]
    /\ UNCHANGED <<memory, subscribers, capacity, creator, stream, rows, history, bounds>>

WorkerSaveRunning == SaveJob("saveRunning", "readRunning")
WorkerReadRunning ==
    ReadSubscribers("readRunning", "sendRunning", "operate") /\ UNCHANGED audience
WorkerSendRunning == SendNext("sendRunning", "operate")

MutResults(j) ==   \* a skipped source is reported twice
    {<<0, 1>>} \cup {<<n, jobs[j].total - n + 1>> : n \in 0..jobs[j].total}

\* What Copy, Move or Delete hands back: one item per source, or one failed item
\* when the whole call is refused.  With no stored request the call is refused.
Results(j) ==
    {<<0, 1>>} \cup
        (IF j \in requests
         THEN {<<n, jobs[j].total - n>> : n \in 0..jobs[j].total} ELSE {})

WorkerOperate ==
    /\ worker.pc = "operate"
    /\ \E r \in Results(worker.job) :
        worker' = [worker EXCEPT !.pc = "finalize", !.success = r[1], !.failed = r[2]]
    /\ UNCHANGED <<memory, feeds, creator, stream, rows, history, bounds>>

MutOutcome(success, failed) ==   \* any failed item fails the job
    IF failed > 0 THEN "failed" ELSE "completed"

\* A skipped item counts as failed.
Outcome(success, failed) ==
    IF success = 0 /\ failed > 0 THEN "failed"
    ELSE IF success > 0 /\ failed > 0 THEN "partial"
    ELSE "completed"

\* finalize takes mu, forgets the request and settles the job.
WorkerFinalize ==
    LET j == worker.job IN
    /\ worker.pc = "finalize"
    /\ MuFree
    /\ requests' = requests \ {j}
    /\ jobs' = [jobs EXCEPT
          ![j] = [status |-> Outcome(worker.success, worker.failed),
                  total |-> jobs[j].total,
                  processed |-> worker.success + worker.failed,
                  success |-> worker.success, failed |-> worker.failed]]
    /\ worker' = [worker EXCEPT !.pc = "readOutcome"]
    /\ UNCHANGED <<queue, feeds, creator, stream, rows, history, bounds>>

MutWorkerReadOutcome ==   \* with nobody listening, the UPDATE is passed over
    /\ ReadSubscribers("readOutcome", "sendOutcome", "saveItems")
    /\ audience' = ToSet(subscribers[worker.job])

WorkerReadOutcome ==
    /\ ReadSubscribers("readOutcome", "sendOutcome", "saveOutcome")
    /\ audience' = ToSet(subscribers[worker.job])
WorkerSendOutcome == SendNext("sendOutcome", "saveOutcome")
WorkerSaveOutcome == SaveJob("saveOutcome", "saveItems")

\* persistJobItems: one batch, all rows or none; without the job's row the
\* foreign key refuses them.
WorkerSaveItems ==
    /\ worker.pc = "saveItems"
    /\ \E ok \in DbResults :
        LET j == worker.job IN
        /\ rows' = IF ok /\ rows[j] # NoRow
                   THEN [rows EXCEPT ![j].items = jobs[j].processed] ELSE rows
        /\ dbErrors' = IF ok THEN dbErrors ELSE dbErrors \cup {j}
    /\ worker' = [worker EXCEPT !.pc = "close"]
    /\ UNCHANGED <<memory, feeds, creator, stream, audience, bounds>>

MutClosed(ch) == ch   \* the slice is forgotten, its channels stay open
Closed(ch) == [ch EXCEPT !.closed = TRUE]

\* Under subsMu, close every registered channel and forget the slice; the
\* deferred Unlock of mu ends finalize.
WorkerClose ==
    LET j == worker.job IN
    /\ worker.pc = "close"
    /\ channel' = [c \in Clients |->
          IF c \in ToSet(subscribers[j]) THEN Closed(channel[c])
          ELSE channel[c]]
    /\ subscribers' = [subscribers EXCEPT ![j] = <<>>]
    /\ capacity' = [capacity EXCEPT ![j] = 0]
    /\ worker' = Idle
    /\ audience' = {}
    /\ UNCHANGED <<memory, creator, stream, rows, dbErrors, bounds>>

WorkerStep ==
    \/ WorkerStart
    \/ WorkerSaveRunning
    \/ WorkerReadRunning
    \/ WorkerSendRunning
    \/ WorkerOperate
    \/ WorkerFinalize
    \/ WorkerReadOutcome
    \/ WorkerSendOutcome
    \/ WorkerSaveOutcome
    \/ WorkerSaveItems
    \/ WorkerClose

-----------------------------------------------------------------------------
(* Streams: Subscribe, the loop of JobsHandler.Stream, Unsubscribe.        *)

\* Subscribe looks the job up under mu, and lets mu go.
StreamLookup(c, j) ==
    /\ stream[c].pc = "away"
    /\ MuFree
    /\ jobs[j] # NoJob
    /\ stream' = [stream EXCEPT ![c] = [@ EXCEPT !.pc = "found", !.job = j]]
    /\ UNCHANGED <<memory, feeds, worker, creator, rows, history, bounds>>

\* Then it appends its channel under subsMu.  append writes into the backing
\* array the worker may be iterating, or moves to one of twice the size.
StreamRegister(c) ==
    LET j == stream[c].job
        subs == subscribers[j]
        grow == Len(subs) = capacity[j]
        aliased == worker.shared /\ worker.job = j
        at == Len(subs) + 1
    IN
    /\ stream[c].pc = "found"
    /\ subscribers' = [subscribers EXCEPT ![j] = Append(subs, c)]
    /\ capacity' = IF ~grow THEN capacity
                   ELSE [capacity EXCEPT ![j] = IF @ = 0 THEN 1 ELSE 2 * @]
    /\ worker' =
          IF ~aliased THEN worker
          ELSE IF grow THEN [worker EXCEPT !.shared = FALSE]
          ELSE IF at <= Len(worker.snap) THEN [worker EXCEPT !.snap[at] = c]
          ELSE worker
    /\ stream' = [stream EXCEPT ![c].pc = "open"]
    /\ UNCHANGED <<memory, channel, creator, rows, history, bounds>>

\* The handler forwards one update to its client.
StreamForward(c) ==
    /\ stream[c].pc = "open"
    /\ channel[c].buf # <<>>
    /\ channel' = [channel EXCEPT ![c].buf = Tail(@)]
    /\ stream' = [stream EXCEPT ![c].seen = Head(channel[c].buf)]
    /\ UNCHANGED <<memory, subscribers, capacity, worker, creator, rows, history, bounds>>

\* It finds its channel closed and drained, and returns.
StreamFinish(c) ==
    /\ stream[c].pc = "open"
    /\ channel[c].closed /\ channel[c].buf = <<>>
    /\ stream' = [stream EXCEPT ![c].pc = "leaving"]
    /\ UNCHANGED <<memory, feeds, worker, creator, rows, history, bounds>>

\* Its context ends: the client went away, or StreamingTimeout's idle timer or
\* maximum duration cancelled it.
StreamCancel(c) ==
    /\ stream[c].pc = "open"
    /\ cancels < MaxCancels
    /\ cancels' = cancels + 1
    /\ stream' = [stream EXCEPT ![c].pc = "leaving"]
    /\ UNCHANGED <<memory, feeds, worker, creator, rows, history, crashes>>

\* append(subs[:i], subs[i+1:]...) shifts the rest one place left inside the
\* shared backing array; its last cell keeps its old value.
Shifted(snap, subs) == [k \in DOMAIN snap |-> IF k <= Len(subs) THEN subs[k] ELSE snap[k]]

MutDropped(ch) == [buf |-> <<>>, closed |-> TRUE]   \* Unsubscribe closes the channel
Dropped(ch) == [ch EXCEPT !.buf = <<>>]

StreamUnsubscribe(c) ==
    LET j == stream[c].job
        subs == RemoveFirst(subscribers[j], c)
    IN
    /\ stream[c].pc = "leaving"
    /\ subscribers' = [subscribers EXCEPT ![j] = subs]
    /\ worker' = IF worker.shared /\ worker.job = j
                 THEN [worker EXCEPT !.snap = Shifted(@, subs)] ELSE worker
    /\ stream' = [stream EXCEPT ![c].pc = "ended"]
    /\ channel' = [channel EXCEPT ![c] = Dropped(@)]
    /\ UNCHANGED <<memory, capacity, creator, rows, history, bounds>>

StreamStep(c) ==
    \/ StreamRegister(c)
    \/ StreamForward(c)
    \/ StreamFinish(c)
    \/ StreamUnsubscribe(c)

-----------------------------------------------------------------------------
\* The process ends, at any point: SIGKILL, or a shutdown whose ten seconds run
\* out.  Only the tables survive, and no start reads them back.
Crash ==
    /\ crashes < MaxCrashes
    /\ crashes' = crashes + 1
    /\ jobs' = [j \in Jobs |-> NoJob]
    /\ requests' = {}
    /\ queue' = <<>>
    /\ subscribers' = [j \in Jobs |-> <<>>]
    /\ capacity' = [j \in Jobs |-> 0]
    /\ channel' = [c \in Clients |-> Fresh]
    /\ worker' = Idle
    /\ creator' = [j \in Jobs |->
          IF creator[j] \in {"idle", "done"} THEN creator[j] ELSE "lost"]
    /\ stream' = [c \in Clients |->
          IF stream[c].pc = "away" THEN stream[c] ELSE [stream[c] EXCEPT !.pc = "ended"]]
    /\ audience' = {}
    /\ UNCHANGED <<rows, dbErrors, cancels>>

CreatorStep(j) == CreateInsert(j) \/ CreateSend(j) \/ CreateReply(j)

Next ==
    \/ \E j \in Jobs : CreateRegister(j) \/ CreatorStep(j)
    \/ WorkerStep
    \/ \E c \in Clients : \E j \in Jobs : StreamLookup(c, j)
    \/ \E c \in Clients : StreamStep(c) \/ StreamCancel(c)
    \/ Crash

Spec == Init /\ [][Next]_vars

\* A goroutine that can run does run.  Nobody owes a new request, a
\* cancellation or a crash.
Fairness ==
    /\ WF_vars(WorkerStep)
    /\ \A j \in Jobs : WF_vars(CreatorStep(j))
    /\ \A c \in Clients : WF_vars(StreamStep(c))

FairSpec == Spec /\ Fairness

-----------------------------------------------------------------------------
(* Properties.                                                             *)

WorkerRecord ==
    [pc : WorkerPc, job : Jobs \cup {NoJob}, snap : Seq(Clients), shared : BOOLEAN,
     pos : Nat, success : 0..MaxItems, failed : 0..MaxItems]
StreamRecord ==
    [pc : {"away", "found", "open", "leaving", "ended"},
     job : Jobs \cup {NoJob}, seen : Statuses \cup {"none"}]

\* Every variable keeps its type.
TypeOK ==
    /\ jobs \in [Jobs -> Job \cup {NoJob}]
    /\ requests \subseteq Jobs
    /\ queue \in Seq(Jobs) /\ Len(queue) <= QueueCap
    /\ subscribers \in [Jobs -> Seq(Clients)]
    /\ capacity \in [Jobs -> Nat]
    /\ channel \in [Clients -> [buf : Seq(Statuses), closed : BOOLEAN]]
    /\ worker \in WorkerRecord
    /\ creator \in [Jobs -> {"idle", "insert", "send", "reply", "done", "lost"}]
    /\ stream \in [Clients -> StreamRecord]
    /\ rows \in [Jobs -> Row \cup {NoRow}]
    /\ audience \subseteq Clients /\ dbErrors \subseteq Jobs
    /\ cancels \in Nat /\ crashes \in Nat

Has(j, status) == jobs[j] # NoJob /\ jobs[j].status = status
Working(j) == worker.pc # "idle" /\ worker.job = j

\* A registered job is in exactly one place: with the goroutine still creating
\* it, once in the queue, in the worker's hands, or finished; and its request is
\* kept exactly until finalize, so no job is lost, run twice, or run with the
\* empty request lookupRequest falls back to.
OnePlace ==
    /\ \A j \in Jobs :
        /\ Has(j, "queued") <=>
              \/ creator[j] \in {"insert", "send"}
              \/ j \in ToSet(queue)
        /\ creator[j] \in {"insert", "send"} => j \notin ToSet(queue)
        /\ Has(j, "running") <=> Working(j) /\ worker.pc \notin InFinalize
        /\ j \in requests <=> Has(j, "queued") \/ Has(j, "running")
    /\ \A m, n \in DOMAIN queue : queue[m] = queue[n] => m = n

Sending == worker.pc \in {"sendRunning", "sendOutcome"}

\* The worker never sends on a closed channel and never closes one twice:
\* either would panic, and end the process.
NoPanic ==
    /\ Sending => /\ worker.pos \in DOMAIN worker.snap
                  /\ ~channel[worker.snap[worker.pos]].closed
    /\ worker.pc = "close" =>
          LET subs == subscribers[worker.job] IN
          /\ \A k \in DOMAIN subs : ~channel[subs[k]].closed
          /\ \A k, l \in DOMAIN subs : subs[k] = subs[l] => k = l

\* A stream never runs ahead of GET /jobs/{id}, and never goes back: an outcome
\* it holds or has shown is the job's, and nothing older follows it, whatever
\* duplicates a shifted slice produced.
StreamsAgree ==
    \A c \in Clients : stream[c].pc = "open" =>
        LET told == <<stream[c].seen>> \o channel[c].buf IN
        \A k \in DOMAIN told : told[k] \in Terminal =>
            /\ Has(stream[c].job, told[k])
            /\ \A l \in k..Len(told) : told[l] = told[k]

\* A client registered when the outcome is announced, and still registered when
\* the channels are about to be closed, has been told the outcome.
AudienceHearsOutcome ==
    worker.pc \in {"saveOutcome", "saveItems", "close"} =>
        \A c \in audience \cap ToSet(subscribers[worker.job]) :
            \/ stream[c].seen \in Terminal
            \/ \E k \in DOMAIN channel[c].buf : channel[c].buf[k] \in Terminal

\* The stream of a job that has finished is closed.
ClosedWhenFinished ==
    \A c \in Clients :
        stream[c].pc = "open" /\ Finished(stream[c].job) /\ ~Working(stream[c].job)
            => channel[c].closed

\* Once the worker lets go of a job whose writes all succeeded, the tables hold
\* its outcome and all its items.
OutcomeRecorded ==
    \A j \in Jobs :
        Finished(j) /\ ~Working(j) /\ j \notin dbErrors =>
            /\ rows[j] # NoRow
            /\ rows[j] = [Updated(rows[j], jobs[j]) EXCEPT !.items = jobs[j].processed]

Rank(status) ==
    CASE status = "queued" -> 0 [] status = "running" -> 1 [] status \in Terminal -> 2

\* A row is never deleted, never goes back to an earlier status, and never
\* changes its outcome, though three goroutine steps and a crash compete.
RowsMoveForward ==
    [][\A j \in Jobs : rows[j] # NoRow =>
          /\ rows'[j] # NoRow
          /\ rows'[j].status = rows[j].status \/ Rank(rows[j].status) < Rank(rows'[j].status)]_vars

\* CreateOperationJob returns, though its send blocks on a full queue.
CreateReturns ==
    \A j \in Jobs : creator[j] = "insert" ~> creator[j] \in {"done", "lost"}

\* A stream registered before its job finished ends.
EarlyStreamsEnd ==
    \A c \in Clients :
        stream[c].pc = "open" /\ ~Finished(stream[c].job) ~> stream[c].pc = "ended"

\* The service implements JobLifecycle.
life ==
    [j \in Jobs |->
        IF jobs[j] # NoJob
        THEN [phase |-> jobs[j].status, total |-> jobs[j].total,
              success |-> jobs[j].success, failed |-> jobs[j].failed]
        ELSE [phase |-> IF creator[j] = "idle" THEN "unknown" ELSE "forgotten",
              total |-> 0, success |-> 0, failed |-> 0]]

Lifecycle == INSTANCE JobLifecycle WITH Jobs <- Jobs, MaxItems <- MaxItems, life <- life
Implements == Lifecycle!FairSpec

-----------------------------------------------------------------------------
(* The inductive invariant behind TypeOK, OnePlace and NoPanic.            *)

\* Whoever is at work has something to work on.
Linked ==
    /\ \A c \in Clients : stream[c].pc # "away" => stream[c].job \in Jobs
    /\ worker.pc = "idle" => worker = Idle
    /\ worker.pc # "idle" => worker.job \in Jobs /\ jobs[worker.job] # NoJob
    /\ worker.pc \in InFinalize => Finished(worker.job)
    /\ worker.success + worker.failed \in 0..MaxItems
    /\ Sending => worker.pos \in DOMAIN worker.snap
    /\ \A j \in Jobs : creator[j] \in {"idle", "lost"} => jobs[j] = NoJob
    /\ \A j \in Jobs : Has(j, "queued") \/ Has(j, "running") \/ Finished(j) \/ jobs[j] = NoJob

\* A slice holds, once each, clients of its job that have not left; a slice the
\* worker iterates, clients of its job; a closed channel belongs to a job that
\* is over.
Slices ==
    /\ \A j \in Jobs :
        /\ \A k \in DOMAIN subscribers[j] :
              LET c == subscribers[j][k] IN
              stream[c].job = j /\ stream[c].pc \in {"open", "leaving"}
        /\ \A k, l \in DOMAIN subscribers[j] :
              subscribers[j][k] = subscribers[j][l] => k = l
    /\ \A k \in DOMAIN worker.snap :
          LET c == worker.snap[k] IN
          stream[c].job = worker.job /\ stream[c].pc \in {"open", "leaving", "ended"}
    /\ \A c \in Clients : channel[c].closed =>
          /\ stream[c].pc \in {"open", "leaving", "ended"}
          /\ Finished(stream[c].job) /\ ~Working(stream[c].job)

IInv == TypeOK /\ OnePlace /\ Linked /\ Slices

=============================================================================
