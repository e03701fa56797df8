-------------------------- MODULE JobOutcomeProofs --------------------------
(***************************************************************************)
(* More proofs about JobService, on top of those of JobServiceProofs: what *)
(* the tables, the life of a job and its streams show of its outcome.      *)
(***************************************************************************)
EXTENDS JobServiceProofs

-----------------------------------------------------------------------------
(* The tables.                                                             *)

\* Who has not inserted the row yet.
NotYet == {"idle", "insert"}

\* No row before the INSERT; then it is the job's or trails behind.
RowsTrail ==
    \A j \in Jobs :
        /\ creator[j] \in NotYet => rows[j] = NoRow
        /\ jobs[j] # NoJob /\ rows[j] # NoRow =>
              \/ rows[j].status = jobs[j].status
              \/ Rank(rows[j].status) < Rank(jobs[j].status)

Recorded(j) ==
    /\ rows[j] # NoRow
    /\ rows[j].status = jobs[j].status /\ rows[j].processed = jobs[j].processed
    /\ rows[j].success = jobs[j].success /\ rows[j].failed = jobs[j].failed
Itemized(j) == Recorded(j) /\ rows[j].items = jobs[j].processed

\* What the tables hold of a job whose writes all succeeded, by where its worker is.
RowsKept ==
    \A j \in Jobs \ dbErrors : jobs[j] # NoJob =>
        /\ creator[j] # "insert" => rows[j] # NoRow
        /\ Working(j) /\ worker.pc = "saveItems" => Recorded(j)
        /\ Working(j) /\ worker.pc = "close" => Itemized(j)
        /\ Finished(j) /\ ~Working(j) => Itemized(j)

\* The operation accounted for every source, or was refused as a whole.
CountsHonest ==
    worker.pc = "finalize" =>
        \/ worker.success + worker.failed = jobs[worker.job].total
        \/ worker.success = 0 /\ worker.failed = 1

OInv == RowsTrail /\ RowsKept /\ CountsHonest

LEMMA RankIs ==
    /\ Rank("queued") = 0 /\ Rank("running") = 1
    /\ \A s \in Terminal : Rank(s) = 2
BY DEF Rank, Terminal

LEMMA JobIs ==
    ASSUME IInv, NEW j \in Jobs, jobs[j] # NoJob
    PROVE  jobs[j] \in Job /\ jobs[j].status \in {"queued", "running"} \cup Terminal
BY DEF IInv, TypeOK, Job, Statuses

\* A step that writes no row and settles no job.
Calm ==
    /\ UNCHANGED <<jobs, rows, dbErrors>>
    /\ \A j \in Jobs : \/ creator'[j] = creator[j]
                       \/ creator[j] \notin NotYet /\ creator'[j] \notin NotYet
    /\ worker'.job = worker.job /\ (worker'.pc = "idle" <=> worker.pc = "idle")
    /\ worker'.pc \in {"saveItems", "close"} => worker'.pc = worker.pc

LEMMA CalmKeeps ==
    ASSUME OInv, Calm,
           worker'.pc = "finalize" =>
               /\ worker.pc = "finalize"
               /\ worker'.success = worker.success /\ worker'.failed = worker.failed
    PROVE  OInv'
<1>1. RowsTrail' BY DEF OInv, RowsTrail, Calm
<1>2. RowsKept'
  <2> SUFFICES ASSUME NEW j \in Jobs \ dbErrors, jobs[j] # NoJob
               PROVE  /\ creator'[j] # "insert" => rows[j] # NoRow
                      /\ Working(j)' /\ worker'.pc = "saveItems" => Recorded(j)
                      /\ Working(j)' /\ worker'.pc = "close" => Itemized(j)
                      /\ Finished(j) /\ ~Working(j)' => Itemized(j)
    BY DEF RowsKept, Calm, Recorded, Itemized, Finished
  <2>1. Working(j)' <=> Working(j) BY DEF Calm, Working
  <2>2. creator'[j] # "insert" => creator[j] # "insert" BY DEF Calm, NotYet
  <2> QED BY <2>1, <2>2 DEF OInv, RowsKept, Calm
<1>3. CountsHonest' BY DEF OInv, CountsHonest, Calm
<1> QED BY <1>1, <1>2, <1>3 DEF OInv

LEMMA OutcomeInit == Init => OInv
BY DEF Init, OInv, RowsTrail, RowsKept, CountsHonest, Idle

LEMMA CreateRegisterTells ==
    ASSUME IInv, OInv, NEW j \in Jobs, CreateRegister(j) PROVE OInv'
<1>1. PICK n \in 1..MaxItems : jobs' = [jobs EXCEPT ![j] = NewJob(n)]
  BY DEF CreateRegister
<1>2. /\ creator[j] = "idle" /\ creator' = [creator EXCEPT ![j] = "insert"]
      /\ UNCHANGED <<worker, rows, dbErrors>>
  BY DEF CreateRegister, history
<1>3. jobs'[j] = NewJob(n) /\ \A k \in Jobs \ {j} : jobs'[k] = jobs[k] /\ creator'[k] = creator[k]
  BY <1>1, <1>2 DEF IInv, TypeOK
<1>4. /\ rows[j] = NoRow /\ creator'[j] = "insert" /\ jobs[j] = NoJob
  BY <1>2 DEF OInv, RowsTrail, NotYet, IInv, TypeOK, Linked
<1>5. RowsTrail' BY <1>2, <1>3, <1>4 DEF OInv, RowsTrail
<1>6. ~Working(j) BY <1>4 DEF IInv, Linked, Working
<1>7. RowsKept'
  <2> SUFFICES ASSUME NEW k \in Jobs \ dbErrors, jobs'[k] # NoJob
               PROVE  /\ creator'[k] # "insert" => rows[k] # NoRow
                      /\ Working(k) /\ worker.pc = "saveItems" => Recorded(k)'
                      /\ Working(k) /\ worker.pc = "close" => Itemized(k)'
                      /\ Finished(k)' /\ ~Working(k) => Itemized(k)'
    BY <1>2 DEF RowsKept, Working
  <2>1. CASE k = j
    <3>1. ~Finished(k)' BY <1>3, <2>1 DEF Finished, NewJob, Terminal
    <3> QED BY <1>4, <1>6, <2>1, <3>1
  <2>2. CASE k # j
    BY <1>2, <1>3, <2>2 DEF OInv, RowsKept, Recorded, Itemized, Finished
  <2> QED BY <2>1, <2>2
<1>8. CountsHonest'
  <2>1. worker.pc = "finalize" => worker.job \in Jobs \ {j}
    BY <1>4 DEF IInv, Linked
  <2> QED BY <1>2, <1>3, <2>1 DEF OInv, CountsHonest
<1> QED BY <1>5, <1>7, <1>8 DEF OInv

LEMMA CreateInsertTells ==
    ASSUME IInv, OInv, NEW j \in Jobs, CreateInsert(j) PROVE OInv'
<1>1. /\ creator[j] = "insert" /\ creator' = [creator EXCEPT ![j] = "send"]
      /\ UNCHANGED <<jobs, worker>>
      /\ \/ rows' = [rows EXCEPT ![j] = Inserted(jobs[j])] /\ dbErrors' = dbErrors
         \/ rows' = rows /\ dbErrors' = dbErrors \cup {j}
  BY DEF CreateInsert, memory
<1>2. Has(j, "queued") BY <1>1 DEF IInv, OnePlace
<1>3. Inserted(jobs[j]) # NoRow /\ Inserted(jobs[j]).status = jobs[j].status
  <2>1. jobs[j] \in Job BY <1>2, JobIs DEF Has
  <2>2. Inserted(jobs[j]) \in Row BY <2>1, BoundsAssumption DEF Inserted, Job, Row
  <2> QED BY <2>2, NamesAssumption DEF Inserted
<1>4. /\ creator'[j] = "send" /\ \A k \in Jobs \ {j} : creator'[k] = creator[k] /\ rows'[k] = rows[k]
      /\ rows'[j] = Inserted(jobs[j]) \/ (rows'[j] = NoRow /\ j \in dbErrors')
  BY <1>1 DEF OInv, RowsTrail, NotYet, IInv, TypeOK
<1>5. RowsTrail' BY <1>1, <1>3, <1>4 DEF OInv, RowsTrail, NotYet
<1>6. ~Finished(j) BY <1>2 DEF Has, Finished, Terminal
<1>7. worker.pc \in {"saveItems", "close"} => ~Working(j)
  BY <1>6 DEF IInv, Linked, Working, InFinalize
<1>8. RowsKept'
  <2> SUFFICES ASSUME NEW k \in Jobs \ dbErrors', jobs[k] # NoJob
               PROVE  /\ creator'[k] # "insert" => rows'[k] # NoRow
                      /\ Working(k) /\ worker.pc = "saveItems" => Recorded(k)'
                      /\ Working(k) /\ worker.pc = "close" => Itemized(k)'
                      /\ Finished(k) /\ ~Working(k) => Itemized(k)'
    BY <1>1 DEF RowsKept, Working, Finished
  <2>1. CASE k = j BY <1>3, <1>4, <1>6, <1>7, <2>1
  <2>2. CASE k # j
    <3>1. k \notin dbErrors BY <1>1
    <3> QED BY <1>1, <1>4, <2>2, <3>1 DEF OInv, RowsKept, Recorded, Itemized
  <2> QED BY <2>1, <2>2
<1>9. CountsHonest' BY <1>1 DEF OInv, CountsHonest
<1> QED BY <1>5, <1>8, <1>9 DEF OInv

LEMMA WorkerStartTells ==
    ASSUME IInv, OInv, WorkerStart PROVE OInv'
<1> DEFINE h == Head(queue)
<1>1. h \in Jobs /\ Has(h, "queued")
  <2>1. h \in Jobs /\ h \in ToSet(queue) BY TailRange DEF WorkerStart, IInv, TypeOK
  <2> QED BY <2>1 DEF IInv, OnePlace
<1>2. /\ jobs' = [jobs EXCEPT ![h].status = "running"]
      /\ worker' = [Idle EXCEPT !.pc = "saveRunning", !.job = h]
      /\ worker.pc = "idle" /\ UNCHANGED <<creator, rows, dbErrors>>
  BY <1>1 DEF WorkerStart, Has, history
<1>3. /\ jobs'[h].status = "running" /\ \A k \in Jobs \ {h} : jobs'[k] = jobs[k]
      /\ worker'.pc = "saveRunning" /\ worker'.job = h
  BY <1>1, <1>2, JobIs DEF IInv, TypeOK, Job, Has, Idle
<1> HIDE DEF h
<1>4. RowsTrail'
  <2>1. jobs[h].status = "queued" /\ jobs[h] # NoJob BY <1>1 DEF Has
  <2>2. rows[h] # NoRow => rows[h].status = "queued"
    <3> SUFFICES ASSUME rows[h] # NoRow PROVE rows[h].status = "queued" OBVIOUS
    <3>1. rows[h] \in Row BY <1>1 DEF IInv, TypeOK
    <3>2. rows[h].status \in {"queued", "running"} \cup Terminal BY <3>1 DEF Row, Statuses
    <3>3. ~(Rank(rows[h].status) < 0) BY <3>2, RankIs
    <3> QED BY <1>1, <2>1, <3>3, RankIs DEF OInv, RowsTrail
  <2>3. rows[h] # NoRow => Rank(rows[h].status) < Rank(jobs'[h].status)
    BY <1>3, <2>2, RankIs
  <2> QED BY <1>1, <1>2, <1>3, <2>1, <2>3 DEF OInv, RowsTrail
<1>5. RowsKept'
  <2> SUFFICES ASSUME NEW k \in Jobs \ dbErrors, jobs'[k] # NoJob
               PROVE  /\ creator[k] # "insert" => rows[k] # NoRow
                      /\ Finished(k)' /\ ~Working(k)' => Itemized(k)'
    BY <1>2, <1>3 DEF RowsKept, Working
  <2>1. CASE k = h
    <3>1. Working(k)' BY <1>3, <2>1 DEF Working
    <3>2. jobs[h] # NoJob BY <1>1 DEF Has
    <3> QED BY <2>1, <3>1, <3>2 DEF OInv, RowsKept
  <2>2. CASE k # h
    <3>1. jobs'[k] = jobs[k] BY <1>3, <2>2
    <3>2. ~Working(k) BY <1>2 DEF Working
    <3>3. rows' = rows BY <1>2
    <3> QED BY <3>1, <3>2, <3>3 DEF OInv, RowsKept, Finished, Itemized, Recorded
  <2> QED BY <2>1, <2>2
<1>6. CountsHonest' BY <1>3 DEF CountsHonest
<1> QED BY <1>4, <1>5, <1>6 DEF OInv

\* What UPDATE leaves of a row.
LEMMA UpdatedIs ==
    ASSUME NEW row \in Row, NEW job \in Job
    PROVE  /\ Updated(row, job) \in Row /\ Updated(row, job) # NoRow
           /\ Updated(row, job).status = job.status
           /\ Updated(row, job).processed = job.processed
           /\ Updated(row, job).success = job.success
           /\ Updated(row, job).failed = job.failed
           /\ Updated(row, job).items = row.items
<1>1. Updated(row, job) \in Row BY DEF Updated, Row, Job
<1> QED BY <1>1, NamesAssumption DEF Updated, Row

LEMMA SaveJobTells ==
    ASSUME IInv, OInv, NEW from, NEW to, SaveJob(from, to),
           \/ from = "saveRunning" /\ to = "readRunning"
           \/ from = "saveOutcome" /\ to = "saveItems"
    PROVE  OInv'
<1>0. PICK w \in Jobs : w = worker.job
  BY DEF SaveJob, IInv, Linked
<1>1. /\ worker.pc = from /\ worker' = [worker EXCEPT !.pc = to]
      /\ jobs' = jobs /\ creator' = creator
      /\ \/ /\ rows' = IF rows[w] # NoRow
                       THEN [rows EXCEPT ![w] = Updated(rows[w], jobs[w])] ELSE rows
            /\ dbErrors' = dbErrors
         \/ rows' = rows /\ dbErrors' = dbErrors \cup {w}
  BY <1>0 DEF SaveJob, memory
<1>2. worker'.pc = to /\ worker'.job = w
  BY <1>0, <1>1 DEF IInv, TypeOK, WorkerRecord
<1>3. jobs[w] # NoJob /\ jobs[w] \in Job /\ (from = "saveOutcome" => Finished(w))
  BY <1>0, <1>1, JobIs DEF IInv, Linked, InFinalize
<1>4. rows[w] # NoRow => rows[w] \in Row
  BY DEF IInv, TypeOK
<1>5. \A k \in Jobs \ {w} : rows'[k] = rows[k]
  BY <1>1 DEF IInv, TypeOK
<1>6. \/ rows'[w] = rows[w] /\ (w \in dbErrors' \/ rows[w] = NoRow)
      \/ rows[w] # NoRow /\ rows'[w] = Updated(rows[w], jobs[w])
  BY <1>1 DEF IInv, TypeOK
<1>7. rows[w] # NoRow => /\ Updated(rows[w], jobs[w]) # NoRow
                         /\ Updated(rows[w], jobs[w]).status = jobs[w].status
                         /\ Updated(rows[w], jobs[w]).processed = jobs[w].processed
                         /\ Updated(rows[w], jobs[w]).success = jobs[w].success
                         /\ Updated(rows[w], jobs[w]).failed = jobs[w].failed
  BY <1>3, <1>4, UpdatedIs
<1>8. RowsTrail'
  BY <1>1, <1>5, <1>6, <1>7 DEF OInv, RowsTrail
<1>9. RowsKept'
  <2> SUFFICES ASSUME NEW k \in Jobs \ dbErrors', jobs[k] # NoJob
               PROVE  /\ creator[k] # "insert" => rows'[k] # NoRow
                      /\ k = w /\ to = "saveItems" => Recorded(k)'
                      /\ Finished(k) /\ k # w => Itemized(k)'
    BY <1>1, <1>2 DEF RowsKept, Working, Finished
  <2>1. k \notin dbErrors BY <1>1
  <2>2. CASE k = w
    <3>1. creator[w] # "insert" => rows[w] # NoRow
      BY <1>3, <2>1, <2>2 DEF OInv, RowsKept
    <3>2. creator[w] # "insert" => rows'[w] = Updated(rows[w], jobs[w])
      BY <1>6, <2>2, <3>1
    <3>3. to = "saveItems" => creator[w] # "insert"
      BY <1>3 DEF IInv, OnePlace, Has, Finished, Terminal
    <3> QED BY <1>1, <1>7, <2>2, <3>1, <3>2, <3>3 DEF Recorded
  <2>3. CASE k # w
    <3>1. ~Working(k) BY <1>0, <2>3 DEF Working
    <3> QED BY <1>1, <1>5, <2>1, <2>3, <3>1 DEF OInv, RowsKept, Recorded, Itemized
  <2> QED BY <2>2, <2>3
<1>10. CountsHonest' BY <1>2 DEF CountsHonest
<1> QED BY <1>8, <1>9, <1>10 DEF OInv

LEMMA WorkerOperateTells ==
    ASSUME IInv, OInv, WorkerOperate PROVE OInv'
<1>0. PICK w \in Jobs : w = worker.job
  BY DEF WorkerOperate, IInv, Linked
<1>1. PICK r \in Results(w) :
        worker' = [worker EXCEPT !.pc = "finalize", !.success = r[1], !.failed = r[2]]
  BY <1>0 DEF WorkerOperate
<1>2. jobs[w] \in Job /\ jobs[w] # NoJob
  BY <1>0, JobIs DEF WorkerOperate, IInv, Linked
<1>3. r[1] + r[2] = jobs[w].total \/ (r[1] = 0 /\ r[2] = 1)
  <2>1. CASE r = <<0, 1>> BY <2>1
  <2>2. CASE \E n \in 0..jobs[w].total : r = <<n, jobs[w].total - n>>
    BY <1>2, <2>2, BoundsAssumption DEF Job
  <2> QED BY <2>1, <2>2 DEF Results
<1>4. /\ worker'.pc = "finalize" /\ worker'.job = w
      /\ worker'.success = r[1] /\ worker'.failed = r[2]
  BY <1>0, <1>1 DEF IInv, TypeOK, WorkerRecord
<1>5. UNCHANGED <<jobs, rows, dbErrors, creator>> /\ worker.pc = "operate"
  BY DEF WorkerOperate, memory, history
<1>6. RowsTrail' BY <1>5 DEF OInv, RowsTrail
<1>7. RowsKept'
  <2>1. \A j \in Jobs : Working(j)' <=> Working(j)
    BY <1>0, <1>4, <1>5 DEF Working
  <2> QED BY <1>4, <1>5, <2>1 DEF OInv, RowsKept, Finished, Recorded, Itemized
<1>8. CountsHonest' BY <1>3, <1>4, <1>5 DEF CountsHonest
<1> QED BY <1>6, <1>7, <1>8 DEF OInv

\* What finalize makes of the job.
LEMMA Settled ==
    ASSUME IInv, WorkerFinalize, NEW w \in Jobs, w = worker.job
    PROVE  /\ Has(w, "running") /\ jobs'[w] # NoJob
           /\ jobs'[w] = [status |-> Outcome(worker.success, worker.failed),
                          total |-> jobs[w].total,
                          processed |-> worker.success + worker.failed,
                          success |-> worker.success, failed |-> worker.failed]
           /\ jobs'[w].status \in Terminal
           /\ \A k \in Jobs \ {w} : jobs'[k] = jobs[k]
           /\ worker.pc = "finalize" /\ worker'.pc = "readOutcome" /\ worker'.job = w
<1>1. /\ worker.pc = "finalize" /\ worker'.pc = "readOutcome" /\ worker'.job = w
  BY DEF WorkerFinalize, IInv, TypeOK, WorkerRecord
<1>2. Has(w, "running")
  BY <1>1 DEF IInv, OnePlace, Working, InFinalize
<1>3. jobs' = [jobs EXCEPT ![w] = [status |-> Outcome(worker.success, worker.failed),
                  total |-> jobs[w].total,
                  processed |-> worker.success + worker.failed,
                  success |-> worker.success, failed |-> worker.failed]]
  BY DEF WorkerFinalize
<1>4. jobs'[w] = [status |-> Outcome(worker.success, worker.failed),
                  total |-> jobs[w].total,
                  processed |-> worker.success + worker.failed,
                  success |-> worker.success, failed |-> worker.failed]
      /\ \A k \in Jobs \ {w} : jobs'[k] = jobs[k]
  BY <1>3 DEF IInv, TypeOK
<1>5. jobs'[w].status = Outcome(worker.success, worker.failed)
  BY <1>4
<1>6. Outcome(worker.success, worker.failed) \in Terminal
  BY DEF Outcome, Terminal
<1>7. jobs'[w] # NoJob
  BY <1>1, WorkerFinalizeInv DEF IInv, Linked
<1> QED BY <1>1, <1>2, <1>4, <1>5, <1>6, <1>7

LEMMA WorkerFinalizeTells ==
    ASSUME IInv, OInv, WorkerFinalize PROVE OInv'
<1>0. PICK w \in Jobs : w = worker.job
  BY DEF WorkerFinalize, IInv, Linked
<1>1. UNCHANGED <<creator, rows, dbErrors>>
  BY DEF WorkerFinalize, history
<1>2. Has(w, "running") /\ jobs'[w] # NoJob /\ jobs'[w].status \in Terminal
      /\ \A k \in Jobs \ {w} : jobs'[k] = jobs[k]
  BY <1>0, Settled
<1>6. worker'.pc = "readOutcome" /\ worker'.job = w
  BY <1>0, Settled
<1>3. RowsTrail'
  <2>1. rows[w] # NoRow => rows[w].status = "running" \/ Rank(rows[w].status) < 1
    BY <1>2, RankIs DEF Has, OInv, RowsTrail
  <2>2. rows[w] # NoRow => rows[w].status \in {"queued", "running"} \cup Terminal
    BY DEF IInv, TypeOK, Row, Statuses
  <2>3. rows[w] # NoRow => Rank(rows[w].status) < Rank(jobs'[w].status)
    BY <1>2, <2>1, <2>2, RankIs
  <2> QED BY <1>0, <1>1, <1>2, <2>3 DEF OInv, RowsTrail
<1>4. RowsKept'
  <2> SUFFICES ASSUME NEW k \in Jobs \ dbErrors, jobs'[k] # NoJob
               PROVE  /\ creator[k] # "insert" => rows[k] # NoRow
                      /\ Finished(k)' /\ k # w => Itemized(k)'
    BY <1>1, <1>6 DEF RowsKept, Working
  <2>1. CASE k = w BY <1>2, <2>1 DEF OInv, RowsKept, Has
  <2>2. CASE k # w
    <3>1. ~Working(k) BY <1>0, <2>2 DEF Working
    <3> QED BY <1>1, <1>2, <2>2, <3>1 DEF OInv, RowsKept, Recorded, Itemized, Finished
  <2> QED BY <2>1, <2>2
<1>5. CountsHonest' BY <1>6 DEF CountsHonest
<1> QED BY <1>3, <1>4, <1>5 DEF OInv

LEMMA WorkerSaveItemsTells ==
    ASSUME IInv, OInv, WorkerSaveItems PROVE OInv'
<1>0. PICK w \in Jobs : w = worker.job
  BY DEF WorkerSaveItems, IInv, Linked
<1>1. /\ worker.pc = "saveItems" /\ worker' = [worker EXCEPT !.pc = "close"]
      /\ jobs' = jobs /\ creator' = creator
      /\ \/ /\ rows' = IF rows[w] # NoRow
                       THEN [rows EXCEPT ![w].items = jobs[w].processed] ELSE rows
            /\ dbErrors' = dbErrors
         \/ rows' = rows /\ dbErrors' = dbErrors \cup {w}
  BY <1>0 DEF WorkerSaveItems, memory
<1>2. worker'.pc = "close" /\ worker'.job = w
  BY <1>0, <1>1 DEF IInv, TypeOK, WorkerRecord
<1>3. /\ \A k \in Jobs \ {w} : rows'[k] = rows[k]
      /\ \/ rows'[w] = rows[w] /\ (w \in dbErrors' \/ rows[w] = NoRow)
         \/ rows[w] # NoRow /\ rows'[w] = [rows[w] EXCEPT !.items = jobs[w].processed]
  BY <1>1 DEF IInv, TypeOK
<1>4. rows[w] # NoRow =>
        LET row == [rows[w] EXCEPT !.items = jobs[w].processed] IN
        /\ row # NoRow /\ row.items = jobs[w].processed
        /\ row.status = rows[w].status /\ row.processed = rows[w].processed
        /\ row.success = rows[w].success /\ row.failed = rows[w].failed
  <2> SUFFICES ASSUME rows[w] # NoRow, NEW row,
                      row = [rows[w] EXCEPT !.items = jobs[w].processed]
               PROVE  /\ row # NoRow /\ row.items = jobs[w].processed
                      /\ row.status = rows[w].status /\ row.processed = rows[w].processed
                      /\ row.success = rows[w].success /\ row.failed = rows[w].failed
    OBVIOUS
  <2>1. rows[w] \in Row BY DEF IInv, TypeOK
  <2>2. jobs[w] \in Job BY <1>0, <1>1, JobIs DEF IInv, Linked
  <2>3. row \in Row BY <2>1, <2>2 DEF Row, Job
  <2> QED BY <2>1, <2>3, NamesAssumption DEF Row
<1>5. RowsTrail'
  <2> SUFFICES ASSUME NEW k \in Jobs
               PROVE  /\ creator[k] \in NotYet => rows'[k] = NoRow
                      /\ jobs[k] # NoJob /\ rows'[k] # NoRow =>
                            \/ rows'[k].status = jobs[k].status
                            \/ Rank(rows'[k].status) < Rank(jobs[k].status)
    BY <1>1 DEF RowsTrail
  <2>1. /\ (rows'[k] = NoRow) <=> (rows[k] = NoRow)
        /\ rows[k] # NoRow => rows'[k].status = rows[k].status
    BY <1>3, <1>4
  <2> QED BY <2>1 DEF OInv, RowsTrail
<1>6. RowsKept'
  <2> SUFFICES ASSUME NEW k \in Jobs \ dbErrors', jobs[k] # NoJob
               PROVE  /\ creator[k] # "insert" => rows'[k] # NoRow
                      /\ k = w => Itemized(k)'
                      /\ Finished(k) /\ k # w => Itemized(k)'
    BY <1>1, <1>2 DEF RowsKept, Working, Finished
  <2>1. k \notin dbErrors BY <1>1
  <2>2. CASE k = w
    <3>1. Recorded(w) BY <1>0, <1>1, <2>1, <2>2 DEF OInv, RowsKept, Working
    <3>2. rows'[w] = [rows[w] EXCEPT !.items = jobs[w].processed]
      BY <1>3, <2>2, <3>1 DEF Recorded
    <3> QED BY <1>1, <1>4, <2>2, <3>1, <3>2 DEF Recorded, Itemized
  <2>3. CASE k # w
    <3>1. ~Working(k) BY <1>0, <2>3 DEF Working
    <3> QED BY <1>1, <1>3, <2>1, <2>3, <3>1 DEF OInv, RowsKept, Recorded, Itemized
  <2> QED BY <2>2, <2>3
<1>7. CountsHonest' BY <1>2 DEF CountsHonest
<1> QED BY <1>5, <1>6, <1>7 DEF OInv

LEMMA WorkerCloseTells ==
    ASSUME IInv, OInv, WorkerClose PROVE OInv'
<1>1. /\ worker.pc = "close" /\ worker' = Idle
      /\ UNCHANGED <<jobs, creator, rows, dbErrors>>
  BY DEF WorkerClose, memory
<1>2. RowsTrail' BY <1>1 DEF OInv, RowsTrail
<1>3. RowsKept'
  <2> SUFFICES ASSUME NEW k \in Jobs \ dbErrors, jobs[k] # NoJob
               PROVE  /\ creator[k] # "insert" => rows[k] # NoRow
                      /\ Finished(k) => Itemized(k)
    BY <1>1 DEF RowsKept, Working, Finished, Itemized, Recorded, Idle
  <2>1. Working(k) => Itemized(k) BY <1>1 DEF OInv, RowsKept, Working
  <2> QED BY <2>1 DEF OInv, RowsKept
<1>4. CountsHonest' BY <1>1 DEF CountsHonest, Idle
<1> QED BY <1>2, <1>3, <1>4 DEF OInv

LEMMA CrashTells ==
    ASSUME IInv, OInv, Crash PROVE OInv'
<1>1. /\ jobs' = [j \in Jobs |-> NoJob] /\ worker' = Idle
      /\ UNCHANGED <<rows, dbErrors>>
      /\ \A j \in Jobs : creator'[j] \in NotYet => creator[j] \in NotYet
  BY DEF Crash, NotYet
<1>2. RowsTrail' BY <1>1 DEF OInv, RowsTrail
<1>3. RowsKept' BY <1>1 DEF RowsKept
<1>4. CountsHonest' BY <1>1 DEF CountsHonest, Idle
<1> QED BY <1>2, <1>3, <1>4 DEF OInv

\* Sends and replies of the creator, and either use of notifySubscribers.
LEMMA CreatorTells ==
    ASSUME IInv, OInv, NEW j \in Jobs, CreateSend(j) \/ CreateReply(j) PROVE OInv'
<1>1. /\ UNCHANGED <<jobs, rows, dbErrors, worker>>
      /\ creator[j] \in {"send", "reply"}
      /\ \E to \in {"reply", "done"} : creator' = [creator EXCEPT ![j] = to]
  BY DEF CreateSend, CreateReply, memory, history
<1>2. \A k \in Jobs : \/ creator'[k] = creator[k]
                      \/ creator[k] \notin NotYet /\ creator'[k] \notin NotYet
  BY <1>1 DEF IInv, TypeOK, NotYet
<1> QED BY <1>1, <1>2, CalmKeeps DEF Calm

LEMMA NotifyTells ==
    ASSUME IInv, OInv, NEW from, NEW to, NEW after, Announcement(from, to, after),
           ReadSubscribers(from, to, after) \/ SendNext(to, after)
    PROVE  OInv'
<1>1. /\ UNCHANGED <<jobs, rows, dbErrors, creator>>
      /\ worker.pc \in {from, to}
  BY DEF ReadSubscribers, SendNext, memory, history
<1>2. worker'.job = worker.job /\ worker'.pc \in {to, after}
  BY DEF ReadSubscribers, SendNext, IInv, TypeOK, WorkerRecord
<1>3. /\ {from, to, after} \cap {"idle", "finalize", "saveItems", "close"} = {}
  BY DEF Announcement
<1>4. /\ worker.pc \notin {"idle", "finalize", "saveItems", "close"}
      /\ worker'.pc \notin {"idle", "finalize", "saveItems", "close"}
  BY <1>1, <1>2, <1>3
<1> QED BY <1>1, <1>2, <1>4, CalmKeeps DEF Calm

\* The streams write at most cells of the slice the worker iterates.
LEMMA StreamsLeaveWorker ==
    ASSUME IInv, NEW c \in Clients, StreamStep(c) \/ StreamCancel(c)
    PROVE  /\ worker'.pc = worker.pc /\ worker'.job = worker.job
           /\ worker'.success = worker.success /\ worker'.failed = worker.failed
           /\ worker'.pos = worker.pos
<1>1. \/ worker' = worker
      \/ worker' = [worker EXCEPT !.shared = FALSE]
      \/ \E s : worker' = [worker EXCEPT !.snap = s]
  BY DEF StreamStep, StreamRegister, StreamForward, StreamFinish, StreamCancel, StreamUnsubscribe
<1> QED BY <1>1 DEF IInv, TypeOK, WorkerRecord

LEMMA StreamTells ==
    ASSUME IInv, OInv, NEW c \in Clients, StreamStep(c) \/ StreamCancel(c) PROVE OInv'
<1>1. UNCHANGED <<jobs, rows, dbErrors, creator>>
  BY DEF StreamStep, StreamRegister, StreamForward, StreamFinish, StreamCancel,
         StreamUnsubscribe, memory, history
<1> QED BY <1>1, StreamsLeaveWorker, CalmKeeps DEF Calm

LEMMA NextTells == IInv /\ OInv /\ [Next]_vars => OInv'
<1> SUFFICES ASSUME IInv, OInv, [Next]_vars PROVE OInv'
  OBVIOUS
<1>1. ASSUME NEW j \in Jobs, CreateRegister(j) \/ CreatorStep(j) PROVE OInv'
  BY <1>1, CreateRegisterTells, CreateInsertTells, CreatorTells DEF CreatorStep
<1>2. CASE WorkerStep
  <2>1. CASE WorkerSaveRunning \/ WorkerSaveOutcome
    BY <2>1, SaveJobTells DEF WorkerSaveRunning, WorkerSaveOutcome
  <2>2. CASE WorkerReadRunning \/ WorkerSendRunning \/ WorkerReadOutcome \/ WorkerSendOutcome
    BY <2>2, NotifyTells DEF WorkerReadRunning, WorkerSendRunning, WorkerReadOutcome,
       WorkerSendOutcome, Announcement
  <2> QED BY <1>2, <2>1, <2>2, WorkerStartTells, WorkerOperateTells, WorkerFinalizeTells,
     WorkerSaveItemsTells, WorkerCloseTells DEF WorkerStep
<1>3. ASSUME NEW c \in Clients, NEW j \in Jobs, StreamLookup(c, j) PROVE OInv'
  BY <1>3, CalmKeeps DEF StreamLookup, Calm, memory, history
<1>4. ASSUME NEW c \in Clients, StreamStep(c) \/ StreamCancel(c) PROVE OInv'
  BY <1>4, StreamTells
<1>5. CASE Crash
  BY <1>5, CrashTells
<1>6. CASE UNCHANGED vars
  BY <1>6, CalmKeeps DEF vars, Calm
<1>7. QED
  BY <1>1, <1>2, <1>3, <1>4, <1>5, <1>6 DEF Next

LEMMA OutcomeInvariance == Spec => []OInv
  BY OutcomeInit, NextTells, Invariance, PTL DEF Spec

\* Once the worker is done with a job none of whose statements failed, the tables
\* hold the outcome and the items GET /jobs shows: between finalize's UPDATE, its
\* insertion of the items and its last line, nothing else writes the row.
THEOREM OutcomeIsRecorded == Spec => []OutcomeRecorded
<1>1. IInv /\ OInv => OutcomeRecorded
  <2> SUFFICES ASSUME IInv, OInv, NEW j \in Jobs, Finished(j), ~Working(j), j \notin dbErrors
               PROVE  /\ rows[j] # NoRow
                      /\ rows[j] = [Updated(rows[j], jobs[j]) EXCEPT !.items = jobs[j].processed]
    BY DEF OutcomeRecorded
  <2>1. Itemized(j) BY DEF OInv, RowsKept, Finished
  <2>2. rows[j] \in Row BY <2>1 DEF Itemized, Recorded, IInv, TypeOK
  <2>3. rows[j] = [Updated(rows[j], jobs[j]) EXCEPT !.items = jobs[j].processed]
    BY <2>1, <2>2 DEF Itemized, Recorded, Updated, Row
  <2> QED BY <2>1, <2>3 DEF Itemized, Recorded
<1>2. QED
  BY <1>1, Invariance, OutcomeInvariance, PTL

\* No statement of creator or worker, in any order and across a crash, takes a
\* row of table jobs away or back to an earlier status, or changes its outcome.
THEOREM RowsNeverGoBack == Spec => RowsMoveForward
<1> DEFINE Forward == \A j \in Jobs : rows[j] # NoRow =>
          /\ rows'[j] # NoRow
          /\ rows'[j].status = rows[j].status \/ Rank(rows[j].status) < Rank(rows'[j].status)
<1>1. IInv /\ OInv /\ [Next]_vars => [Forward]_vars
  <2> SUFFICES ASSUME IInv, OInv, Next PROVE Forward
    OBVIOUS
  <2>1. ASSUME NEW j \in Jobs, CreateInsert(j) PROVE Forward
    <3>1. rows[j] = NoRow BY <2>1 DEF CreateInsert, OInv, RowsTrail, NotYet
    <3>2. \A k \in Jobs \ {j} : rows'[k] = rows[k]
      BY <2>1 DEF CreateInsert, IInv, TypeOK
    <3> QED BY <3>1, <3>2
  <2>2. ASSUME NEW from, NEW to, SaveJob(from, to), from # "idle" PROVE Forward
    <3>1. PICK w \in Jobs : w = worker.job
      BY <2>2 DEF SaveJob, IInv, Linked
    <3>2. jobs[w] \in Job /\ jobs[w] # NoJob
      BY <2>2, <3>1, JobIs DEF SaveJob, IInv, Linked
    <3>3. \/ rows' = rows
          \/ /\ rows[w] # NoRow
             /\ rows' = [rows EXCEPT ![w] = Updated(rows[w], jobs[w])]
      BY <2>2, <3>1 DEF SaveJob
    <3>4. rows[w] # NoRow => Updated(rows[w], jobs[w]) # NoRow
                             /\ Updated(rows[w], jobs[w]).status = jobs[w].status
      BY <3>2, UpdatedIs DEF IInv, TypeOK
    <3>5. /\ \A k \in Jobs \ {w} : rows'[k] = rows[k]
          /\ \/ rows'[w] = rows[w]
             \/ rows[w] # NoRow /\ rows'[w] = Updated(rows[w], jobs[w])
      BY <3>3 DEF IInv, TypeOK
    <3>6. rows[w] # NoRow => \/ rows[w].status = jobs[w].status
                             \/ Rank(rows[w].status) < Rank(jobs[w].status)
      BY <3>2 DEF OInv, RowsTrail
    <3> QED BY <3>4, <3>5, <3>6
  <2>3. ASSUME WorkerSaveItems PROVE Forward
    <3>1. PICK w \in Jobs : w = worker.job
      BY <2>3 DEF WorkerSaveItems, IInv, Linked
    <3>2. jobs[w] \in Job
      BY <2>3, <3>1, JobIs DEF WorkerSaveItems, IInv, Linked
    <3>3. \/ rows' = rows
          \/ /\ rows[w] # NoRow
             /\ rows' = [rows EXCEPT ![w].items = jobs[w].processed]
      BY <2>3, <3>1 DEF WorkerSaveItems
    <3>4. rows[w] # NoRow => rows[w] \in Row BY DEF IInv, TypeOK
    <3>5. /\ \A k \in Jobs \ {w} : rows'[k] = rows[k]
          /\ \/ rows'[w] = rows[w]
             \/ rows[w] # NoRow /\ rows'[w] = [rows[w] EXCEPT !.items = jobs[w].processed]
      BY <3>3 DEF IInv, TypeOK
    <3>6. rows[w] # NoRow => rows'[w] \in Row /\ rows'[w].status = rows[w].status
      BY <3>2, <3>4, <3>5 DEF Row, Job
    <3> QED BY <3>5, <3>6, NamesAssumption
  <2>4. CASE UNCHANGED rows BY <2>4
  <2> HIDE DEF Forward
  <2>5. ASSUME NEW j \in Jobs, CreateRegister(j) \/ CreatorStep(j) PROVE Forward
    BY <2>1, <2>4, <2>5 DEF CreatorStep, CreateRegister, CreateSend, CreateReply
  <2>6. CASE WorkerStep
    BY <2>2, <2>3, <2>4, <2>6 DEF WorkerStep, WorkerStart, WorkerSaveRunning, WorkerReadRunning,
       WorkerSendRunning, WorkerOperate, WorkerFinalize, WorkerReadOutcome, WorkerSendOutcome,
       WorkerSaveOutcome, WorkerClose, ReadSubscribers, SendNext
  <2>7. ASSUME NEW c \in Clients, StreamStep(c) \/ StreamCancel(c) \/ \E j \in Jobs : StreamLookup(c, j)
        PROVE  Forward
    BY <2>4, <2>7 DEF StreamStep, StreamRegister, StreamForward, StreamFinish, StreamCancel,
       StreamUnsubscribe, StreamLookup
  <2>8. CASE Crash BY <2>4, <2>8 DEF Crash
  <2> QED BY <2>5, <2>6, <2>7, <2>8 DEF Next
<1>2. QED
  BY <1>1, Invariance, OutcomeInvariance, PTL DEF Spec, RowsMoveForward

-----------------------------------------------------------------------------
(* The life of a job, step by step.                                        *)

LEMMA LifeIs ==
    ASSUME NEW j \in Jobs
    PROVE  /\ jobs[j] # NoJob =>
                 /\ life[j].phase = jobs[j].status /\ life[j].total = jobs[j].total
                 /\ life[j] = [phase |-> jobs[j].status, total |-> jobs[j].total,
                               success |-> jobs[j].success, failed |-> jobs[j].failed]
           /\ jobs[j] = NoJob /\ creator[j] = "idle" =>
                 life[j].phase = "unknown" /\ life[j] = Lifecycle!Nothing("unknown")
           /\ jobs[j] = NoJob /\ creator[j] # "idle" =>
                 life[j].phase = "forgotten" /\ life[j] = Lifecycle!Nothing("forgotten")
BY DEF life, Lifecycle!Nothing, Lifecycle!At

LEMMA LifeNext ==
    ASSUME NEW j \in Jobs
    PROVE  /\ jobs'[j] # NoJob =>
                 life'[j] = [phase |-> jobs'[j].status, total |-> jobs'[j].total,
                             success |-> jobs'[j].success, failed |-> jobs'[j].failed]
           /\ jobs'[j] = NoJob /\ creator'[j] = "idle" => life'[j] = Lifecycle!Nothing("unknown")
           /\ jobs'[j] = NoJob /\ creator'[j] # "idle" => life'[j] = Lifecycle!Nothing("forgotten")
BY DEF life, Lifecycle!Nothing, Lifecycle!At

\* A step that touches one job at most shows in that job's life at most.
LEMMA LifeElsewhere ==
    ASSUME NEW w \in Jobs,
           \A k \in Jobs \ {w} : jobs'[k] = jobs[k] /\ (creator'[k] = "idle" <=> creator[k] = "idle")
    PROVE  /\ life' = [life EXCEPT ![w] = life'[w]]
           /\ jobs'[w] = jobs[w] /\ (creator'[w] = "idle" <=> creator[w] = "idle") => life' = life
<1>1. \A k \in Jobs \ {w} : life'[k] = life[k] BY DEF life
<1>2. life = [j \in Jobs |-> life[j]] /\ life' = [j \in Jobs |-> life'[j]] BY DEF life
<1>3. jobs'[w] = jobs[w] /\ (creator'[w] = "idle" <=> creator[w] = "idle") => life'[w] = life[w]
  BY DEF life
<1> HIDE DEF life
<1> QED BY <1>1, <1>2, <1>3

LEMMA LifeStutters ==
    ASSUME jobs' = jobs, \A k \in Jobs : creator'[k] = "idle" <=> creator[k] = "idle"
    PROVE  life' = life
BY DEF life

LEMMA LifeInit == Init => Lifecycle!Init
BY DEF Init, life, Lifecycle!Init, Lifecycle!Nothing, Lifecycle!At

LEMMA RegisterAccepts ==
    ASSUME IInv, NEW j \in Jobs, CreateRegister(j) PROVE Lifecycle!Accept(j)
<1>1. PICK n \in 1..MaxItems : jobs' = [jobs EXCEPT ![j] = NewJob(n)]
  BY DEF CreateRegister
<1>2. creator[j] = "idle" /\ creator' = [creator EXCEPT ![j] = "insert"]
  BY DEF CreateRegister
<1>3. jobs[j] = NoJob BY <1>2 DEF IInv, Linked
<1>4. /\ jobs'[j] = NewJob(n) /\ NewJob(n) # NoJob
      /\ \A k \in Jobs \ {j} : jobs'[k] = jobs[k] /\ (creator'[k] = "idle" <=> creator[k] = "idle")
  BY <1>1, <1>2, NewJobType DEF IInv, TypeOK
<1>5. life[j].phase = "unknown" BY <1>2, <1>3, LifeIs
<1>6. life'[j] = Lifecycle!At("queued", n, 0, 0)
  BY <1>4, LifeNext DEF NewJob, Lifecycle!At
<1>7. life' = [life EXCEPT ![j] = life'[j]] BY <1>4, LifeElsewhere
<1> QED BY <1>5, <1>6, <1>7 DEF Lifecycle!Accept

LEMMA StartStarts ==
    ASSUME IInv, WorkerStart PROVE \E j \in Jobs : Lifecycle!Start(j)
<1>0. PICK h \in Jobs : h = Head(queue) /\ h \in ToSet(queue)
  BY TailRange DEF WorkerStart, IInv, TypeOK
<1>1. Has(h, "queued") BY <1>0 DEF IInv, OnePlace
<1>2. /\ jobs' = [jobs EXCEPT ![h].status = "running"]
      /\ worker.pc = "idle" /\ creator' = creator
  BY <1>0, <1>1 DEF WorkerStart, Has
<1>3. jobs[h] \in Job /\ jobs[h] # NoJob BY <1>1, JobIs DEF Has
<1>4. /\ jobs'[h] = [jobs[h] EXCEPT !.status = "running"]
      /\ \A k \in Jobs \ {h} : jobs'[k] = jobs[k]
  BY <1>2 DEF IInv, TypeOK
<1>5. jobs'[h] # NoJob
  <2>1. jobs'[h] \in Job BY <1>3, <1>4 DEF Job, Statuses
  <2> QED BY <2>1, NamesAssumption
<1>6. /\ life[h] = [phase |-> jobs[h].status, total |-> jobs[h].total,
                    success |-> jobs[h].success, failed |-> jobs[h].failed]
      /\ life'[h] = [phase |-> jobs'[h].status, total |-> jobs'[h].total,
                     success |-> jobs'[h].success, failed |-> jobs'[h].failed]
  BY <1>3, <1>5, LifeIs, LifeNext
<1>7. life[h].phase = "queued" BY <1>1, <1>6 DEF Has
<1>8. life'[h] = [life[h] EXCEPT !.phase = "running"]
  BY <1>3, <1>4, <1>6 DEF Job
<1>9. life' = [life EXCEPT ![h] = life'[h]] BY <1>2, <1>4, LifeElsewhere
<1>10. \A k \in Jobs : life[k].phase # "running"
  <2> SUFFICES ASSUME NEW k \in Jobs PROVE life[k].phase # "running"
    OBVIOUS
  <2>1. ~Has(k, "running") BY <1>2 DEF IInv, OnePlace, Working
  <2>2. CASE jobs[k] = NoJob BY <2>2, LifeIs
  <2>3. CASE jobs[k] # NoJob BY <2>1, <2>3, LifeIs DEF Has
  <2> QED BY <2>2, <2>3
<1> QED BY <1>7, <1>8, <1>9, <1>10 DEF Lifecycle!Start

LEMMA FinalizeFinishes ==
    ASSUME IInv, OInv, WorkerFinalize PROVE \E j \in Jobs : Lifecycle!Finish(j)
<1>0. PICK w \in Jobs : w = worker.job
  BY DEF WorkerFinalize, IInv, Linked
<1> DEFINE s == worker.success
           f == worker.failed
<1>1. /\ s \in 0..MaxItems /\ f \in 0..MaxItems /\ creator' = creator
  BY DEF WorkerFinalize, IInv, TypeOK, WorkerRecord
<1>2. /\ Has(w, "running") /\ jobs'[w] # NoJob
      /\ jobs'[w] = [status |-> Outcome(s, f), total |-> jobs[w].total,
                     processed |-> s + f, success |-> s, failed |-> f]
      /\ \A k \in Jobs \ {w} : jobs'[k] = jobs[k]
      /\ worker.pc = "finalize"
  BY <1>0, Settled
<1>3. Lifecycle!Honest(jobs[w].total, s, f)
  BY <1>0, <1>2 DEF OInv, CountsHonest, Lifecycle!Honest
<1> HIDE DEF s, f
<1>4. Outcome(s, f) = Lifecycle!OutcomeOf(s, f)
  BY <1>1 DEF Outcome, Lifecycle!OutcomeOf
<1>5. life[w].phase = "running" /\ life[w].total = jobs[w].total
  BY <1>2, LifeIs DEF Has
<1>6. life'[w] = Lifecycle!At(Lifecycle!OutcomeOf(s, f), life[w].total, s, f)
  BY <1>2, <1>4, <1>5, LifeNext DEF Lifecycle!At
<1>7. life' = [life EXCEPT ![w] = life'[w]] BY <1>1, <1>2, LifeElsewhere
<1>8. Lifecycle!Finish(w)
  BY <1>1, <1>3, <1>5, <1>6, <1>7 DEF Lifecycle!Finish
<1> QED BY <1>8

LEMMA CrashForgets ==
    ASSUME IInv, Crash PROVE Lifecycle!Forget
<1>1. /\ jobs' = [j \in Jobs |-> NoJob]
      /\ creator' = [j \in Jobs |->
            IF creator[j] \in {"idle", "done"} THEN creator[j] ELSE "lost"]
  BY DEF Crash
<1>2. ASSUME NEW j \in Jobs
      PROVE  life'[j] = IF life[j].phase = "unknown" THEN life[j]
                        ELSE Lifecycle!Nothing("forgotten")
  <2>1. jobs'[j] = NoJob /\ (creator'[j] = "idle" <=> creator[j] = "idle")
    BY <1>1
  <2>2. CASE jobs[j] = NoJob
    BY <2>1, <2>2, LifeIs, LifeNext
  <2>3. CASE jobs[j] # NoJob
    <3>1. creator[j] # "idle" BY <2>3 DEF IInv, Linked
    <3>2. life[j].phase = jobs[j].status BY <2>3, LifeIs
    <3>3. life[j].phase # "unknown" BY <2>3, <3>2, JobIs DEF Terminal
    <3> QED BY <2>1, <3>1, <3>3, LifeNext
  <2> QED BY <2>2, <2>3
<1>3. life' = [j \in Jobs |-> life'[j]] BY DEF life
<1> HIDE DEF life
<1> QED BY <1>2, <1>3 DEF Lifecycle!Forget

\* The safety half of Implements: whatever creators, worker, streams, failing
\* statements and crashes do, each job is accepted once, run alone and once, and
\* ends with the outcome its counts call for, until a crash forgets it.
THEOREM LifecycleImplemented == Spec => Lifecycle!Spec
<1>1. IInv /\ OInv /\ [Next]_vars => [Lifecycle!Next]_life
  <2> SUFFICES ASSUME IInv, OInv, [Next]_vars
               PROVE  Lifecycle!Next \/ life' = life
    OBVIOUS
  <2>1. ASSUME NEW j \in Jobs, CreateRegister(j) PROVE Lifecycle!Next
    BY <2>1, RegisterAccepts DEF Lifecycle!Next
  <2>2. ASSUME NEW j \in Jobs, CreatorStep(j) PROVE life' = life
    BY <2>2, LifeStutters DEF CreatorStep, CreateInsert, CreateSend, CreateReply, memory,
       IInv, TypeOK
  <2>3. CASE WorkerStart BY <2>3, StartStarts DEF Lifecycle!Next
  <2>4. CASE WorkerFinalize BY <2>4, FinalizeFinishes DEF Lifecycle!Next
  <2>5. CASE WorkerStep /\ ~WorkerStart /\ ~WorkerFinalize
    BY <2>5, LifeStutters DEF WorkerStep, WorkerSaveRunning, WorkerReadRunning,
       WorkerSendRunning, WorkerOperate, WorkerReadOutcome, WorkerSendOutcome,
       WorkerSaveOutcome, WorkerSaveItems, WorkerClose, SaveJob, ReadSubscribers, SendNext, memory
  <2>6. ASSUME NEW c \in Clients, StreamStep(c) \/ StreamCancel(c) \/ \E j \in Jobs : StreamLookup(c, j)
        PROVE  life' = life
    BY <2>6, LifeStutters DEF StreamStep, StreamRegister, StreamForward, StreamFinish,
       StreamCancel, StreamUnsubscribe, StreamLookup, memory
  <2>7. CASE Crash BY <2>7, CrashForgets DEF Lifecycle!Next
  <2>8. CASE UNCHANGED vars BY <2>8, LifeStutters DEF vars
  <2> QED BY <2>1, <2>2, <2>3, <2>4, <2>5, <2>6, <2>7, <2>8 DEF Next
<1>2. QED
  BY <1>1, LifeInit, Invariance, OutcomeInvariance, PTL DEF Spec, Lifecycle!Spec

-----------------------------------------------------------------------------
(* Streams.                                                                *)

\* What waits in c's channel: once an outcome, nothing but that outcome, and the
\* one c has seen if it has seen one.
Agree(c) ==
    \A k \in DOMAIN channel[c].buf :
        /\ stream[c].seen \in Terminal => channel[c].buf[k] = stream[c].seen
        /\ channel[c].buf[k] \in Terminal =>
              /\ Has(stream[c].job, channel[c].buf[k])
              /\ \A l \in k..Len(channel[c].buf) : channel[c].buf[l] = channel[c].buf[k]

\* A client not registered yet has nothing; an open stream agrees with the job.
Heard(c) ==
    /\ stream[c].pc \in {"away", "found"} => stream[c].seen = "none" /\ channel[c].buf = <<>>
    /\ stream[c].pc = "open" =>
          /\ Agree(c)
          /\ stream[c].seen \in Terminal => Has(stream[c].job, stream[c].seen)

HInv == \A c \in Clients : Heard(c)

\* No step but a crash takes an outcome back.
OutcomesStay == \A j \in Jobs : \A s \in Terminal : Has(j, s) => Has(j, s)'

LEMMA OutcomesLast == IInv /\ [Next]_vars /\ ~Crash => OutcomesStay
<1> SUFFICES ASSUME IInv, [Next]_vars, ~Crash PROVE OutcomesStay
  OBVIOUS
<1>1. ASSUME NEW j \in Jobs, CreateRegister(j) PROVE OutcomesStay
  <2>1. PICK n \in 1..MaxItems : jobs' = [jobs EXCEPT ![j] = NewJob(n)]
    BY <1>1 DEF CreateRegister
  <2>2. jobs[j] = NoJob BY <1>1 DEF CreateRegister, IInv, Linked
  <2>3. \A k \in Jobs \ {j} : jobs'[k] = jobs[k] BY <2>1 DEF IInv, TypeOK
  <2> QED BY <2>2, <2>3 DEF OutcomesStay, Has
<1>2. CASE WorkerStart
  <2>1. PICK h \in Jobs : h = Head(queue) /\ h \in ToSet(queue)
    BY <1>2, TailRange DEF WorkerStart, IInv, TypeOK
  <2>2. Has(h, "queued") BY <2>1 DEF IInv, OnePlace
  <2>3. jobs' = [jobs EXCEPT ![h].status = "running"]
    BY <1>2, <2>1, <2>2 DEF WorkerStart, Has
  <2>4. \A k \in Jobs \ {h} : jobs'[k] = jobs[k] BY <2>3 DEF IInv, TypeOK
  <2> QED BY <2>2, <2>4 DEF OutcomesStay, Has, Terminal
<1>3. CASE WorkerFinalize
  <2>1. PICK w \in Jobs : w = worker.job BY <1>3 DEF WorkerFinalize, IInv, Linked
  <2>2. Has(w, "running") /\ \A k \in Jobs \ {w} : jobs'[k] = jobs[k]
    BY <1>3, <2>1, Settled
  <2> QED BY <2>2 DEF OutcomesStay, Has, Terminal
<1>4. CASE jobs' = jobs BY <1>4 DEF OutcomesStay, Has
<1>5. CASE WorkerStep
  BY <1>2, <1>3, <1>4, <1>5 DEF WorkerStep, WorkerSaveRunning, WorkerReadRunning,
     WorkerSendRunning, WorkerOperate, WorkerReadOutcome, WorkerSendOutcome,
     WorkerSaveOutcome, WorkerSaveItems, WorkerClose, SaveJob, ReadSubscribers, SendNext, memory
<1>6. ASSUME NEW j \in Jobs, CreatorStep(j) PROVE OutcomesStay
  BY <1>4, <1>6 DEF CreatorStep, CreateInsert, CreateSend, CreateReply, memory
<1>7. ASSUME NEW c \in Clients, StreamStep(c) \/ StreamCancel(c) \/ \E j \in Jobs : StreamLookup(c, j)
      PROVE  OutcomesStay
  BY <1>4, <1>7 DEF StreamStep, StreamRegister, StreamForward, StreamFinish,
     StreamCancel, StreamUnsubscribe, StreamLookup, memory
<1>8. CASE UNCHANGED vars BY <1>4, <1>8 DEF vars
<1> QED BY <1>1, <1>5, <1>6, <1>7, <1>8 DEF Next

LEMMA HeardStays ==
    ASSUME IInv, OutcomesStay, NEW c \in Clients, Heard(c),
           channel'[c].buf = channel[c].buf, stream'[c].seen = stream[c].seen,
           stream'[c].job = stream[c].job,
           stream'[c].pc \in {stream[c].pc, "leaving", "ended"}
    PROVE  Heard(c)'
<1>1. CASE stream'[c].pc = "open"
  <2>1. stream[c].pc = "open" /\ stream[c].job \in Jobs BY <1>1 DEF IInv, Linked
  <2>2. \A s \in Terminal : Has(stream[c].job, s) => Has(stream[c].job, s)'
    BY <2>1 DEF OutcomesStay, Has
  <2>3. Agree(c)' BY <2>1, <2>2 DEF Heard, Agree
  <2>4. stream'[c].seen \in Terminal => Has(stream[c].job, stream[c].seen)'
    BY <2>1, <2>2 DEF Heard
  <2> QED BY <1>1, <2>3, <2>4 DEF Heard
<1>2. CASE stream'[c].pc # "open" BY <1>2 DEF Heard
<1> QED BY <1>1, <1>2

LEMMA HeardInit == Init => HInv
BY DEF Init, HInv, Heard, Away, Fresh

\* An update that no job's outcome contradicts may follow what c already has.
LEMMA SendHeard ==
    ASSUME IInv, HInv, OutcomesStay, NEW from, NEW after, SendNext(from, after),
           from \in {"sendRunning", "sendOutcome"}
    PROVE  HInv'
<1>1. PICK w \in Jobs : w = worker.job /\ jobs[w] \in Job /\ jobs[w] # NoJob
  BY JobIs DEF SendNext, IInv, Linked
<1>2. PICK d \in Clients : d = worker.snap[worker.pos] /\ stream[d].job = w
  BY <1>1 DEF SendNext, IInv, Linked, Slices, Sending, TypeOK, WorkerRecord
<1>3. PICK u \in Statuses : u = jobs[w].status
  BY <1>1 DEF Job
<1>4. stream' = stream /\ jobs' = jobs
  BY DEF SendNext, memory
<1>5. \/ channel' = channel
      \/ channel' = [channel EXCEPT ![d].buf = Append(channel[d].buf, u)]
  BY <1>1, <1>2, <1>3 DEF SendNext, SendTo
<1>6. PICK old \in Seq(Statuses) : old = channel[d].buf
  BY DEF IInv, TypeOK
<1>7. /\ \A c \in Clients \ {d} : channel'[c].buf = channel[c].buf
      /\ channel'[d].buf = old \/ channel'[d].buf = Append(old, u)
  BY <1>5, <1>6 DEF IInv, TypeOK
<1>8. ASSUME NEW c \in Clients, channel'[c].buf = channel[c].buf PROVE Heard(c)'
  BY <1>4, <1>8, HeardStays DEF HInv
<1>9. ASSUME channel'[d].buf = Append(old, u) PROVE Heard(d)'
  <2>1. CASE stream[d].pc = "open"
    <3>1. \A s \in Terminal : Has(w, s) => s = u
      BY <1>3 DEF Has
    <3>2. stream[d].seen \in Terminal => stream[d].seen = u
      BY <1>2, <2>1, <3>1 DEF HInv, Heard
    <3>3. \A k \in DOMAIN old :
            /\ stream[d].seen \in Terminal => old[k] = stream[d].seen
            /\ old[k] \in Terminal =>
                 /\ old[k] = u /\ \A l \in k..Len(old) : old[l] = old[k]
      BY <1>2, <1>6, <2>1, <3>1 DEF HInv, Heard, Agree
    <3>4. PICK new \in Seq(Statuses) : new = Append(old, u)
      BY AppendProperties
    <3>5. /\ Len(new) = Len(old) + 1 /\ new[Len(old) + 1] = u
          /\ \A k \in DOMAIN old : new[k] = old[k]
          /\ DOMAIN old = 1..Len(old) /\ DOMAIN new = 1..(Len(old) + 1)
      BY <3>4
    <3>6. ASSUME NEW k \in DOMAIN new
          PROVE  /\ stream[d].seen \in Terminal => new[k] = stream[d].seen
                 /\ new[k] \in Terminal => new[k] = u /\ \A l \in k..Len(new) : new[l] = u
      <4>1. CASE k = Len(old) + 1 BY <3>2, <3>5, <4>1
      <4>2. CASE k \in DOMAIN old
        <5>1. ASSUME NEW l \in k..Len(new), new[k] \in Terminal PROVE new[l] = u
          <6>1. CASE l = Len(old) + 1 BY <3>5, <6>1
          <6>2. CASE l \in k..Len(old)
            <7>1. l \in DOMAIN old BY <3>5, <4>2, <6>2
            <7> QED BY <3>3, <3>5, <4>2, <5>1, <6>2, <7>1
          <6> QED BY <3>5, <6>1, <6>2
        <5> QED BY <3>3, <3>5, <4>2, <5>1
      <4> QED BY <3>5, <4>1, <4>2
    <3>7. Has(w, u)' BY <1>1, <1>3, <1>4 DEF Has
    <3>8. Agree(d)'
      <4>1. channel'[d].buf = new BY <1>9, <3>4
      <4> QED BY <1>2, <1>4, <3>6, <3>7, <4>1 DEF Agree
    <3>9. stream[d].seen \in Terminal => Has(w, stream[d].seen)'
      BY <1>4, <3>2, <3>7 DEF Has
    <3> QED BY <1>2, <1>4, <2>1, <3>8, <3>9 DEF Heard
  <2>2. CASE stream[d].pc # "open"
    <3>1. stream[d].pc \in {"leaving", "ended"}
      BY <1>2, <2>2 DEF SendNext, IInv, Slices, Linked, Sending
    <3> QED BY <1>4, <3>1 DEF Heard
  <2>3. QED BY <2>1, <2>2
<1>10. ASSUME NEW c \in Clients PROVE Heard(c)'
  BY <1>6, <1>7, <1>8, <1>9
<1> QED BY <1>10 DEF HInv

LEMMA ForwardHeard ==
    ASSUME IInv, HInv, OutcomesStay, NEW d \in Clients, StreamForward(d)
    PROVE  HInv'
<1>1. PICK old \in Seq(Statuses) : old = channel[d].buf /\ old # <<>>
  BY DEF StreamForward, IInv, TypeOK
<1>2. stream[d].pc = "open" /\ stream[d].job \in Jobs /\ jobs' = jobs
  BY DEF StreamForward, IInv, Linked, memory
<1>3. /\ \A c \in Clients \ {d} : stream'[c] = stream[c] /\ channel'[c] = channel[c]
      /\ stream'[d].pc = "open" /\ stream'[d].job = stream[d].job
      /\ stream'[d].seen = Head(old) /\ channel'[d].buf = Tail(old)
  BY <1>1, <1>2 DEF StreamForward, IInv, TypeOK, StreamRecord
<1>4. PICK new \in Seq(Statuses) : new = Tail(old)
  BY <1>1, HeadTailProperties
<1>5. /\ Head(old) = old[1] /\ Len(new) = Len(old) - 1 /\ DOMAIN old = 1..Len(old)
      /\ DOMAIN new = 1..Len(new) /\ Len(old) \in Nat \ {0}
      /\ \A k \in DOMAIN new : new[k] = old[k + 1]
  BY <1>1, <1>4, HeadTailProperties
<1>6. \A k \in DOMAIN old : old[k] \in Terminal =>
        /\ Has(stream[d].job, old[k]) /\ \A l \in k..Len(old) : old[l] = old[k]
  BY <1>1, <1>2 DEF HInv, Heard, Agree
<1>7. 1 \in DOMAIN old /\ \A k \in DOMAIN new : k + 1 \in DOMAIN old /\ k + 1 \in 1..Len(old)
  BY <1>5
<1>8. ASSUME NEW k \in DOMAIN new
      PROVE  /\ old[1] \in Terminal => new[k] = old[1]
             /\ new[k] \in Terminal =>
                   /\ Has(stream[d].job, new[k])
                   /\ \A l \in k..Len(new) : new[l] = new[k]
  <2>1. old[1] \in Terminal => new[k] = old[1] BY <1>5, <1>6, <1>7
  <2>2. new[k] \in Terminal => Has(stream[d].job, new[k]) BY <1>5, <1>6, <1>7
  <2>3. ASSUME new[k] \in Terminal, NEW l \in k..Len(new) PROVE new[l] = new[k]
    <3>1. l \in DOMAIN new /\ l + 1 \in (k + 1)..Len(old) BY <1>5
    <3>2. old[l + 1] = old[k + 1] BY <1>5, <1>6, <1>7, <2>3, <3>1
    <3> QED BY <1>5, <3>1, <3>2
  <2> QED BY <2>1, <2>2, <2>3
<1>9. Agree(d)' BY <1>2, <1>3, <1>4, <1>5, <1>8 DEF Agree, Has
<1>10. stream'[d].seen \in Terminal => Has(stream[d].job, stream[d].seen)'
  BY <1>2, <1>3, <1>5, <1>6, <1>7 DEF Has
<1>11. Heard(d)' BY <1>3, <1>9, <1>10 DEF Heard
<1>12. \A c \in Clients \ {d} : Heard(c)'
  BY <1>3, HeardStays DEF HInv
<1> QED BY <1>11, <1>12 DEF HInv

LEMMA CrashHeard == ASSUME IInv, HInv, Crash PROVE HInv'
<1> SUFFICES ASSUME NEW c \in Clients PROVE Heard(c)'
  BY DEF HInv
<1>1. /\ stream'[c] = IF stream[c].pc = "away" THEN stream[c] ELSE [stream[c] EXCEPT !.pc = "ended"]
      /\ channel'[c].buf = <<>>
  BY DEF Crash, Fresh
<1>2. CASE stream[c].pc = "away" BY <1>1, <1>2 DEF HInv, Heard
<1>3. CASE stream[c].pc # "away"
  <2>1. stream'[c].pc = "ended" BY <1>1, <1>3 DEF IInv, TypeOK, StreamRecord
  <2> QED BY <2>1 DEF Heard
<1> QED BY <1>2, <1>3

LEMMA NextHeard == IInv /\ HInv /\ [Next]_vars => HInv'
<1> SUFFICES ASSUME IInv, HInv, [Next]_vars PROVE HInv'
  OBVIOUS
<1>0. CASE Crash BY <1>0, CrashHeard
<1>1. ASSUME ~Crash PROVE OutcomesStay BY <1>1, OutcomesLast
<1>2. ASSUME ~Crash, stream' = stream, \A c \in Clients : channel'[c].buf = channel[c].buf
      PROVE  HInv'
  BY <1>1, <1>2, HeardStays DEF HInv
<1>3. ASSUME ~Crash, NEW j \in Jobs, CreateRegister(j) \/ CreatorStep(j) PROVE HInv'
  BY <1>2, <1>3 DEF CreatorStep, CreateRegister, CreateInsert, CreateSend, CreateReply, feeds
<1>4. CASE ~Crash /\ WorkerStep
  <2>1. CASE WorkerSendRunning BY <1>1, <1>4, <2>1, SendHeard DEF WorkerSendRunning
  <2>2. CASE WorkerSendOutcome BY <1>1, <1>4, <2>2, SendHeard DEF WorkerSendOutcome
  <2>3. CASE WorkerClose
    <3>1. stream' = stream BY <2>3 DEF WorkerClose
    <3>2. \A c \in Clients : channel'[c].buf = channel[c].buf
      BY <2>3 DEF WorkerClose, Closed, IInv, TypeOK
    <3> QED BY <1>2, <1>4, <3>1, <3>2
  <2>4. CASE WorkerStep /\ ~WorkerSendRunning /\ ~WorkerSendOutcome /\ ~WorkerClose
    BY <1>2, <1>4, <2>4 DEF WorkerStep, WorkerStart, WorkerSaveRunning, WorkerReadRunning,
       WorkerOperate, WorkerFinalize, WorkerReadOutcome, WorkerSaveOutcome, WorkerSaveItems,
       SaveJob, ReadSubscribers, feeds
  <2> QED BY <1>4, <2>1, <2>2, <2>3, <2>4
<1>5. ASSUME ~Crash, NEW d \in Clients,
             StreamStep(d) \/ StreamCancel(d) \/ \E j \in Jobs : StreamLookup(d, j)
      PROVE  HInv'
  <2>1. ASSUME stream'[d].seen = stream[d].seen, channel'[d].buf = <<>> \/ channel' = channel,
               \A c \in Clients \ {d} : stream'[c] = stream[c] /\ channel'[c] = channel[c],
               Heard(d)'
        PROVE  HInv'
    BY <1>1, <1>5, <2>1, HeardStays DEF HInv
  <2>2. CASE \E j \in Jobs : StreamLookup(d, j)
    <3>1. PICK j \in Jobs : StreamLookup(d, j) BY <2>2
    <3>2. /\ stream[d].pc = "away" /\ channel' = channel
          /\ stream' = [stream EXCEPT ![d] = [stream[d] EXCEPT !.pc = "found", !.job = j]]
      BY <3>1 DEF StreamLookup, feeds
    <3>3. stream'[d].pc = "found" /\ stream'[d].seen = stream[d].seen
          /\ \A c \in Clients \ {d} : stream'[c] = stream[c]
      BY <3>2 DEF IInv, TypeOK, StreamRecord
    <3>4. Heard(d)' BY <3>2, <3>3 DEF HInv, Heard
    <3> QED BY <2>1, <3>2, <3>3, <3>4
  <2>3. CASE StreamRegister(d)
    <3>1. /\ stream[d].pc = "found" /\ channel' = channel
          /\ stream' = [stream EXCEPT ![d].pc = "open"]
      BY <2>3 DEF StreamRegister
    <3>2. stream'[d].pc = "open" /\ stream'[d].seen = stream[d].seen
          /\ \A c \in Clients \ {d} : stream'[c] = stream[c]
      BY <3>1 DEF IInv, TypeOK, StreamRecord
    <3>3. stream'[d].seen \notin Terminal /\ channel'[d].buf = <<>>
      BY <3>1, <3>2 DEF HInv, Heard, Terminal
    <3>4. Heard(d)' BY <3>2, <3>3 DEF Heard, Agree
    <3> QED BY <2>1, <3>1, <3>2, <3>4
  <2>4. CASE StreamForward(d) BY <1>1, <1>5, <2>4, ForwardHeard
  <2>5. CASE StreamFinish(d) \/ StreamCancel(d)
    <3>1. channel' = channel /\ stream' = [stream EXCEPT ![d].pc = "leaving"]
      BY <2>5 DEF StreamFinish, StreamCancel, feeds
    <3>2. stream'[d].pc = "leaving" /\ stream'[d].seen = stream[d].seen
          /\ \A c \in Clients \ {d} : stream'[c] = stream[c]
      BY <3>1 DEF IInv, TypeOK, StreamRecord
    <3> QED BY <2>1, <3>1, <3>2 DEF Heard
  <2>6. CASE StreamUnsubscribe(d)
    <3>1. /\ stream' = [stream EXCEPT ![d].pc = "ended"]
          /\ channel' = [channel EXCEPT ![d] = Dropped(channel[d])]
      BY <2>6 DEF StreamUnsubscribe
    <3>2. stream'[d].pc = "ended" /\ stream'[d].seen = stream[d].seen /\ channel'[d].buf = <<>>
          /\ \A c \in Clients \ {d} : stream'[c] = stream[c] /\ channel'[c] = channel[c]
      BY <3>1 DEF IInv, TypeOK, StreamRecord, Dropped
    <3> QED BY <2>1, <3>2 DEF Heard
  <2> QED BY <1>5, <2>2, <2>3, <2>4, <2>5, <2>6 DEF StreamStep
<1>6. CASE ~Crash /\ UNCHANGED vars BY <1>2, <1>6 DEF vars
<1> QED BY <1>0, <1>3, <1>4, <1>5, <1>6 DEF Next

LEMMA HeardInvariance == Spec => []HInv
  BY HeardInit, NextHeard, Invariance, PTL DEF Spec

\* What an open stream has shown or still holds never runs ahead of the job, and
\* nothing older follows an outcome: though Unsubscribe shifts the slice under the
\* worker, which may send the same update to a client twice.
THEOREM StreamsNeverDisagree == Spec => []StreamsAgree
<1>1. IInv /\ HInv => StreamsAgree
  <2> SUFFICES ASSUME IInv, HInv, NEW c \in Clients, stream[c].pc = "open",
                      NEW told, told = <<stream[c].seen>> \o channel[c].buf,
                      NEW k \in DOMAIN told, told[k] \in Terminal
               PROVE  /\ Has(stream[c].job, told[k])
                      /\ \A l \in k..Len(told) : told[l] = told[k]
    BY DEF StreamsAgree
  <2>1. PICK buf \in Seq(Statuses) : buf = channel[c].buf BY DEF IInv, TypeOK
  <2>2. PICK seen \in Statuses \cup {"none"} : seen = stream[c].seen
    BY DEF IInv, TypeOK, StreamRecord
  <2>3. /\ Len(told) = Len(buf) + 1 /\ told[1] = seen /\ DOMAIN told = 1..(Len(buf) + 1)
        /\ \A i \in 2..(Len(buf) + 1) : told[i] = buf[i - 1]
    <3>1. told = <<seen>> \o buf /\ <<seen>> \in Seq(Statuses \cup {"none"})
          /\ buf \in Seq(Statuses \cup {"none"})
      BY <2>1, <2>2
    <3>2. Len(<<seen>>) = 1 /\ <<seen>>[1] = seen OBVIOUS
    <3> QED BY <3>1, <3>2, ConcatProperties
  <2>4. /\ seen \in Terminal => Has(stream[c].job, seen)
        /\ \A i \in DOMAIN buf :
             /\ seen \in Terminal => buf[i] = seen
             /\ buf[i] \in Terminal =>
                  /\ Has(stream[c].job, buf[i])
                  /\ \A l \in i..Len(buf) : buf[l] = buf[i]
    BY <2>1, <2>2 DEF HInv, Heard, Agree
  <2>5. DOMAIN buf = 1..Len(buf) /\ Len(buf) \in Nat OBVIOUS
  <2>6. CASE k = 1
    <3>1. \A l \in 2..Len(told) : told[l] = seen
      <4> SUFFICES ASSUME NEW l \in 2..Len(told) PROVE told[l] = seen OBVIOUS
      <4>1. l - 1 \in DOMAIN buf /\ told[l] = buf[l - 1] BY <2>3, <2>5
      <4> QED BY <2>3, <2>4, <2>6, <4>1
    <3>2. \A l \in 1..Len(told) : l = 1 \/ l \in 2..Len(told) BY <2>3, <2>5
    <3> QED BY <2>3, <2>4, <2>6, <3>1, <3>2
  <2>7. CASE k # 1
    <3>1. k - 1 \in DOMAIN buf /\ k \in 2..(Len(buf) + 1) /\ told[k] = buf[k - 1]
      BY <2>3, <2>5, <2>7
    <3>2. ASSUME NEW l \in k..Len(told) PROVE told[l] = told[k]
      <4>1. l - 1 \in (k - 1)..Len(buf) /\ told[l] = buf[l - 1] BY <2>3, <2>5, <3>1
      <4> QED BY <2>4, <3>1, <4>1
    <3> QED BY <2>4, <3>1, <3>2
  <2> QED BY <2>6, <2>7
<1>2. QED
  BY <1>1, Invariance, HeardInvariance, PTL

-----------------------------------------------------------------------------
(* The audience of an outcome, when no stream is cancelled.                *)

Unsettled(j) == ~Finished(j) \/ Working(j)
Unstarted(j) == jobs[j] = NoJob \/ Has(j, "queued")

Told(c) ==
    \/ stream[c].seen \in Terminal
    \/ \E k \in DOMAIN channel[c].buf : channel[c].buf[k] \in Terminal

\* Nobody leaves a job before its channels are closed.
Staying ==
    \A j \in Jobs : Unsettled(j) =>
        \A k \in DOMAIN subscribers[j] : stream[subscribers[j][k]].pc = "open"

\* Nobody is told of a job before the worker takes it.
Waiting ==
    \A j \in Jobs : Unstarted(j) =>
        \A k \in DOMAIN subscribers[j] : channel[subscribers[j][k]].buf = <<>>

\* So the slice the worker iterates is the beginning of the registered one.
InView ==
    worker.pc # "idle" =>
        /\ Len(worker.snap) <= Len(subscribers[worker.job])
        /\ \A k \in DOMAIN worker.snap : worker.snap[k] = subscribers[worker.job][k]

\* The k-th channel of the worker's job has room for what is still to be sent.
RoomAt(k) ==
    LET n == Len(channel[subscribers[worker.job][k]].buf) IN
    /\ worker.pc \in {"saveRunning", "readRunning"} => n = 0
    /\ worker.pc = "sendRunning" => n <= 1 /\ (k >= worker.pos => n = 0)
    /\ worker.pc \in {"operate", "finalize", "readOutcome"} => n <= 1
    /\ worker.pc = "sendOutcome" /\ k >= worker.pos => n <= 1
Roomy == worker.pc # "idle" => \A k \in DOMAIN subscribers[worker.job] : RoomAt(k)

AudienceTold ==
    /\ worker.pc = "sendOutcome" =>
          /\ audience = ToSet(worker.snap)
          /\ \A k \in DOMAIN worker.snap : k < worker.pos => Told(worker.snap[k])
    /\ worker.pc \in {"saveOutcome", "saveItems", "close"} =>
          /\ audience \subseteq ToSet(subscribers[worker.job])
          /\ \A c \in audience : Told(c)

QInv == Staying /\ Waiting /\ InView /\ Roomy /\ AudienceTold

\* Jobs are started and settled once, short of a crash.
Onward == \A j \in Jobs : /\ Unsettled(j)' => Unsettled(j)
                          /\ Unstarted(j)' => Unstarted(j)

LEMMA JobsGoOn == IInv /\ [Next]_vars /\ ~Crash => Onward
<1> SUFFICES ASSUME IInv, [Next]_vars, ~Crash, NEW j \in Jobs
             PROVE  (Unsettled(j)' => Unsettled(j)) /\ (Unstarted(j)' => Unstarted(j))
  BY DEF Onward
<1>0. OutcomesStay BY OutcomesLast
<1>1. Finished(j) => Finished(j)'
  <2> SUFFICES ASSUME Finished(j) PROVE Finished(j)' OBVIOUS
  <2>1. PICK s \in Terminal : Has(j, s) BY DEF Finished, Has
  <2>2. Has(j, s)' BY <1>0, <2>1 DEF OutcomesStay
  <2> QED BY <2>1, <2>2 DEF Has, Finished
<1>2. CASE WorkerStart
  <2>1. PICK h \in Jobs : h = Head(queue) /\ h \in ToSet(queue)
    BY <1>2, TailRange DEF WorkerStart, IInv, TypeOK
  <2>2. Has(h, "queued") BY <2>1 DEF IInv, OnePlace
  <2>3. jobs' = [jobs EXCEPT ![h].status = "running"] /\ worker'.job = h
    BY <1>2, <2>1, <2>2 DEF WorkerStart, Has, Idle
  <2>4. h # j => jobs'[j] = jobs[j] BY <2>3 DEF IInv, TypeOK
  <2>5. h # j => ~Working(j)' BY <2>3 DEF Working
  <2> QED BY <1>1, <2>2, <2>4, <2>5 DEF Unsettled, Unstarted, Has, Finished, Terminal
<1>3. CASE WorkerFinalize
  <2>1. PICK w \in Jobs : w = worker.job BY <1>3 DEF WorkerFinalize, IInv, Linked
  <2>2. Has(w, "running") /\ jobs'[w].status \in Terminal /\ jobs'[w] # NoJob
    BY <1>3, <2>1, Settled
  <2>3. \A k \in Jobs \ {w} : jobs'[k] = jobs[k] BY <1>3, <2>1, Settled
  <2>4. worker'.job = w BY <1>3, <2>1, Settled
  <2>5. w # j => ~Working(j)' BY <2>4 DEF Working
  <2> QED BY <1>1, <2>2, <2>3, <2>5 DEF Unsettled, Unstarted, Has, Finished, Terminal
<1>4. ASSUME NEW i \in Jobs, CreateRegister(i)
      PROVE  (Unsettled(j)' => Unsettled(j)) /\ (Unstarted(j)' => Unstarted(j))
  <2>1. PICK n \in 1..MaxItems : jobs' = [jobs EXCEPT ![i] = NewJob(n)]
    BY <1>4 DEF CreateRegister
  <2>2. jobs[i] = NoJob /\ worker' = worker BY <1>4 DEF CreateRegister, IInv, Linked
  <2>3. \A k \in Jobs \ {i} : jobs'[k] = jobs[k] BY <2>1 DEF IInv, TypeOK
  <2> QED BY <1>1, <2>2, <2>3 DEF Unsettled, Unstarted, Has, Working
<1>5. ASSUME jobs' = jobs, worker'.pc # "idle" => worker.pc # "idle" /\ worker'.job = worker.job
      PROVE  (Unsettled(j)' => Unsettled(j)) /\ (Unstarted(j)' => Unstarted(j))
  BY <1>1, <1>5 DEF Unsettled, Unstarted, Has, Working
<1>6. CASE WorkerStep /\ ~WorkerStart /\ ~WorkerFinalize
  <2>1. jobs' = jobs
    BY <1>6 DEF WorkerStep, WorkerSaveRunning, WorkerReadRunning,
     WorkerSendRunning, WorkerOperate, WorkerReadOutcome, WorkerSendOutcome,
     WorkerSaveOutcome, WorkerSaveItems, WorkerClose, SaveJob, ReadSubscribers, SendNext, memory
  <2>2. worker.pc # "idle"
    BY <1>6 DEF WorkerStep, WorkerSaveRunning, WorkerReadRunning,
     WorkerSendRunning, WorkerOperate, WorkerReadOutcome, WorkerSendOutcome,
     WorkerSaveOutcome, WorkerSaveItems, WorkerClose, SaveJob, ReadSubscribers, SendNext
  <2>3. CASE WorkerClose BY <1>5, <2>1, <2>3 DEF WorkerClose, Idle
  <2>4. CASE ~WorkerClose
    <3>1. worker'.job = worker.job
      BY <1>6, <2>4 DEF WorkerStep, WorkerSaveRunning, WorkerReadRunning,
       WorkerSendRunning, WorkerOperate, WorkerReadOutcome, WorkerSendOutcome, WorkerSaveOutcome,
       WorkerSaveItems, SaveJob, ReadSubscribers, SendNext, IInv, TypeOK, WorkerRecord
    <3> QED BY <1>5, <2>1, <2>2, <3>1
  <2> QED BY <2>3, <2>4
<1>7. ASSUME NEW i \in Jobs, CreatorStep(i)
      PROVE  (Unsettled(j)' => Unsettled(j)) /\ (Unstarted(j)' => Unstarted(j))
  BY <1>5, <1>7 DEF CreatorStep, CreateInsert, CreateSend, CreateReply, memory
<1>8. ASSUME NEW c \in Clients, StreamStep(c) \/ StreamCancel(c)
      PROVE  (Unsettled(j)' => Unsettled(j)) /\ (Unstarted(j)' => Unstarted(j))
  <2>1. jobs' = jobs
    BY <1>8 DEF StreamStep, StreamRegister, StreamForward, StreamFinish,
     StreamCancel, StreamUnsubscribe, memory
  <2> QED BY <1>5, <1>8, <2>1, StreamsLeaveWorker
<1>9. ASSUME NEW c \in Clients, NEW i \in Jobs, StreamLookup(c, i)
      PROVE  (Unsettled(j)' => Unsettled(j)) /\ (Unstarted(j)' => Unstarted(j))
  BY <1>5, <1>9 DEF StreamLookup, memory
<1>10. CASE UNCHANGED vars BY <1>5, <1>10 DEF vars
<1> QED BY <1>2, <1>3, <1>4, <1>6, <1>7, <1>8, <1>9, <1>10 DEF Next

LEMMA SubscriberIs ==
    ASSUME IInv, NEW j \in Jobs, NEW k \in DOMAIN subscribers[j]
    PROVE  /\ subscribers[j][k] \in Clients
           /\ stream[subscribers[j][k]].job = j
           /\ \A l \in DOMAIN subscribers[j] : subscribers[j][l] = subscribers[j][k] => l = k
BY DEF IInv, Slices, TypeOK

LEMMA WorkingIs ==
    ASSUME IInv, worker.pc # "idle"
    PROVE  /\ worker.job \in Jobs /\ Unsettled(worker.job) /\ ~Unstarted(worker.job)
           /\ jobs[worker.job] # NoJob /\ jobs[worker.job].status \in Statuses
           /\ worker.snap \in Seq(Clients) /\ subscribers[worker.job] \in Seq(Clients)
           /\ worker.pc \in InFinalize => jobs[worker.job].status \in Terminal
<1>1. worker.job \in Jobs /\ jobs[worker.job] # NoJob /\ Working(worker.job)
  BY DEF IInv, Linked, Working
<1>2. ~Has(worker.job, "queued")
  <2>1. CASE worker.pc \in InFinalize
    BY <2>1 DEF IInv, Linked, Finished, Has, Terminal
  <2>2. CASE worker.pc \notin InFinalize
    BY <1>1, <2>2 DEF IInv, OnePlace, Has
  <2> QED BY <2>1, <2>2
<1>3. jobs[worker.job].status \in Statuses BY <1>1, JobIs DEF Statuses
<1>4. worker.snap \in Seq(Clients) /\ subscribers[worker.job] \in Seq(Clients)
  BY <1>1 DEF IInv, TypeOK, WorkerRecord
<1>5. worker.pc \in InFinalize => jobs[worker.job].status \in Terminal
  BY DEF IInv, Linked, Finished
<1> QED BY <1>1, <1>2, <1>3, <1>4, <1>5 DEF Unsettled, Unstarted

LEMMA QInit == Init => QInv
BY DEF Init, QInv, Staying, Waiting, InView, Roomy, AudienceTold, Idle

LEMMA CrashQ == Crash => QInv'
BY DEF Crash, QInv, Staying, Waiting, InView, Roomy, AudienceTold, Idle

LEMMA FeedsKept ==
    ASSUME IInv, QInv, Onward, UNCHANGED feeds, stream' = stream
    PROVE  Staying' /\ Waiting'
<1>1. Staying' BY DEF QInv, Staying, Onward, feeds
<1>2. Waiting' BY DEF QInv, Waiting, Onward, feeds
<1> QED BY <1>1, <1>2

\* The worker goes to a place that asks no more of the channels.
LEMMA WorkerMoves ==
    ASSUME IInv, QInv, Onward, UNCHANGED feeds, stream' = stream, audience' = audience,
           worker'.job = worker.job, worker'.snap = worker.snap,
           <<worker.pc, worker'.pc>> \in
               {<<"saveRunning", "readRunning">>, <<"operate", "finalize">>,
                <<"finalize", "readOutcome">>, <<"saveOutcome", "saveItems">>,
                <<"saveItems", "close">>}
    PROVE  QInv'
<1>1. Staying' /\ Waiting' BY FeedsKept
<1>2. \/ worker.pc = "saveRunning" /\ worker'.pc = "readRunning"
      \/ worker.pc = "operate" /\ worker'.pc = "finalize"
      \/ worker.pc = "finalize" /\ worker'.pc = "readOutcome"
      \/ worker.pc = "saveOutcome" /\ worker'.pc = "saveItems"
      \/ worker.pc = "saveItems" /\ worker'.pc = "close"
  OBVIOUS
<1>3. subscribers' = subscribers /\ channel' = channel BY DEF feeds
<1>4. InView' BY <1>2, <1>3 DEF QInv, InView
<1>5. Roomy' BY <1>2, <1>3 DEF QInv, Roomy, RoomAt
<1>6. AudienceTold' BY <1>2, <1>3 DEF QInv, AudienceTold, Told
<1> QED BY <1>1, <1>4, <1>5, <1>6 DEF QInv

LEMMA StartQ ==
    ASSUME IInv, QInv, Onward, WorkerStart PROVE QInv'
<1>1. PICK h \in Jobs : h = Head(queue) /\ h \in ToSet(queue)
  BY TailRange DEF WorkerStart, IInv, TypeOK
<1>2. Has(h, "queued") BY <1>1 DEF IInv, OnePlace
<1>3. /\ worker'.pc = "saveRunning" /\ worker'.job = h /\ worker'.snap = <<>>
      /\ UNCHANGED <<feeds, stream>>
  BY <1>1, <1>2 DEF WorkerStart, Has, Idle
<1>4. Staying' /\ Waiting' BY <1>3, FeedsKept
<1>5. subscribers' = subscribers /\ channel' = channel BY <1>3 DEF feeds
<1>6. subscribers[h] \in Seq(Clients) BY DEF IInv, TypeOK
<1>7. InView' BY <1>3, <1>5, <1>6 DEF InView
<1>8. Roomy'
  <2>1. \A k \in DOMAIN subscribers[h] : channel[subscribers[h][k]].buf = <<>>
    BY <1>2 DEF QInv, Waiting, Unstarted
  <2>2. \A k \in DOMAIN subscribers[h] : Len(channel[subscribers[h][k]].buf) = 0
    BY <2>1
  <2> QED BY <1>3, <1>5, <2>2 DEF Roomy, RoomAt
<1>9. AudienceTold' BY <1>3 DEF AudienceTold
<1> QED BY <1>4, <1>7, <1>8, <1>9 DEF QInv

LEMMA CloseQ ==
    ASSUME IInv, QInv, Onward, WorkerClose PROVE QInv'
<1>1. PICK w \in Jobs : w = worker.job
  BY DEF WorkerClose, IInv, Linked
<1>2. /\ worker' = Idle /\ stream' = stream
      /\ \A c \in Clients : channel'[c].buf = channel[c].buf
      /\ \A j \in Jobs : subscribers'[j] = IF j = w THEN <<>> ELSE subscribers[j]
  BY <1>1 DEF WorkerClose, Closed, IInv, TypeOK
<1>3. DOMAIN <<>> = {} OBVIOUS
<1>4. Staying' BY <1>2, <1>3 DEF QInv, Staying, Onward
<1>5. Waiting'
  <2> SUFFICES ASSUME NEW j \in Jobs, Unstarted(j)', NEW k \in DOMAIN subscribers'[j]
               PROVE  channel'[subscribers'[j][k]].buf = <<>>
    BY DEF Waiting
  <2>1. j # w /\ subscribers'[j] = subscribers[j] BY <1>2, <1>3
  <2>2. channel[subscribers[j][k]].buf = <<>> BY <2>1 DEF QInv, Waiting, Onward
  <2>3. subscribers[j][k] \in Clients BY <2>1, SubscriberIs
  <2> QED BY <1>2, <2>1, <2>2, <2>3
<1>6. InView' /\ Roomy' /\ AudienceTold'
  BY <1>2 DEF InView, Roomy, AudienceTold, Idle
<1> QED BY <1>4, <1>5, <1>6 DEF QInv

LEMMA ReadQ ==
    ASSUME IInv, QInv, Onward,
           \/ WorkerReadRunning
           \/ WorkerReadOutcome
    PROVE  QInv'
<1>1. PICK w \in Jobs : w = worker.job
  BY DEF WorkerReadRunning, WorkerReadOutcome, ReadSubscribers, IInv, Linked
<1>2. PICK subs \in Seq(Clients) : subs = subscribers[w]
  BY DEF IInv, TypeOK
<1>3. /\ UNCHANGED feeds /\ stream' = stream
      /\ worker'.job = w /\ worker'.snap = subs /\ worker'.pos = 1
  BY <1>1, <1>2 DEF WorkerReadRunning, WorkerReadOutcome, ReadSubscribers, IInv, TypeOK, WorkerRecord
<1>4. \/ /\ worker.pc = "readRunning"
         /\ worker'.pc = IF subs = <<>> THEN "operate" ELSE "sendRunning"
      \/ /\ worker.pc = "readOutcome" /\ audience' = ToSet(subs)
         /\ worker'.pc = IF subs = <<>> THEN "saveOutcome" ELSE "sendOutcome"
  BY <1>1, <1>2 DEF WorkerReadRunning, WorkerReadOutcome, ReadSubscribers, IInv, TypeOK, WorkerRecord
<1>5. Staying' /\ Waiting' BY <1>3, FeedsKept
<1>6. subscribers' = subscribers /\ channel' = channel BY <1>3 DEF feeds
<1>7. InView' BY <1>2, <1>3, <1>6 DEF InView
<1>8. \A k \in DOMAIN subs : RoomAt(k)
  BY <1>1, <1>2, <1>4 DEF QInv, Roomy
<1>9. Roomy' 
  <2> SUFFICES ASSUME NEW k \in DOMAIN subs PROVE RoomAt(k)'
    BY <1>2, <1>3, <1>6 DEF Roomy
  <2>1. RoomAt(k) BY <1>8
  <2> QED BY <1>1, <1>2, <1>3, <1>4, <1>6, <2>1 DEF RoomAt
<1>10. AudienceTold'
  <2>1. CASE worker.pc = "readRunning" BY <1>4, <2>1 DEF AudienceTold
  <2>2. CASE worker.pc = "readOutcome"
    <3>1. \A k \in DOMAIN subs : ~(k < 1) BY <1>2
    <3>2. subs = <<>> => ToSet(subs) = {} BY DEF ToSet
    <3> QED BY <1>2, <1>3, <1>4, <1>6, <2>2, <3>1, <3>2 DEF AudienceTold
  <2> QED BY <1>4, <2>1, <2>2
<1> QED BY <1>5, <1>7, <1>9, <1>10 DEF QInv

\* An update that finds room is told.
LEMMA SendQ ==
    ASSUME IInv, QInv, Onward, ChanCap >= 2, NEW from, NEW after, SendNext(from, after),
           \/ from = "sendRunning" /\ after = "operate"
           \/ from = "sendOutcome" /\ after = "saveOutcome"
    PROVE  QInv'
<1>1. PICK w \in Jobs : w = worker.job
  BY DEF SendNext, IInv, Linked
<1>2. PICK subs \in Seq(Clients) : subs = subscribers[w]
  BY DEF IInv, TypeOK
<1>3. PICK snap \in Seq(Clients) : snap = worker.snap
  BY DEF IInv, TypeOK, WorkerRecord
<1>4. PICK p \in DOMAIN snap : p = worker.pos
  BY <1>3 DEF SendNext, IInv, Linked, Sending
<1>5. /\ worker.pc = from /\ stream' = stream /\ subscribers' = subscribers
      /\ audience' = audience
  BY DEF SendNext, history
<1>6. /\ Len(snap) <= Len(subs) /\ \A k \in DOMAIN snap : snap[k] = subs[k]
  BY <1>1, <1>2, <1>3, <1>5 DEF QInv, InView
<1>7. DOMAIN snap = 1..Len(snap) /\ DOMAIN subs = 1..Len(subs) /\ Len(snap) \in Nat /\ Len(subs) \in Nat
  OBVIOUS
<1>8. p \in DOMAIN subs /\ DOMAIN snap \subseteq DOMAIN subs
  BY <1>6, <1>7
<1>9. PICK d \in Clients : d = subs[p] /\ d = snap[p]
  BY <1>6, <1>8
<1>10. RoomAt(p) BY <1>1, <1>2, <1>5, <1>8 DEF QInv, Roomy
<1>11. PICK old \in Seq(Statuses) : old = channel[d].buf BY DEF IInv, TypeOK
<1>12. Len(old) \in Nat /\ Len(old) <= 1 /\ (from = "sendRunning" => Len(old) = 0)
  BY <1>1, <1>2, <1>4, <1>5, <1>9, <1>10, <1>11 DEF RoomAt
<1>13. PICK u \in Statuses : u = jobs[w].status
  BY <1>1, <1>5, WorkingIs
<1>14. channel' = [channel EXCEPT ![d].buf = Append(old, u)]
  BY <1>1, <1>3, <1>4, <1>9, <1>11, <1>12, <1>13, BoundsAssumption DEF SendNext, SendTo
<1>15. /\ channel'[d].buf = Append(old, u)
       /\ \A c \in Clients \ {d} : channel'[c] = channel[c]
  BY <1>14 DEF IInv, TypeOK
<1>16. PICK new \in Seq(Statuses) : new = Append(old, u) BY AppendProperties
<1>17. Len(new) = Len(old) + 1 /\ new[Len(old) + 1] = u /\ \A k \in DOMAIN old : new[k] = old[k]
       /\ DOMAIN new = 1..(Len(old) + 1) /\ DOMAIN old = 1..Len(old)
  BY <1>16
<1>18. channel'[d].buf = new BY <1>15, <1>16
<1>19. \/ p < Len(snap) /\ worker'.pc = from /\ worker'.snap = snap /\ worker'.pos = p + 1
       \/ ~(p < Len(snap)) /\ worker'.pc = after /\ worker'.snap = <<>>
  BY <1>3, <1>4, <1>5 DEF SendNext, IInv, TypeOK, WorkerRecord
<1>20. worker'.job = w
  BY <1>1 DEF SendNext, IInv, TypeOK, WorkerRecord
<1>21. Staying' BY <1>5 DEF QInv, Staying, Onward
<1>22. Waiting'
  <2> SUFFICES ASSUME NEW j \in Jobs, Unstarted(j)', NEW k \in DOMAIN subscribers[j]
               PROVE  channel'[subscribers[j][k]].buf = <<>>
    BY <1>5 DEF Waiting
  <2>1. Unstarted(j) BY DEF Onward
  <2>2. j # w BY <1>1, <1>5, <2>1, WorkingIs
  <2>3. stream[d].job = w BY <1>2, <1>8, <1>9, SubscriberIs
  <2>4. subscribers[j][k] \in Clients \ {d} BY <2>2, <2>3, SubscriberIs
  <2> QED BY <1>15, <2>1, <2>4 DEF QInv, Waiting
<1>23. InView'
  <2>1. CASE worker'.snap = snap
    BY <1>2, <1>5, <1>6, <1>20, <2>1 DEF InView
  <2>2. CASE worker'.snap = <<>>
    <3>1. Len(<<>>) = 0 /\ DOMAIN <<>> = {} OBVIOUS
    <3> QED BY <1>2, <1>5, <1>7, <1>20, <2>2, <3>1 DEF InView
  <2> QED BY <1>19, <2>1, <2>2
<1>24. ASSUME NEW k \in DOMAIN subs \ {p} PROVE subs[k] \in Clients \ {d}
  <2>1. \A l \in DOMAIN subs : subs[l] = subs[k] => l = k BY <1>2, SubscriberIs
  <2>2. subs[k] \in Clients BY <1>2, SubscriberIs
  <2> QED BY <1>8, <1>9, <2>1, <2>2
<1>25. Roomy'
  <2> SUFFICES ASSUME NEW k \in DOMAIN subs PROVE RoomAt(k)'
    BY <1>2, <1>5, <1>20 DEF Roomy
  <2>1. RoomAt(k) BY <1>1, <1>2, <1>5 DEF QInv, Roomy
  <2>2. CASE k = p
    <3>1. Len(channel'[subs[k]].buf) = Len(old) + 1 BY <1>9, <1>17, <1>18, <2>2
    <3> QED BY <1>2, <1>5, <1>7, <1>12, <1>19, <1>20, <2>2, <3>1 DEF RoomAt
  <2>3. CASE k # p
    <3>1. channel'[subs[k]] = channel[subs[k]] BY <1>15, <1>24, <2>3
    <3>2. k \in Int /\ p \in Int BY <1>7
    <3>3. k >= p + 1 => k >= p BY <3>2
    <3> QED BY <1>1, <1>2, <1>4, <1>5, <1>7, <1>19, <1>20, <2>1, <3>1, <3>3 DEF RoomAt
  <2> QED BY <2>2, <2>3
<1>26. AudienceTold'
  <2>1. CASE from = "sendRunning" BY <1>19, <2>1 DEF AudienceTold
  <2>2. CASE from = "sendOutcome"
    <3>1. u \in Terminal BY <1>1, <1>5, <1>13, <2>2, WorkingIs DEF InFinalize
    <3>2. Told(d)' BY <1>11, <1>12, <1>17, <1>18, <3>1 DEF Told
    <3>3. ASSUME NEW c \in Clients, Told(c) PROVE Told(c)'
      <4>1. CASE c = d BY <3>2, <4>1
      <4>2. CASE c # d BY <1>5, <1>15, <3>3, <4>2 DEF Told
      <4> QED BY <4>1, <4>2
    <3>4. audience = ToSet(snap) /\ \A k \in DOMAIN snap : k < p => Told(snap[k])
      BY <1>3, <1>4, <1>5, <2>2 DEF QInv, AudienceTold
    <3>5. \A k \in DOMAIN snap : k < p + 1 => Told(snap[k])'
      <4> SUFFICES ASSUME NEW k \in DOMAIN snap, k < p + 1 PROVE Told(snap[k])' OBVIOUS
      <4>1. CASE k = p BY <1>9, <3>2, <4>1
      <4>2. CASE k < p BY <3>3, <3>4, <4>2
      <4> QED BY <1>7, <4>1, <4>2
    <3>6. CASE p < Len(snap)
      BY <1>5, <1>19, <2>2, <3>4, <3>5, <3>6 DEF AudienceTold
    <3>7. CASE ~(p < Len(snap))
      <4>1. \A k \in DOMAIN snap : k < p + 1 BY <1>7, <3>7
      <4>2. \A c \in ToSet(snap) : Told(c)' BY <3>5, <4>1 DEF ToSet
      <4>3. ToSet(snap) \subseteq ToSet(subs) BY <1>6, <1>8 DEF ToSet
      <4> QED BY <1>2, <1>5, <1>19, <1>20, <2>2, <3>4, <3>7, <4>2, <4>3 DEF AudienceTold
    <3> QED BY <3>6, <3>7
  <2> QED BY <2>1, <2>2
<1> QED BY <1>21, <1>22, <1>23, <1>25, <1>26 DEF QInv

\* A handler that takes no update and touches no slice.
LEMMA ClientMoves ==
    ASSUME IInv, QInv, Onward, UNCHANGED <<feeds, worker, audience>>,
           \A d \in Clients : stream'[d].seen = stream[d].seen,
           \A j \in Jobs : Unsettled(j) => \A k \in DOMAIN subscribers[j] :
               stream'[subscribers[j][k]].pc = stream[subscribers[j][k]].pc
    PROVE  QInv'
<1>1. subscribers' = subscribers /\ channel' = channel /\ worker' = worker /\ audience' = audience
  BY DEF feeds
<1>2. Staying' BY <1>1 DEF QInv, Staying, Onward
<1>3. Waiting' BY <1>1 DEF QInv, Waiting, Onward
<1>4. InView' BY <1>1 DEF QInv, InView
<1>5. Roomy' BY <1>1 DEF QInv, Roomy, RoomAt
<1>6. \A c \in Clients : Told(c) => Told(c)' BY <1>1 DEF Told
<1>7. AudienceTold'
  <2>1. \A k \in DOMAIN worker.snap : worker.snap[k] \in Clients
    BY DEF IInv, TypeOK, WorkerRecord
  <2>2. audience \subseteq Clients BY DEF IInv, TypeOK
  <2> QED BY <1>1, <1>6, <2>1, <2>2 DEF QInv, AudienceTold
<1> QED BY <1>2, <1>3, <1>4, <1>5, <1>7 DEF QInv

LEMMA RegisterQ ==
    ASSUME IInv, HInv, QInv, Onward, NEW c \in Clients, StreamRegister(c) PROVE QInv'
<1>1. PICK j \in Jobs : j = stream[c].job
  BY DEF StreamRegister, IInv, Linked
<1>2. PICK subs \in Seq(Clients) : subs = subscribers[j]
  BY DEF IInv, TypeOK
<1>3. /\ stream[c].pc = "found" /\ channel' = channel /\ audience' = audience
      /\ subscribers' = [subscribers EXCEPT ![j] = Append(subs, c)]
      /\ stream' = [stream EXCEPT ![c].pc = "open"]
  BY <1>1, <1>2 DEF StreamRegister, history
<1>4. /\ stream'[c].pc = "open"
      /\ \A d \in Clients \ {c} : stream'[d] = stream[d]
      /\ \A d \in Clients : stream'[d].seen = stream[d].seen
  BY <1>3 DEF IInv, TypeOK, StreamRecord
<1>5. PICK more \in Seq(Clients) : more = Append(subs, c) BY AppendProperties
<1>6. /\ Len(more) = Len(subs) + 1 /\ more[Len(subs) + 1] = c
      /\ \A k \in DOMAIN subs : more[k] = subs[k] /\ k \in DOMAIN more
      /\ DOMAIN more = 1..(Len(subs) + 1) /\ DOMAIN subs = 1..Len(subs) /\ Len(subs) \in Nat
  BY <1>5
<1>7. subscribers'[j] = more /\ \A i \in Jobs \ {j} : subscribers'[i] = subscribers[i]
  BY <1>3, <1>5 DEF IInv, TypeOK
<1>8. channel[c].buf = <<>> BY <1>3 DEF HInv, Heard
\* a registered slice gains at most c, at its end
<1>9. ASSUME NEW i \in Jobs, NEW k \in DOMAIN subscribers'[i]
      PROVE  \/ subscribers'[i][k] = c
             \/ /\ k \in DOMAIN subscribers[i] /\ subscribers'[i][k] = subscribers[i][k]
                /\ subscribers[i][k] \in Clients \ {c}
  <2>1. CASE i = j /\ k = Len(subs) + 1 BY <1>6, <1>7, <2>1
  <2>2. CASE i # j \/ k # Len(subs) + 1
    <3>1. k \in DOMAIN subscribers[i] /\ subscribers'[i][k] = subscribers[i][k]
      BY <1>2, <1>6, <1>7, <2>2
    <3>2. subscribers[i][k] \in Clients BY <3>1, SubscriberIs
    <3> QED BY <3>1, <3>2
  <2> QED BY <2>1, <2>2
<1>10. Staying'
  <2> SUFFICES ASSUME NEW i \in Jobs, Unsettled(i)', NEW k \in DOMAIN subscribers'[i]
               PROVE  stream'[subscribers'[i][k]].pc = "open"
    BY DEF Staying
  <2>1. CASE subscribers'[i][k] = c BY <1>4, <2>1
  <2>2. CASE subscribers'[i][k] # c
    <3>1. k \in DOMAIN subscribers[i] /\ stream[subscribers[i][k]].pc = "open"
      BY <1>9, <2>2 DEF QInv, Staying, Onward
    <3> QED BY <1>4, <1>9, <2>2, <3>1
  <2> QED BY <2>1, <2>2
<1>11. Waiting'
  <2> SUFFICES ASSUME NEW i \in Jobs, Unstarted(i)', NEW k \in DOMAIN subscribers'[i]
               PROVE  channel[subscribers'[i][k]].buf = <<>>
    BY <1>3 DEF Waiting
  <2> QED BY <1>8, <1>9 DEF QInv, Waiting, Onward
<1>12. worker'.pc = worker.pc /\ worker'.job = worker.job /\ worker'.pos = worker.pos
  BY StreamsLeaveWorker DEF StreamStep
<1>13. worker'.snap = worker.snap
  <2>1. \/ worker' = worker
        \/ worker' = [worker EXCEPT !.shared = FALSE]
        \/ /\ worker.shared /\ worker.job = j /\ Len(subs) + 1 <= Len(worker.snap)
    BY <1>1, <1>2 DEF StreamRegister
  <2>2. CASE worker' = worker \/ worker' = [worker EXCEPT !.shared = FALSE]
    BY <2>2 DEF IInv, TypeOK, WorkerRecord
  <2>3. ASSUME worker.shared, worker.job = j, Len(subs) + 1 <= Len(worker.snap) PROVE FALSE
    <3>1. worker.pc # "idle" BY <2>3 DEF IInv, Linked, Idle
    <3>2. Len(worker.snap) <= Len(subs) BY <1>2, <2>3, <3>1 DEF QInv, InView
    <3>3. Len(worker.snap) \in Nat BY DEF IInv, TypeOK, WorkerRecord
    <3> QED BY <1>6, <2>3, <3>2, <3>3
  <2> QED BY <2>1, <2>2, <2>3
<1>14. InView'
  <2> SUFFICES ASSUME worker.pc # "idle"
               PROVE  /\ Len(worker.snap) <= Len(subscribers'[worker.job])
                      /\ \A k \in DOMAIN worker.snap : worker.snap[k] = subscribers'[worker.job][k]
    BY <1>12, <1>13 DEF InView
  <2>1. worker.job \in Jobs /\ worker.snap \in Seq(Clients) BY WorkingIs
  <2>2. CASE worker.job # j BY <1>7, <2>1, <2>2 DEF QInv, InView
  <2>3. CASE worker.job = j
    <3>1. Len(worker.snap) <= Len(subs) /\ \A k \in DOMAIN worker.snap : worker.snap[k] = subs[k]
      BY <1>2, <2>3 DEF QInv, InView
    <3>2. DOMAIN worker.snap \subseteq DOMAIN subs BY <1>6, <2>1, <3>1
    <3> QED BY <1>6, <1>7, <2>1, <2>3, <3>1, <3>2
  <2> QED BY <2>2, <2>3
<1>15. Roomy'
  <2> SUFFICES ASSUME worker.pc # "idle", NEW k \in DOMAIN subscribers'[worker.job] PROVE RoomAt(k)'
    BY <1>12 DEF Roomy
  <2>1. worker.job \in Jobs BY WorkingIs
  <2>2. CASE subscribers'[worker.job][k] = c
    <3>1. Len(channel'[subscribers'[worker'.job][k]].buf) = 0 BY <1>3, <1>8, <1>12, <2>2
    <3> QED BY <3>1 DEF RoomAt
  <2>3. CASE subscribers'[worker.job][k] # c
    <3>1. /\ k \in DOMAIN subscribers[worker.job]
          /\ subscribers'[worker.job][k] = subscribers[worker.job][k]
      BY <1>9, <2>1, <2>3
    <3>2. RoomAt(k) BY <3>1 DEF QInv, Roomy
    <3> QED BY <1>3, <1>12, <3>1, <3>2 DEF RoomAt
  <2> QED BY <2>2, <2>3
<1>16. AudienceTold'
  <2>1. \A d \in Clients : Told(d) => Told(d)' BY <1>3, <1>4 DEF Told
  <2>2. \A k \in DOMAIN worker.snap : worker.snap[k] \in Clients
    BY DEF IInv, TypeOK, WorkerRecord
  <2>3. audience \subseteq Clients BY DEF IInv, TypeOK
  <2>4. \A i \in Jobs : ToSet(subscribers[i]) \subseteq ToSet(subscribers'[i])
    <3>1. ToSet(subs) \subseteq ToSet(more) BY <1>6 DEF ToSet
    <3> QED BY <1>2, <1>7, <3>1
  <2>5. worker.pc # "idle" => worker.job \in Jobs BY WorkingIs
  <2> QED BY <1>3, <1>12, <1>13, <2>1, <2>2, <2>3, <2>4, <2>5 DEF QInv, AudienceTold
<1> QED BY <1>10, <1>11, <1>14, <1>15, <1>16 DEF QInv

LEMMA ForwardQ ==
    ASSUME IInv, HInv, QInv, Onward, NEW d \in Clients, StreamForward(d) PROVE QInv'
<1>1. PICK old \in Seq(Statuses) : old = channel[d].buf /\ old # <<>>
  BY DEF StreamForward, IInv, TypeOK
<1>2. /\ subscribers' = subscribers /\ worker' = worker /\ audience' = audience
      /\ stream[d].pc = "open"
  BY DEF StreamForward, history
<1>3. /\ \A c \in Clients : stream'[c].pc = stream[c].pc
      /\ \A c \in Clients \ {d} : stream'[c] = stream[c] /\ channel'[c] = channel[c]
      /\ stream'[d].seen = Head(old) /\ channel'[d].buf = Tail(old)
  BY <1>1 DEF StreamForward, IInv, TypeOK, StreamRecord
<1>4. PICK new \in Seq(Statuses) : new = Tail(old)
  BY <1>1, HeadTailProperties
<1>5. /\ Head(old) = old[1] /\ Len(new) = Len(old) - 1 /\ DOMAIN old = 1..Len(old)
      /\ DOMAIN new = 1..Len(new) /\ Len(old) \in Nat \ {0}
      /\ \A k \in DOMAIN new : new[k] = old[k + 1]
  BY <1>1, <1>4, HeadTailProperties
<1>6. Staying'
  <2> SUFFICES ASSUME NEW i \in Jobs, Unsettled(i)', NEW k \in DOMAIN subscribers[i]
               PROVE  stream'[subscribers[i][k]].pc = "open"
    BY <1>2 DEF Staying
  <2>1. subscribers[i][k] \in Clients BY SubscriberIs
  <2> QED BY <1>3, <2>1 DEF QInv, Staying, Onward
<1>7. Waiting'
  <2> SUFFICES ASSUME NEW i \in Jobs, Unstarted(i)', NEW k \in DOMAIN subscribers[i]
               PROVE  channel'[subscribers[i][k]].buf = <<>>
    BY <1>2 DEF Waiting
  <2>1. subscribers[i][k] \in Clients BY SubscriberIs
  <2>2. channel[subscribers[i][k]].buf = <<>> BY DEF QInv, Waiting, Onward
  <2>3. subscribers[i][k] # d BY <1>1, <2>2
  <2> QED BY <1>3, <2>1, <2>2, <2>3
<1>8. InView' BY <1>2 DEF QInv, InView
<1>9. Roomy'
  <2> SUFFICES ASSUME worker.pc # "idle", NEW k \in DOMAIN subscribers[worker.job] PROVE RoomAt(k)'
    BY <1>2 DEF Roomy
  <2>1. RoomAt(k) BY DEF QInv, Roomy
  <2>2. worker.job \in Jobs /\ subscribers[worker.job][k] \in Clients
    BY WorkingIs, SubscriberIs
  <2>3. CASE subscribers[worker.job][k] = d
    <3>1. Len(channel'[d].buf) = Len(old) - 1 BY <1>3, <1>4, <1>5
    <3> QED BY <1>1, <1>2, <1>5, <2>1, <2>3, <3>1 DEF RoomAt
  <2>4. CASE subscribers[worker.job][k] # d
    BY <1>2, <1>3, <2>1, <2>2, <2>4 DEF RoomAt
  <2> QED BY <2>3, <2>4
<1>10. ASSUME Told(d) PROVE Told(d)'
  <2>1. CASE stream[d].seen \in Terminal
    <3>1. old[1] = stream[d].seen BY <1>1, <1>2, <1>5, <2>1 DEF HInv, Heard, Agree
    <3> QED BY <1>3, <1>5, <2>1, <3>1 DEF Told
  <2>2. CASE \E k \in DOMAIN old : old[k] \in Terminal
    <3>1. PICK k \in DOMAIN old : old[k] \in Terminal BY <2>2
    <3>2. CASE k = 1 BY <1>3, <1>5, <3>1, <3>2 DEF Told
    <3>3. CASE k # 1
      <4>1. k - 1 \in DOMAIN new /\ new[k - 1] \in Terminal BY <1>5, <3>1, <3>3
      <4> QED BY <1>3, <1>4, <4>1 DEF Told
    <3> QED BY <3>2, <3>3
  <2> QED BY <1>1, <1>10, <2>1, <2>2 DEF Told
<1>11. \A c \in Clients : Told(c) => Told(c)'
  <2> SUFFICES ASSUME NEW c \in Clients, Told(c) PROVE Told(c)' OBVIOUS
  <2>1. CASE c = d BY <1>10, <2>1
  <2>2. CASE c # d BY <1>3, <2>2 DEF Told
  <2> QED BY <2>1, <2>2
<1>12. AudienceTold'
  <2>1. \A k \in DOMAIN worker.snap : worker.snap[k] \in Clients
    BY DEF IInv, TypeOK, WorkerRecord
  <2>2. audience \subseteq Clients BY DEF IInv, TypeOK
  <2> QED BY <1>2, <1>11, <2>1, <2>2 DEF QInv, AudienceTold
<1> QED BY <1>6, <1>7, <1>8, <1>9, <1>12 DEF QInv

\* Who leaves is no longer registered with a job that still has something to say.
LEMMA UnsubscribeQ ==
    ASSUME IInv, QInv, Onward, NEW c \in Clients, StreamUnsubscribe(c) PROVE QInv'
<1>1. PICK j \in Jobs : j = stream[c].job
  BY DEF StreamUnsubscribe, IInv, Linked
<1>2. PICK subs \in Seq(Clients) : subs = subscribers[j]
  BY DEF IInv, TypeOK
<1>3. stream[c].pc = "leaving" /\ audience' = audience
  BY DEF StreamUnsubscribe, history
<1>4. /\ \A d \in Clients : stream'[d].seen = stream[d].seen
      /\ \A d \in Clients \ {c} : stream'[d] = stream[d] /\ channel'[d] = channel[d]
      /\ channel'[c].buf = <<>>
  BY DEF StreamUnsubscribe, Dropped, IInv, TypeOK, StreamRecord
<1>5. ASSUME NEW i \in Jobs, Unsettled(i), NEW k \in DOMAIN subscribers[i]
      PROVE  subscribers[i][k] \in Clients \ {c} /\ stream[subscribers[i][k]].pc = "open"
  BY <1>3, <1>5, SubscriberIs DEF QInv, Staying
<1>6. \A i \in Jobs : Unsettled(i) => subscribers'[i] = subscribers[i]
  <2>1. subscribers' = [subscribers EXCEPT ![j] = RemoveFirst(subs, c)]
    BY <1>1, <1>2 DEF StreamUnsubscribe
  <2>2. \A i \in Jobs \ {j} : subscribers'[i] = subscribers[i]
    BY <2>1 DEF IInv, TypeOK
  <2>3. ASSUME Unsettled(j) PROVE subscribers'[j] = subscribers[j]
    <3>1. \A k \in 1..Len(subs) : subs[k] # c BY <1>2, <1>5, <2>3
    <3>2. Distinct(subs) BY <1>2 DEF IInv, Slices, Distinct
    <3>3. RemoveFirst(subs, c) = subs
      BY <3>1, <3>2, RemoveFirstShape
    <3> QED BY <1>2, <2>1, <3>3 DEF IInv, TypeOK
  <2> QED BY <2>2, <2>3
<1>7. worker'.pc = worker.pc /\ worker'.job = worker.job /\ worker'.pos = worker.pos
  BY StreamsLeaveWorker DEF StreamStep
<1>8. worker'.snap = worker.snap
  <2>1. CASE ~(worker.shared /\ worker.job = j)
    BY <1>1, <2>1 DEF StreamUnsubscribe
  <2>2. CASE worker.shared /\ worker.job = j
    <3>1. worker.pc # "idle" BY <2>2 DEF IInv, Linked, Idle
    <3>2. Unsettled(j) BY <2>2, <3>1, WorkingIs
    <3>3. RemoveFirst(subs, c) = subs
      <4>1. subscribers'[j] = subs BY <1>2, <1>6, <3>2
      <4>2. subscribers'[j] = RemoveFirst(subs, c)
        BY <1>1, <1>2 DEF StreamUnsubscribe, IInv, TypeOK
      <4> QED BY <4>1, <4>2
    <3>4. worker' = [worker EXCEPT !.snap = Shifted(worker.snap, subs)]
      BY <1>1, <1>2, <2>2, <3>3 DEF StreamUnsubscribe
    <3>5. PICK snap \in Seq(Clients) : snap = worker.snap
      BY DEF IInv, TypeOK, WorkerRecord
    <3>6. \A k \in DOMAIN snap : snap[k] = subs[k]
      BY <1>2, <2>2, <3>1, <3>5 DEF QInv, InView
    <3>7. Shifted(snap, subs) = snap
      <4>1. Shifted(snap, subs) = [k \in DOMAIN snap |-> snap[k]]
        BY <3>6 DEF Shifted
      <4> QED BY <4>1
    <3> QED BY <3>4, <3>5, <3>7 DEF IInv, TypeOK, WorkerRecord
  <2> QED BY <2>1, <2>2
<1>9. Staying'
  <2> SUFFICES ASSUME NEW i \in Jobs, Unsettled(i)', NEW k \in DOMAIN subscribers'[i]
               PROVE  stream'[subscribers'[i][k]].pc = "open"
    BY DEF Staying
  <2>1. Unsettled(i) /\ subscribers'[i] = subscribers[i] BY <1>6 DEF Onward
  <2> QED BY <1>4, <1>5, <2>1
<1>10. Waiting'
  <2> SUFFICES ASSUME NEW i \in Jobs, Unstarted(i)', NEW k \in DOMAIN subscribers'[i]
               PROVE  channel'[subscribers'[i][k]].buf = <<>>
    BY DEF Waiting
  <2>1. Unstarted(i) BY DEF Onward
  <2>2. Unsettled(i) BY <2>1 DEF Unstarted, Unsettled, Has, Finished, Terminal
  <2>3. subscribers'[i] = subscribers[i] BY <1>6, <2>2
  <2>4. channel[subscribers[i][k]].buf = <<>> BY <2>1, <2>3 DEF QInv, Waiting
  <2> QED BY <1>4, <1>5, <2>2, <2>3, <2>4
<1>11. worker.pc # "idle" => /\ worker.job \in Jobs /\ Unsettled(worker.job)
                             /\ subscribers'[worker.job] = subscribers[worker.job]
  BY <1>6, WorkingIs
<1>12. InView' BY <1>7, <1>8, <1>11 DEF QInv, InView
<1>13. Roomy'
  <2> SUFFICES ASSUME worker.pc # "idle", NEW k \in DOMAIN subscribers[worker.job] PROVE RoomAt(k)'
    BY <1>7, <1>11 DEF Roomy
  <2>1. RoomAt(k) BY DEF QInv, Roomy
  <2>2. channel'[subscribers[worker.job][k]] = channel[subscribers[worker.job][k]]
    BY <1>4, <1>5, <1>11
  <2> QED BY <1>7, <1>11, <2>1, <2>2 DEF RoomAt
<1>14. AudienceTold'
  <2>1. ASSUME worker.pc # "idle", NEW d \in ToSet(subscribers[worker.job]), Told(d) PROVE Told(d)'
    <3>1. d \in Clients \ {c} BY <1>5, <1>11, <2>1 DEF ToSet
    <3> QED BY <1>4, <2>1, <3>1 DEF Told
  <2>2. CASE worker.pc = "sendOutcome"
    <3>1. /\ audience = ToSet(worker.snap)
          /\ \A k \in DOMAIN worker.snap : k < worker.pos => Told(worker.snap[k])
      BY <2>2 DEF QInv, AudienceTold
    <3>2. \A k \in DOMAIN worker.snap : worker.snap[k] \in ToSet(subscribers[worker.job])
      <4>1. PICK snap \in Seq(Clients) : snap = worker.snap BY DEF IInv, TypeOK, WorkerRecord
      <4>2. PICK wsubs \in Seq(Clients) : wsubs = subscribers[worker.job] BY <2>2, WorkingIs
      <4>3. Len(snap) <= Len(wsubs) /\ \A k \in DOMAIN snap : snap[k] = wsubs[k]
        BY <2>2, <4>1, <4>2 DEF QInv, InView
      <4>4. DOMAIN snap \subseteq DOMAIN wsubs BY <4>1, <4>2, <4>3
      <4> QED BY <4>1, <4>2, <4>3, <4>4 DEF ToSet
    <3> QED BY <1>3, <1>7, <1>8, <2>1, <2>2, <3>1, <3>2 DEF AudienceTold
  <2>3. CASE worker.pc \in {"saveOutcome", "saveItems", "close"}
    <3>1. audience \subseteq ToSet(subscribers[worker.job]) /\ \A d \in audience : Told(d)
      BY <2>3 DEF QInv, AudienceTold
    <3> QED BY <1>3, <1>7, <1>11, <2>1, <2>3, <3>1 DEF AudienceTold
  <2> QED BY <1>7, <2>2, <2>3 DEF AudienceTold
<1> QED BY <1>9, <1>10, <1>12, <1>13, <1>14 DEF QInv

LEMMA NextQ ==
    ASSUME MaxCancels = 0, ChanCap >= 2
    PROVE  IInv /\ HInv /\ QInv /\ [Next]_vars => QInv'
<1> SUFFICES ASSUME IInv, HInv, QInv, [Next]_vars PROVE QInv'
  OBVIOUS
<1>0. CASE Crash BY <1>0, CrashQ
<1>1. ASSUME ~Crash PROVE Onward BY <1>1, JobsGoOn
<1>2. ASSUME ~Crash, UNCHANGED <<feeds, worker, audience, stream>> PROVE QInv'
  BY <1>1, <1>2, ClientMoves
<1>3. ASSUME ~Crash, NEW j \in Jobs, CreateRegister(j) \/ CreatorStep(j) PROVE QInv'
  BY <1>2, <1>3 DEF CreatorStep, CreateRegister, CreateInsert, CreateSend, CreateReply, history
<1>4. CASE ~Crash /\ WorkerStep
  <2>0. Onward BY <1>1, <1>4
  <2>1. CASE WorkerStart BY <2>0, <2>1, StartQ
  <2>2. CASE WorkerReadRunning \/ WorkerReadOutcome BY <2>0, <2>2, ReadQ
  <2>3. CASE WorkerSendRunning BY <2>0, <2>3, SendQ DEF WorkerSendRunning
  <2>4. CASE WorkerSendOutcome BY <2>0, <2>4, SendQ DEF WorkerSendOutcome
  <2>5. CASE WorkerClose BY <2>0, <2>5, CloseQ
  <2>6. CASE WorkerSaveRunning \/ WorkerSaveOutcome \/ WorkerOperate \/ WorkerFinalize \/ WorkerSaveItems
    <3>1. UNCHANGED feeds /\ stream' = stream /\ audience' = audience
      BY <2>6 DEF WorkerSaveRunning, WorkerSaveOutcome, WorkerOperate, WorkerFinalize,
         WorkerSaveItems, SaveJob, history
    <3>2. worker'.job = worker.job /\ worker'.snap = worker.snap
      BY <2>6 DEF WorkerSaveRunning, WorkerSaveOutcome, WorkerOperate, WorkerFinalize,
         WorkerSaveItems, SaveJob, IInv, TypeOK, WorkerRecord
    <3>3. \/ worker.pc = "saveRunning" /\ worker'.pc = "readRunning"
          \/ worker.pc = "operate" /\ worker'.pc = "finalize"
          \/ worker.pc = "finalize" /\ worker'.pc = "readOutcome"
          \/ worker.pc = "saveOutcome" /\ worker'.pc = "saveItems"
          \/ worker.pc = "saveItems" /\ worker'.pc = "close"
      BY <2>6 DEF WorkerSaveRunning, WorkerSaveOutcome, WorkerOperate, WorkerFinalize,
         WorkerSaveItems, SaveJob, IInv, TypeOK, WorkerRecord
    <3> QED BY <2>0, <3>1, <3>2, <3>3, WorkerMoves
  <2> QED BY <1>4, <2>1, <2>2, <2>3, <2>4, <2>5, <2>6 DEF WorkerStep
<1>5. ASSUME ~Crash, NEW c \in Clients, StreamStep(c) \/ StreamCancel(c) PROVE QInv'
  <2>0. Onward BY <1>1, <1>5
  <2>1. CASE StreamRegister(c) BY <2>0, <2>1, RegisterQ
  <2>2. CASE StreamForward(c) BY <2>0, <2>2, ForwardQ
  <2>3. CASE StreamUnsubscribe(c) BY <2>0, <2>3, UnsubscribeQ
  <2>4. CASE StreamFinish(c)
    <3>1. /\ UNCHANGED <<feeds, worker, audience>> /\ channel[c].closed
          /\ stream' = [stream EXCEPT ![c].pc = "leaving"]
      BY <2>4 DEF StreamFinish, history
    <3>2. /\ \A d \in Clients : stream'[d].seen = stream[d].seen
          /\ \A d \in Clients \ {c} : stream'[d].pc = stream[d].pc
      BY <3>1 DEF IInv, TypeOK, StreamRecord
    <3>3. ~Unsettled(stream[c].job)
      BY <3>1 DEF IInv, Slices, Unsettled
    <3>4. ASSUME NEW j \in Jobs, Unsettled(j), NEW k \in DOMAIN subscribers[j]
          PROVE  stream'[subscribers[j][k]].pc = stream[subscribers[j][k]].pc
      <4>1. subscribers[j][k] \in Clients /\ stream[subscribers[j][k]].job = j
        BY SubscriberIs
      <4> QED BY <3>2, <3>3, <3>4, <4>1
    <3> QED BY <2>0, <3>1, <3>2, <3>4, ClientMoves
  <2>5. ~StreamCancel(c) BY DEF StreamCancel, IInv, TypeOK
  <2> QED BY <1>5, <2>1, <2>2, <2>3, <2>4, <2>5 DEF StreamStep
<1>6. ASSUME ~Crash, NEW c \in Clients, NEW i \in Jobs, StreamLookup(c, i) PROVE QInv'
  <2>1. /\ UNCHANGED <<feeds, worker, audience>> /\ stream[c].pc = "away"
        /\ stream' = [stream EXCEPT ![c] = [stream[c] EXCEPT !.pc = "found", !.job = i]]
    BY <1>6 DEF StreamLookup, history
  <2>2. /\ \A d \in Clients : stream'[d].seen = stream[d].seen
        /\ \A d \in Clients \ {c} : stream'[d].pc = stream[d].pc
    BY <2>1 DEF IInv, TypeOK, StreamRecord
  <2>3. ASSUME NEW j \in Jobs, NEW k \in DOMAIN subscribers[j]
        PROVE  stream'[subscribers[j][k]].pc = stream[subscribers[j][k]].pc
    <3>1. subscribers[j][k] \in Clients /\ stream[subscribers[j][k]].pc # "away"
      BY SubscriberIs DEF IInv, Slices
    <3> QED BY <2>1, <2>2, <3>1
  <2> QED BY <1>1, <1>6, <2>1, <2>2, <2>3, ClientMoves
<1>7. CASE ~Crash /\ UNCHANGED vars BY <1>2, <1>7 DEF vars, feeds
<1> QED BY <1>0, <1>3, <1>4, <1>5, <1>6, <1>7 DEF Next

\* When no handler's context ends early and a channel holds both announcements,
\* "running" and the outcome, no client that finalize announces the outcome to is
\* passed over: neither a stream registering while the worker iterates the slice
\* nor a full channel comes between.  (A cancelled stream does:
\* MCJobSkippedStream.cfg.)
THEOREM QuietAudienceHears ==
    ASSUME MaxCancels = 0, ChanCap >= 2
    PROVE  Spec => []AudienceHearsOutcome
<1>1. QInv => AudienceHearsOutcome
  BY DEF QInv, AudienceTold, AudienceHearsOutcome, Told
<1>2. Init => QInv BY QInit
<1>3. IInv /\ HInv /\ QInv /\ [Next]_vars => QInv' BY NextQ
<1>4. QED
  BY <1>1, <1>2, <1>3, Invariance, HeardInvariance, PTL DEF Spec

=============================================================================
