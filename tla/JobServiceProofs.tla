-------------------------- MODULE JobServiceProofs --------------------------
(***************************************************************************)
(* Proofs about JobService, for any jobs, clients and capacities.          *)
(***************************************************************************)
EXTENDS JobService, SequenceTheorems, TLAPS

-----------------------------------------------------------------------------
(* Sequences.                                                              *)

Distinct(s) == \A k, l \in DOMAIN s : s[k] = s[l] => k = l

\* What Unsubscribe leaves of a slice: its other elements, in their order.
LEMMA RemoveFirstShape ==
    ASSUME NEW S, NEW s \in Seq(S), NEW c, Distinct(s)
    PROVE  /\ RemoveFirst(s, c) \in Seq(S)
           /\ \/ /\ RemoveFirst(s, c) = s
                 /\ \A k \in 1..Len(s) : s[k] # c
              \/ \E i \in 1..Len(s) :
                    /\ s[i] = c
                    /\ Len(RemoveFirst(s, c)) = Len(s) - 1
                    /\ \A k \in 1..(Len(s) - 1) :
                          RemoveFirst(s, c)[k] = IF k < i THEN s[k] ELSE s[k + 1]
<1>1. CASE \A k \in 1..Len(s) : s[k] # c
  BY <1>1 DEF RemoveFirst
<1>2. CASE \E k \in 1..Len(s) : s[k] = c
  <2> DEFINE I == {k \in 1..Len(s) : s[k] = c}
             i == SelectInSeq(s, LAMBDA v : v = c)
             a == SubSeq(s, 1, i - 1)
             b == SubSeq(s, i + 1, Len(s))
  <2>1. i \in I
    <3>1. i = Min(I)
      BY <1>2 DEF SelectInSeq
    <3>2. PICK n \in I : TRUE
      BY <1>2
    <3>3. \A m \in I : n <= m
      BY <3>2 DEF Distinct
    <3>4. QED
      BY <3>1, <3>2, <3>3 DEF Min
  <2> HIDE DEF i
  <2>2. /\ a \in Seq(S) /\ Len(a) = i - 1
        /\ \A k \in 1..(i - 1) : a[k] = s[k]
    BY <2>1, SubSeqProperties
  <2>3. /\ b \in Seq(S) /\ Len(b) = Len(s) - i
        /\ \A k \in 1..(Len(s) - i) : b[k] = s[i + k]
    <3>1. /\ b \in Seq(S) /\ Len(b) = IF i + 1 <= Len(s) THEN Len(s) - (i + 1) + 1 ELSE 0
          /\ \A k \in 1..(Len(s) - (i + 1) + 1) : b[k] = s[(i + 1) + k - 1]
      <4>1. \A k \in (i + 1)..Len(s) : s[k] \in S
        BY <2>1
      <4>2. i + 1 \in Int /\ Len(s) \in Int
        BY <2>1
      <4>3. QED
        BY <4>1, <4>2, SubSeqProperties
    <3>2. QED
      BY <3>1, <2>1
  <2>4. RemoveFirst(s, c) = a \o b
    BY <1>2 DEF RemoveFirst, RemoveAt, i
  <2> HIDE DEF a, b
  <2>5. /\ a \o b \in Seq(S) /\ Len(a \o b) = Len(s) - 1
        /\ \A k \in 1..(Len(s) - 1) : (a \o b)[k] = IF k < i THEN s[k] ELSE s[k + 1]
    <3>1. /\ a \o b \in Seq(S) /\ Len(a \o b) = Len(a) + Len(b)
          /\ \A k \in 1..(Len(a) + Len(b)) :
                (a \o b)[k] = IF k <= Len(a) THEN a[k] ELSE b[k - Len(a)]
      BY <2>2, <2>3, ConcatProperties
    <3>2. ASSUME NEW k \in 1..(Len(s) - 1)
          PROVE  (a \o b)[k] = IF k < i THEN s[k] ELSE s[k + 1]
      BY <3>1, <2>1, <2>2, <2>3
    <3>3. QED
      BY <3>1, <3>2, <2>1, <2>2, <2>3
  <2>6. QED
    BY <2>1, <2>4, <2>5
<1>3. QED
  BY <1>1, <1>2

LEMMA AppendRange ==
    ASSUME NEW S, NEW s \in Seq(S), NEW e \in S
    PROVE  /\ Append(s, e) \in Seq(S)
           /\ Len(Append(s, e)) = Len(s) + 1
           /\ ToSet(Append(s, e)) = ToSet(s) \cup {e}
           /\ Distinct(s) /\ e \notin ToSet(s) => Distinct(Append(s, e))
  BY AppendProperties DEF ToSet, Distinct

LEMMA TailRange ==
    ASSUME NEW S, NEW s \in Seq(S), s # <<>>
    PROVE  /\ Tail(s) \in Seq(S)
           /\ Len(Tail(s)) = Len(s) - 1
           /\ Head(s) \in S
           /\ Head(s) \in ToSet(s)
           /\ ToSet(Tail(s)) \subseteq ToSet(s)
           /\ Distinct(s) => /\ Distinct(Tail(s))
                             /\ ToSet(Tail(s)) = ToSet(s) \ {Head(s)}
<1>1. /\ Head(s) \in S /\ Tail(s) \in Seq(S) /\ Len(Tail(s)) = Len(s) - 1
      /\ \A i \in 1..Len(Tail(s)) : Tail(s)[i] = s[i + 1]
  BY HeadTailProperties
<1>2. Head(s) = s[1] /\ Len(s) \in Nat \ {0}
  OBVIOUS
<1>3. Head(s) \in ToSet(s) /\ ToSet(Tail(s)) \subseteq ToSet(s)
  BY <1>1, <1>2 DEF ToSet
<1>4. ASSUME Distinct(s)
      PROVE  Distinct(Tail(s)) /\ ToSet(Tail(s)) = ToSet(s) \ {Head(s)}
  <2>1. Distinct(Tail(s))
    BY <1>1, <1>2, <1>4 DEF Distinct
  <2>2. Head(s) \notin ToSet(Tail(s))
    BY <1>1, <1>2, <1>4 DEF Distinct, ToSet
  <2>3. ASSUME NEW k \in 1..Len(s), s[k] # Head(s) PROVE s[k] \in ToSet(Tail(s))
    <3>1. k - 1 \in 1..Len(Tail(s)) /\ Tail(s)[k - 1] = s[k]
      BY <1>1, <1>2, <2>3
    <3>2. DOMAIN Tail(s) = 1..Len(Tail(s))
      BY <1>1
    <3>3. QED
      BY <3>1, <3>2 DEF ToSet
  <2>4. QED
    BY <1>3, <2>1, <2>2, <2>3 DEF ToSet
<1>5. QED
  BY <1>1, <1>3, <1>4

-----------------------------------------------------------------------------
(* Initial states.                                                         *)

LEMMA InitInv == Init => IInv
<1> SUFFICES ASSUME Init PROVE IInv
  OBVIOUS
<1>1. TypeOK
  BY BoundsAssumption DEF Init, TypeOK, StreamRecord, WorkerRecord, WorkerPc, Idle, Fresh, Away
<1>2. OnePlace
  BY DEF Init, OnePlace, Has, Working, Idle, ToSet
<1>3. Linked
  BY BoundsAssumption DEF Init, Linked, Has, Idle, Away, Sending, InFinalize
<1>4. Slices
  BY DEF Init, Slices, Idle, Fresh, Away
<1>5. QED
  BY <1>1, <1>2, <1>3, <1>4 DEF IInv

-----------------------------------------------------------------------------
(* CreateOperationJob.                                                     *)

LEMMA NewJobType == \A n \in 1..MaxItems : NewJob(n) \in Job /\ NewJob(n) # NoJob
  BY BoundsAssumption, NamesAssumption DEF NewJob, Job, Statuses

LEMMA CreateRegisterInv ==
    ASSUME IInv, NEW j \in Jobs, CreateRegister(j)
    PROVE  IInv'
<1> PICK n \in 1..MaxItems : jobs' = [jobs EXCEPT ![j] = NewJob(n)]
  BY DEF CreateRegister
<1> USE DEF IInv
<1>1. jobs[j] = NoJob /\ j \notin requests /\ j \notin ToSet(queue) /\ ~Working(j)
  BY DEF OnePlace, Linked, CreateRegister, Has, Finished, Terminal, Working, MuFree, TypeOK
<1>2. TypeOK'
  BY NewJobType DEF CreateRegister, TypeOK, feeds, bounds, history
<1>3. OnePlace'
  BY <1>1, NewJobType DEF CreateRegister, OnePlace, TypeOK, Has, Working, NewJob
<1>4. Linked'
  BY <1>1, NewJobType DEF CreateRegister, Linked, TypeOK, Has, Finished, Sending, feeds, NewJob
<1>5. Slices'
  BY <1>1 DEF CreateRegister, Slices, TypeOK, Finished, Working, feeds
<1>6. QED
  BY <1>2, <1>3, <1>4, <1>5

LEMMA CreateInsertInv ==
    ASSUME IInv, NEW j \in Jobs, CreateInsert(j)
    PROVE  IInv'
<1> USE DEF IInv
<1>1. jobs[j] \in Job
  BY NamesAssumption DEF CreateInsert, OnePlace, TypeOK, Has
<1>2. Inserted(jobs[j]) \in Row
  BY <1>1, BoundsAssumption DEF Inserted, Job, Row
<1>3. TypeOK'
  BY <1>2 DEF CreateInsert, TypeOK, memory, feeds, bounds
<1>4. OnePlace'
  BY DEF CreateInsert, OnePlace, TypeOK, Has, Working, memory
<1>5. Linked' /\ Slices'
  BY DEF CreateInsert, Linked, Slices, TypeOK, Has, Finished, Working, Sending, memory, feeds
<1>6. QED
  BY <1>3, <1>4, <1>5

LEMMA CreateSendInv ==
    ASSUME IInv, NEW j \in Jobs, CreateSend(j)
    PROVE  IInv'
<1> USE DEF IInv
<1>1. /\ queue' \in Seq(Jobs)
      /\ Len(queue') = Len(queue) + 1
      /\ ToSet(queue') = ToSet(queue) \cup {j}
  BY AppendRange DEF CreateSend, TypeOK
<1>2. Distinct(queue')
  <2>1. j \notin ToSet(queue) /\ Distinct(queue)
    BY DEF CreateSend, OnePlace, Distinct
  <2>2. QED
    BY <2>1, AppendRange DEF CreateSend, TypeOK
<1>3. TypeOK'
  BY <1>1, BoundsAssumption DEF CreateSend, TypeOK, feeds, bounds, history
<1>4. OnePlace'
  BY <1>1, <1>2 DEF CreateSend, OnePlace, TypeOK, Has, Working, Distinct
<1>5. Linked' /\ Slices'
  BY DEF CreateSend, Linked, Slices, TypeOK, Has, Finished, Working, Sending, feeds
<1>6. QED
  BY <1>3, <1>4, <1>5

LEMMA CreateReplyInv ==
    ASSUME IInv, NEW j \in Jobs, CreateReply(j)
    PROVE  IInv'
<1> USE DEF IInv
<1>1. TypeOK'
  BY DEF CreateReply, TypeOK, memory, feeds, bounds, history
<1>2. OnePlace'
  BY DEF CreateReply, OnePlace, TypeOK, Has, Working, memory
<1>3. Linked' /\ Slices'
  BY DEF CreateReply, Linked, Slices, TypeOK, Has, Finished, Working, Sending, memory, feeds
<1>4. QED
  BY <1>1, <1>2, <1>3

-----------------------------------------------------------------------------
(* The worker.                                                             *)

LEMMA WorkerStartInv ==
    ASSUME IInv, WorkerStart
    PROVE  IInv'
<1> USE DEF IInv
<1> DEFINE h == Head(queue)
<1>1. /\ h \in Jobs /\ h \in ToSet(queue)
      /\ queue' \in Seq(Jobs) /\ Len(queue') = Len(queue) - 1
      /\ ToSet(queue') = ToSet(queue) \ {h}
      /\ Distinct(queue')
  <2>1. Distinct(queue)
    BY DEF OnePlace, Distinct
  <2>2. QED
    BY <2>1, TailRange DEF WorkerStart, Dequeued, TypeOK
<1>2. Has(h, "queued") /\ jobs[h] \in Job
  BY <1>1, NamesAssumption DEF OnePlace, Has, TypeOK
<1>3. /\ jobs' = [jobs EXCEPT ![h].status = "running"]
      /\ worker' = [Idle EXCEPT !.pc = "saveRunning", !.job = h]
  BY <1>2 DEF WorkerStart, Has
<1>4. jobs'[h] \in Job /\ jobs'[h] # NoJob /\ jobs'[h].status = "running"
  BY <1>1, <1>2, <1>3, NamesAssumption DEF Job, Statuses, TypeOK
<1> HIDE DEF h
<1>5. TypeOK'
  <2>1. jobs' \in [Jobs -> Job \cup {NoJob}]
    BY <1>1, <1>3, <1>4 DEF TypeOK
  <2>2. worker' \in WorkerRecord
    <3>1. worker' = [pc |-> "saveRunning", job |-> h, snap |-> <<>>, shared |-> FALSE,
                     pos |-> 0, success |-> 0, failed |-> 0]
      BY <1>3 DEF Idle
    <3>2. <<>> \in Seq(Clients) /\ 0 \in 0..MaxItems
      BY BoundsAssumption
    <3>3. QED
      BY <1>1, <3>1, <3>2 DEF WorkerRecord, WorkerPc
  <2>3. queue' \in Seq(Jobs) /\ Len(queue') <= QueueCap
    BY <1>1, BoundsAssumption DEF TypeOK
  <2>4. QED
    BY <2>1, <2>2, <2>3 DEF TypeOK, WorkerStart, feeds, bounds, history
<1>6. OnePlace'
  BY <1>1, <1>2, <1>3, <1>4
     DEF WorkerStart, OnePlace, TypeOK, Has, Working, Idle, InFinalize, Distinct
<1>7. Linked'
  BY <1>1, <1>2, <1>3, <1>4, BoundsAssumption
     DEF WorkerStart, Linked, TypeOK, Has, Working, Idle, InFinalize, Finished, Sending
<1>8. Slices'
  <2>1. worker'.snap = <<>> /\ worker'.job = h
    BY <1>3 DEF Idle
  <2>2. ASSUME NEW c \in Clients, channel[c].closed
        PROVE  stream[c].job # h /\ Finished(stream[c].job)'
    <3>1. Finished(stream[c].job) /\ stream[c].job \in Jobs
      BY <2>2 DEF Slices, Linked
    <3>2. stream[c].job # h
      BY <3>1, <1>2 DEF Finished, Has, Terminal
    <3>3. jobs'[stream[c].job] = jobs[stream[c].job]
      BY <3>1, <3>2, <1>3 DEF TypeOK
    <3>4. stream' = stream
      BY DEF WorkerStart
    <3>5. QED
      BY <3>1, <3>2, <3>3, <3>4 DEF Finished
  <2>3. QED
    BY <2>1, <2>2 DEF WorkerStart, Slices, Working, feeds
<1>9. QED
  BY <1>5, <1>6, <1>7, <1>8

LEMMA SaveJobInv ==
    ASSUME IInv, NEW from, NEW to, SaveJob(from, to),
           \/ from = "saveRunning" /\ to = "readRunning"
           \/ from = "saveOutcome" /\ to = "saveItems"
    PROVE  IInv'
<1> USE DEF IInv
<1>1. worker' = [worker EXCEPT !.pc = to]
  BY DEF SaveJob
<1>2. worker.job \in Jobs /\ jobs[worker.job] \in Job
  BY NamesAssumption DEF SaveJob, Linked, TypeOK
<1>3. TypeOK'
  <2>1. rows[worker.job] # NoRow => Updated(rows[worker.job], jobs[worker.job]) \in Row
    <3>1. rows[worker.job] # NoRow => rows[worker.job] \in Row
      BY <1>2 DEF TypeOK
    <3>2. QED
      BY <1>2, <3>1 DEF Updated, Row, Job
  <2>2. rows' \in [Jobs -> Row \cup {NoRow}]
    BY <2>1, <1>2 DEF SaveJob, TypeOK
  <2>3. worker' \in WorkerRecord
    BY <1>1 DEF TypeOK, WorkerRecord, WorkerPc
  <2>4. QED
    BY <1>2, <2>2, <2>3 DEF SaveJob, TypeOK, memory, feeds, bounds
<1>4. OnePlace'
  BY <1>1 DEF SaveJob, OnePlace, TypeOK, WorkerRecord, Has, Working, InFinalize, memory
<1>5. Linked' /\ Slices'
  BY <1>1 DEF SaveJob, Linked, Slices, TypeOK, WorkerRecord, Has, Finished, Working, Sending,
              InFinalize, memory, feeds
<1>6. QED
  BY <1>3, <1>4, <1>5

\* Either use of notifySubscribers: the pc it is called at and those it leads to.
Announcement(from, to, after) ==
    \/ from = "readRunning" /\ to = "sendRunning" /\ after = "operate"
    \/ from = "readOutcome" /\ to = "sendOutcome" /\ after = "saveOutcome"

LEMMA ReadSubscribersInv ==
    ASSUME IInv, NEW from, NEW to, NEW after, Announcement(from, to, after),
           ReadSubscribers(from, to, after), audience' \subseteq Clients
    PROVE  IInv'
<1> USE DEF IInv
<1> DEFINE subs == subscribers[worker.job]
           pc == IF subs = <<>> THEN after ELSE to
<1>1. worker.job \in Jobs /\ subs \in Seq(Clients) /\ worker.pc = from
  BY DEF ReadSubscribers, Announcement, Linked, TypeOK
<1>2. worker' = [worker EXCEPT !.pc = pc, !.snap = subs,
                               !.shared = (subs # <<>>), !.pos = 1]
  BY DEF ReadSubscribers
<1> HIDE DEF subs
<1>3. TypeOK'
  <2>1. worker' \in WorkerRecord
    BY <1>1, <1>2 DEF TypeOK, WorkerRecord, WorkerPc, Announcement
  <2>2. QED
    BY <2>1 DEF ReadSubscribers, TypeOK, memory, feeds, bounds
<1>4. OnePlace'
  BY <1>1, <1>2 DEF ReadSubscribers, Announcement, OnePlace, TypeOK, WorkerRecord, Has,
                    Working, InFinalize, memory
<1>5. Linked'
  <2>1. subs # <<>> => 1 \in DOMAIN subs
    BY <1>1
  <2>2. QED
    BY <1>1, <1>2, <2>1 DEF ReadSubscribers, Announcement, Linked, TypeOK, WorkerRecord, Has,
       Finished, Sending, InFinalize, memory
<1>6. Slices'
  BY <1>1, <1>2 DEF ReadSubscribers, Announcement, Slices, TypeOK, WorkerRecord, Finished,
                    Working, memory, feeds, subs
<1>7. QED
  BY <1>3, <1>4, <1>5, <1>6

LEMMA SendNextInv ==
    ASSUME IInv, NEW from, NEW after, SendNext(from, after),
           \/ from = "sendRunning" /\ after = "operate"
           \/ from = "sendOutcome" /\ after = "saveOutcome"
    PROVE  IInv'
<1> USE DEF IInv
<1>1. /\ worker.pc = from /\ worker.pos \in DOMAIN worker.snap
      /\ worker.job \in Jobs /\ jobs[worker.job] \in Job
  BY NamesAssumption DEF SendNext, Sending, Linked, TypeOK
<1>2. \/ worker' = [worker EXCEPT !.pos = worker.pos + 1]
         /\ worker.pos + 1 \in DOMAIN worker.snap
      \/ worker' = [worker EXCEPT !.pc = after, !.snap = <<>>, !.shared = FALSE, !.pos = 0]
  BY <1>1 DEF SendNext, TypeOK, WorkerRecord
<1>3. /\ channel' \in [Clients -> [buf : Seq(Statuses), closed : BOOLEAN]]
      /\ \A c \in Clients : channel'[c].closed = channel[c].closed
  <2>1. worker.snap[worker.pos] \in Clients
    BY <1>1 DEF TypeOK, WorkerRecord
  <2>2. jobs[worker.job].status \in Statuses
    BY <1>1 DEF Job
  <2>3. \A c \in Clients : Append(channel[c].buf, jobs[worker.job].status) \in Seq(Statuses)
    BY <2>2 DEF TypeOK
  <2> DEFINE d == worker.snap[worker.pos]
             u == jobs[worker.job].status
  <2>4. channel' = channel \/ channel' = [channel EXCEPT ![d].buf = Append(channel[d].buf, u)]
    BY DEF SendNext, SendTo
  <2> HIDE DEF d, u
  <2>5. CASE channel' = channel
    BY <2>5 DEF TypeOK
  <2>6. CASE channel' = [channel EXCEPT ![d].buf = Append(channel[d].buf, u)]
    <3>1. d \in Clients /\ Append(channel[d].buf, u) \in Seq(Statuses)
      BY <2>1, <2>3 DEF d, u
    <3>2. channel \in [Clients -> [buf : Seq(Statuses), closed : BOOLEAN]]
      BY DEF TypeOK
    <3> HIDE DEF IInv
    <3>3. QED
      BY <2>6, <3>1, <3>2
  <2>7. QED
    BY <2>4, <2>5, <2>6
<1>4. TypeOK'
  <2>1. worker' \in WorkerRecord
    <3>1. worker.pos + 1 \in Nat /\ <<>> \in Seq(Clients) /\ 0 \in Nat
      BY DEF TypeOK, WorkerRecord
    <3>2. QED
      BY <1>1, <1>2, <3>1 DEF TypeOK, WorkerRecord, WorkerPc
  <2>2. QED
    BY <1>3, <2>1 DEF SendNext, TypeOK, memory, history, bounds
<1>5. OnePlace'
  BY <1>1, <1>2 DEF SendNext, OnePlace, TypeOK, WorkerRecord, Has, Working, InFinalize, memory
<1>6. Linked'
  BY <1>1, <1>2 DEF SendNext, Linked, TypeOK, WorkerRecord, Has, Finished, Sending, InFinalize,
                    memory
<1>7. Slices'
  <2>1. \A k \in DOMAIN worker'.snap :
           k \in DOMAIN worker.snap /\ worker'.snap[k] = worker.snap[k]
    <3>1. worker'.snap = worker.snap \/ worker'.snap = <<>>
      BY <1>2 DEF TypeOK, WorkerRecord
    <3>2. DOMAIN <<>> = {}
      OBVIOUS
    <3>3. QED
      BY <3>1, <3>2
  <2>2. worker'.job = worker.job /\ (worker'.pc # "idle" <=> worker.pc # "idle")
    BY <1>1, <1>2 DEF TypeOK, WorkerRecord
  <2>3. QED
    BY <1>3, <2>1, <2>2 DEF SendNext, Slices, Finished, Working, memory
<1>8. QED
  BY <1>4, <1>5, <1>6, <1>7

LEMMA WorkerOperateInv ==
    ASSUME IInv, WorkerOperate
    PROVE  IInv'
<1> USE DEF IInv
<1> PICK r \in Results(worker.job) :
        worker' = [worker EXCEPT !.pc = "finalize", !.success = r[1], !.failed = r[2]]
  BY DEF WorkerOperate
<1>1. worker.job \in Jobs /\ jobs[worker.job] \in Job
  BY NamesAssumption DEF WorkerOperate, Linked, TypeOK
<1>2. /\ r[1] \in 0..MaxItems /\ r[2] \in 0..MaxItems
      /\ r[1] + r[2] \in 0..MaxItems
  <2>1. jobs[worker.job].total \in 1..MaxItems
    BY <1>1 DEF Job
  <2>2. CASE r = <<0, 1>>
    BY <2>2, BoundsAssumption
  <2>3. CASE \E n \in 0..jobs[worker.job].total : r = <<n, jobs[worker.job].total - n>>
    BY <2>1, <2>3, BoundsAssumption
  <2>4. QED
    BY <2>2, <2>3 DEF Results
<1>3. TypeOK'
  BY <1>2 DEF WorkerOperate, TypeOK, WorkerRecord, WorkerPc, memory, feeds, bounds, history
<1>4. OnePlace'
  BY DEF WorkerOperate, OnePlace, TypeOK, WorkerRecord, Has, Working, InFinalize, memory
<1>5. Linked'
  BY <1>2 DEF WorkerOperate, Linked, TypeOK, WorkerRecord, Has, Finished, Sending,
              InFinalize, memory
<1>6. Slices'
  BY DEF WorkerOperate, Slices, TypeOK, WorkerRecord, Finished, Working, memory, feeds
<1>7. QED
  BY <1>3, <1>4, <1>5, <1>6

LEMMA WorkerFinalizeInv ==
    ASSUME IInv, WorkerFinalize
    PROVE  IInv'
<1> USE DEF IInv
<1> DEFINE w == worker.job
<1>1. w \in Jobs /\ jobs[w] \in Job /\ Has(w, "running") /\ Working(w)
  BY NamesAssumption DEF WorkerFinalize, Linked, TypeOK, OnePlace, Working, InFinalize
<1>2. /\ jobs'[w] \in Job /\ jobs'[w] # NoJob /\ jobs'[w].status \in Terminal
      /\ \A k \in Jobs : k # w => jobs'[k] = jobs[k]
      /\ jobs' \in [Jobs -> Job \cup {NoJob}]
  <2>1. worker.success + worker.failed \in 0..MaxItems
    BY DEF Linked
  <2>2. Outcome(worker.success, worker.failed) \in Terminal
    BY DEF Outcome, Terminal
  <2>3. [status |-> Outcome(worker.success, worker.failed),
         total |-> jobs[w].total, processed |-> worker.success + worker.failed,
         success |-> worker.success, failed |-> worker.failed] \in Job
    BY <1>1, <2>1, <2>2 DEF Job, Statuses, TypeOK, WorkerRecord
  <2>4. QED
    BY <1>1, <2>2, <2>3, NamesAssumption DEF WorkerFinalize, TypeOK
<1>3. worker' = [worker EXCEPT !.pc = "readOutcome"] /\ worker.pc = "finalize"
  BY DEF WorkerFinalize
<1>4. TypeOK'
  BY <1>2, <1>3 DEF WorkerFinalize, TypeOK, WorkerRecord, WorkerPc, feeds, bounds, history
<1>5. OnePlace'
  BY <1>1, <1>2, <1>3 DEF WorkerFinalize, OnePlace, TypeOK, WorkerRecord, Has, Working,
                          InFinalize, Terminal
<1>6. Linked'
  BY <1>1, <1>2, <1>3 DEF WorkerFinalize, Linked, TypeOK, WorkerRecord, Has, Finished, Sending,
                          InFinalize
<1>7. Slices'
  BY <1>1, <1>2, <1>3 DEF WorkerFinalize, Slices, Linked, TypeOK, WorkerRecord, Finished,
                          Working, feeds
<1>8. QED
  BY <1>4, <1>5, <1>6, <1>7

LEMMA WorkerSaveItemsInv ==
    ASSUME IInv, WorkerSaveItems
    PROVE  IInv'
<1> USE DEF IInv
<1>1. /\ worker' = [worker EXCEPT !.pc = "close"]
      /\ worker.job \in Jobs /\ jobs[worker.job] \in Job
  BY NamesAssumption DEF WorkerSaveItems, Linked, TypeOK
<1>2. TypeOK'
  <2>1. rows[worker.job] # NoRow =>
           [rows[worker.job] EXCEPT !.items = jobs[worker.job].processed] \in Row
    <3>1. rows[worker.job] # NoRow => rows[worker.job] \in Row
      BY <1>1 DEF TypeOK
    <3>2. QED
      BY <1>1, <3>1 DEF Row, Job
  <2>2. rows' \in [Jobs -> Row \cup {NoRow}]
    BY <1>1, <2>1 DEF WorkerSaveItems, TypeOK
  <2>3. QED
    BY <1>1, <2>2 DEF WorkerSaveItems, TypeOK, WorkerRecord, WorkerPc, memory, feeds, bounds
<1>3. OnePlace'
  BY <1>1 DEF WorkerSaveItems, OnePlace, TypeOK, WorkerRecord, Has, Working, InFinalize, memory
<1>4. Linked' /\ Slices'
  BY <1>1 DEF WorkerSaveItems, Linked, Slices, TypeOK, WorkerRecord, Has, Finished, Working,
              Sending, InFinalize, memory, feeds
<1>5. QED
  BY <1>2, <1>3, <1>4

LEMMA WorkerCloseInv ==
    ASSUME IInv, WorkerClose
    PROVE  IInv'
<1> USE DEF IInv
<1> DEFINE w == worker.job
<1>1. w \in Jobs /\ Finished(w) /\ worker.pc = "close" /\ worker' = Idle
  BY DEF WorkerClose, Linked, InFinalize
<1>2. /\ channel' \in [Clients -> [buf : Seq(Statuses), closed : BOOLEAN]]
      /\ \A c \in Clients : channel'[c].closed =>
            \/ channel[c].closed
            \/ \E k \in DOMAIN subscribers[w] : subscribers[w][k] = c
  BY DEF WorkerClose, Closed, TypeOK, ToSet
<1>3. TypeOK'
  <2>1. worker' \in WorkerRecord
    BY <1>1, BoundsAssumption DEF WorkerRecord, WorkerPc, Idle
  <2>2. <<>> \in Seq(Clients)
    OBVIOUS
  <2>3. QED
    BY <1>2, <2>1, <2>2 DEF WorkerClose, TypeOK, memory, bounds
<1>4. OnePlace'
  BY <1>1 DEF WorkerClose, OnePlace, Has, Working, Finished, Terminal, Idle, InFinalize, memory
<1>5. Linked'
  BY <1>1, BoundsAssumption DEF WorkerClose, Linked, Idle, Has, Finished, Sending, InFinalize,
                                memory
<1>6. Slices'
  <2>1. \A j \in Jobs : subscribers'[j] = IF j = w THEN <<>> ELSE subscribers[j]
    BY <1>1 DEF WorkerClose, TypeOK
  <2>2. ASSUME NEW c \in Clients, channel'[c].closed
        PROVE  stream[c].pc \in {"open", "leaving", "ended"} /\ Finished(stream[c].job)
    BY <2>2, <1>1, <1>2 DEF Slices
  <2>3. DOMAIN <<>> = {}
    OBVIOUS
  <2>4. QED
    BY <1>1, <2>1, <2>2, <2>3 DEF WorkerClose, Slices, Idle, Working, Finished, memory
<1>7. QED
  BY <1>3, <1>4, <1>5, <1>6

LEMMA WorkerStepInv ==
    ASSUME IInv, WorkerStep
    PROVE  IInv'
<1>1. CASE WorkerSaveRunning
  BY <1>1, SaveJobInv DEF WorkerSaveRunning
<1>2. CASE WorkerReadRunning
  BY <1>2, ReadSubscribersInv DEF WorkerReadRunning, Announcement, IInv, TypeOK
<1>3. CASE WorkerSendRunning
  BY <1>3, SendNextInv DEF WorkerSendRunning
<1>4. CASE WorkerReadOutcome
  <2>1. audience' \subseteq Clients
    BY <1>4 DEF WorkerReadOutcome, ReadSubscribers, IInv, TypeOK, Linked, ToSet
  <2>2. QED
    BY <1>4, <2>1, ReadSubscribersInv DEF WorkerReadOutcome, Announcement
<1>5. CASE WorkerSendOutcome
  BY <1>5, SendNextInv DEF WorkerSendOutcome
<1>6. CASE WorkerSaveOutcome
  BY <1>6, SaveJobInv DEF WorkerSaveOutcome
<1>7. QED
  BY <1>1, <1>2, <1>3, <1>4, <1>5, <1>6, WorkerStartInv, WorkerOperateInv, WorkerFinalizeInv,
     WorkerSaveItemsInv, WorkerCloseInv DEF WorkerStep

-----------------------------------------------------------------------------
(* Streams.                                                                *)

LEMMA StreamLookupInv ==
    ASSUME IInv, NEW c \in Clients, NEW j \in Jobs, StreamLookup(c, j)
    PROVE  IInv'
<1> USE DEF IInv
<1>1. TypeOK'
  BY DEF StreamLookup, TypeOK, StreamRecord, memory, feeds, bounds, history
<1>2. OnePlace'
  BY DEF StreamLookup, OnePlace, TypeOK, Has, Working, memory
<1>3. Linked' /\ Slices'
  BY DEF StreamLookup, Linked, Slices, TypeOK, Has, Finished, Working, Sending, memory, feeds
<1>4. QED
  BY <1>1, <1>2, <1>3

LEMMA StreamRegisterInv ==
    ASSUME IInv, NEW c \in Clients, StreamRegister(c)
    PROVE  IInv'
<1> USE DEF IInv
<1> DEFINE j == stream[c].job
           subs == subscribers[j]
<1>1. /\ j \in Jobs /\ stream[c].pc = "found" /\ subs \in Seq(Clients)
      /\ subscribers' = [subscribers EXCEPT ![j] = Append(subs, c)]
      /\ stream' = [stream EXCEPT ![c].pc = "open"]
  BY DEF StreamRegister, Linked, TypeOK
<1>2. /\ Append(subs, c) \in Seq(Clients)
      /\ ToSet(Append(subs, c)) = ToSet(subs) \cup {c}
      /\ Distinct(Append(subs, c))
  <2>1. c \notin ToSet(subs) /\ Distinct(subs)
    BY <1>1 DEF Slices, ToSet, Distinct
  <2>2. QED
    BY <1>1, <2>1, AppendRange
\* the worker's view of the slice: untouched, moved apart, or one cell written
<1>3. \/ worker' = worker
      \/ worker.shared /\ worker' = [worker EXCEPT !.shared = FALSE]
      \/ /\ worker.shared /\ worker.job = j
         /\ \E at \in DOMAIN worker.snap :
               worker' = [worker EXCEPT !.snap = [worker.snap EXCEPT ![at] = c]]
  <2>1. Len(subs) + 1 >= 1 /\ Len(subs) + 1 \in Nat
    BY <1>1
  <2>2. DOMAIN worker.snap = 1..Len(worker.snap) /\ Len(worker.snap) \in Nat
    BY DEF TypeOK, WorkerRecord
  <2>3. Len(subs) + 1 <= Len(worker.snap) => Len(subs) + 1 \in DOMAIN worker.snap
    BY <2>1, <2>2
  <2>4. QED
    BY <2>3 DEF StreamRegister
<1> DEFINE Kept ==
      /\ worker'.snap \in Seq(Clients)
      /\ DOMAIN worker'.snap = DOMAIN worker.snap
      /\ \A k \in DOMAIN worker.snap :
            \/ worker'.snap[k] = worker.snap[k]
            \/ worker'.snap[k] = c /\ worker.job = j
      /\ worker'.pc = worker.pc /\ worker'.job = worker.job /\ worker'.pos = worker.pos
      /\ worker'.success = worker.success /\ worker'.failed = worker.failed
<1>4. Kept
  <2>1. worker \in WorkerRecord
    BY DEF TypeOK
  <2>2. CASE worker' = worker \/ worker' = [worker EXCEPT !.shared = FALSE]
    BY <2>1, <2>2 DEF WorkerRecord
  <2>3. ASSUME NEW at \in DOMAIN worker.snap, worker.job = j,
               worker' = [worker EXCEPT !.snap = [worker.snap EXCEPT ![at] = c]]
        PROVE  Kept
    <3>1. [worker.snap EXCEPT ![at] = c] \in Seq(Clients)
      BY <2>1, ExceptSeq DEF WorkerRecord
    <3>2. QED
      BY <2>1, <2>3, <3>1 DEF WorkerRecord
  <2> HIDE DEF Kept
  <2>4. QED
    BY <1>3, <2>2, <2>3
<1>5. worker' \in WorkerRecord /\ (worker.pc = "idle" => worker' = worker)
  <2>1. worker.pc = "idle" => ~worker.shared
    BY DEF Linked, Idle
  <2>2. QED
    BY <1>3, <1>4, <2>1 DEF TypeOK, WorkerRecord
<1> HIDE DEF j, subs
<1>6. TypeOK'
  <2>1. capacity' \in [Jobs -> Nat]
    <3>1. (IF capacity[j] = 0 THEN 1 ELSE 2 * capacity[j]) \in Nat
      BY <1>1 DEF TypeOK
    <3>2. QED
      BY <3>1 DEF StreamRegister, TypeOK, j
  <2>2. stream' \in [Clients -> StreamRecord]
    BY <1>1 DEF TypeOK, StreamRecord
  <2>3. subscribers' \in [Jobs -> Seq(Clients)]
    BY <1>1, <1>2 DEF TypeOK
  <2>4. QED
    BY <1>5, <2>1, <2>2, <2>3 DEF StreamRegister, TypeOK, memory, history, bounds
<1>7. OnePlace'
  BY <1>4 DEF StreamRegister, OnePlace, Has, Working, memory
<1>8. Linked'
  <2>1. \A d \in Clients : stream'[d].job = stream[d].job
    BY <1>1 DEF TypeOK
  <2>2. \A d \in Clients : stream'[d].pc # "away" => stream[d].pc # "away"
    BY <1>1 DEF TypeOK
  <2>3. jobs' = jobs /\ creator' = creator
    BY DEF StreamRegister, memory
  <2>4. QED
    BY <1>4, <1>5, <2>1, <2>2, <2>3 DEF Linked, Has, Finished, Sending, Idle
<1>9. Slices'
  <2>1. \A d \in Clients : stream'[d].job = stream[d].job
           /\ stream'[d].pc = IF d = c THEN "open" ELSE stream[d].pc
    BY <1>1 DEF TypeOK
  <2>2. ASSUME NEW i \in Jobs
        PROVE  /\ \A k \in DOMAIN subscribers'[i] :
                     LET d == subscribers'[i][k] IN
                     stream'[d].job = i /\ stream'[d].pc \in {"open", "leaving"}
               /\ Distinct(subscribers'[i])
    <3>1. CASE i = j
      <4>1. subscribers'[i] = Append(subs, c)
        BY <1>1, <3>1 DEF TypeOK
      <4>2. ASSUME NEW d \in ToSet(Append(subs, c))
            PROVE  stream'[d].job = i /\ stream'[d].pc \in {"open", "leaving"}
        BY <1>1, <1>2, <2>1, <3>1 DEF Slices, ToSet, TypeOK, j, subs
      <4>3. QED
        BY <1>2, <4>1, <4>2 DEF ToSet
    <3>2. CASE i # j
      BY <1>1, <2>1, <3>2 DEF Slices, Distinct, TypeOK
    <3>3. QED
      BY <3>1, <3>2
  <2>3. ASSUME NEW k \in DOMAIN worker'.snap
        PROVE  LET d == worker'.snap[k] IN
               stream'[d].job = worker'.job /\ stream'[d].pc \in {"open", "leaving", "ended"}
    <3>1. k \in DOMAIN worker.snap /\ worker.snap[k] \in Clients
      BY <1>4 DEF TypeOK, WorkerRecord
    <3>2. CASE worker'.snap[k] = worker.snap[k]
      BY <1>1, <1>4, <2>1, <3>1, <3>2 DEF Slices
    <3>3. CASE worker'.snap[k] = c /\ worker.job = j
      BY <1>1, <1>4, <2>1, <3>3 DEF j
    <3>4. QED
      BY <1>4, <3>1, <3>2, <3>3
  <2>4. channel' = channel /\ jobs' = jobs
    BY DEF StreamRegister, memory
  <2>5. QED
    BY <1>4, <2>1, <2>2, <2>3, <2>4 DEF Slices, Distinct, Finished, Working
<1>10. QED
  BY <1>6, <1>7, <1>8, <1>9

LEMMA StreamForwardInv ==
    ASSUME IInv, NEW c \in Clients, StreamForward(c)
    PROVE  IInv'
<1> USE DEF IInv
<1>1. /\ Head(channel[c].buf) \in Statuses
      /\ Tail(channel[c].buf) \in Seq(Statuses)
  BY TailRange DEF StreamForward, TypeOK
<1>2. TypeOK'
  BY <1>1 DEF StreamForward, TypeOK, StreamRecord, memory, history, bounds
<1>3. OnePlace'
  BY DEF StreamForward, OnePlace, Has, Working, memory
<1>4. /\ \A d \in Clients : stream'[d].job = stream[d].job /\ stream'[d].pc = stream[d].pc
      /\ \A d \in Clients : channel'[d].closed = channel[d].closed
  BY DEF StreamForward, TypeOK, StreamRecord
<1>5. Linked'
  BY <1>4 DEF StreamForward, Linked, Has, Finished, Sending, memory
<1>6. Slices'
  BY <1>4 DEF StreamForward, Slices, TypeOK, WorkerRecord, Finished, Working, memory
<1>7. QED
  BY <1>2, <1>3, <1>5, <1>6

\* The two ways a handler's loop ends.
LEMMA StreamLeaveInv ==
    ASSUME IInv, NEW c \in Clients, StreamFinish(c) \/ StreamCancel(c)
    PROVE  IInv'
<1> USE DEF IInv
<1>1. /\ stream[c].pc = "open" /\ stream' = [stream EXCEPT ![c].pc = "leaving"]
      /\ UNCHANGED <<memory, feeds, worker, creator, rows, history>>
      /\ cancels' \in Nat /\ crashes' \in Nat
  BY DEF StreamFinish, StreamCancel, TypeOK, bounds
<1>2. TypeOK'
  BY <1>1 DEF TypeOK, StreamRecord, memory, feeds, history
<1>3. OnePlace'
  BY <1>1 DEF OnePlace, Has, Working, memory
<1>4. /\ \A d \in Clients : stream'[d].job = stream[d].job
      /\ \A d \in Clients : stream'[d].pc = IF d = c THEN "leaving" ELSE stream[d].pc
  BY <1>1 DEF TypeOK, StreamRecord
<1>5. Linked'
  BY <1>1, <1>4 DEF Linked, Has, Finished, Sending, memory
<1>6. Slices'
  BY <1>1, <1>4 DEF Slices, TypeOK, WorkerRecord, Finished, Working, memory, feeds
<1>7. QED
  BY <1>2, <1>3, <1>5, <1>6

LEMMA StreamUnsubscribeInv ==
    ASSUME IInv, NEW c \in Clients, StreamUnsubscribe(c)
    PROVE  IInv'
<1> USE DEF IInv
<1> DEFINE j == stream[c].job
           old == subscribers[j]
           new == RemoveFirst(old, c)
<1>1. /\ j \in Jobs /\ stream[c].pc = "leaving" /\ old \in Seq(Clients)
      /\ subscribers' = [subscribers EXCEPT ![j] = new]
      /\ stream' = [stream EXCEPT ![c].pc = "ended"]
  BY DEF StreamUnsubscribe, Linked, TypeOK
<1>2. Distinct(old)
  BY <1>1 DEF Slices, Distinct
<1>3. /\ new \in Seq(Clients)
      /\ \/ new = old /\ \A k \in 1..Len(old) : old[k] # c
         \/ \E i \in 1..Len(old) :
               /\ old[i] = c
               /\ Len(new) = Len(old) - 1
               /\ \A k \in 1..(Len(old) - 1) :
                     new[k] = IF k < i THEN old[k] ELSE old[k + 1]
  <2> HIDE DEF old, j
  <2>1. QED
    BY <1>1, <1>2, RemoveFirstShape
<1>4. /\ Distinct(new)
      /\ ToSet(new) \subseteq ToSet(old) \ {c}
  <2> HIDE DEF old, new, j
  <2>1. CASE new = old /\ \A k \in 1..Len(old) : old[k] # c
    BY <1>1, <1>2, <2>1 DEF Distinct, ToSet
  <2>2. CASE \E i \in 1..Len(old) :
               /\ old[i] = c
               /\ Len(new) = Len(old) - 1
               /\ \A k \in 1..(Len(old) - 1) :
                     new[k] = IF k < i THEN old[k] ELSE old[k + 1]
    <3>1. PICK i \in 1..Len(old) :
               /\ old[i] = c
               /\ Len(new) = Len(old) - 1
               /\ \A k \in 1..(Len(old) - 1) :
                     new[k] = IF k < i THEN old[k] ELSE old[k + 1]
      BY <2>2
    <3>2. DOMAIN new = 1..(Len(old) - 1) /\ DOMAIN old = 1..Len(old)
      BY <1>1, <1>3, <3>1
    <3>3. ASSUME NEW k \in DOMAIN new
          PROVE  \E m \in DOMAIN old : m # i /\ new[k] = old[m] /\ m = IF k < i THEN k ELSE k + 1
      BY <1>1, <3>1, <3>2
    <3>4. Distinct(new)
      BY <1>1, <1>2, <3>1, <3>2, <3>3 DEF Distinct
    <3>5. ToSet(new) \subseteq ToSet(old) \ {c}
      BY <1>2, <3>1, <3>2, <3>3 DEF Distinct, ToSet
    <3>6. QED
      BY <3>4, <3>5
  <2>3. QED
    BY <1>3, <2>1, <2>2
\* the worker's view of the slice: untouched, or shifted
<1>5. /\ worker' \in WorkerRecord
      /\ DOMAIN worker'.snap = DOMAIN worker.snap
      /\ \A k \in DOMAIN worker.snap :
            \/ worker'.snap[k] = worker.snap[k]
            \/ worker'.snap[k] \in ToSet(new) /\ worker.job = j
      /\ worker'.pc = worker.pc /\ worker'.job = worker.job /\ worker'.pos = worker.pos
      /\ worker'.success = worker.success /\ worker'.failed = worker.failed
      /\ worker.pc = "idle" => worker' = worker
  <2>1. worker \in WorkerRecord /\ (worker.pc = "idle" => ~worker.shared)
    BY DEF TypeOK, Linked, Idle
  <2>2. \/ worker' = worker
        \/ /\ worker.shared /\ worker.job = j
           /\ worker' = [worker EXCEPT !.snap = Shifted(worker.snap, new)]
    BY DEF StreamUnsubscribe
  <2> HIDE DEF old, new, j
  <2>3. /\ Shifted(worker.snap, new) \in Seq(Clients)
        /\ DOMAIN Shifted(worker.snap, new) = DOMAIN worker.snap
        /\ \A k \in DOMAIN worker.snap :
              \/ Shifted(worker.snap, new)[k] = worker.snap[k]
              \/ Shifted(worker.snap, new)[k] \in ToSet(new)
    <3>1. worker.snap \in Seq(Clients) /\ DOMAIN worker.snap = 1..Len(worker.snap)
      BY <2>1 DEF WorkerRecord
    <3>2. \A k \in DOMAIN worker.snap : k <= Len(new) => k \in DOMAIN new /\ new[k] \in Clients
      BY <1>3, <3>1
    <3>3. \A k \in DOMAIN worker.snap :
             (IF k <= Len(new) THEN new[k] ELSE worker.snap[k]) \in Clients
      BY <3>1, <3>2
    <3>4. QED
      BY <3>1, <3>2, <3>3 DEF Shifted, ToSet
  <2>4. QED
    BY <2>1, <2>2, <2>3 DEF WorkerRecord
<1> HIDE DEF old, new, j
<1>6. TypeOK'
  <2>1. stream' \in [Clients -> StreamRecord]
    BY <1>1 DEF TypeOK, StreamRecord
  <2>2. subscribers' \in [Jobs -> Seq(Clients)]
    BY <1>1, <1>3 DEF TypeOK
  <2>3. channel' \in [Clients -> [buf : Seq(Statuses), closed : BOOLEAN]]
    <3>1. channel \in [Clients -> [buf : Seq(Statuses), closed : BOOLEAN]]
      BY DEF TypeOK
    <3>2. Dropped(channel[c]) \in [buf : Seq(Statuses), closed : BOOLEAN]
      <4>1. <<>> \in Seq(Statuses) /\ channel[c].closed \in BOOLEAN
        BY <3>1
      <4>2. DOMAIN channel[c] = {"buf", "closed"}
        BY <3>1
      <4>3. Dropped(channel[c]) = [buf |-> <<>>, closed |-> channel[c].closed]
        BY <3>1, <4>2 DEF Dropped
      <4>4. QED
        BY <4>1, <4>3
    <3>3. QED
      BY <3>1, <3>2 DEF StreamUnsubscribe
  <2>4. QED
    BY <1>5, <2>1, <2>2, <2>3 DEF StreamUnsubscribe, TypeOK, memory, history, bounds
<1>7. OnePlace'
  BY <1>5 DEF StreamUnsubscribe, OnePlace, Has, Working, memory
<1>8. /\ \A d \in Clients : stream'[d].job = stream[d].job
      /\ \A d \in Clients : stream'[d].pc = IF d = c THEN "ended" ELSE stream[d].pc
      /\ \A d \in Clients : channel'[d].closed = channel[d].closed
      /\ jobs' = jobs /\ creator' = creator
  BY <1>1 DEF StreamUnsubscribe, Dropped, TypeOK, StreamRecord, memory
<1>9. Linked'
  BY <1>1, <1>5, <1>8 DEF Linked, Has, Finished, Sending, Idle
<1>10. Slices'
  <2>3. ASSUME NEW d \in ToSet(new)
        PROVE  stream'[d].job = j /\ stream'[d].pc \in {"open", "leaving"}
    <3>1. d \in ToSet(old) /\ d # c
      BY <1>4
    <3>2. d \in Clients /\ stream[d].job = j /\ stream[d].pc \in {"open", "leaving"}
      BY <1>1, <3>1 DEF Slices, ToSet, old
    <3>3. QED
      BY <1>8, <3>1, <3>2
  <2>1. ASSUME NEW i \in Jobs
        PROVE  /\ \A k \in DOMAIN subscribers'[i] :
                     LET d == subscribers'[i][k] IN
                     stream'[d].job = i /\ stream'[d].pc \in {"open", "leaving"}
               /\ Distinct(subscribers'[i])
    <3>1. CASE i = j
      <4>1. subscribers'[i] = new
        BY <1>1, <3>1 DEF TypeOK
      <4>2. ASSUME NEW d \in ToSet(new)
            PROVE  stream'[d].job = i /\ stream'[d].pc \in {"open", "leaving"}
        BY <2>3, <3>1
      <4>3. QED
        BY <1>4, <4>1, <4>2 DEF ToSet
    <3>2. CASE i # j
      <4>1. subscribers'[i] = subscribers[i]
        BY <1>1, <3>2 DEF TypeOK
      <4>2. QED
        BY <1>1, <1>8, <3>2, <4>1 DEF Slices, Distinct, TypeOK, j
    <3>3. QED
      BY <3>1, <3>2
  <2>2. ASSUME NEW k \in DOMAIN worker'.snap
        PROVE  LET d == worker'.snap[k] IN
               stream'[d].job = worker'.job /\ stream'[d].pc \in {"open", "leaving", "ended"}
    <3>1. k \in DOMAIN worker.snap /\ worker.snap[k] \in Clients
      BY <1>5 DEF TypeOK, WorkerRecord
    <3>2. CASE worker'.snap[k] = worker.snap[k]
      BY <1>5, <1>8, <3>1, <3>2 DEF Slices
    <3>3. CASE worker'.snap[k] \in ToSet(new) /\ worker.job = j
      BY <1>5, <2>3, <3>3
    <3>4. QED
      BY <1>5, <3>1, <3>2, <3>3
  <2>4. QED
    BY <1>5, <1>8, <2>1, <2>2 DEF Slices, Distinct, Finished, Working
<1>11. QED
  BY <1>6, <1>7, <1>9, <1>10

-----------------------------------------------------------------------------
(* A crash, and the theorems.                                              *)

LEMMA CrashInv ==
    ASSUME IInv, Crash
    PROVE  IInv'
<1> USE DEF IInv
<1>1. TypeOK'
  <2>1. worker' \in WorkerRecord
    BY BoundsAssumption DEF Crash, WorkerRecord, WorkerPc, Idle
  <2>2. stream' \in [Clients -> StreamRecord]
    BY DEF Crash, TypeOK, StreamRecord
  <2>3. queue' \in Seq(Jobs) /\ Len(queue') <= QueueCap
    BY BoundsAssumption DEF Crash
  <2>4. creator' \in [Jobs -> {"idle", "insert", "send", "reply", "done", "lost"}]
    BY DEF Crash, TypeOK
  <2>5. QED
    BY <2>1, <2>2, <2>3, <2>4 DEF Crash, TypeOK, Fresh
<1>2. OnePlace'
  BY DEF Crash, OnePlace, Has, Working, Idle, ToSet, TypeOK
<1>3. Linked'
  BY BoundsAssumption DEF Crash, Linked, Idle, Has, Sending, InFinalize, TypeOK, StreamRecord
<1>4. Slices'
  BY DEF Crash, Slices, Idle, Fresh
<1>5. QED
  BY <1>1, <1>2, <1>3, <1>4

LEMMA NextInv == IInv /\ [Next]_vars => IInv'
<1> SUFFICES ASSUME IInv, [Next]_vars PROVE IInv'
  OBVIOUS
<1>1. ASSUME NEW j \in Jobs, CreateRegister(j) \/ CreatorStep(j) PROVE IInv'
  BY <1>1, CreateRegisterInv, CreateInsertInv, CreateSendInv, CreateReplyInv DEF CreatorStep
<1>2. CASE WorkerStep
  BY <1>2, WorkerStepInv
<1>3. ASSUME NEW c \in Clients, NEW j \in Jobs, StreamLookup(c, j) PROVE IInv'
  BY <1>3, StreamLookupInv
<1>4. ASSUME NEW c \in Clients, StreamStep(c) \/ StreamCancel(c) PROVE IInv'
  BY <1>4, StreamRegisterInv, StreamForwardInv, StreamLeaveInv, StreamUnsubscribeInv DEF StreamStep
<1>5. CASE Crash
  BY <1>5, CrashInv
<1>6. CASE UNCHANGED vars
  BY <1>6 DEF vars, IInv, TypeOK, OnePlace, Linked, Slices, Has, Working, Finished, Sending
<1>7. QED
  BY <1>1, <1>2, <1>3, <1>4, <1>5, <1>6 DEF Next

LEMMA Invariance == Spec => []IInv
  BY InitInv, NextInv, PTL DEF Spec

\* Every variable keeps its type, for any number of jobs and clients and any
\* capacities.
THEOREM TypeCorrect == Spec => []TypeOK
<1>1. IInv => TypeOK
  BY DEF IInv
<1>2. QED
  BY <1>1, Invariance, PTL

\* No interleaving of creators, worker and crashes loses a registered job, runs
\* it twice, or runs it without its request.
THEOREM JobsInOnePlace == Spec => []OnePlace
<1>1. IInv => OnePlace
  BY DEF IInv
<1>2. QED
  BY <1>1, Invariance, PTL

\* The worker never sends on, or closes, a closed channel: though Unsubscribe
\* rewrites the slice it iterates, what the slice holds belongs to its job.
THEOREM WorkerNeverPanics == Spec => []NoPanic
<1>1. IInv => NoPanic
  <2> SUFFICES ASSUME IInv PROVE NoPanic
    OBVIOUS
  <2> USE DEF IInv
  <2>1. ASSUME Sending
        PROVE  worker.pos \in DOMAIN worker.snap /\ ~channel[worker.snap[worker.pos]].closed
    <3>1. worker.pos \in DOMAIN worker.snap /\ Working(worker.job)
      BY <2>1 DEF Linked, Sending, Working
    <3>2. worker.snap[worker.pos] \in Clients
      BY <3>1 DEF TypeOK, WorkerRecord
    <3>3. QED
      BY <3>1, <3>2 DEF Slices
  <2>2. ASSUME worker.pc = "close", NEW k \in DOMAIN subscribers[worker.job]
        PROVE  ~channel[subscribers[worker.job][k]].closed
    <3>1. worker.job \in Jobs /\ Working(worker.job)
      BY <2>2 DEF Linked, Working
    <3>2. subscribers[worker.job][k] \in Clients
      BY <2>2, <3>1 DEF TypeOK
    <3>3. QED
      BY <2>2, <3>1, <3>2 DEF Slices
  <2>3. worker.pc = "close" => worker.job \in Jobs
    BY DEF Linked
  <2>4. QED
    BY <2>1, <2>2, <2>3 DEF NoPanic, Slices
<1>2. QED
  BY <1>1, Invariance, PTL

=============================================================================
