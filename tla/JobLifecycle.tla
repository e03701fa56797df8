---------------------------- MODULE JobLifecycle ----------------------------
(***************************************************************************)
(* What the job service promises whoever posted a job, without queue,      *)
(* worker, streams or tables: an accepted job is run once, alone, and ends *)
(* with an outcome that agrees with its item counts.  A crash forgets the  *)
(* jobs, the finished ones too.                                            *)
(***************************************************************************)
EXTENDS Integers

CONSTANTS Jobs, MaxItems

VARIABLE life    \* id -> where the job stands, and its item counts

Ended == {"completed", "partial", "failed"}
Phases == {"unknown", "queued", "running", "forgotten"} \cup Ended

At(phase, total, success, failed) ==
    [phase |-> phase, total |-> total, success |-> success, failed |-> failed]

Nothing(phase) == At(phase, 0, 0, 0)

Init == life = [j \in Jobs |-> Nothing("unknown")]

Accept(j) ==
    /\ life[j].phase = "unknown"
    /\ \E n \in 1..MaxItems : life' = [life EXCEPT ![j] = At("queued", n, 0, 0)]

\* One job at a time.
Start(j) ==
    /\ life[j].phase = "queued"
    /\ \A k \in Jobs : life[k].phase # "running"
    /\ life' = [life EXCEPT ![j].phase = "running"]

\* Every item is accounted for, unless the operation was refused as a whole.
Honest(total, s, f) == s + f = total \/ (s = 0 /\ f = 1)

OutcomeOf(s, f) ==
    IF f = 0 THEN "completed" ELSE IF s = 0 THEN "failed" ELSE "partial"

Finish(j) ==
    /\ life[j].phase = "running"
    /\ \E s, f \in 0..MaxItems :
        /\ Honest(life[j].total, s, f)
        /\ life' = [life EXCEPT ![j] = At(OutcomeOf(s, f), life[j].total, s, f)]

\* The server forgets everything it accepted.
Forget ==
    life' = [j \in Jobs |->
        IF life[j].phase = "unknown" THEN life[j] ELSE Nothing("forgotten")]

Next == (\E j \in Jobs : Accept(j) \/ Start(j) \/ Finish(j)) \/ Forget

Fairness == \A j \in Jobs : SF_life(Start(j)) /\ WF_life(Finish(j))

Spec == Init /\ [][Next]_life
FairSpec == Spec /\ Fairness

=============================================================================
