----------------------------- MODULE TokenBuckets -----------------------------
(***************************************************************************)
(* What the rate limiter promises: every client has, for each kind of      *)
(* request, a bucket of RPM tokens that is never forgotten.  A request is  *)
(* admitted when it can take a token, and a token comes back at each       *)
(* minute's RPM-th part.                                                   *)
(***************************************************************************)
EXTENDS Integers

CONSTANTS
    Clients,  \* addresses of clients
    Kinds,    \* kinds of request: those of /api/v1/auth, and the others
    RPM,      \* kind -> requests per minute, no more than ticks in a minute
    Minute    \* a minute, in ticks

VARIABLE level  \* client -> kind -> what is in the bucket, in ticks

\* rate.Every(time.Minute / RPM) divides integers.
Cost(k) == Minute \div RPM[k]
Full(k) == RPM[k] * Cost(k)

Filled == [k \in Kinds |-> Full(k)]
AfterTick(bucket) == [k \in Kinds |-> IF bucket[k] < Full(k) THEN bucket[k] + 1 ELSE bucket[k]]
AfterTake(bucket, k) == [bucket EXCEPT ![k] = @ - Cost(k)]

Init == level = [ip \in Clients |-> Filled]

Admit(ip, k) ==
    /\ level[ip][k] >= Cost(k)
    /\ level' = [level EXCEPT ![ip] = AfterTake(@, k)]

\* A client that is refused has taken nothing.
Tick == level' = [ip \in Clients |-> AfterTick(level[ip])]

Next == Tick \/ \E ip \in Clients, k \in Kinds : Admit(ip, k)

Spec == Init /\ [][Next]_level

=============================================================================
