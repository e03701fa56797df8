------------------------------ MODULE RateLimit ------------------------------
(***************************************************************************)
(* Rate limiting (internal/middleware/ratelimit.go).  The middleware finds *)
(* the client's limiter, or makes one, under a lock, and asks it for a     *)
(* token after the lock is released.  When there are many clients, those   *)
(* not seen for ten minutes are dropped, and with them what is left in     *)
(* their buckets.                                                          *)
(***************************************************************************)
EXTENDS Integers, FiniteSets

CONSTANTS
    Clients, Kinds, RPM, Minute,
    Limiters,    \* clientLimiter objects: one that nothing refers to stands for a new one
    Calls,       \* request goroutines; one that has answered serves again
    GcAt,        \* clients from which on the idle ones are dropped (1000 in the code)
    Window,      \* idle time after which they are (10 minutes)
    MaxStall,    \* bound on the time between getLimiter and Allow
    MaxSpan,     \* bound on the time an observer counts the requests admitted
    NoLimiter, NoCall

ASSUME LimitAssumption ==
    /\ Minute \in Nat /\ RPM \in [Kinds -> 1..Minute]
    /\ GcAt \in Nat /\ MaxSpan \in Nat /\ NoLimiter \notin Limiters
    /\ Window \in Nat /\ MaxStall \in Nat /\ Minute + MaxStall <= Window

VARIABLES
    clients,   \* client -> its limiter
    limiter,   \* limiter -> the time since lastSeen, and what is in its buckets, in ticks
    call,      \* request -> what it has in hand between getLimiter and Allow
    watch      \* history: what an observer of one client counts

vars == <<clients, limiter, call, watch>>

\* rate.Every(time.Minute / RPM) divides integers.
Cost(k) == Minute \div RPM[k]
Full(k) == RPM[k] * Cost(k)

\* idle: up to Window + 1, which is too long already.
Limiter == [idle : 0..Window + 1, bucket : [Kinds -> Nat]]
New == [idle |-> 0, bucket |-> [k \in Kinds |-> Full(k)]]
Call == [ip : Clients, kind : Kinds, limiter : Limiters, stall : 0..MaxStall]
Watch == [ip : Clients, kind : Kinds, granted : Nat, span : 0..MaxSpan]

ASSUME NoCallAssumption == NoCall \notin Call

Waiting == {c \in Calls : call[c] # NoCall}

Init ==
    /\ clients = [ip \in Clients |-> NoLimiter]
    /\ limiter = [l \in Limiters |-> New]
    /\ call = [c \in Calls |-> NoCall]
    /\ watch \in [ip : Clients, kind : Kinds, granted : {0}, span : {0}]

\* A limiter that nothing refers to any more is as good as new.
Used(l) == (\E ip \in Clients : clients[ip] = l) \/ (\E c \in Waiting : call[c].limiter = l)

-----------------------------------------------------------------------------
(* getLimiter, under mu.  Requests for thumbnails do not come here.        *)

MutIdleTooLong(time) == time > 0   \* dropped as soon as another is seen
IdleTooLong(time) == time > Window

\* gcLocked, once lastSeen of limiter l has been set.
Dropped(known, l) ==
    {ip \in Clients :
        /\ Cardinality({i \in Clients : known[i] # NoLimiter}) >= GcAt
        /\ known[ip] \notin {NoLimiter, l} /\ IdleTooLong(limiter[known[ip]].idle)}

MutSeen(l) == limiter[l]   \* lastSeen stays that of the first request
Seen(l) == [limiter[l] EXCEPT !.idle = 0]

GetLimiter(c) ==
    \E ip \in Clients, k \in Kinds, l \in Limiters :
        LET known == [clients EXCEPT ![ip] = l]
        IN  /\ call[c] = NoCall
            /\ IF clients[ip] = NoLimiter THEN ~Used(l) ELSE l = clients[ip]
            /\ clients' = [i \in Clients |-> IF i \in Dropped(known, l) THEN NoLimiter ELSE known[i]]
            /\ call' = [call EXCEPT ![c] = [ip |-> ip, kind |-> k, limiter |-> l, stall |-> 0]]
            /\ limiter' = [m \in Limiters |->
                  IF m = l THEN Seen(l) ELSE IF Used(m)' THEN limiter[m] ELSE New]
            /\ UNCHANGED watch

-----------------------------------------------------------------------------
(* Allow, under the lock of the rate.Limiter                               *)

MutEnough(l, k) == limiter[l].bucket[k] >= 1   \* a part of a token
Enough(l, k) == limiter[l].bucket[k] >= Cost(k)
Take(l, k) == [limiter[l] EXCEPT !.bucket[k] = @ - Cost(k)]

Allow(c) ==
    LET l == call[c].limiter
        k == call[c].kind
    IN  /\ c \in Waiting
        /\ call' = [call EXCEPT ![c] = NoCall]
        /\ UNCHANGED clients
        /\ limiter' = [m \in Limiters |->
              IF ~Used(m)' THEN New ELSE IF m = l /\ Enough(l, k) THEN Take(l, k) ELSE limiter[m]]
        /\ watch' = IF Enough(l, k) /\ call[c].ip = watch.ip /\ k = watch.kind
                    THEN [watch EXCEPT !.granted = @ + 1] ELSE watch

\* Time passes: the buckets fill.  No request waits for its token for longer than MaxStall.
Older(time) == IF time > Window THEN time ELSE time + 1
Filling(level, k) == IF level < Full(k) THEN level + 1 ELSE level

Tick ==
    /\ \A c \in Waiting : call[c].stall < MaxStall
    /\ call' = [c \in Calls |->
          IF c \in Waiting THEN [call[c] EXCEPT !.stall = @ + 1] ELSE NoCall]
    /\ limiter' = [l \in Limiters |->
          IF Used(l) THEN [idle |-> Older(limiter[l].idle),
                           bucket |-> [k \in Kinds |-> Filling(limiter[l].bucket[k], k)]]
          ELSE New]
    /\ watch' = IF watch.span < MaxSpan THEN [watch EXCEPT !.span = @ + 1]
                ELSE [watch EXCEPT !.span = 0, !.granted = 0]
    /\ UNCHANGED clients

\* The observer may begin to count at any moment.
Observe ==
    /\ watch' \in [ip : Clients, kind : Kinds, granted : {0}, span : {0}]
    /\ UNCHANGED <<clients, limiter, call>>

Next == (\E c \in Calls : GetLimiter(c) \/ Allow(c)) \/ Tick \/ Observe

Spec == Init /\ [][Next]_vars

-----------------------------------------------------------------------------
(* Properties                                                              *)

\* Every variable keeps its type, buckets never overflow or go into debt, and no two
\* clients share a limiter.
TypeOK ==
    /\ clients \in [Clients -> Limiters \cup {NoLimiter}]
    /\ limiter \in [Limiters -> Limiter]
    /\ \A l \in Limiters, k \in Kinds : limiter[l].bucket[k] \in 0..Full(k)
    /\ call \in [Calls -> Call \cup {NoCall}]
    /\ watch \in Watch
    /\ \A i, j \in Clients : clients[i] = clients[j] => i = j \/ clients[i] = NoLimiter

\* The limiter a request has in hand is still the one of its client: it is not dropped
\* between getLimiter and Allow, when the tokens the request takes would be forgotten.
InHandKept == \A c \in Waiting : clients[call[c].ip] = call[c].limiter

\* Whenever one begins to count, a client gets no more than its burst and what the time
\* brings back, whether or not its limiter was dropped meanwhile.
WindowBound == watch.granted * Cost(watch.kind) <= Full(watch.kind) + watch.span

\* Dropping a limiter is never noticed: buckets behave as if none were ever forgotten,
\* since a client not seen for Window has a full one.
Level(ip) == IF clients[ip] = NoLimiter THEN New.bucket ELSE limiter[clients[ip]].bucket
Promise == INSTANCE TokenBuckets WITH Clients <- Clients, Kinds <- Kinds, RPM <- RPM,
                                      Minute <- Minute, level <- [ip \in Clients |-> Level(ip)]
NeverForgotten == Promise!Spec

=============================================================================
