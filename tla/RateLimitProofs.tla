---------------------------- MODULE RateLimitProofs ----------------------------
(***************************************************************************)
(* Proofs about RateLimit, for any number of clients, any rates and any    *)
(* time after which limiters are dropped, as long as a bucket fills in     *)
(* less: buckets behave as if none were ever forgotten.                    *)
(***************************************************************************)
EXTENDS RateLimit, TLAPS

UnusedNew == \A l \in Limiters : ~Used(l) => limiter[l] = New
InHandSeen == \A c \in Waiting : limiter[call[c].limiter].idle <= call[c].stall
FullWhenIdle ==
    \A l \in Limiters, k \in Kinds :
        \/ limiter[l].bucket[k] = Full(k)
        \/ limiter[l].idle <= limiter[l].bucket[k] + MaxStall
Ledger == watch.granted * Cost(watch.kind) + Level(watch.ip)[watch.kind]
            <= Full(watch.kind) + watch.span

IInv == TypeOK /\ UnusedNew /\ InHandKept /\ InHandSeen /\ FullWhenIdle /\ Ledger

-----------------------------------------------------------------------------
(* The arithmetic of the buckets.                                          *)

\* A token costs time, and a bucket fills within a minute.
LEMMA CostFull ==
    ASSUME NEW k \in Kinds
    PROVE  /\ Cost(k) \in Nat /\ Cost(k) >= 1
           /\ Full(k) \in Nat /\ Full(k) <= Minute /\ Cost(k) <= Full(k)
<1>1. RPM[k] \in 1..Minute /\ Minute \in Nat BY LimitAssumption
<1>2. Minute \div RPM[k] \in Nat /\ Minute \div RPM[k] >= 1 BY <1>1
<1>3. RPM[k] * (Minute \div RPM[k]) <= Minute BY <1>1
<1>4. RPM[k] * (Minute \div RPM[k]) >= Minute \div RPM[k] /\ RPM[k] * (Minute \div RPM[k]) \in Nat
  BY <1>1, <1>2
<1> QED BY <1>2, <1>3, <1>4 DEF Cost, Full

\* A new limiter has full buckets.
LEMMA NewLimiter ==
    /\ New \in Limiter /\ New.idle = 0
    /\ \A k \in Kinds : New.bucket[k] = Full(k)
    /\ \A l \in Limiter : l.idle \in 0..Window + 1 /\ l.bucket \in [Kinds -> Nat]
BY CostFull, LimitAssumption DEF New, Limiter

-----------------------------------------------------------------------------
(* Every step keeps the invariant.                                         *)

\* A limiter that has been idle for too long is not in hand, and its buckets are full.
LEMMA DroppedIsFull ==
    ASSUME IInv, NEW l \in Limiters, limiter[l].idle > Window
    PROVE  /\ limiter[l].bucket = New.bucket
           /\ \A c \in Waiting : call[c].limiter # l
<1>1. limiter[l] \in Limiter /\ limiter[l].bucket \in [Kinds -> Nat]
  BY NewLimiter DEF IInv, TypeOK
<1>2. ASSUME NEW k \in Kinds PROVE limiter[l].bucket[k] = Full(k)
  <2>1. limiter[l].bucket[k] \in 0..Full(k) /\ limiter[l].idle \in 0..Window + 1
    BY <1>1, NewLimiter DEF IInv, TypeOK
  <2>2. limiter[l].bucket[k] = Full(k) \/ limiter[l].idle <= limiter[l].bucket[k] + MaxStall
    BY DEF IInv, FullWhenIdle
  <2> QED BY <2>1, <2>2, CostFull, LimitAssumption
<1>3. limiter[l].bucket = New.bucket
  BY <1>1, <1>2 DEF New
<1>4. ASSUME NEW c \in Waiting, call[c].limiter = l PROVE FALSE
  <2>1. call[c] \in Call /\ limiter[l].idle <= call[c].stall
    BY <1>4 DEF IInv, TypeOK, Waiting, InHandSeen
  <2>2. call[c].stall \in 0..MaxStall BY <2>1 DEF Call
  <2>3. limiter[l].idle \in 0..Window + 1 BY <1>1, NewLimiter
  <2> QED BY <2>1, <2>2, <2>3, LimitAssumption
<1> QED BY <1>3, <1>4

\* GetLimiter changes no level: the limiter it makes is full, and so are those it drops.
LEMMA GetLimiterKeepsLevels ==
    ASSUME IInv, NEW c \in Calls, GetLimiter(c)
    PROVE  /\ IInv'
           /\ \A i \in Clients : Level(i)' = Level(i)
<1>1. PICK ip \in Clients, k \in Kinds, l \in Limiters :
        LET known == [clients EXCEPT ![ip] = l]
        IN  /\ call[c] = NoCall
            /\ IF clients[ip] = NoLimiter THEN ~Used(l) ELSE l = clients[ip]
            /\ clients' = [i \in Clients |-> IF i \in Dropped(known, l) THEN NoLimiter ELSE known[i]]
            /\ call' = [call EXCEPT ![c] = [ip |-> ip, kind |-> k, limiter |-> l, stall |-> 0]]
            /\ limiter' = [m \in Limiters |->
                  IF m = l THEN Seen(l) ELSE IF Used(m)' THEN limiter[m] ELSE New]
            /\ UNCHANGED watch
  BY DEF GetLimiter
<1> DEFINE known == [clients EXCEPT ![ip] = l]
           gone == Dropped(known, l)
<1>2. TypeOK BY DEF IInv
<1>3. /\ clients \in [Clients -> Limiters \cup {NoLimiter}]
      /\ limiter \in [Limiters -> Limiter] /\ call \in [Calls -> Call \cup {NoCall}]
  BY <1>2 DEF TypeOK
<1>4. /\ known[ip] = l /\ \A i \in Clients : i # ip => known[i] = clients[i]
      /\ NoLimiter # l
  BY <1>3, LimitAssumption
<1>5. ASSUME NEW i \in gone
      PROVE  /\ i \in Clients /\ i # ip /\ clients[i] \in Limiters /\ clients[i] # l
             /\ limiter[clients[i]].idle > Window
  BY <1>3, <1>4 DEF Dropped, IdleTooLong
<1>6. \A i \in Clients : clients'[i] = IF i \in gone THEN NoLimiter ELSE known[i]
  BY <1>1
<1>7. [ip |-> ip, kind |-> k, limiter |-> l, stall |-> 0] \in Call
  BY LimitAssumption DEF Call
<1>8. /\ call' \in [Calls -> Call \cup {NoCall}]
      /\ call'[c] = [ip |-> ip, kind |-> k, limiter |-> l, stall |-> 0] /\ call'[c] # NoCall
      /\ \A d \in Calls : d # c => call'[d] = call[d]
  BY <1>1, <1>3, <1>7, NoCallAssumption
<1>9. /\ Seen(l) \in Limiter /\ Seen(l).idle = 0 /\ Seen(l).bucket = limiter[l].bucket
  BY <1>3, LimitAssumption DEF Seen, Limiter
<1>10. /\ limiter' \in [Limiters -> Limiter] /\ limiter'[l] = Seen(l)
       /\ \A m \in Limiters : m # l => limiter'[m] = IF Used(m)' THEN limiter[m] ELSE New
  BY <1>1, <1>3, <1>9, NewLimiter
<1>11. \A m \in Limiters : m # l => limiter'[m] \in {limiter[m], New}
  BY <1>10
<1>12. clients[ip] = NoLimiter => limiter[l] = New
  BY <1>1 DEF IInv, UnusedNew
<1>13. ASSUME NEW i \in Clients, NEW j \in Clients, clients'[i] = clients'[j]
       PROVE  i = j \/ clients'[i] = NoLimiter
  <2>1. CASE i \in gone \/ j \in gone BY <1>6, <2>1, <1>13
  <2>2. CASE i \notin gone /\ j \notin gone
    <3>1. known[i] = known[j] BY <1>6, <1>13, <2>2
    <3>2. ASSUME NEW a \in Clients, a # ip, clients[a] = l PROVE FALSE
      BY <1>1, <1>2, <1>4, <3>2 DEF TypeOK, Used
    <3> QED BY <1>2, <1>4, <1>6, <2>2, <3>1, <3>2 DEF TypeOK
  <2> QED BY <2>1, <2>2
<1>14. TypeOK'
  <2>1. clients' \in [Clients -> Limiters \cup {NoLimiter}] BY <1>1, <1>3, <1>4
  <2>2. \A m \in Limiters, kind \in Kinds : limiter'[m].bucket[kind] \in 0..Full(kind)
    BY <1>2, <1>9, <1>10, <1>11, NewLimiter, CostFull DEF TypeOK
  <2>3. watch' \in Watch BY <1>1, <1>2 DEF TypeOK
  <2> QED BY <1>8, <1>10, <1>13, <2>1, <2>2, <2>3 DEF TypeOK
<1>15. UnusedNew'
  <2>1. c \in Waiting' /\ call'[c].limiter = l BY <1>8 DEF Waiting
  <2> QED BY <1>10, <2>1 DEF UnusedNew, Used
<1>16. ASSUME NEW d \in Waiting'
       PROVE  clients'[call'[d].ip] = call'[d].limiter /\ limiter'[call'[d].limiter].idle <= call'[d].stall
  <2>1. CASE d = c
    <3>1. clients'[ip] = l BY <1>4, <1>5, <1>6
    <3> QED BY <1>8, <1>9, <1>10, <2>1, <3>1
  <2>2. CASE d # c
    <3>1. d \in Waiting /\ call'[d] = call[d] BY <1>8, <2>2 DEF Waiting
    <3>2. call[d] \in Call BY <1>3, <3>1 DEF Waiting
    <3>3. /\ call[d].ip \in Clients /\ call[d].limiter \in Limiters /\ call[d].stall \in 0..MaxStall
      BY <3>2 DEF Call
    <3>4. /\ clients[call[d].ip] = call[d].limiter
          /\ limiter[call[d].limiter].idle <= call[d].stall
      BY <3>1 DEF IInv, InHandKept, InHandSeen
    <3>5. call[d].ip \notin gone
      BY <1>5, <3>1, <3>3, <3>4, DroppedIsFull
    <3>6. clients'[call[d].ip] = call[d].limiter
      BY <1>1, <1>4, <1>6, <3>3, <3>4, <3>5, LimitAssumption
    <3>7. call[d].limiter # l => limiter'[call[d].limiter] \in {limiter[call[d].limiter], New}
      BY <1>11, <3>3
    <3>8. limiter'[call[d].limiter].idle <= call[d].stall
      BY <1>9, <1>10, <3>3, <3>4, <3>7, NewLimiter, LimitAssumption
    <3> QED BY <3>1, <3>6, <3>8
  <2> QED BY <2>1, <2>2
<1>17. FullWhenIdle'
  <2> SUFFICES ASSUME NEW m \in Limiters, NEW kind \in Kinds
               PROVE  \/ limiter'[m].bucket[kind] = Full(kind)
                      \/ limiter'[m].idle <= limiter'[m].bucket[kind] + MaxStall
    BY DEF FullWhenIdle
  <2>1. CASE m = l
    <3>1. limiter'[l].bucket[kind] \in 0..Full(kind) BY <1>14 DEF TypeOK
    <3> QED BY <1>9, <1>10, <2>1, <3>1, LimitAssumption, CostFull
  <2>2. CASE m # l
    BY <1>11, <2>2, NewLimiter DEF IInv, FullWhenIdle
  <2> QED BY <2>1, <2>2
<1>18. ASSUME NEW i \in Clients PROVE Level(i)' = Level(i)
  <2>1. CASE i = ip
    <3>1. clients'[i] = l BY <1>4, <1>5, <1>6, <2>1
    <3>2. Level(i)' = limiter[l].bucket BY <1>4, <1>9, <1>10, <3>1 DEF Level
    <3> QED BY <1>1, <1>12, <2>1, <3>2 DEF Level
  <2>2. CASE i \in gone
    BY <1>5, <1>6, <2>2, DroppedIsFull, LimitAssumption DEF Level
  <2>3. CASE i # ip /\ i \notin gone
    <3>1. clients'[i] = clients[i] BY <1>4, <1>6, <2>3
    <3>2. CASE clients[i] = NoLimiter BY <3>1, <3>2 DEF Level
    <3>3. CASE clients[i] # NoLimiter
      <4>1. clients[i] \in Limiters /\ Used(clients[i])' BY <1>3, <3>1, <3>3 DEF Used
      <4>2. clients[i] # l BY <1>1, <1>2, <1>4, <2>3, <3>3 DEF TypeOK, Used
      <4> QED BY <1>10, <3>1, <3>3, <4>1, <4>2 DEF Level
    <3> QED BY <3>2, <3>3
  <2> QED BY <2>1, <2>2, <2>3
<1>19. Ledger'
  <2>1. watch' = watch /\ watch.ip \in Clients BY <1>1, <1>2 DEF TypeOK, Watch
  <2> QED BY <1>18, <2>1 DEF IInv, Ledger, Cost, Full
<1> QED BY <1>14, <1>15, <1>16, <1>17, <1>18, <1>19 DEF IInv, InHandKept, InHandSeen

\* Allow takes a token from the level of the client, or changes no level.
LEMMA AllowTakes ==
    ASSUME IInv, NEW c \in Calls, Allow(c)
    PROVE  /\ IInv'
           /\ \/ \A i \in Clients : Level(i)' = Level(i)
              \/ /\ Level(call[c].ip)[call[c].kind] >= Cost(call[c].kind)
                 /\ call[c].ip \in Clients /\ call[c].kind \in Kinds
                 /\ \A i \in Clients : Level(i)' =
                       IF i = call[c].ip
                       THEN [Level(i) EXCEPT ![call[c].kind] = @ - Cost(call[c].kind)]
                       ELSE Level(i)
<1>0. c \in Waiting /\ call[c] \in Call BY DEF IInv, TypeOK, Allow, Waiting
<1>p. PICK l \in Limiters, k \in Kinds, ip \in Clients :
        call[c].limiter = l /\ call[c].kind = k /\ call[c].ip = ip
  BY <1>0 DEF Call
<1>1. /\ c \in Waiting /\ clients' = clients
      /\ call' = [call EXCEPT ![c] = NoCall]
      /\ limiter' = [m \in Limiters |->
            IF ~Used(m)' THEN New ELSE IF m = l /\ Enough(l, k) THEN Take(l, k) ELSE limiter[m]]
      /\ watch' = IF Enough(l, k) /\ ip = watch.ip /\ k = watch.kind
                  THEN [watch EXCEPT !.granted = @ + 1] ELSE watch
  BY <1>p DEF Allow
<1>2. TypeOK BY DEF IInv
<1>3. /\ clients \in [Clients -> Limiters \cup {NoLimiter}]
      /\ limiter \in [Limiters -> Limiter] /\ call \in [Calls -> Call \cup {NoCall}]
      /\ watch \in Watch
  BY <1>2 DEF TypeOK
<1>5. call[c].stall \in 0..MaxStall
  BY <1>0 DEF Call
<1>6. clients[ip] = l /\ limiter[l].idle <= call[c].stall /\ l # NoLimiter
  BY <1>0, <1>p, LimitAssumption DEF IInv, InHandKept, InHandSeen
<1>7. /\ limiter[l] \in Limiter /\ limiter[l].bucket \in [Kinds -> Nat]
      /\ limiter[l].idle \in 0..Window + 1 /\ limiter[l].bucket[k] \in 0..Full(k)
  BY <1>2, <1>3, <1>5, NewLimiter DEF TypeOK
<1>8. Used(l)' BY <1>1, <1>5, <1>6 DEF Used
<1>9. \A m \in Limiters : limiter'[m] =
        IF ~Used(m)' THEN New ELSE IF m = l /\ Enough(l, k) THEN Take(l, k) ELSE limiter[m]
  BY <1>1
<1>10. ASSUME Enough(l, k)
       PROVE  /\ Take(l, k) \in Limiter /\ Take(l, k).idle = limiter[l].idle
              /\ Take(l, k).bucket = [limiter[l].bucket EXCEPT ![k] = @ - Cost(k)]
              /\ \A kind \in Kinds : Take(l, k).bucket[kind] \in 0..Full(kind)
  <2>1. limiter[l].bucket[k] - Cost(k) \in 0..Full(k)
    BY <1>5, <1>7, <1>10, CostFull DEF Enough
  <2>2. [limiter[l].bucket EXCEPT ![k] = @ - Cost(k)] \in [Kinds -> Nat]
    BY <1>5, <1>7, <2>1, CostFull
  <2>3. /\ Take(l, k).idle = limiter[l].idle
        /\ Take(l, k).bucket = [limiter[l].bucket EXCEPT ![k] = @ - Cost(k)]
        /\ Take(l, k) \in Limiter
    BY <1>7, <2>2 DEF Take, Limiter
  <2>4. ASSUME NEW kind \in Kinds PROVE Take(l, k).bucket[kind] \in 0..Full(kind)
    BY <1>2, <1>3, <1>5, <1>7, <2>1, <2>3 DEF TypeOK
  <2> QED BY <2>3, <2>4
<1>11. /\ call' \in [Calls -> Call \cup {NoCall}] /\ call'[c] = NoCall
       /\ \A d \in Calls : d # c => call'[d] = call[d]
  BY <1>1, <1>3
<1>12. Waiting' = Waiting \ {c} BY <1>11 DEF Waiting
<1>13. TypeOK'
  <2>1. ASSUME NEW m \in Limiters
        PROVE  limiter'[m] \in Limiter /\ \A kind \in Kinds : limiter'[m].bucket[kind] \in 0..Full(kind)
    BY <1>2, <1>3, <1>9, <1>10, NewLimiter, CostFull DEF TypeOK
  <2>2. limiter' \in [Limiters -> Limiter] BY <1>1, <2>1
  <2>3. watch' \in Watch BY <1>1, <1>3 DEF Watch
  <2> QED BY <1>1, <1>2, <1>11, <2>1, <2>2, <2>3 DEF TypeOK
<1>14. UnusedNew' BY <1>9 DEF UnusedNew
<1>15. ASSUME NEW d \in Waiting'
       PROVE  clients'[call'[d].ip] = call'[d].limiter /\ limiter'[call'[d].limiter].idle <= call'[d].stall
  <2>1. d \in Waiting /\ d # c /\ call'[d] = call[d] BY <1>11, <1>12 DEF Waiting
  <2>2. call[d] \in Call BY <1>3, <2>1 DEF Waiting
  <2>3. PICK m \in Limiters : call[d].limiter = m BY <2>2 DEF Call
  <2>4. Used(m)' BY <2>1, <2>3 DEF Used
  <2>5. limiter'[m].idle = limiter[m].idle
    BY <1>9, <1>10, <2>3, <2>4
  <2> QED BY <1>1, <2>1, <2>3, <2>5 DEF IInv, InHandKept, InHandSeen
<1>16. FullWhenIdle'
  <2> SUFFICES ASSUME NEW m \in Limiters, NEW kind \in Kinds
               PROVE  \/ limiter'[m].bucket[kind] = Full(kind)
                      \/ limiter'[m].idle <= limiter'[m].bucket[kind] + MaxStall
    BY DEF FullWhenIdle
  <2>1. limiter'[m].bucket[kind] \in 0..Full(kind) BY <1>13 DEF TypeOK
  <2>2. CASE m = l
    <3>1. limiter'[m].idle = limiter[l].idle BY <1>8, <1>9, <1>10, <2>2
    <3> QED BY <1>5, <1>6, <1>7, <2>1, <2>2, <3>1, LimitAssumption, CostFull
  <2>3. CASE m # l
    BY <1>9, <2>3, NewLimiter DEF IInv, FullWhenIdle
  <2> QED BY <2>2, <2>3
<1>17. ASSUME NEW i \in Clients, clients[i] # l PROVE Level(i)' = Level(i)
  <2>1. clients[i] # NoLimiter => clients[i] \in Limiters /\ Used(clients[i])'
    BY <1>1, <1>3 DEF Used
  <2> QED BY <1>1, <1>9, <1>17, <2>1 DEF Level
<1>18. ASSUME NEW i \in Clients, clients[i] = l PROVE i = ip
  BY <1>2, <1>5, <1>6, <1>18 DEF TypeOK
<1>19. Level(ip)' = IF Enough(l, k) THEN Take(l, k).bucket ELSE Level(ip)
  BY <1>1, <1>5, <1>6, <1>8, <1>9 DEF Level
<1>20. Level(ip) = limiter[l].bucket BY <1>6 DEF Level
<1>21. CASE ~Enough(l, k)
  <2>1. \A i \in Clients : Level(i)' = Level(i) BY <1>17, <1>18, <1>19, <1>21
  <2>2. watch' = watch /\ watch.ip \in Clients BY <1>1, <1>3, <1>21 DEF Watch
  <2>3. Ledger' BY <2>1, <2>2 DEF IInv, Ledger, Cost, Full
  <2> QED BY <1>13, <1>14, <1>15, <1>16, <2>1, <2>3 DEF IInv, InHandKept, InHandSeen
<1>22. CASE Enough(l, k)
  <2>1. Level(ip)[k] >= Cost(k) BY <1>20, <1>22 DEF Enough
  <2>2. \A i \in Clients : Level(i)' = IF i = ip THEN [Level(i) EXCEPT ![k] = @ - Cost(k)]
                                       ELSE Level(i)
    BY <1>10, <1>17, <1>18, <1>19, <1>20, <1>22
  <2>3. PICK wi \in Clients, wk \in Kinds : watch.ip = wi /\ watch.kind = wk
    BY <1>3 DEF Watch
  <2>4. /\ watch.granted \in Nat /\ watch.span \in Nat
        /\ watch'.ip = wi /\ watch'.kind = wk /\ watch'.span = watch.span
        /\ watch'.granted = IF ip = wi /\ k = wk THEN watch.granted + 1 ELSE watch.granted
    BY <1>1, <1>3, <1>22, <2>3, LimitAssumption DEF Watch
  <2>5. watch.granted * Cost(wk) + Level(wi)[wk] <= Full(wk) + watch.span
    BY <2>3 DEF IInv, Ledger
  <2>6. watch'.granted * Cost(wk) + Level(wi)'[wk] <= Full(wk) + watch'.span
    <3>1. CASE ip = wi /\ k = wk
      <4>1. Level(wi)'[wk] = Level(ip)[k] - Cost(k) BY <1>7, <1>20, <2>2, <3>1
      <4>2. Level(ip)[k] \in Nat /\ Cost(k) \in Nat /\ Full(k) \in Nat BY <1>7, <1>20, CostFull
      <4>3. /\ (watch.granted + 1) * Cost(k) = watch.granted * Cost(k) + Cost(k)
            /\ watch.granted * Cost(k) \in Nat
        BY <2>4, <4>2
      <4>4. (watch.granted * Cost(k) + Cost(k)) + (Level(ip)[k] - Cost(k)) <= Full(k) + watch.span
        BY <2>4, <2>5, <3>1, <4>2, <4>3
      <4> QED BY <2>4, <3>1, <4>1, <4>3, <4>4
    <3>2. CASE ~(ip = wi /\ k = wk)
      <4>1. Level(wi)'[wk] = Level(wi)[wk] BY <1>7, <1>20, <2>2, <3>2
      <4> QED BY <2>4, <2>5, <3>2, <4>1
    <3> QED BY <3>1, <3>2
  <2>7. Ledger' BY <2>4, <2>6 DEF Ledger, Cost, Full
  <2> QED
    BY <1>p, <1>13, <1>14, <1>15, <1>16, <2>1, <2>2, <2>7 DEF IInv, InHandKept, InHandSeen
<1> QED BY <1>21, <1>22

\* A tick fills every bucket by what one tick brings.
LEMMA TickFills ==
    ASSUME IInv, Tick
    PROVE  /\ IInv'
           /\ \A i \in Clients : Level(i)' = [k \in Kinds |-> Filling(Level(i)[k], k)]
<1>1. /\ clients' = clients
      /\ \A c \in Waiting : call[c].stall < MaxStall
      /\ call' = [c \in Calls |->
            IF c \in Waiting THEN [call[c] EXCEPT !.stall = @ + 1] ELSE NoCall]
      /\ limiter' = [l \in Limiters |->
            IF Used(l) THEN [idle |-> Older(limiter[l].idle),
                             bucket |-> [k \in Kinds |-> Filling(limiter[l].bucket[k], k)]]
            ELSE New]
      /\ watch' = IF watch.span < MaxSpan THEN [watch EXCEPT !.span = @ + 1]
                  ELSE [watch EXCEPT !.span = 0, !.granted = 0]
  BY DEF Tick
<1>2. TypeOK BY DEF IInv
<1>3. /\ clients \in [Clients -> Limiters \cup {NoLimiter}]
      /\ limiter \in [Limiters -> Limiter] /\ call \in [Calls -> Call \cup {NoCall}]
      /\ watch \in Watch
  BY <1>2 DEF TypeOK
<1>4. ASSUME NEW l \in Limiters
      PROVE  /\ limiter[l].bucket \in [Kinds -> Nat] /\ limiter[l].idle \in 0..Window + 1
             /\ Older(limiter[l].idle) \in 0..Window + 1
             /\ Older(limiter[l].idle) <= limiter[l].idle + 1
  BY <1>3, NewLimiter, LimitAssumption DEF Older
<1>5. ASSUME NEW l \in Limiters, NEW k \in Kinds
      PROVE  /\ Filling(limiter[l].bucket[k], k) \in 0..Full(k)
             /\ Filling(limiter[l].bucket[k], k) = Full(k)
                \/ Filling(limiter[l].bucket[k], k) = limiter[l].bucket[k] + 1
             /\ Filling(Full(k), k) = Full(k)
  <2>1. limiter[l].bucket[k] \in 0..Full(k) BY <1>2 DEF TypeOK
  <2>2. Full(k) \in Nat BY CostFull
  <2>3. CASE limiter[l].bucket[k] < Full(k)
    <3>1. Filling(limiter[l].bucket[k], k) = limiter[l].bucket[k] + 1 BY <2>3 DEF Filling
    <3> QED BY <2>1, <2>2, <2>3, <3>1 DEF Filling
  <2>4. CASE limiter[l].bucket[k] = Full(k)
    <3>1. Filling(limiter[l].bucket[k], k) = Full(k) BY <2>2, <2>4 DEF Filling
    <3> QED BY <2>2, <3>1 DEF Filling
  <2> QED BY <2>1, <2>2, <2>3, <2>4
<1>6. ASSUME NEW l \in Limiters
      PROVE  /\ limiter'[l].idle = IF Used(l) THEN Older(limiter[l].idle) ELSE 0
             /\ limiter'[l].bucket = [k \in Kinds |-> Filling(limiter[l].bucket[k], k)]
             /\ limiter'[l] \in Limiter
  <2>1. CASE Used(l)
    <3>1. limiter'[l] = [idle |-> Older(limiter[l].idle),
                         bucket |-> [k \in Kinds |-> Filling(limiter[l].bucket[k], k)]]
      BY <1>1, <2>1
    <3>2. [k \in Kinds |-> Filling(limiter[l].bucket[k], k)] \in [Kinds -> Nat]
      BY <1>5, CostFull
    <3> QED BY <1>4, <2>1, <3>1, <3>2 DEF Limiter
  <2>2. CASE ~Used(l)
    <3>1. limiter'[l] = New /\ limiter[l] = New BY <1>1, <2>2 DEF IInv, UnusedNew
    <3>2. New.bucket = [k \in Kinds |-> Filling(New.bucket[k], k)]
      BY <1>5, NewLimiter DEF New
    <3> QED BY <2>2, <3>1, <3>2, NewLimiter
  <2> QED BY <2>1, <2>2
<1>7. ASSUME NEW c \in Waiting
      PROVE  /\ call[c] \in Call /\ call'[c] \in Call /\ c \in Calls
             /\ call'[c].ip = call[c].ip /\ call'[c].limiter = call[c].limiter
             /\ call'[c].stall = call[c].stall + 1
  <2>1. c \in Calls /\ call[c] \in Call BY <1>3 DEF Waiting
  <2>2. call'[c] = [call[c] EXCEPT !.stall = @ + 1] BY <1>1, <2>1
  <2>3. call[c].stall \in 0..MaxStall /\ call[c].stall < MaxStall BY <1>1, <2>1 DEF Call
  <2> QED BY <2>1, <2>2, <2>3, LimitAssumption DEF Call
<1>8. /\ call' \in [Calls -> Call \cup {NoCall}] /\ Waiting' = Waiting
  <2>1. ASSUME NEW c \in Calls PROVE call'[c] \in Call \cup {NoCall} /\ (call'[c] # NoCall <=> c \in Waiting)
    BY <1>1, <1>7, NoCallAssumption
  <2>2. call' \in [Calls -> Call \cup {NoCall}] BY <1>1, <2>1
  <2> QED BY <2>1, <2>2 DEF Waiting
<1>9. watch' \in Watch /\ watch'.ip = watch.ip /\ watch'.kind = watch.kind
      /\ \/ watch'.granted = watch.granted /\ watch'.span = watch.span + 1
         \/ watch'.granted = 0 /\ watch'.span = 0
  <2>1. /\ watch.ip \in Clients /\ watch.kind \in Kinds /\ watch.granted \in Nat
        /\ watch.span \in 0..MaxSpan /\ MaxSpan \in Nat
    BY <1>3, LimitAssumption DEF Watch
  <2>2. CASE watch.span < MaxSpan
    <3>1. watch' = [watch EXCEPT !.span = @ + 1] BY <1>1, <2>2
    <3>2. watch.span + 1 \in 0..MaxSpan BY <2>1, <2>2
    <3> QED BY <1>3, <3>1, <3>2 DEF Watch
  <2>3. CASE ~(watch.span < MaxSpan)
    <3>1. watch' = [watch EXCEPT !.span = 0, !.granted = 0] BY <1>1, <2>3
    <3>2. watch' = [ip |-> watch.ip, kind |-> watch.kind, granted |-> 0, span |-> 0]
      BY <1>3, <3>1 DEF Watch
    <3> QED BY <2>1, <3>2 DEF Watch
  <2> QED BY <2>2, <2>3
<1>10. TypeOK'
  <2>1. limiter' \in [Limiters -> Limiter] BY <1>1, <1>6
  <2>2. \A l \in Limiters, k \in Kinds : limiter'[l].bucket[k] \in 0..Full(k) BY <1>5, <1>6
  <2> QED BY <1>1, <1>2, <1>8, <1>9, <2>1, <2>2 DEF TypeOK
<1>11. UnusedNew'
  <2>1. ASSUME NEW l \in Limiters, Used(l) PROVE Used(l)'
    BY <1>1, <1>7, <1>8, <2>1 DEF Used
  <2> QED BY <1>1, <2>1 DEF UnusedNew
<1>12. InHandKept' /\ InHandSeen'
  <2> SUFFICES ASSUME NEW c \in Waiting
               PROVE  /\ clients'[call'[c].ip] = call'[c].limiter
                      /\ limiter'[call'[c].limiter].idle <= call'[c].stall
    BY <1>8 DEF InHandKept, InHandSeen
  <2>1. PICK l \in Limiters : call[c].limiter = l BY <1>7 DEF Call
  <2>2. limiter[l].idle <= call[c].stall /\ clients[call[c].ip] = l /\ call[c].stall \in Nat
    BY <1>7, <2>1, LimitAssumption DEF IInv, InHandKept, InHandSeen, Call
  <2>3. call'[c].ip = call[c].ip /\ call'[c].limiter = l /\ call'[c].stall = call[c].stall + 1
    BY <1>7, <2>1
  <2>4. clients'[call'[c].ip] = call'[c].limiter BY <1>1, <2>2, <2>3
  <2>5. limiter'[l].idle \in Nat /\ limiter'[l].idle <= limiter[l].idle + 1 /\ limiter[l].idle \in Nat
    <3>1. /\ limiter[l].idle \in Nat /\ Older(limiter[l].idle) \in Nat
          /\ Older(limiter[l].idle) <= limiter[l].idle + 1
      BY <1>4, LimitAssumption
    <3>2. limiter'[l].idle = Older(limiter[l].idle) \/ limiter'[l].idle = 0 BY <1>6
    <3> QED BY <3>1, <3>2
  <2>6. limiter'[l].idle <= call[c].stall + 1 BY <2>2, <2>5
  <2> QED BY <2>3, <2>4, <2>6
<1>13. FullWhenIdle'
  <2> SUFFICES ASSUME NEW l \in Limiters, NEW k \in Kinds
               PROVE  \/ limiter'[l].bucket[k] = Full(k)
                      \/ limiter'[l].idle <= limiter'[l].bucket[k] + MaxStall
    BY DEF FullWhenIdle
  <2>1. limiter'[l].bucket[k] = Filling(limiter[l].bucket[k], k) BY <1>6
  <2>2. limiter[l].bucket[k] = Full(k) \/ limiter[l].idle <= limiter[l].bucket[k] + MaxStall
    BY DEF IInv, FullWhenIdle
  <2>3. limiter[l].bucket[k] \in Nat /\ limiter'[l].idle <= limiter[l].idle + 1
        /\ limiter'[l].idle \in Nat /\ limiter[l].idle \in Nat
    <3>1. limiter[l].bucket[k] \in Nat /\ limiter[l].idle \in Nat
          /\ Older(limiter[l].idle) \in Nat /\ Older(limiter[l].idle) <= limiter[l].idle + 1
      BY <1>4, LimitAssumption
    <3>2. limiter'[l].idle = Older(limiter[l].idle) \/ limiter'[l].idle = 0 BY <1>6
    <3> QED BY <3>1, <3>2
  <2> QED BY <1>5, <2>1, <2>2, <2>3, LimitAssumption
<1>14. ASSUME NEW i \in Clients PROVE Level(i)' = [k \in Kinds |-> Filling(Level(i)[k], k)]
  <2>1. CASE clients[i] = NoLimiter
    <3>1. Level(i)' = New.bucket /\ Level(i) = New.bucket BY <1>1, <2>1 DEF Level
    <3>2. ASSUME NEW k \in Kinds PROVE Filling(Full(k), k) = Full(k) BY CostFull DEF Filling
    <3> QED BY <3>1, <3>2, NewLimiter DEF New
  <2>2. CASE clients[i] # NoLimiter
    <3>1. PICK l \in Limiters : clients[i] = l BY <1>3, <2>2
    <3>2. Level(i)' = limiter'[l].bucket /\ Level(i) = limiter[l].bucket
      BY <1>1, <2>2, <3>1 DEF Level
    <3> QED BY <1>6, <3>2
  <2> QED BY <2>1, <2>2
<1>15. Ledger'
  <2>1. PICK wi \in Clients, wk \in Kinds : watch.ip = wi /\ watch.kind = wk BY <1>3 DEF Watch
  <2>2. watch.granted * Cost(wk) + Level(wi)[wk] <= Full(wk) + watch.span
    BY <2>1 DEF IInv, Ledger
  <2>3. Level(wi)[wk] \in 0..Full(wk)
    BY <1>2, <1>3, NewLimiter, CostFull DEF Level, TypeOK
  <2>4. Level(wi)'[wk] \in 0..Full(wk) /\ Level(wi)'[wk] <= Level(wi)[wk] + 1
    BY <1>14, <2>3, CostFull DEF Filling
  <2>5. watch.granted \in Nat /\ watch.span \in Nat /\ Cost(wk) \in Nat /\ Full(wk) \in Nat
    BY <1>3, CostFull, LimitAssumption DEF Watch
  <2>6. watch'.granted * Cost(wk) + Level(wi)'[wk] <= Full(wk) + watch'.span
    <3>1. CASE watch'.granted = watch.granted /\ watch'.span = watch.span + 1
      <4>1. watch.granted * Cost(wk) \in Nat BY <2>5
      <4> QED BY <2>2, <2>3, <2>4, <2>5, <3>1, <4>1
    <3>2. CASE watch'.granted = 0 /\ watch'.span = 0
      <4>1. 0 * Cost(wk) = 0 BY <2>5
      <4> QED BY <2>4, <2>5, <3>2, <4>1
    <3> QED BY <1>9, <3>1, <3>2
  <2> QED BY <1>9, <2>1, <2>6 DEF Ledger, Cost, Full
<1> QED BY <1>10, <1>11, <1>12, <1>13, <1>14, <1>15 DEF IInv

\* What an observer does disturbs nobody, and it begins with a bucket that is not over-full.
LEMMA ObserveKeeps ==
    ASSUME IInv, Observe
    PROVE  IInv' /\ \A i \in Clients : Level(i)' = Level(i)
<1>1. /\ clients' = clients /\ limiter' = limiter /\ call' = call
      /\ watch' \in [ip : Clients, kind : Kinds, granted : {0}, span : {0}]
  BY DEF Observe
<1>2. \A i \in Clients : Level(i)' = Level(i) BY <1>1 DEF Level
<1>3. TypeOK' BY <1>1, LimitAssumption DEF IInv, TypeOK, Watch
<1>4. Ledger'
  <2>1. PICK wi \in Clients, wk \in Kinds :
          watch'.ip = wi /\ watch'.kind = wk /\ watch'.granted = 0 /\ watch'.span = 0
    BY <1>1
  <2>2. Level(wi)[wk] \in 0..Full(wk)
    BY NewLimiter, CostFull DEF IInv, Level, TypeOK
  <2>3. 0 * Cost(wk) + Level(wi)[wk] <= Full(wk) + 0 BY <2>2, CostFull
  <2> QED BY <1>2, <2>1, <2>3 DEF Ledger, Cost, Full
<1> QED
  BY <1>1, <1>2, <1>3, <1>4
  DEF IInv, UnusedNew, Used, Waiting, InHandKept, InHandSeen, FullWhenIdle

-----------------------------------------------------------------------------
(* The theorems                                                            *)

LEMMA InitInvariant ==
    ASSUME Init PROVE IInv
<1>1. TypeOK BY NewLimiter, LimitAssumption, CostFull DEF Init, TypeOK, Watch
<1>2. Waiting = {} /\ \A l \in Limiters : limiter[l] = New BY DEF Init, Waiting
<1>3. Ledger
  <2>1. PICK wi \in Clients, wk \in Kinds :
          watch.ip = wi /\ watch.kind = wk /\ watch.granted = 0 /\ watch.span = 0
    BY DEF Init
  <2>2. Level(wi)[wk] = Full(wk) BY NewLimiter DEF Init, Level
  <2>3. 0 * Cost(wk) + Full(wk) <= Full(wk) + 0 BY CostFull
  <2> QED BY <2>1, <2>2, <2>3 DEF Ledger
<1> QED
  BY <1>1, <1>2, <1>3, NewLimiter, LimitAssumption
  DEF IInv, UnusedNew, InHandKept, InHandSeen, FullWhenIdle

LEMMA NextInvariant ==
    ASSUME IInv, [Next]_vars PROVE IInv'
<1>1. CASE UNCHANGED vars
  BY <1>1
  DEF vars, IInv, TypeOK, UnusedNew, Used, Waiting, InHandKept, InHandSeen, FullWhenIdle, Ledger, Level
<1>2. CASE Next
  BY <1>2, GetLimiterKeepsLevels, AllowTakes, TickFills, ObserveKeeps DEF Next
<1> QED BY <1>1, <1>2

\* IInv is inductive.
THEOREM Invariant == Spec => []IInv
<1>1. Init => IInv BY InitInvariant
<1>2. IInv /\ [Next]_vars => IInv' BY NextInvariant
<1> QED BY <1>1, <1>2, PTL DEF Spec

\* Every variable keeps its type, and buckets neither overflow nor go into debt.
THEOREM TypeCorrect == Spec => []TypeOK
BY Invariant, PTL DEF IInv

\* A limiter is never dropped between getLimiter and Allow.
THEOREM LimiterInHandKept == Spec => []InHandKept
BY Invariant, PTL DEF IInv

\* In no span of time does a client get more than its burst and what the span brings.
THEOREM SpanBounded == Spec => []WindowBound
<1>1. IInv => WindowBound
  <2> SUFFICES ASSUME IInv PROVE WindowBound OBVIOUS
  <2>1. PICK wi \in Clients, wk \in Kinds : watch.ip = wi /\ watch.kind = wk
    BY DEF IInv, TypeOK, Watch
  <2>2. watch.granted \in Nat /\ watch.span \in Nat
    BY LimitAssumption DEF IInv, TypeOK, Watch
  <2>3. Level(wi)[wk] \in 0..Full(wk)
    BY NewLimiter, CostFull DEF IInv, Level, TypeOK
  <2>4. watch.granted * Cost(wk) + Level(wi)[wk] <= Full(wk) + watch.span
    BY <2>1 DEF IInv, Ledger
  <2>5. watch.granted * Cost(wk) \in Nat BY <2>2, CostFull
  <2> QED BY <2>1, <2>2, <2>3, <2>4, <2>5, CostFull DEF WindowBound
<1> QED BY <1>1, Invariant, PTL

\* Dropping limiters is not noticed: RateLimit implements TokenBuckets.
THEOREM Implements == Spec => NeverForgotten
<1> DEFINE levels == [ip \in Clients |-> Level(ip)]
<1>1. Init => Promise!Init
  BY DEF Init, Level, Promise!Init, Promise!Filled, Promise!Full, Promise!Cost, New, Full, Cost
<1>2. IInv /\ [Next]_vars => [Promise!Next]_levels
  <2> SUFFICES ASSUME IInv, [Next]_vars PROVE [Promise!Next]_levels OBVIOUS
  <2>1. ASSUME \A i \in Clients : Level(i)' = Level(i) PROVE levels' = levels
    BY <2>1
  <2>2. CASE UNCHANGED vars BY <2>1, <2>2 DEF vars, Level
  <2>3. ASSUME NEW c \in Calls, GetLimiter(c) PROVE [Promise!Next]_levels
    BY <2>1, <2>3, GetLimiterKeepsLevels
  <2>4. ASSUME NEW c \in Calls, Allow(c) PROVE [Promise!Next]_levels
    <3>1. CASE \A i \in Clients : Level(i)' = Level(i) BY <2>1, <3>1
    <3>2. ASSUME NEW i \in Clients, NEW k \in Kinds, Level(i)[k] >= Cost(k),
                 \A j \in Clients : Level(j)' = IF j = i THEN [Level(j) EXCEPT ![k] = @ - Cost(k)]
                                                ELSE Level(j)
          PROVE  Promise!Next
      <4>1. Promise!Admit(i, k)
        BY <3>2 DEF Promise!Admit, Promise!AfterTake, Promise!Cost, Cost
      <4> QED BY <4>1 DEF Promise!Next
    <3> QED BY <2>4, <3>1, <3>2, AllowTakes
  <2>5. CASE Tick
    <3>1. Promise!Tick
      BY <2>5, TickFills
      DEF Promise!Tick, Promise!AfterTick, Promise!Full, Promise!Cost, Filling, Full, Cost
    <3> QED BY <3>1 DEF Promise!Next
  <2>6. CASE Observe BY <2>1, <2>6, ObserveKeeps
  <2> QED BY <2>2, <2>3, <2>4, <2>5, <2>6 DEF Next
<1> QED BY <1>1, <1>2, Invariant, PTL DEF Spec, NeverForgotten, Promise!Spec

=============================================================================
