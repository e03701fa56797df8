----------------------------- MODULE SessionsProofs -----------------------------
(***************************************************************************)
(* Proofs about Sessions, for any number of accounts, tokens, requests,    *)
(* changes and faults: which sessions a change of password, of role or the *)
(* deletion of an account ends, and that a refresh token is exchanged at   *)
(* most once, but for the overlaps the properties name.                    *)
(***************************************************************************)
EXTENDS Sessions, FiniteSetTheorems, TLAPS

\* Ids are drawn in turn, so nothing speaks of an account that is yet to come.
KnownIds ==
    /\ \A a \in Accounts : Exists(a) => a <= known
    /\ \A c \in Calls : call[c].id <= known

\* Whoever is to store a token has read the role of the account as it is.
StoredRole ==
    \A c \in Calls : call[c].pc \in {"reset", "store"} /\ Exists(call[c].id) =>
        call[c].role = user[call[c].id].role \/ call[c].stale

\* A change of password that has not revoked the sessions of the account yet.
Revoking(a) == \E d \in Calls : At(d, "revokeAll") /\ call[d].id = a

\* Its session goes by the password as it is, or has been overtaken by a change.
StoredPassword ==
    \A c \in Calls :
        call[c].pc \in {"reset", "revoke", "find", "store"} /\ Exists(call[c].id) =>
            \/ call[c].password = user[call[c].id].password
            \/ call[c].late \/ Revoking(call[c].id)

\* Only a refresh has a token in hand.
RefreshHolds == \A c \in Calls : call[c].token # NoToken => call[c].pc \in {"revoke", "find", "store"}

\* A token that is not shared has one holder, was not exchanged yet, and is revoked before
\* its holder goes on.
HeldOnce ==
    \A t \in Tokens : ~token[t].shared =>
        /\ token[t].exchanged = 0
        /\ \A c, d \in Calls : call[c].token = t /\ call[d].token = t => c = d
        /\ token[t].live => \A c \in Calls : call[c].token = t => call[c].pc = "revoke"

RowsInv ==
    /\ TypeOK /\ KnownIds /\ SessionsOfAccounts /\ RolesRefresh /\ StoredRole
    /\ OldSessionsEnd /\ StoredPassword

IInv == RowsInv /\ RefreshHolds /\ HeldOnce

-----------------------------------------------------------------------------
(* What the operators return.                                              *)

LEMMA IdleCall ==
    /\ Idle \in Call /\ Idle.pc = "idle" /\ Idle.id = 1 /\ Idle.token = NoToken
BY CountAssumption DEF Idle, Call, Accounts, Roles, Passwords

LEMMA GoneToken ==
    Gone \in Token /\ Gone.live = FALSE /\ Gone.shared = FALSE /\ Gone.exchanged = 0
BY CountAssumption DEF Gone, Token, Accounts, Roles, Passwords

\* A request that waits for a change of password to be revoked is one of the live.
LEMMA AccountIds ==
    /\ \A a \in Accounts : a \in Nat /\ a >= 1 /\ a <= MaxAccounts
    /\ \A a \in Nat : a >= 1 /\ a <= MaxAccounts => a \in Accounts
    /\ 0 \in Passwords /\ Passwords \subseteq Nat /\ 1 \in Accounts
BY CountAssumption DEF Accounts, Passwords

\* Deleting rows keeps the others as they were, and forgets what nobody has in hand.
LEMMA DeleteFacts ==
    ASSUME NEW rows \in [Tokens -> Token], NEW gone, NEW calls
    PROVE  /\ Delete(rows, gone, calls) \in [Tokens -> Token]
           /\ \A t \in Tokens :
                 LET row == Delete(rows, gone, calls)[t]
                 IN  /\ row.live => rows[t].live /\ t \notin gone /\ row = rows[t]
                     /\ t \in InHand(calls) => row.exchanged = rows[t].exchanged
                                               /\ row.shared = rows[t].shared
                     /\ \/ row.exchanged = rows[t].exchanged /\ row.shared = rows[t].shared
                        \/ row.exchanged = 0
                     /\ rows[t].live \/ t \in InHand(calls) \/ row = Gone
<1>1. ASSUME NEW t \in Tokens
      PROVE  LET row == Delete(rows, gone, calls)[t]
             IN  /\ row \in Token
                 /\ row.live => rows[t].live /\ t \notin gone /\ row = rows[t]
                 /\ t \in InHand(calls) => row.exchanged = rows[t].exchanged
                                           /\ row.shared = rows[t].shared
                 /\ \/ row.exchanged = rows[t].exchanged /\ row.shared = rows[t].shared
                    \/ row.exchanged = 0
                 /\ rows[t].live \/ t \in InHand(calls) \/ row = Gone
  <2> DEFINE row == Delete(rows, gone, calls)[t]
  <2>1. rows[t] \in Token OBVIOUS
  <2>2. row = IF rows[t].live /\ t \notin gone THEN rows[t]
              ELSE IF t \in InHand(calls) THEN [rows[t] EXCEPT !.live = FALSE] ELSE Gone
    BY DEF Delete
  <2>3. CASE rows[t].live /\ t \notin gone BY <2>1, <2>2, <2>3
  <2>4. CASE ~(rows[t].live /\ t \notin gone) /\ t \in InHand(calls)
    <3>1. row = [rows[t] EXCEPT !.live = FALSE] BY <2>2, <2>4
    <3>2. /\ row \in Token /\ row.live = FALSE /\ row.exchanged = rows[t].exchanged
          /\ row.shared = rows[t].shared
      BY <2>1, <3>1 DEF Token
    <3> QED BY <2>4, <3>2
  <2>5. CASE ~(rows[t].live /\ t \notin gone) /\ t \notin InHand(calls)
    BY <2>2, <2>5, GoneToken
  <2> QED BY <2>3, <2>4, <2>5
<1>2. Delete(rows, gone, calls) \in [Tokens -> Token]
  BY <1>1 DEF Delete
<1> QED BY <1>1, <1>2

-----------------------------------------------------------------------------
(* The rows.  Most steps change neither an account, but for its lock, nor  *)
(* what a session says; they move requests, or delete sessions.            *)

\* What a request may go on with.
Fit(r) ==
    /\ r \in Call /\ r.id <= known
    /\ r.pc \in {"reset", "store"} /\ Exists(r.id) => r.role = user[r.id].role \/ r.stale
    /\ r.pc \in {"reset", "revoke", "find", "store"} /\ Exists(r.id) =>
          r.password = user[r.id].password \/ r.late \/ Revoking(r.id)

SameAccounts ==
    \A a \in Accounts : /\ user'[a].exists = user[a].exists /\ user'[a].role = user[a].role
                        /\ user'[a].password = user[a].password

\* What a session may say when it begins.
FitRow(row) ==
    /\ Exists(row.owner)
    /\ row.role = user[row.owner].role \/ row.stale
    /\ row.password = user[row.owner].password \/ row.late \/ Revoking(row.owner)

FewerSessions ==
    \A t \in Tokens : token'[t].live => FitRow(token'[t]) \/
        /\ token[t].live /\ token'[t].owner = token[t].owner
        /\ token'[t].role = token[t].role /\ token'[t].password = token[t].password
        /\ token'[t].late = token[t].late /\ token'[t].stale = token[t].stale

LEMMA QuietStep ==
    ASSUME RowsInv, user' \in [Accounts -> User], token' \in [Tokens -> Token],
           call' \in [Calls -> Call], faults' \in 0..MaxFaults, guesses' \in Nat,
           known' = known, changes' = changes, SameAccounts, FewerSessions,
           \A d \in Calls : call'[d] = call[d] \/ Fit(call'[d]),
           \A d \in Calls : call[d].pc = "revokeAll" => call'[d] = call[d]
    PROVE  RowsInv'
<1>1. \A a \in Accounts : Exists(a)' = Exists(a) BY DEF SameAccounts, Exists
<1>2. \A a \in Accounts : Revoking(a) => Revoking(a)' BY DEF Revoking, At
<1>3. \A d \in Calls : call[d].id \in Accounts /\ call'[d].id \in Accounts
  BY DEF RowsInv, TypeOK, Call
<1>4. \A t \in Tokens : token[t].owner \in Accounts /\ token'[t].owner \in Accounts
  BY DEF RowsInv, TypeOK, Token
<1>5. ASSUME NEW t \in Live'
      PROVE  \E a \in Accounts :
                /\ t \in Tokens /\ token'[t].owner = a /\ Exists(a)
                /\ token'[t].role = user[a].role \/ token'[t].stale
                /\ token'[t].password = user[a].password \/ token'[t].late \/ Revoking(a)
  <2>1. PICK a \in Accounts : token'[t].owner = a /\ t \in Tokens /\ token'[t].live
    BY <1>4 DEF Live
  <2>2. CASE FitRow(token'[t]) BY <2>1, <2>2 DEF FitRow
  <2>3. CASE ~FitRow(token'[t])
    <3>1. /\ t \in Live /\ token[t].owner = a
          /\ token'[t].role = token[t].role /\ token'[t].password = token[t].password
          /\ token'[t].late = token[t].late /\ token'[t].stale = token[t].stale
      BY <2>1, <2>3 DEF FewerSessions, Live
    <3>2. Exists(a) /\ (token[t].role = user[a].role \/ token[t].stale)
      BY <3>1 DEF RowsInv, SessionsOfAccounts, RolesRefresh
    <3>3. token[t].password = user[a].password \/ token[t].late \/ Revoking(a)
      BY <3>1 DEF RowsInv, OldSessionsEnd, Revoking
    <3> QED BY <2>1, <3>1, <3>2, <3>3
  <2> QED BY <2>2, <2>3
<1>6. TypeOK' BY <1>1 DEF RowsInv, TypeOK
<1>7. KnownIds' BY <1>1, <1>3 DEF RowsInv, KnownIds, Fit
<1>8. SessionsOfAccounts' BY <1>1, <1>5 DEF SessionsOfAccounts
<1>9. RolesRefresh' BY <1>5 DEF RolesRefresh, SameAccounts
<1>10. StoredRole'
  <2> SUFFICES ASSUME NEW d \in Calls, call'[d].pc \in {"reset", "store"},
                      user'[call'[d].id].exists
               PROVE  call'[d].role = user'[call'[d].id].role \/ call'[d].stale
    BY DEF StoredRole, Exists
  <2>1. PICK a \in Accounts : call'[d].id = a BY <1>3
  <2>2. user[a].exists /\ user'[a].role = user[a].role BY <2>1 DEF SameAccounts
  <2> QED BY <2>1, <2>2 DEF RowsInv, StoredRole, Fit, Exists
<1>11. OldSessionsEnd'
  <2> SUFFICES ASSUME NEW t \in Live'
               PROVE  \E a \in Accounts :
                        /\ token'[t].owner = a
                        /\ token'[t].password = user'[a].password \/ token'[t].late \/ Revoking(a)'
    BY DEF OldSessionsEnd, Revoking
  <2> QED BY <1>2, <1>5 DEF SameAccounts
<1>12. StoredPassword'
  <2> SUFFICES ASSUME NEW d \in Calls, user'[call'[d].id].exists,
                      call'[d].pc \in {"reset", "revoke", "find", "store"}
               PROVE  \E a \in Accounts :
                        /\ call'[d].id = a
                        /\ \/ call'[d].password = user'[a].password
                           \/ call'[d].late \/ Revoking(a)'
    BY DEF StoredPassword, Revoking, Exists
  <2>1. PICK a \in Accounts : call'[d].id = a BY <1>3
  <2>2. user[a].exists /\ user'[a].password = user[a].password
    BY <2>1 DEF SameAccounts
  <2>3. call'[d].password = user[a].password \/ call'[d].late \/ Revoking(a)
    BY <2>1, <2>2 DEF RowsInv, StoredPassword, Fit, Exists
  <2> QED BY <1>2, <2>1, <2>2, <2>3
<1> QED BY <1>6, <1>7, <1>8, <1>9, <1>10, <1>11, <1>12 DEF RowsInv

-----------------------------------------------------------------------------
(* The tokens in hand.                                                     *)

\* Requests put tokens down, or go on once theirs is revoked, or known to be shared.
LEMMA HandsStep ==
    ASSUME IInv,
           \A d \in Calls :
              \/ call'[d].token = NoToken
              \/ /\ call'[d].token = call[d].token /\ call'[d].pc \in {"revoke", "find", "store"}
                 /\ \/ call'[d].pc = "revoke" /\ call[d].pc = "revoke"
                    \/ call[d].pc # "revoke"
                    \/ call[d].token \in Tokens =>
                          ~token'[call[d].token].live \/ token'[call[d].token].shared,
           \A t \in Tokens : token'[t].live => token[t].live,
           \A t \in Tokens : ~token'[t].shared =>
              token'[t].exchanged = 0 /\ (~token[t].shared \/ \A d \in Calls : call'[d].token # t)
    PROVE  RefreshHolds' /\ HeldOnce'
<1>1. NoToken \notin Tokens BY CountAssumption
<1>2. RefreshHolds' BY DEF RefreshHolds
<1>3. ASSUME NEW t \in Tokens, ~token'[t].shared
      PROVE  /\ token'[t].exchanged = 0
             /\ \A c, d \in Calls : call'[c].token = t /\ call'[d].token = t => c = d
             /\ token'[t].live => \A c \in Calls : call'[c].token = t => call'[c].pc = "revoke"
  <2>1. \A d \in Calls : call'[d].token = t => call[d].token = t BY <1>1
  <2>2. CASE \A d \in Calls : call'[d].token # t BY <1>3, <2>2
  <2>3. CASE ~token[t].shared
    <3>1. /\ \A c, d \in Calls : call[c].token = t /\ call[d].token = t => c = d
          /\ token[t].live => \A c \in Calls : call[c].token = t => call[c].pc = "revoke"
      BY <2>3 DEF IInv, HeldOnce
    <3>2. ASSUME token'[t].live, NEW c \in Calls, call'[c].token = t PROVE call'[c].pc = "revoke"
      BY <1>1, <1>3, <2>1, <3>1, <3>2
    <3> QED BY <1>3, <2>1, <3>1, <3>2
  <2> QED BY <1>3, <2>2, <2>3
<1> QED BY <1>2, <1>3 DEF HeldOnce

\* One request goes on, and has no token in hand; no row of the table of tokens changes.
LEMMA HandsEmptyStep ==
    ASSUME IInv, token' = token, \A d \in Calls : call'[d].token = NoToken \/ call'[d] = call[d]
    PROVE  RefreshHolds' /\ HeldOnce'
BY HandsStep DEF IInv, HeldOnce, RefreshHolds

\* Deleting rows ends sessions, and forgets the tokens that nobody has in hand any more.
LEMMA DeletedRows ==
    ASSUME IInv, NEW gone, token' = Delete(token, gone, call')
    PROVE  /\ token' \in [Tokens -> Token] /\ FewerSessions
           /\ \A s \in Tokens : token'[s].live => token[s].live /\ s \notin gone
                                              /\ token'[s] = token[s]
           /\ \A s \in Tokens : ~token'[s].shared =>
                 token'[s].exchanged = 0 /\ (~token[s].shared \/ \A d \in Calls : call'[d].token # s)
<1>1. PICK calls : calls = call' OBVIOUS
<1>2. token' = Delete(token, gone, calls) /\ token \in [Tokens -> Token]
  BY <1>1 DEF IInv, RowsInv, TypeOK
<1>3. /\ token' \in [Tokens -> Token]
      /\ \A s \in Tokens :
            /\ token'[s].live => token[s].live /\ s \notin gone /\ token'[s] = token[s]
            /\ s \in InHand(calls) => token'[s].exchanged = token[s].exchanged
                                      /\ token'[s].shared = token[s].shared
            /\ \/ token'[s].exchanged = token[s].exchanged /\ token'[s].shared = token[s].shared
               \/ token'[s].exchanged = 0
  BY <1>2, DeleteFacts
<1>4. \A s \in Tokens : s \notin InHand(calls) => \A d \in Calls : call'[d].token # s
  BY <1>1 DEF InHand
<1> QED BY <1>3, <1>4 DEF FewerSessions, IInv, HeldOnce

-----------------------------------------------------------------------------
(* Each step keeps the invariant.                                          *)

LEMMA Moved ==
    ASSUME TypeOK, NEW c \in Calls, NEW r \in Call, call' = [call EXCEPT ![c] = r]
    PROVE  /\ call' \in [Calls -> Call] /\ call'[c] = r
           /\ \A d \in Calls : d # c => call'[d] = call[d]
BY DEF TypeOK

LEMMA IdleFits ==
    ASSUME RowsInv PROVE Fit(Idle)
BY IdleCall, AccountIds DEF Fit, RowsInv, TypeOK

\* A request that changes no row goes on with what it may.
LEMMA ReadStep ==
    ASSUME IInv, NEW c \in Calls, NEW r \in Call, call' = [call EXCEPT ![c] = r], Fit(r),
           r.token = NoToken, call[c].pc # "revokeAll", guesses' \in Nat,
           UNCHANGED <<user, known, token, changes, faults>>
    PROVE  IInv'
<1>1. /\ call' \in [Calls -> Call] /\ call'[c] = r
      /\ \A d \in Calls : d # c => call'[d] = call[d]
  BY Moved DEF IInv, RowsInv
<1>2. RowsInv'
  BY <1>1, QuietStep DEF IInv, RowsInv, TypeOK, SameAccounts, FewerSessions
<1>3. RefreshHolds' /\ HeldOnce' BY <1>1, HandsEmptyStep
<1> QED BY <1>2, <1>3 DEF IInv

LEMMA LoginReadKeeps ==
    ASSUME IInv, NEW c \in Calls, LoginRead(c) PROVE IInv'
<1>1. PICK a \in Accounts :
        /\ call[c].pc = "idle" /\ Exists(a) /\ ~user[a].locked
        /\ \/ /\ call' = [call EXCEPT ![c] =
                     [Idle EXCEPT !.pc = IF user[a].failed > 0 THEN "reset" ELSE "store",
                                  !.id = a, !.role = user[a].role, !.password = user[a].password]]
              /\ UNCHANGED guesses
           \/ /\ call' = [call EXCEPT ![c] = [Idle EXCEPT !.pc = "increment", !.id = a,
                                                         !.reached = Reached(user[a].failed)]]
              /\ guesses' = guesses + 1
        /\ UNCHANGED <<user, known, token, changes, faults>>
  BY DEF LoginRead, At
<1>2. a <= known /\ user[a] \in User /\ guesses' \in Nat
  BY <1>1 DEF IInv, RowsInv, TypeOK, KnownIds
<1>3. CASE call' = [call EXCEPT ![c] =
              [Idle EXCEPT !.pc = IF user[a].failed > 0 THEN "reset" ELSE "store",
                           !.id = a, !.role = user[a].role, !.password = user[a].password]]
  <2> DEFINE r == [Idle EXCEPT !.pc = IF user[a].failed > 0 THEN "reset" ELSE "store",
                               !.id = a, !.role = user[a].role, !.password = user[a].password]
  <2>1. /\ r \in Call /\ r.id = a /\ r.role = user[a].role
        /\ r.password = user[a].password /\ r.token = NoToken
    BY <1>2, IdleCall DEF Idle, Call, User
  <2>2. Fit(r) BY <1>2, <2>1 DEF Fit
  <2> QED BY <1>1, <1>2, <1>3, <2>1, <2>2, ReadStep
<1>4. CASE call' = [call EXCEPT ![c] = [Idle EXCEPT !.pc = "increment", !.id = a,
                                                  !.reached = Reached(user[a].failed)]]
  <2> DEFINE r == [Idle EXCEPT !.pc = "increment", !.id = a, !.reached = Reached(user[a].failed)]
  <2>0. Reached(user[a].failed) \in BOOLEAN BY <1>2, CountAssumption DEF Reached, User
  <2>1. r \in Call /\ r.id = a /\ r.pc = "increment" /\ r.token = NoToken
    BY <2>0, IdleCall DEF Idle, Call
  <2>2. Fit(r) BY <1>2, <2>1 DEF Fit
  <2> QED BY <1>1, <1>2, <1>4, <2>1, <2>2, ReadStep
<1> QED BY <1>1, <1>3, <1>4

\* The count, or the lock, of one account, and where one request is.
LEMMA LockStep ==
    ASSUME IInv, NEW c \in Calls, NEW r \in Call, call' = [call EXCEPT ![c] = r], Fit(r),
           r.token = NoToken, call[c].pc # "revokeAll", guesses' \in Nat, faults' \in 0..MaxFaults,
           UNCHANGED <<known, token, changes>>, NEW a \in Accounts, NEW row \in User,
           row.exists = user[a].exists, row.role = user[a].role, row.password = user[a].password,
           user' \in {user, [user EXCEPT ![a] = row]}
    PROVE  IInv'
<1>1. /\ call' \in [Calls -> Call] /\ call'[c] = r
      /\ \A d \in Calls : d # c => call'[d] = call[d]
  BY Moved DEF IInv, RowsInv
<1>2. user' \in [Accounts -> User] /\ SameAccounts BY DEF IInv, RowsInv, TypeOK, SameAccounts
<1>3. RowsInv' BY <1>1, <1>2, QuietStep DEF IInv, RowsInv, TypeOK, FewerSessions
<1>4. RefreshHolds' /\ HeldOnce' BY <1>1, HandsEmptyStep
<1> QED BY <1>3, <1>4 DEF IInv

\* A fault is counted.
LEMMA Faults ==
    ASSUME TypeOK, NoFault \/ Fault PROVE faults' \in 0..MaxFaults
BY CountAssumption DEF TypeOK, NoFault, Fault

LEMMA LoginCountKeeps ==
    ASSUME IInv, NEW c \in Calls, LoginIncrement(c) \/ LoginLock(c) \/ LoginReset(c)
    PROVE  IInv'
<1>1. /\ call \in [Calls -> Call] /\ call[c] \in Call /\ call[c].id \in Accounts
      /\ call[c].pc \in {"increment", "lock", "reset"}
  BY DEF IInv, RowsInv, TypeOK, Call, LoginIncrement, LoginLock, LoginReset, At
<1> DEFINE a == call[c].id
<1>2. user \in [Accounts -> User] /\ user[a] \in User /\ NoToken \notin Tokens
      /\ call[c].token = NoToken
  BY <1>1, CountAssumption DEF IInv, RowsInv, TypeOK, RefreshHolds
<1>3. faults' \in 0..MaxFaults /\ guesses' \in Nat /\ UNCHANGED <<known, token, changes>>
  BY Faults DEF IInv, RowsInv, TypeOK, LoginIncrement, LoginLock, LoginReset
<1>4. PICK row \in User :
        /\ row.exists = user[a].exists /\ row.role = user[a].role
        /\ row.password = user[a].password /\ user' \in {user, [user EXCEPT ![a] = row]}
  <2>1. /\ [user[a] EXCEPT !.failed = @ + 1] \in User
        /\ [user[a] EXCEPT !.locked = TRUE] \in User
        /\ [user[a] EXCEPT !.failed = 0, !.locked = FALSE] \in User
    <3>1. /\ user[a].failed + 1 \in Nat /\ 0 \in Nat
          /\ TRUE \in BOOLEAN /\ FALSE \in BOOLEAN
      BY <1>2 DEF User
    <3>2. [user[a] EXCEPT !.failed = @ + 1] \in User BY <1>2, <3>1 DEF User
    <3>3. [user[a] EXCEPT !.locked = TRUE] \in User BY <1>2, <3>1 DEF User
    <3>4. [user[a] EXCEPT !.failed = 0, !.locked = FALSE] \in User BY <1>2, <3>1 DEF User
    <3> QED BY <3>2, <3>3, <3>4
  <2>2. \/ user' = user
        \/ user' = [user EXCEPT ![a] = [user[a] EXCEPT !.failed = @ + 1]]
        \/ user' = [user EXCEPT ![a] = [user[a] EXCEPT !.locked = TRUE]]
        \/ user' = [user EXCEPT ![a] = [user[a] EXCEPT !.failed = 0, !.locked = FALSE]]
    BY <1>2 DEF LoginIncrement, LoginLock, LoginReset, Set
  <2> QED BY <1>2, <2>1, <2>2 DEF User
<1>5. PICK r \in Call : call' = [call EXCEPT ![c] = r] /\ Fit(r) /\ r.token = NoToken
  <2>1. /\ [call[c] EXCEPT !.pc = "lock"] \in Call /\ [call[c] EXCEPT !.pc = "store"] \in Call
    BY <1>1 DEF Call
  <2>2. \/ call' = [call EXCEPT ![c] = Idle]
        \/ call' = [call EXCEPT ![c] = [call[c] EXCEPT !.pc = "lock"]]
        \/ call[c].pc = "reset" /\ call' = [call EXCEPT ![c] = [call[c] EXCEPT !.pc = "store"]]
    BY <1>1 DEF LoginIncrement, LoginLock, LoginReset, GoTo, Answer, At
  <2>3. Fit(Idle) BY IdleFits DEF IInv
  <2>4. Fit([call[c] EXCEPT !.pc = "lock"]) BY <1>1, <2>1 DEF Fit, IInv, RowsInv, KnownIds, Call
  <2>5. call[c].pc = "reset" => Fit([call[c] EXCEPT !.pc = "store"])
    BY <1>1, <2>1 DEF Fit, IInv, RowsInv, KnownIds, StoredRole, StoredPassword, Call
  <2> QED BY <1>1, <1>2, <2>1, <2>2, <2>3, <2>4, <2>5, IdleCall DEF Call
<1> QED BY <1>1, <1>3, <1>4, <1>5, LockStep

LEMMA LockEndsKeeps ==
    ASSUME IInv, NEW a \in Accounts, LockEnds(a) PROVE IInv'
<1>1. /\ user' = [user EXCEPT ![a] = [user[a] EXCEPT !.locked = FALSE]] /\ guesses' = 0
      /\ UNCHANGED <<known, token, changes, call, faults>>
  BY DEF LockEnds, Set
<1>2. [user[a] EXCEPT !.locked = FALSE] \in User BY DEF IInv, RowsInv, TypeOK, User
<1>3. user' \in [Accounts -> User] /\ SameAccounts
  BY <1>1, <1>2 DEF IInv, RowsInv, TypeOK, SameAccounts, User
<1>4. RowsInv' BY <1>1, <1>3, QuietStep DEF IInv, RowsInv, TypeOK, FewerSessions
<1>5. RefreshHolds' /\ HeldOnce' BY <1>1, HandsEmptyStep
<1> QED BY <1>4, <1>5 DEF IInv

\* Sessions end, and one request goes on.
LEMMA EndStep ==
    ASSUME IInv, NEW c \in Calls, NEW r \in Call, call' = [call EXCEPT ![c] = r], Fit(r),
           call[c].pc # "revokeAll", token' \in [Tokens -> Token], FewerSessions,
           faults' \in 0..MaxFaults, UNCHANGED <<user, known, changes, guesses>>
    PROVE  RowsInv'
<1>1. /\ call' \in [Calls -> Call] /\ call'[c] = r
      /\ \A d \in Calls : d # c => call'[d] = call[d]
  BY Moved DEF IInv, RowsInv
<1> QED BY <1>1, QuietStep DEF IInv, RowsInv, TypeOK, SameAccounts

LEMMA RefreshValidateKeeps ==
    ASSUME IInv, NEW c \in Calls, RefreshValidate(c) PROVE IInv'
<1>1. PICK t \in Live :
        /\ call[c].pc = "idle"
        /\ call' = [call EXCEPT ![c] = [Idle EXCEPT !.pc = "revoke", !.id = token[t].owner,
                          !.role = token[t].role, !.password = token[t].password,
                          !.token = t, !.late = token[t].late]]
        /\ token' = [token EXCEPT ![t] = Seen(t)]
        /\ UNCHANGED <<user, known, changes, faults, guesses>>
  BY DEF RefreshValidate, At
<1>0. Validated(t) \in BOOLEAN BY DEF Validated
<1> DEFINE r == [Idle EXCEPT !.pc = "revoke", !.id = token[t].owner,
                             !.role = token[t].role, !.password = token[t].password,
                             !.token = t, !.late = token[t].late]
<1>2. /\ t \in Tokens /\ token[t].live /\ token[t] \in Token /\ token \in [Tokens -> Token]
      /\ NoToken \notin Tokens /\ call[c].token = NoToken
  BY <1>1, CountAssumption DEF Live, IInv, RowsInv, TypeOK, RefreshHolds
<1>3. /\ r \in Call /\ r.pc = "revoke" /\ r.id = token[t].owner /\ r.token = t
      /\ r.password = token[t].password /\ r.late = token[t].late
  BY <1>2, IdleCall DEF Idle, Call, Token
<1>4. token[t].owner <= known
  <2>1. token[t].owner \in Accounts /\ Exists(token[t].owner)
    BY <1>2 DEF Token, IInv, RowsInv, SessionsOfAccounts
  <2> QED BY <2>1 DEF IInv, RowsInv, KnownIds
<1>5. Fit(r)
  <2>1. token[t].password = user[token[t].owner].password \/ token[t].late
        \/ Revoking(token[t].owner)
    BY DEF IInv, RowsInv, OldSessionsEnd, Revoking
  <2> QED BY <1>3, <1>4, <2>1 DEF Fit
<1>6. /\ token' \in [Tokens -> Token] /\ \A s \in Tokens : s # t => token'[s] = token[s]
      /\ token'[t].live = token[t].live /\ token'[t].owner = token[t].owner
      /\ token'[t].role = token[t].role /\ token'[t].password = token[t].password
      /\ token'[t].late = token[t].late /\ token'[t].stale = token[t].stale
      /\ token'[t].exchanged = token[t].exchanged
      /\ ~token'[t].shared => ~token[t].shared /\ ~Validated(t)
  <2>1. token'[t] = [token[t] EXCEPT !.shared = @ \/ Validated(t)]
    BY <1>1, <1>2 DEF Seen
  <2>2. (token[t].shared \/ Validated(t)) \in BOOLEAN OBVIOUS
  <2>3. token'[t] \in Token BY <1>2, <2>1, <2>2 DEF Token
  <2>4. /\ token'[t].live = token[t].live /\ token'[t].owner = token[t].owner
        /\ token'[t].role = token[t].role /\ token'[t].password = token[t].password
        /\ token'[t].late = token[t].late /\ token'[t].stale = token[t].stale
        /\ token'[t].exchanged = token[t].exchanged
    BY <1>2, <2>1 DEF Token
  <2>5. ~token'[t].shared => ~token[t].shared /\ ~Validated(t)
    BY <1>2, <2>1 DEF Token
  <2> QED BY <1>1, <1>2, <2>3, <2>4, <2>5
<1>7. FewerSessions BY <1>6 DEF FewerSessions
<1>8. RowsInv' BY <1>1, <1>3, <1>5, <1>6, <1>7, EndStep DEF IInv, RowsInv, TypeOK
<1>9. /\ call'[c] = r /\ \A d \in Calls : d # c => call'[d] = call[d]
  BY <1>1, <1>3, Moved DEF IInv, RowsInv
<1>10. RefreshHolds' BY <1>3, <1>9 DEF IInv, RefreshHolds
<1>11. HeldOnce'
  <2> SUFFICES ASSUME NEW s \in Tokens, ~token'[s].shared
               PROVE  /\ token'[s].exchanged = 0
                      /\ \A b, d \in Calls : call'[b].token = s /\ call'[d].token = s => b = d
                      /\ token'[s].live => \A b \in Calls : call'[b].token = s =>
                                                           call'[b].pc = "revoke"
    BY DEF HeldOnce
  <2>1. CASE s # t
    <3>1. \A d \in Calls : call'[d].token = s => call'[d] = call[d] BY <1>3, <1>9, <2>1
    <3>2. token'[s] = token[s] BY <1>6, <2>1
    <3> QED BY <3>1, <3>2 DEF IInv, HeldOnce
  <2>2. CASE s = t
    <3>1. ~token[t].shared /\ \A d \in Calls : call[d].token # t
      BY <1>2, <1>6, <2>2 DEF IInv, HeldOnce, Validated, At
    <3>2. \A d \in Calls : call'[d].token = s => d = c BY <1>9, <2>2, <3>1
    <3>3. token[t].exchanged = 0 BY <1>2, <3>1 DEF IInv, HeldOnce
    <3> QED BY <1>3, <1>6, <1>9, <2>2, <3>2, <3>3
  <2> QED BY <2>1, <2>2
<1> QED BY <1>8, <1>10, <1>11 DEF IInv

LEMMA RefreshRevokeKeeps ==
    ASSUME IInv, NEW c \in Calls, RefreshRevoke(c) PROVE IInv'
<1> DEFINE t == call[c].token
           r == [call[c] EXCEPT !.pc = "find"]
<1>1. /\ call[c].pc = "revoke" /\ call' = [call EXCEPT ![c] = r]
      /\ token' = Delete(token, {t}, call')
         \/ token' = [token EXCEPT ![t] = [@ EXCEPT !.shared = TRUE]]
      /\ faults' \in 0..MaxFaults /\ UNCHANGED <<user, known, changes, guesses>>
  BY Faults DEF RefreshRevoke, At, GoTo, Revoked, IInv, RowsInv, TypeOK
<1>2. /\ call[c] \in Call /\ token \in [Tokens -> Token]
  BY DEF IInv, RowsInv, TypeOK
<1>3. /\ r \in Call /\ r.pc = "find" /\ r.id = call[c].id /\ r.token = call[c].token
      /\ r.password = call[c].password /\ r.late = call[c].late
  BY <1>2 DEF Call
<1>4. Fit(r) BY <1>1, <1>3 DEF Fit, IInv, RowsInv, KnownIds, StoredPassword
<1>5. /\ call'[c] = r /\ \A d \in Calls : d # c => call'[d] = call[d]
  BY <1>1, <1>3, Moved DEF IInv, RowsInv
<1>6. /\ token' \in [Tokens -> Token] /\ FewerSessions
      /\ t \in Tokens => ~token'[t].live \/ token'[t].shared
      /\ \A s \in Tokens : token'[s].live => token[s].live
      /\ \A s \in Tokens : ~token'[s].shared =>
            token'[s].exchanged = 0 /\ (~token[s].shared \/ \A d \in Calls : call'[d].token # s)
  <2>1. CASE token' = Delete(token, {t}, call')
    BY <2>1, DeletedRows
  <2>2. CASE token' = [token EXCEPT ![t] = [@ EXCEPT !.shared = TRUE]]
    <3>1. \A s \in Tokens : s # t => token'[s] = token[s] BY <1>2, <2>2
    <3>2. t \in Tokens => token'[t] = [token[t] EXCEPT !.shared = TRUE] BY <1>2, <2>2
    <3>3. t \in Tokens =>
            /\ token'[t] \in Token /\ token'[t].shared
            /\ token'[t].live = token[t].live /\ token'[t].owner = token[t].owner
            /\ token'[t].role = token[t].role /\ token'[t].password = token[t].password
            /\ token'[t].late = token[t].late /\ token'[t].stale = token[t].stale
      BY <1>2, <3>2 DEF Token
    <3>4. token' \in [Tokens -> Token] BY <1>2, <2>2, <3>1, <3>3
    <3>5. FewerSessions BY <3>1, <3>3 DEF FewerSessions
    <3> QED BY <3>1, <3>3, <3>4, <3>5 DEF IInv, HeldOnce
  <2> QED BY <1>1, <2>1, <2>2
<1>7. RowsInv' BY <1>1, <1>3, <1>4, <1>6, EndStep
<1>8. \A d \in Calls :
        \/ call'[d].token = NoToken
        \/ /\ call'[d].token = call[d].token /\ call'[d].pc \in {"revoke", "find", "store"}
           /\ \/ call'[d].pc = "revoke" /\ call[d].pc = "revoke"
              \/ call[d].pc # "revoke"
              \/ call[d].token \in Tokens =>
                    ~token'[call[d].token].live \/ token'[call[d].token].shared
  BY <1>1, <1>3, <1>5, <1>6 DEF IInv, RefreshHolds
<1>9. RefreshHolds' /\ HeldOnce' BY <1>6, <1>8, HandsStep
<1> QED BY <1>7, <1>9 DEF IInv

\* A request that answers puts its token down.
LEMMA AnswerStep ==
    ASSUME IInv, NEW c \in Calls, Answer(c), call[c].pc # "revokeAll",
           token' = Delete(token, {}, call'), faults' \in 0..MaxFaults,
           UNCHANGED <<user, known, changes, guesses>>
    PROVE  IInv'
<1>1. call' = [call EXCEPT ![c] = Idle] /\ Idle \in Call /\ Idle.token = NoToken
  BY IdleCall DEF Answer
<1>2. /\ call'[c] = Idle /\ \A d \in Calls : d # c => call'[d] = call[d]
  BY <1>1, Moved DEF IInv, RowsInv
<1>3. RowsInv' BY <1>1, DeletedRows, IdleFits, EndStep DEF IInv
<1>4. RefreshHolds' /\ HeldOnce'
  BY <1>1, <1>2, DeletedRows, HandsStep DEF IInv, RefreshHolds
<1> QED BY <1>3, <1>4 DEF IInv

LEMMA RefreshFindKeeps ==
    ASSUME IInv, NEW c \in Calls, RefreshFind(c) PROVE IInv'
<1> DEFINE r == [call[c] EXCEPT !.pc = "store", !.role = CurrentRole(c), !.stale = FALSE]
<1>1. /\ call[c].pc = "find" /\ faults' \in 0..MaxFaults
      /\ UNCHANGED <<user, known, changes, faults, guesses>>
      /\ \/ Exists(call[c].id) /\ call' = [call EXCEPT ![c] = r] /\ token' = token
         \/ Answer(c) /\ token' = Delete(token, {}, call')
  BY DEF RefreshFind, At, IInv, RowsInv, TypeOK
<1>2. CASE Exists(call[c].id) /\ call' = [call EXCEPT ![c] = r] /\ token' = token
  <2>1. call[c] \in Call /\ user[call[c].id] \in User
    BY DEF IInv, RowsInv, TypeOK, Call
  <2>2. CurrentRole(c) = user[call[c].id].role /\ CurrentRole(c) \in Roles
    BY <2>1 DEF CurrentRole, User
  <2>3. /\ r \in Call /\ r.pc = "store" /\ r.id = call[c].id /\ r.token = call[c].token
        /\ r.role = user[r.id].role /\ r.password = call[c].password /\ r.late = call[c].late
    BY <2>1, <2>2 DEF Call
  <2>4. Fit(r) BY <1>1, <2>3 DEF Fit, IInv, RowsInv, KnownIds, StoredPassword
  <2>5. /\ call'[c] = r /\ \A d \in Calls : d # c => call'[d] = call[d]
    BY <1>2, <2>3, Moved DEF IInv, RowsInv
  <2>6. token' \in [Tokens -> Token] /\ FewerSessions
    BY <1>2 DEF FewerSessions, IInv, RowsInv, TypeOK
  <2>7. RowsInv' BY <1>1, <1>2, <2>3, <2>4, <2>6, EndStep
  <2>8. RefreshHolds' /\ HeldOnce'
    BY <1>1, <1>2, <2>3, <2>5, HandsStep DEF IInv, RefreshHolds, HeldOnce
  <2> QED BY <2>7, <2>8 DEF IInv
<1>3. CASE Answer(c) /\ token' = Delete(token, {}, call')
  BY <1>1, <1>3, AnswerStep
<1> QED BY <1>1, <1>2, <1>3

LEMMA LogoutKeeps ==
    ASSUME IInv, NEW t \in Live, Logout(t) PROVE IInv'
<1>1. call' = call /\ token' = Delete(token, {t}, call') /\ UNCHANGED <<user, known, changes, faults, guesses>>
  BY DEF Logout
<1>2. /\ token' \in [Tokens -> Token] /\ FewerSessions
      /\ \A s \in Tokens : token'[s].live => token[s].live
      /\ \A s \in Tokens : ~token'[s].shared =>
            token'[s].exchanged = 0 /\ (~token[s].shared \/ \A d \in Calls : call'[d].token # s)
  BY <1>1, DeletedRows
<1>3. RowsInv' BY <1>1, <1>2, QuietStep DEF IInv, RowsInv, TypeOK, SameAccounts
<1>4. RefreshHolds' /\ HeldOnce' BY <1>1, <1>2, HandsStep DEF IInv, RefreshHolds
<1> QED BY <1>3, <1>4 DEF IInv

\* The new row.  The token it was exchanged for is forgotten, unless others hold it.
LEMMA StoreKeeps ==
    ASSUME IInv, NEW c \in Calls, Store(c) PROVE IInv'
<1>1. /\ call[c].pc = "store" /\ Answer(c) /\ UNCHANGED <<user, known, changes, guesses>>
      /\ faults' \in 0..MaxFaults
      /\ \/ /\ Exists(call[c].id)
            /\ \E t \in Tokens \ (Live \cup InHand(call)) : token' = Delete(Issued(c, t), {}, call')
         \/ token' = Delete(token, {}, call')
  BY Faults DEF Store, At, IInv, RowsInv
<1>2. CASE token' = Delete(token, {}, call') BY <1>1, <1>2, AnswerStep
<1>3. CASE /\ Exists(call[c].id)
           /\ \E t \in Tokens \ (Live \cup InHand(call)) : token' = Delete(Issued(c, t), {}, call')
  <2>1. PICK t \in Tokens \ (Live \cup InHand(call)) : token' = Delete(Issued(c, t), {}, call')
    BY <1>3
  <2>2. PICK calls : calls = call' OBVIOUS
  <2>3. /\ call[c] \in Call /\ token \in [Tokens -> Token] /\ Idle \in Call
        /\ call' = [call EXCEPT ![c] = Idle] /\ Idle.token = NoToken /\ NoToken \notin Tokens
    BY <1>1, IdleCall, CountAssumption DEF IInv, RowsInv, TypeOK, Answer
  <2>4. /\ call' \in [Calls -> Call] /\ call'[c] = Idle
        /\ \A d \in Calls : d # c => call'[d] = call[d]
    BY <2>3, Moved DEF IInv, RowsInv
  <2> DEFINE new == [Gone EXCEPT !.live = TRUE, !.owner = call[c].id, !.role = call[c].role,
                                 !.password = call[c].password,
                                 !.late = call[c].late, !.stale = call[c].stale]
             rows == Issued(c, t)
             old == call[c].token
  <2>5. /\ new \in Token /\ new.live /\ new.owner = call[c].id /\ new.role = call[c].role
        /\ new.password = call[c].password /\ new.late = call[c].late
        /\ new.stale = call[c].stale /\ ~new.shared /\ new.exchanged = 0
    BY <2>3, GoneToken DEF Gone, Token, Call
  <2>6. /\ rows[t] = new /\ \A s \in Tokens : s # t /\ s # old => rows[s] = token[s]
        /\ old \in Tokens /\ old # t => rows[old] = [token[old] EXCEPT !.exchanged = @ + 1]
    BY <2>1 DEF Issued
  <2>7. old \in Tokens /\ old # t =>
          /\ rows[old] \in Token /\ rows[old].live = token[old].live
          /\ rows[old].owner = token[old].owner /\ rows[old].role = token[old].role
          /\ rows[old].password = token[old].password /\ rows[old].late = token[old].late
          /\ rows[old].stale = token[old].stale /\ rows[old].shared = token[old].shared
    BY <2>3, <2>6 DEF Token
  <2>8. rows \in [Tokens -> Token]
    <3>1. \A s \in Tokens : rows[s] \in Token BY <2>3, <2>5, <2>6, <2>7
    <3> QED BY <3>1 DEF Issued
  <2>9. /\ token' \in [Tokens -> Token]
        /\ \A s \in Tokens :
              /\ token'[s].live => rows[s].live /\ token'[s] = rows[s]
              /\ s \in InHand(calls) => token'[s].exchanged = rows[s].exchanged
                                        /\ token'[s].shared = rows[s].shared
              /\ \/ token'[s].exchanged = rows[s].exchanged /\ token'[s].shared = rows[s].shared
                 \/ token'[s].exchanged = 0
              /\ rows[s].live \/ s \in InHand(calls) \/ token'[s] = Gone
    BY <2>1, <2>2, <2>8, DeleteFacts
  <2>10. \A s \in Tokens : s \in InHand(calls) <=> \E d \in Calls : call'[d].token = s
    BY <2>2 DEF InHand
  <2> HIDE DEF new, rows, old
  <2>11. t # old /\ \A d \in Calls : call[d].token # t BY <2>1 DEF InHand, old
  <2>12. \A s \in Tokens : s # t /\ token'[s].live =>
           /\ token[s].live /\ token'[s].owner = token[s].owner
           /\ token'[s].role = token[s].role /\ token'[s].password = token[s].password
           /\ token'[s].late = token[s].late /\ token'[s].stale = token[s].stale
    BY <2>6, <2>7, <2>9
  <2>13. token'[t].live => token'[t] = new BY <2>6, <2>9
  <2>14. FitRow(new)
    BY <1>1, <1>3, <2>3, <2>5 DEF FitRow, IInv, RowsInv, StoredRole, StoredPassword
  <2>15. FewerSessions BY <2>12, <2>13, <2>14 DEF FewerSessions
  <2>16. RowsInv' BY <1>1, <2>3, <2>9, <2>15, IdleFits, EndStep DEF IInv
  <2>17. RefreshHolds' BY <2>3, <2>4 DEF IInv, RefreshHolds
  <2>18. ASSUME NEW s \in Tokens, ~token'[s].shared
         PROVE  /\ token'[s].exchanged = 0
                /\ \A b, d \in Calls : call'[b].token = s /\ call'[d].token = s => b = d
                /\ token'[s].live => \A b \in Calls : call'[b].token = s => call'[b].pc = "revoke"
    <3>0. \A d \in Calls : call'[d].token = s => d # c /\ call'[d] = call[d] BY <2>3, <2>4
    <3>1. CASE s = t
      <4>1. \A d \in Calls : call'[d].token # t BY <2>3, <2>4, <2>11
      <4>2. token'[t].exchanged = 0 BY <2>5, <2>6, <2>9
      <4> QED BY <3>1, <4>1, <4>2
    <3>2. CASE s # t /\ \E d \in Calls : call'[d].token = s
      <4>1. /\ token'[s].exchanged = rows[s].exchanged /\ token'[s].shared = rows[s].shared
        BY <2>9, <2>10, <3>2
      <4>2. ~token[s].shared BY <2>6, <2>7, <3>2, <4>1, <2>18
      <4>3. s # old BY <3>0, <3>2, <4>2 DEF old, IInv, HeldOnce
      <4>4. rows[s] = token[s] BY <2>6, <3>2, <4>3
      <4>5. token'[s].live => token[s].live BY <2>9, <4>4
      <4> QED BY <3>0, <4>1, <4>2, <4>4, <4>5 DEF IInv, HeldOnce
    <3>3. CASE s # t /\ ~\E d \in Calls : call'[d].token = s
      <4>1. CASE s # old
        <5>1. rows[s] = token[s] BY <2>6, <3>3, <4>1
        <5>2. token'[s].exchanged = 0 BY <2>9, <2>18, <5>1 DEF IInv, HeldOnce
        <5> QED BY <3>3, <5>2
      <4>2. CASE s = old
        <5>1. ASSUME token[s].live PROVE token[s].shared
          BY <1>1, <4>2, <5>1 DEF old, IInv, HeldOnce
        <5>2. CASE token[s].live
          <6>1. rows[s].shared BY <2>7, <3>3, <4>2, <5>1, <5>2
          <6> QED BY <2>9, <2>18, <3>3, <6>1
        <5>3. CASE ~token[s].live
          <6>1. ~rows[s].live BY <2>7, <3>3, <4>2, <5>3
          <6>2. token'[s] = Gone BY <2>9, <2>10, <3>3, <6>1
          <6> QED BY <3>3, <6>2, GoneToken
        <5> QED BY <5>2, <5>3
      <4> QED BY <4>1, <4>2
    <3> QED BY <3>1, <3>2, <3>3
  <2> QED BY <2>16, <2>17, <2>18 DEF IInv, HeldOnce
<1> QED BY <1>1, <1>2, <1>3

LEMMA ChangeReadKeeps ==
    ASSUME IInv, NEW c \in Calls, ChangeRead(c) PROVE IInv'
<1>1. PICK a \in Accounts :
        /\ call[c].pc = "idle" /\ Exists(a)
        /\ call' = [call EXCEPT ![c] = [Idle EXCEPT !.pc = "update", !.id = a]]
        /\ UNCHANGED <<user, known, token, changes, faults, guesses>>
  BY DEF ChangeRead, At
<1> DEFINE r == [Idle EXCEPT !.pc = "update", !.id = a]
<1>2. r \in Call /\ r.id = a /\ r.pc = "update" /\ r.token = NoToken
  BY IdleCall DEF Idle, Call
<1>3. Fit(r) /\ guesses' \in Nat BY <1>1, <1>2 DEF Fit, IInv, RowsInv, TypeOK, KnownIds
<1> QED BY <1>1, <1>2, <1>3, ReadStep

LEMMA RegisterCheckKeeps ==
    ASSUME IInv, NEW c \in Calls, RegisterCheck(c) PROVE IInv'
<1> DEFINE r == [Idle EXCEPT !.pc = "create"]
<1>1. /\ call[c].pc = "idle" /\ call' = [call EXCEPT ![c] = r]
      /\ UNCHANGED <<user, known, token, changes, faults, guesses>>
  BY DEF RegisterCheck, At
<1>2. r \in Call /\ r.id = 1 /\ r.pc = "create" /\ r.token = NoToken
  BY IdleCall DEF Idle, Call
<1>3. Fit(r) /\ guesses' \in Nat
  BY <1>1, <1>2, AccountIds DEF Fit, IInv, RowsInv, TypeOK
<1> QED BY <1>1, <1>2, <1>3, ReadStep

\* The account whose password changes is being revoked from then on.
LEMMA ChangeUpdateKeeps ==
    ASSUME IInv, NEW c \in Calls, ChangeUpdate(c) PROVE IInv'
<1>0. PICK a \in Accounts : call[c].id = a BY DEF IInv, RowsInv, TypeOK, Call
<1> DEFINE r == [call[c] EXCEPT !.pc = "revokeAll"]
           row == [user[a] EXCEPT !.password = changes']
<1>1. /\ call[c].pc = "update" /\ faults' \in 0..MaxFaults /\ UNCHANGED <<known, token, guesses>>
      /\ \/ /\ Exists(a) /\ changes < MaxChanges /\ changes' = changes + 1
            /\ user' = [user EXCEPT ![a] = row] /\ call' = [call EXCEPT ![c] = r]
         \/ Answer(c) /\ UNCHANGED <<user, changes>>
  BY <1>0, Faults DEF ChangeUpdate, At, Change, Set, GoTo, IInv, RowsInv
<1>2. /\ call[c] \in Call /\ user[a] \in User
      /\ NoToken \notin Tokens /\ call[c].token = NoToken
  BY <1>1, CountAssumption DEF IInv, RowsInv, TypeOK, Call, RefreshHolds
<1>3. CASE Answer(c) /\ UNCHANGED <<user, changes>>
  <2>1. call' = [call EXCEPT ![c] = Idle] /\ Fit(Idle) BY <1>3, IdleFits DEF Answer, IInv
  <2>2. guesses' \in Nat BY <1>1 DEF IInv, RowsInv, TypeOK
  <2> QED BY <1>1, <1>2, <1>3, <2>1, <2>2, IdleCall, LockStep
<1>4. CASE /\ Exists(a) /\ changes < MaxChanges /\ changes' = changes + 1
           /\ user' = [user EXCEPT ![a] = row] /\ call' = [call EXCEPT ![c] = r]
  <2>1. changes' \in Passwords BY <1>4, CountAssumption DEF IInv, RowsInv, TypeOK, Passwords
  <2>2. /\ row \in User /\ row.exists = user[a].exists /\ row.role = user[a].role
    BY <1>2, <2>1 DEF User
  <2>3. /\ r \in Call /\ r.pc = "revokeAll" /\ r.id = a /\ r.token = NoToken
    BY <1>0, <1>2 DEF Call
  <2>4. /\ user' \in [Accounts -> User]
        /\ \A b \in Accounts : /\ user'[b].exists = user[b].exists /\ user'[b].role = user[b].role
                               /\ b # a => user'[b] = user[b]
    BY <1>2, <1>4, <2>2 DEF IInv, RowsInv, TypeOK
  <2>5. /\ call' \in [Calls -> Call] /\ call'[c] = r
        /\ \A d \in Calls : d # c => call'[d] = call[d]
    BY <1>4, <2>3, Moved DEF IInv, RowsInv
  <2>6. Live' = Live /\ \A t \in Tokens : token'[t] = token[t] /\ token[t] \in Token
    BY <1>1 DEF Live, IInv, RowsInv, TypeOK
  <2>7. Revoking(a)' /\ \A b \in Accounts : Revoking(b) => Revoking(b)'
    BY <1>1, <2>3, <2>5 DEF Revoking, At
  <2>8. TypeOK' BY <1>1, <2>1, <2>4, <2>5 DEF IInv, RowsInv, TypeOK, Exists
  <2>9. KnownIds' BY <1>0, <1>1, <2>3, <2>4, <2>5 DEF IInv, RowsInv, KnownIds, Exists
  <2>10. SessionsOfAccounts' /\ RolesRefresh'
    BY <2>4, <2>6 DEF IInv, RowsInv, SessionsOfAccounts, RolesRefresh, Exists, Live, Token
  <2>11. StoredRole'
    <3>1. \A d \in Calls : call'[d].id \in Accounts BY <2>5 DEF Call
    <3>2. ASSUME NEW d \in Calls, call'[d].pc \in {"reset", "store"}, user'[call'[d].id].exists
          PROVE  call'[d].role = user'[call'[d].id].role \/ call'[d].stale
      <4>1. call'[d] = call[d] BY <2>3, <2>5, <3>2
      <4>2. user[call[d].id].exists /\ user'[call[d].id].role = user[call[d].id].role
        BY <2>4, <3>1, <3>2, <4>1
      <4> QED BY <3>2, <4>1, <4>2 DEF IInv, RowsInv, StoredRole, Exists
    <3> QED BY <3>2 DEF StoredRole, Exists
  <2>12. OldSessionsEnd'
    <3> SUFFICES ASSUME NEW t \in Live'
                 PROVE  \E b \in Accounts :
                          /\ token'[t].owner = b
                          /\ token'[t].password = user'[b].password \/ token'[t].late \/ Revoking(b)'
      BY DEF OldSessionsEnd, Revoking
    <3>1. PICK b \in Accounts : token[t].owner = b /\ t \in Live /\ token'[t] = token[t]
      BY <2>6 DEF Live, Token
    <3>2. token[t].password = user[b].password \/ token[t].late \/ Revoking(b)
      BY <3>1 DEF IInv, RowsInv, OldSessionsEnd, Revoking
    <3> QED BY <2>4, <2>7, <3>1, <3>2
  <2>13. StoredPassword'
    <3> SUFFICES ASSUME NEW d \in Calls, user'[call'[d].id].exists,
                        call'[d].pc \in {"reset", "revoke", "find", "store"}
                 PROVE  \E b \in Accounts :
                          /\ call'[d].id = b
                          /\ \/ call'[d].password = user'[b].password
                             \/ call'[d].late \/ Revoking(b)'
      BY DEF StoredPassword, Revoking, Exists
    <3>1. PICK b \in Accounts : call'[d].id = b BY <2>5 DEF Call
    <3>2. call'[d] = call[d] BY <2>3, <2>5
    <3>3. call[d].password = user[b].password \/ call[d].late \/ Revoking(b)
      BY <2>4, <3>1, <3>2 DEF IInv, RowsInv, StoredPassword, Exists
    <3> QED BY <2>4, <2>7, <3>1, <3>2, <3>3
  <2>14. RefreshHolds' /\ HeldOnce' BY <1>1, <2>3, <2>5, HandsEmptyStep
  <2> QED BY <2>8, <2>9, <2>10, <2>11, <2>12, <2>13, <2>14 DEF IInv, RowsInv
<1> QED BY <1>1, <1>3, <1>4

\* What was begun with another password is marked, and nothing else changes.
LEMMA OvertakenCall ==
    ASSUME TypeOK, NEW a \in Accounts, NEW d \in Calls
    PROVE  LET r == Overtaken(call[d], a)
           IN  /\ r \in Call /\ r.pc = call[d].pc /\ r.id = call[d].id
               /\ r.role = call[d].role /\ r.password = call[d].password
               /\ r.token = call[d].token /\ r.stale = call[d].stale
               /\ call[d].late => r.late
               /\ r.late \/ r.password = user[a].password
<1> DEFINE b == call[d].late \/ call[d].password # user[a].password
<1>1. call[d] \in Call /\ b \in BOOLEAN BY DEF TypeOK
<1>2. Overtaken(call[d], a) = [call[d] EXCEPT !.late = b] BY DEF Overtaken
<1>3. Overtaken(call[d], a).late = b BY <1>1, <1>2 DEF Call
<1> HIDE DEF b
<1>4. LET r == Overtaken(call[d], a)
      IN  /\ r \in Call /\ r.pc = call[d].pc /\ r.id = call[d].id
          /\ r.role = call[d].role /\ r.password = call[d].password
          /\ r.token = call[d].token /\ r.stale = call[d].stale
  BY <1>1, <1>2 DEF Call
<1>5. b <=> call[d].late \/ call[d].password # user[a].password BY DEF b
<1> QED BY <1>3, <1>4, <1>5

LEMMA OvertakenToken ==
    ASSUME TypeOK, NEW a \in Accounts, NEW t \in Tokens
    PROVE  LET row == Overtaken(token[t], a)
           IN  /\ row \in Token /\ row.live = token[t].live /\ row.owner = token[t].owner
               /\ row.role = token[t].role /\ row.password = token[t].password
               /\ row.shared = token[t].shared /\ row.exchanged = token[t].exchanged
               /\ row.stale = token[t].stale
               /\ row.late \/ row.password = user[a].password
<1> DEFINE b == token[t].late \/ token[t].password # user[a].password
<1>1. token[t] \in Token /\ b \in BOOLEAN BY DEF TypeOK
<1>2. Overtaken(token[t], a) = [token[t] EXCEPT !.late = b] BY DEF Overtaken
<1>3. Overtaken(token[t], a).late = b BY <1>1, <1>2 DEF Token
<1> HIDE DEF b
<1>4. LET row == Overtaken(token[t], a)
      IN  /\ row \in Token /\ row.live = token[t].live /\ row.owner = token[t].owner
          /\ row.role = token[t].role /\ row.password = token[t].password
          /\ row.shared = token[t].shared /\ row.exchanged = token[t].exchanged
          /\ row.stale = token[t].stale
  BY <1>1, <1>2 DEF Token
<1>5. b <=> token[t].late \/ token[t].password # user[a].password BY DEF b
<1> QED BY <1>3, <1>4, <1>5

\* The sessions of the account end, or are known to be late.
LEMMA ChangeRevokeKeeps ==
    ASSUME IInv, NEW c \in Calls, ChangeRevoke(c) PROVE IInv'
<1>0. PICK a \in Accounts : call[c].id = a BY DEF IInv, RowsInv, TypeOK, Call
<1>1. /\ call[c].pc = "revokeAll" /\ UNCHANGED <<user, known, changes, guesses>>
      /\ call' = [d \in Calls |-> IF d = c THEN Idle
                                 ELSE IF d \in Storing(a) THEN Overtaken(call[d], a) ELSE call[d]]
      /\ \/ token' = Delete(token, OwnedBy(a), call')
         \/ token' = [t \in Tokens |->
               IF t \in OwnedBy(a) THEN Overtaken(token[t], a) ELSE token[t]]
      /\ faults' \in 0..MaxFaults
  BY <1>0, Faults DEF ChangeRevoke, At, RevokedAll, IInv, RowsInv
<1>2. TypeOK /\ token \in [Tokens -> Token] /\ call \in [Calls -> Call]
  BY DEF IInv, RowsInv, TypeOK
<1>3. ASSUME NEW d \in Calls, d # c
      PROVE  /\ call'[d] \in Call /\ call'[d].pc = call[d].pc /\ call'[d].id = call[d].id
             /\ call'[d].role = call[d].role /\ call'[d].password = call[d].password
             /\ call'[d].token = call[d].token /\ call'[d].stale = call[d].stale
             /\ call[d].late => call'[d].late
             /\ d \in Storing(a) => call'[d].late \/ call'[d].password = user[a].password
  BY <1>1, <1>2, <1>3, OvertakenCall
<1>4. call'[c] = Idle /\ call' \in [Calls -> Call] BY <1>1, <1>3, IdleCall
<1>5. /\ token' \in [Tokens -> Token]
      /\ \A t \in Tokens : token'[t].live =>
            /\ token[t].live /\ token'[t].owner = token[t].owner
            /\ token'[t].role = token[t].role /\ token'[t].password = token[t].password
            /\ token'[t].stale = token[t].stale
            /\ IF token[t].owner = a THEN token'[t].late \/ token'[t].password = user[a].password
               ELSE token'[t].late = token[t].late
      /\ \A t \in Tokens : ~token'[t].shared =>
            token'[t].exchanged = 0 /\ (~token[t].shared \/ \A d \in Calls : call'[d].token # t)
  <2>1. CASE token' = Delete(token, OwnedBy(a), call')
    <3>1. \A t \in Tokens : token'[t].live => token[t].live /\ t \notin OwnedBy(a) /\ token'[t] = token[t]
      BY <2>1, DeletedRows
    <3> QED BY <2>1, <3>1, DeletedRows DEF OwnedBy, Live
  <2>2. CASE token' = [t \in Tokens |->
               IF t \in OwnedBy(a) THEN Overtaken(token[t], a) ELSE token[t]]
    <3>1. ASSUME NEW t \in Tokens
          PROVE  /\ token'[t] \in Token
                 /\ token'[t].live = token[t].live /\ token'[t].owner = token[t].owner
                 /\ token'[t].role = token[t].role /\ token'[t].password = token[t].password
                 /\ token'[t].shared = token[t].shared /\ token'[t].exchanged = token[t].exchanged
                 /\ token'[t].stale = token[t].stale
                 /\ IF t \in OwnedBy(a) THEN token'[t].late \/ token'[t].password = user[a].password
                    ELSE token'[t] = token[t]
      BY <1>2, <2>2, OvertakenToken
    <3> QED BY <2>2, <3>1 DEF OwnedBy, Live, IInv, HeldOnce
  <2> QED BY <1>1, <2>1, <2>2
<1>6. \A b \in Accounts : b # a /\ Revoking(b) => Revoking(b)'
  BY <1>0, <1>3 DEF Revoking, At
<1>7. TypeOK' BY <1>1, <1>2, <1>4, <1>5 DEF TypeOK, Exists
<1>8. KnownIds' BY <1>1, <1>3, <1>4, IdleCall, AccountIds DEF IInv, RowsInv, TypeOK, KnownIds, Exists
<1>9. SessionsOfAccounts' /\ RolesRefresh'
  BY <1>1, <1>5 DEF IInv, RowsInv, SessionsOfAccounts, RolesRefresh, Exists, Live
<1>10. StoredRole' BY <1>1, <1>3, <1>4, IdleCall DEF IInv, RowsInv, StoredRole, Exists
<1>11. OldSessionsEnd'
  <2> SUFFICES ASSUME NEW t \in Live'
               PROVE  \E b \in Accounts :
                        /\ token'[t].owner = b
                        /\ token'[t].password = user'[b].password \/ token'[t].late \/ Revoking(b)'
    BY DEF OldSessionsEnd, Revoking
  <2>1. t \in Tokens /\ token'[t].live BY DEF Live
  <2>2. PICK b \in Accounts : token[t].owner = b BY <1>2, <2>1 DEF Token
  <2>3. t \in Live BY <1>5, <2>1 DEF Live
  <2>4. token[t].password = user[b].password \/ token[t].late \/ Revoking(b)
    BY <2>2, <2>3 DEF IInv, RowsInv, OldSessionsEnd, Revoking
  <2> QED BY <1>1, <1>5, <1>6, <2>1, <2>2, <2>4
<1>12. StoredPassword'
  <2> SUFFICES ASSUME NEW d \in Calls, user'[call'[d].id].exists,
                      call'[d].pc \in {"reset", "revoke", "find", "store"}
               PROVE  \E b \in Accounts :
                        /\ call'[d].id = b
                        /\ \/ call'[d].password = user'[b].password
                           \/ call'[d].late \/ Revoking(b)'
    BY DEF StoredPassword, Revoking, Exists
  <2>1. d # c BY <1>4, IdleCall
  <2>2. PICK b \in Accounts : call[d].id = b BY <1>2 DEF Call
  <2>3. call[d].password = user[b].password \/ call[d].late \/ Revoking(b)
    BY <1>1, <1>3, <2>1, <2>2 DEF IInv, RowsInv, StoredPassword, Exists
  <2>4. CASE b = a
    <3>1. d \in Storing(a) BY <1>3, <2>1, <2>2, <2>4 DEF Storing
    <3> QED BY <1>1, <1>3, <2>1, <2>2, <2>4, <3>1
  <2>5. CASE b # a BY <1>1, <1>3, <1>6, <2>1, <2>2, <2>3, <2>5
  <2> QED BY <2>4, <2>5
<1>13. RefreshHolds' /\ HeldOnce'
  BY <1>3, <1>4, <1>5, IdleCall, HandsStep DEF IInv, RefreshHolds
<1> QED BY <1>7, <1>8, <1>9, <1>10, <1>11, <1>12, <1>13 DEF IInv, RowsInv

-----------------------------------------------------------------------------
(* The administrator's operations.                                         *)

\* Whatever speaks of the account is marked as stale.
LEMMA UpdateUserKeeps ==
    ASSUME IInv, NEW a \in Accounts, UpdateUser(a) PROVE IInv'
<1>1. PICK r \in Roles : user' = [user EXCEPT ![a] = [user[a] EXCEPT !.role = r]]
  BY DEF UpdateUser, Set
<1>2. /\ changes < MaxChanges /\ changes' = changes + 1
      /\ token' = [t \in Tokens |-> IF t \in OwnedBy(a) THEN [token[t] EXCEPT !.stale = TRUE]
                                     ELSE token[t]]
      /\ call' = [c \in Calls |-> IF c \in Storing(a) THEN [call[c] EXCEPT !.stale = TRUE]
                                  ELSE call[c]]
      /\ UNCHANGED <<known, faults, guesses>>
  BY DEF UpdateUser, Change
<1>3. TypeOK /\ changes' \in Passwords
  BY <1>2, CountAssumption DEF IInv, RowsInv, TypeOK, Passwords
<1>4. /\ user' \in [Accounts -> User]
      /\ \A b \in Accounts : /\ user'[b].exists = user[b].exists
                             /\ user'[b].password = user[b].password
                             /\ b # a => user'[b] = user[b]
  <2>1. user \in [Accounts -> User] /\ user[a] \in User BY <1>3 DEF TypeOK
  <2>2. [user[a] EXCEPT !.role = r] \in User BY <2>1 DEF User
  <2>3. user'[a] = [user[a] EXCEPT !.role = r] BY <1>1, <2>1
  <2> QED BY <1>1, <2>1, <2>2, <2>3 DEF User
<1>5. ASSUME NEW t \in Tokens
      PROVE  /\ token'[t] \in Token /\ token'[t].live = token[t].live
             /\ token'[t].owner = token[t].owner /\ token'[t].role = token[t].role
             /\ token'[t].password = token[t].password /\ token'[t].late = token[t].late
             /\ token'[t].shared = token[t].shared /\ token'[t].exchanged = token[t].exchanged
             /\ IF t \in OwnedBy(a) THEN token'[t].stale ELSE token'[t] = token[t]
  <2>1. token[t] \in Token BY <1>3 DEF TypeOK
  <2> QED BY <1>2, <2>1 DEF Token
<1>6. ASSUME NEW c \in Calls
      PROVE  /\ call'[c] \in Call /\ call'[c].pc = call[c].pc /\ call'[c].id = call[c].id
             /\ call'[c].role = call[c].role /\ call'[c].password = call[c].password
             /\ call'[c].late = call[c].late /\ call'[c].token = call[c].token
             /\ IF c \in Storing(a) THEN call'[c].stale ELSE call'[c] = call[c]
  <2>1. call[c] \in Call BY <1>3 DEF TypeOK
  <2> QED BY <1>2, <2>1 DEF Call
<1>7. token' \in [Tokens -> Token] /\ call' \in [Calls -> Call] BY <1>2, <1>5, <1>6
<1>8. Live' = Live BY <1>5 DEF Live
<1>9. \A b \in Accounts : Revoking(b)' = Revoking(b) BY <1>6 DEF Revoking, At
<1>10. /\ \A t \in Tokens : token[t].owner \in Accounts
       /\ \A c \in Calls : call[c].id \in Accounts
  BY <1>3 DEF TypeOK, Token, Call
<1>11. TypeOK' BY <1>2, <1>3, <1>4, <1>7 DEF TypeOK, Exists
<1>12. KnownIds' BY <1>2, <1>4, <1>6 DEF IInv, RowsInv, KnownIds, Exists
<1>13. SessionsOfAccounts'
  BY <1>4, <1>5, <1>8, <1>10 DEF IInv, RowsInv, SessionsOfAccounts, Exists, Live
<1>14. RolesRefresh'
  BY <1>4, <1>5, <1>8, <1>10 DEF IInv, RowsInv, RolesRefresh, Live, OwnedBy
<1>15. StoredRole'
  BY <1>4, <1>6, <1>10 DEF IInv, RowsInv, StoredRole, Exists, Storing
<1>16. OldSessionsEnd'
  <2> SUFFICES ASSUME NEW t \in Live'
               PROVE  \E b \in Accounts :
                        /\ token'[t].owner = b
                        /\ token'[t].password = user'[b].password \/ token'[t].late \/ Revoking(b)'
    BY DEF OldSessionsEnd, Revoking
  <2>1. t \in Live /\ t \in Tokens BY <1>8 DEF Live
  <2>2. PICK b \in Accounts : token[t].owner = b BY <1>10, <2>1
  <2>3. token[t].password = user[b].password \/ token[t].late \/ Revoking(b)
    BY <2>1, <2>2 DEF IInv, RowsInv, OldSessionsEnd, Revoking
  <2> QED BY <1>4, <1>5, <1>9, <2>1, <2>2, <2>3
<1>17. StoredPassword'
  <2> SUFFICES ASSUME NEW d \in Calls, user'[call'[d].id].exists,
                      call'[d].pc \in {"reset", "revoke", "find", "store"}
               PROVE  \E b \in Accounts :
                        /\ call'[d].id = b
                        /\ \/ call'[d].password = user'[b].password
                           \/ call'[d].late \/ Revoking(b)'
    BY DEF StoredPassword, Revoking, Exists
  <2>1. PICK b \in Accounts : call[d].id = b BY <1>10
  <2>2. call[d].password = user[b].password \/ call[d].late \/ Revoking(b)
    BY <1>4, <1>6, <2>1 DEF IInv, RowsInv, StoredPassword, Exists
  <2> QED BY <1>4, <1>6, <1>9, <2>1, <2>2
<1>18. RefreshHolds' BY <1>6 DEF IInv, RefreshHolds
<1>19. HeldOnce' BY <1>5, <1>6 DEF IInv, HeldOnce
<1> QED
  BY <1>11, <1>12, <1>13, <1>14, <1>15, <1>16, <1>17, <1>18, <1>19 DEF IInv, RowsInv

\* The sessions of an account go with it.
LEMMA DeleteUserKeeps ==
    ASSUME IInv, NEW a \in Accounts, DeleteUser(a) PROVE IInv'
<1>1. /\ changes < MaxChanges /\ changes' = changes + 1 /\ user' = [user EXCEPT ![a] = NoUser]
      /\ token' = Delete(token, OwnedBy(a), call') /\ guesses' = 0 /\ call' = call
      /\ UNCHANGED <<known, faults>>
  BY DEF DeleteUser, Change, Set, Cascaded
<1>2. TypeOK /\ changes' \in Passwords
  BY <1>1, CountAssumption DEF IInv, RowsInv, TypeOK, Passwords
<1>3. NoUser \in User /\ NoUser.exists = FALSE
  BY AccountIds DEF NoUser, User, Roles
<1>4. /\ user' \in [Accounts -> User] /\ ~user'[a].exists
      /\ \A b \in Accounts : b # a => user'[b] = user[b]
  BY <1>1, <1>2, <1>3 DEF TypeOK
<1>5. /\ token' \in [Tokens -> Token]
      /\ \A t \in Tokens : token'[t].live => token[t].live /\ t \notin OwnedBy(a)
                                         /\ token'[t] = token[t]
      /\ \A t \in Tokens : ~token'[t].shared =>
            token'[t].exchanged = 0 /\ (~token[t].shared \/ \A d \in Calls : call'[d].token # t)
  BY <1>1, DeletedRows
<1>6. ASSUME NEW t \in Live'
      PROVE  /\ t \in Live /\ token'[t] = token[t] /\ token[t].owner \in Accounts \ {a}
             /\ user'[token[t].owner] = user[token[t].owner]
  <2>1. t \in Live /\ t \notin OwnedBy(a) /\ token'[t] = token[t] /\ token[t].owner \in Accounts
    BY <1>2, <1>5 DEF Live, TypeOK, Token
  <2> QED BY <1>4, <2>1 DEF OwnedBy
<1>7. ASSUME NEW d \in Calls, user'[call[d].id].exists
      PROVE  call[d].id \in Accounts \ {a} /\ user'[call[d].id] = user[call[d].id]
  BY <1>2, <1>4, <1>7 DEF TypeOK, Call
<1>8. TypeOK' BY <1>1, <1>2, <1>4, <1>5 DEF TypeOK, Exists
<1>9. KnownIds' BY <1>1, <1>4 DEF IInv, RowsInv, KnownIds, Exists
<1>10. SessionsOfAccounts' /\ RolesRefresh'
  BY <1>6 DEF IInv, RowsInv, SessionsOfAccounts, RolesRefresh, Exists
<1>11. StoredRole' BY <1>1, <1>7 DEF IInv, RowsInv, StoredRole, Exists
<1>12. OldSessionsEnd' BY <1>1, <1>6 DEF IInv, RowsInv, OldSessionsEnd, At
<1>13. StoredPassword' BY <1>1, <1>7 DEF IInv, RowsInv, StoredPassword, Exists, Revoking, At
<1>14. RefreshHolds' /\ HeldOnce' BY <1>1, <1>5, HandsStep DEF IInv, RefreshHolds
<1> QED BY <1>8, <1>9, <1>10, <1>11, <1>12, <1>13, <1>14 DEF IInv, RowsInv

\* Nothing speaks of a new account yet, and there was none, so no session.
LEMMA RegisterCreateKeeps ==
    ASSUME IInv, NEW c \in Calls, RegisterCreate(c) PROVE IInv'
<1> DEFINE row == [NoUser EXCEPT !.exists = TRUE]
<1>1. /\ call[c].pc = "create" /\ call' = [call EXCEPT ![c] = Idle]
      /\ UNCHANGED <<token, changes, faults, guesses>>
      /\ \/ /\ \A a \in Accounts : ~Exists(a)
            /\ known + 1 \in Accounts /\ known' = known + 1
            /\ user' = [user EXCEPT ![known + 1] = row]
         \/ UNCHANGED <<user, known>>
  BY DEF RegisterCreate, At, Answer, NameFree, Set
<1>2. Idle \in Call /\ Idle.token = NoToken /\ Fit(Idle) /\ guesses' \in Nat
  BY <1>1, IdleCall, IdleFits DEF IInv, RowsInv, TypeOK
<1>3. CASE UNCHANGED <<user, known>>
  BY <1>1, <1>2, <1>3, ReadStep
<1>4. CASE /\ \A a \in Accounts : ~Exists(a)
           /\ known + 1 \in Accounts /\ known' = known + 1
           /\ user' = [user EXCEPT ![known + 1] = row]
  <2>1. row \in User /\ row.exists
    BY AccountIds DEF NoUser, User, Roles
  <2>2. PICK k \in Accounts : k = known + 1 BY <1>4
  <2>3. /\ user' \in [Accounts -> User]
        /\ \A b \in Accounts : user'[b].exists <=> b = k
    BY <1>4, <2>1, <2>2 DEF IInv, RowsInv, TypeOK, Exists
  <2>4. /\ call' \in [Calls -> Call] /\ call'[c] = Idle
        /\ \A d \in Calls : d # c => call'[d] = call[d]
    BY <1>1, <1>2, Moved DEF IInv, RowsInv
  <2>5. /\ known \in Nat /\ known >= 1 /\ known' = k
        /\ \A d \in Calls : call'[d].id \in Accounts /\ call'[d].id \in Nat /\ call'[d].id <= known
    <3>1. known \in Nat /\ known >= 1 BY AccountIds DEF IInv, RowsInv, TypeOK
    <3>2. \A d \in Calls : call'[d].id <= known
      BY <2>4, <3>1, IdleCall DEF IInv, RowsInv, KnownIds
    <3>3. \A d \in Calls : call'[d].id \in Accounts BY <2>4 DEF Call
    <3> QED BY <1>4, <2>2, <3>1, <3>2, <3>3, AccountIds
  <2>6. \A d \in Calls : ~user'[call'[d].id].exists BY <2>2, <2>3, <2>5
  <2>7. Live = {} /\ Live' = {}
    <3>1. \A t \in Live : token[t].owner \in Accounts
      BY DEF Live, IInv, RowsInv, TypeOK, Token
    <3> QED BY <1>1, <1>4, <3>1 DEF IInv, RowsInv, SessionsOfAccounts, Live
  <2>8. TypeOK' BY <1>1, <1>4, <2>3, <2>4 DEF IInv, RowsInv, TypeOK, Exists
  <2>9. KnownIds' BY <2>2, <2>3, <2>5, AccountIds DEF KnownIds, Exists
  <2>10. SessionsOfAccounts' /\ RolesRefresh' /\ OldSessionsEnd'
    BY <2>7 DEF SessionsOfAccounts, RolesRefresh, OldSessionsEnd
  <2>11. StoredRole' /\ StoredPassword' BY <2>6 DEF StoredRole, StoredPassword, Exists
  <2>12. RefreshHolds' /\ HeldOnce' BY <1>1, <1>2, <2>4, HandsEmptyStep
  <2> QED BY <2>8, <2>9, <2>10, <2>11, <2>12 DEF IInv, RowsInv
<1> QED BY <1>1, <1>3, <1>4

-----------------------------------------------------------------------------
(* The theorems                                                            *)

LEMMA InitInvariant ==
    ASSUME Init PROVE IInv
<1> DEFINE row == [NoUser EXCEPT !.exists = TRUE, !.role = "admin"]
<1>1. /\ user = [a \in Accounts |-> IF a = 1 THEN row ELSE NoUser]
      /\ known = 1 /\ changes = 0 /\ faults = 0 /\ guesses = 0
      /\ token = [t \in Tokens |-> Gone] /\ call = [c \in Calls |-> Idle]
  BY DEF Init
<1>2. row \in User /\ row.exists /\ NoUser \in User /\ ~NoUser.exists
  BY AccountIds DEF NoUser, User, Roles
<1>3. /\ user \in [Accounts -> User] /\ \A a \in Accounts : user[a].exists <=> a = 1
  BY <1>1, <1>2
<1>4. \A c \in Calls : call[c] = Idle BY <1>1
<1>5. Live = {} /\ \A t \in Tokens : token[t] = Gone BY <1>1, GoneToken DEF Live
<1>6. TypeOK
  BY <1>1, <1>3, IdleCall, GoneToken, AccountIds, CountAssumption DEF TypeOK, Exists
<1>7. KnownIds BY <1>1, <1>3, <1>4, IdleCall DEF KnownIds, Exists
<1>8. SessionsOfAccounts /\ RolesRefresh /\ OldSessionsEnd
  BY <1>5 DEF SessionsOfAccounts, RolesRefresh, OldSessionsEnd
<1>9. StoredRole /\ StoredPassword BY <1>4, IdleCall DEF StoredRole, StoredPassword
<1>10. RefreshHolds BY <1>4, IdleCall DEF RefreshHolds
<1>11. HeldOnce BY <1>4, <1>5, IdleCall, GoneToken, CountAssumption DEF HeldOnce
<1> QED BY <1>6, <1>7, <1>8, <1>9, <1>10, <1>11 DEF IInv, RowsInv

LEMMA StutterInvariant ==
    ASSUME IInv, UNCHANGED vars PROVE IInv'
<1>1. RowsInv' BY QuietStep DEF vars, IInv, RowsInv, TypeOK, SameAccounts, FewerSessions
<1>2. RefreshHolds' /\ HeldOnce' BY DEF vars, IInv, RefreshHolds, HeldOnce
<1> QED BY <1>1, <1>2 DEF IInv

LEMMA NextInvariant ==
    ASSUME IInv, [Next]_vars PROVE IInv'
BY StutterInvariant, LoginReadKeeps, LoginCountKeeps, StoreKeeps, RefreshValidateKeeps,
   RefreshRevokeKeeps, RefreshFindKeeps, ChangeReadKeeps, ChangeUpdateKeeps, ChangeRevokeKeeps,
   RegisterCheckKeeps, RegisterCreateKeeps, LogoutKeeps, LockEndsKeeps, UpdateUserKeeps,
   DeleteUserKeeps
DEF Next

\* IInv is inductive.
THEOREM Invariant == Spec => []IInv
<1>1. Init => IInv BY InitInvariant
<1>2. IInv /\ [Next]_vars => IInv' BY NextInvariant
<1> QED BY <1>1, <1>2, PTL DEF Spec

\* Every variable keeps its type, and at most one account has the username.
THEOREM TypeCorrect == Spec => []TypeOK
BY Invariant, PTL DEF IInv, RowsInv

\* A session begun with an earlier password is still open only while the revocation is
\* under way, or because a request overlapped it, or because it failed.
THEOREM PasswordChangeEndsSessions == Spec => []OldSessionsEnd
BY Invariant, PTL DEF IInv, RowsInv

\* No session outlives its account.
THEOREM SessionsHaveAccounts == Spec => []SessionsOfAccounts
BY Invariant, PTL DEF IInv, RowsInv

\* Only tokens issued before the role changed, or by requests that overlapped the change,
\* speak of an old one.
THEOREM RolesReachSessions == Spec => []RolesRefresh
BY Invariant, PTL DEF IInv, RowsInv

\* A refresh token is exchanged at most once, unless two refreshes overlapped, or its
\* revocation failed.
THEOREM TokensExchangedOnce == Spec => []ExchangedOnce
<1>1. IInv => ExchangedOnce
  <2>1. 0 <= 1 OBVIOUS
  <2> QED BY <2>1 DEF IInv, HeldOnce, ExchangedOnce
<1> QED BY <1>1, Invariant, PTL

-----------------------------------------------------------------------------
(* How often a password may be guessed.  The count in the table is behind  *)
(* the guesses by the requests that have judged one and not counted it.    *)
(* The first to read a count that locks leaves the others time to guess    *)
(* once more, and each of them is then one that will lock.                 *)

\* The requests that are to count a guess, and those that are to lock the account.
Counting(a) == {c \in Calls : call[c].pc = "increment" /\ call[c].id = a}
Locking(a) ==
    {c \in Calls : call[c].pc \in {"increment", "lock"} /\ call[c].id = a /\ call[c].reached}

GuessesOf(a) ==
    /\ user[a].locked => guesses <= MaxFailed - 2 + 2 * Cardinality(Calls) + faults
    /\ ~user[a].locked /\ user[a].failed <= MaxFailed - 2 =>
          guesses <= user[a].failed + Cardinality(Counting(a)) + faults
    /\ ~user[a].locked /\ user[a].failed >= MaxFailed - 1 =>
          guesses <= MaxFailed - 2 + Cardinality(Calls) + Cardinality(Locking(a)) + faults

GuessInv ==
    /\ (\A a \in Accounts : ~Exists(a)) => guesses = 0
    /\ \A a \in Accounts : Exists(a) => GuessesOf(a)

LEMMA CountedCalls ==
    /\ Cardinality(Calls) \in Nat /\ Cardinality(Calls) >= 1
    /\ \A S \in SUBSET Calls :
          /\ IsFiniteSet(S) /\ Cardinality(S) \in Nat /\ Cardinality(S) <= Cardinality(Calls)
          /\ \A c \in Calls : c \in S => Cardinality(S) >= 1
<1>1. IsFiniteSet(Calls) /\ Calls # {} BY CallsAssumption
<1>2. Cardinality(Calls) \in Nat /\ Cardinality(Calls) # 0
  BY <1>1, FS_CardinalityType, FS_EmptySet
<1>3. ASSUME NEW S \in SUBSET Calls
      PROVE  /\ IsFiniteSet(S) /\ Cardinality(S) \in Nat /\ Cardinality(S) <= Cardinality(Calls)
             /\ \A c \in Calls : c \in S => Cardinality(S) >= 1
  <2>1. IsFiniteSet(S) /\ Cardinality(S) <= Cardinality(Calls) BY <1>1, FS_Subset
  <2>2. Cardinality(S) \in Nat BY <2>1, FS_CardinalityType
  <2>3. S # {} => Cardinality(S) # 0 BY <2>1, FS_EmptySet
  <2> QED BY <2>1, <2>2, <2>3
<1> QED BY <1>2, <1>3

LEMMA CountedSets ==
    ASSUME NEW a
    PROVE  /\ Cardinality(Counting(a)) \in Nat /\ Cardinality(Counting(a)) <= Cardinality(Calls)
           /\ Cardinality(Locking(a)) \in Nat /\ Cardinality(Locking(a)) <= Cardinality(Calls)
           /\ Cardinality(Calls) \in Nat /\ Cardinality(Calls) >= 1
<1>1. Counting(a) \in SUBSET Calls /\ Locking(a) \in SUBSET Calls BY DEF Counting, Locking
<1> QED BY <1>1, CountedCalls

\* When one request moves, it enters a set or leaves it.
LEMMA MovedCounts ==
    ASSUME TypeOK, NEW c \in Calls, NEW r \in Call, call' = [call EXCEPT ![c] = r], NEW a
    PROVE  /\ Counting(a)' = IF r.pc = "increment" /\ r.id = a THEN Counting(a) \cup {c}
                             ELSE Counting(a) \ {c}
           /\ Locking(a)' = IF r.pc \in {"increment", "lock"} /\ r.id = a /\ r.reached
                            THEN Locking(a) \cup {c} ELSE Locking(a) \ {c}
<1>1. call'[c] = r /\ \A d \in Calls : d # c => call'[d] = call[d] BY Moved
<1>2. Counting(a)' = IF r.pc = "increment" /\ r.id = a THEN Counting(a) \cup {c}
                     ELSE Counting(a) \ {c}
  BY <1>1 DEF Counting
<1>3. Locking(a)' = IF r.pc \in {"increment", "lock"} /\ r.id = a /\ r.reached
                    THEN Locking(a) \cup {c} ELSE Locking(a) \ {c}
  BY <1>1 DEF Locking
<1> QED BY <1>2, <1>3

\* The numbers the invariant relates.
LEMMA GuessTypes ==
    ASSUME TypeOK
    PROVE  /\ guesses \in Nat /\ faults \in Nat /\ MaxFailed \in Nat /\ MaxFailed >= 1
           /\ \A a \in Accounts : user[a].failed \in Nat /\ user[a].locked \in BOOLEAN
BY CountAssumption DEF TypeOK, User

\* Nothing is counted, and nobody is to count or lock who was not.
LEMMA QuietGuesses ==
    ASSUME TypeOK, TypeOK', GuessInv, guesses' = guesses, faults' >= faults,
           \A a \in Accounts : /\ user'[a].exists = user[a].exists
                               /\ user'[a].locked = user[a].locked
                               /\ user'[a].failed = user[a].failed,
           \A d \in Calls :
              \/ /\ call'[d].pc = call[d].pc /\ call'[d].id = call[d].id
                 /\ call'[d].reached = call[d].reached
              \/ call[d].pc \notin {"increment", "lock"} /\ call'[d].pc \notin {"increment", "lock"}
    PROVE  GuessInv'
<1>1. ASSUME NEW a \in Accounts, Exists(a)' PROVE GuessesOf(a)'
  <2>1. Counting(a)' = Counting(a) BY DEF Counting
  <2>2. Locking(a)' = Locking(a) BY DEF Locking
  <2>3. GuessesOf(a) BY <1>1 DEF GuessInv, Exists
  <2>4. Cardinality(Counting(a))' = Cardinality(Counting(a)) BY <2>1
  <2>5. Cardinality(Locking(a))' = Cardinality(Locking(a)) BY <2>2
  <2>6. /\ faults \in Nat /\ faults' \in Nat /\ guesses \in Nat /\ MaxFailed \in Nat
        /\ user[a].failed \in Nat
    BY GuessTypes DEF TypeOK
  <2>7. PICK n, m, k \in Nat : n = Cardinality(Counting(a)) /\ m = Cardinality(Locking(a))
                               /\ k = Cardinality(Calls)
    BY CountedSets
  <2>8. n = Cardinality(Counting(a))' /\ m = Cardinality(Locking(a))' BY <2>4, <2>5, <2>7
  <2> QED BY <2>3, <2>6, <2>7, <2>8 DEF GuessesOf
<1>2. (\A a \in Accounts : ~Exists(a)') => guesses' = 0 BY DEF GuessInv, Exists
<1> QED BY <1>1, <1>2 DEF GuessInv

\* Nothing was guessed yet, or since.
LEMMA NoGuesses ==
    ASSUME TypeOK', guesses' = 0 PROVE GuessInv'
<1>1. ASSUME NEW a \in Accounts PROVE GuessesOf(a)'
  <2>1. PICK n, m, k \in Nat : /\ n = Cardinality(Counting(a)') /\ m = Cardinality(Locking(a)')
                               /\ k = Cardinality(Calls) /\ k >= 1
    <3>1. Counting(a)' \in SUBSET Calls /\ Locking(a)' \in SUBSET Calls BY DEF Counting, Locking
    <3> QED BY <3>1, CountedCalls
  <2>2. faults' \in Nat /\ user'[a].failed \in Nat /\ MaxFailed \in Nat /\ MaxFailed >= 1
    BY CountAssumption DEF TypeOK, User
  <2> QED BY <2>1, <2>2 DEF GuessesOf
<1> QED BY <1>1 DEF GuessInv

\* A wrong password: the guess is one more to count, and one that locks once the
\* count has come that far.
LEMMA LoginReadGuesses ==
    ASSUME TypeOK, TypeOK', GuessInv, NEW c \in Calls, LoginRead(c) PROVE GuessInv'
<1>1. PICK a \in Accounts :
        /\ call[c].pc = "idle" /\ Exists(a) /\ ~user[a].locked
        /\ \/ /\ call' = [call EXCEPT ![c] =
                     [Idle EXCEPT !.pc = IF user[a].failed > 0 THEN "reset" ELSE "store",
                                  !.id = a, !.role = user[a].role, !.password = user[a].password]]
              /\ UNCHANGED guesses
           \/ /\ call' = [call EXCEPT ![c] = [Idle EXCEPT !.pc = "increment", !.id = a,
                                                         !.reached = Reached(user[a].failed)]]
              /\ guesses' = guesses + 1
        /\ UNCHANGED <<user, known, token, changes, faults>>
  BY DEF LoginRead, At
<1>2. user[a] \in User /\ guesses \in Nat /\ faults \in Nat BY GuessTypes DEF TypeOK
<1>3. CASE /\ call' = [call EXCEPT ![c] =
                     [Idle EXCEPT !.pc = IF user[a].failed > 0 THEN "reset" ELSE "store",
                                  !.id = a, !.role = user[a].role, !.password = user[a].password]]
           /\ UNCHANGED guesses
  <2> DEFINE r == [Idle EXCEPT !.pc = IF user[a].failed > 0 THEN "reset" ELSE "store",
                               !.id = a, !.role = user[a].role, !.password = user[a].password]
  <2>1. r \in Call /\ r.pc \notin {"increment", "lock"}
    BY <1>2, IdleCall DEF Idle, Call, User
  <2>2. call'[c] = r /\ \A d \in Calls : d # c => call'[d] = call[d] BY <1>3, <2>1, Moved
  <2>3. call[c].pc \notin {"increment", "lock"} BY <1>1
  <2>4. faults' >= faults BY <1>1, <1>2
  <2> QED BY <1>1, <1>3, <2>1, <2>2, <2>3, <2>4, QuietGuesses
<1>4. CASE /\ call' = [call EXCEPT ![c] = [Idle EXCEPT !.pc = "increment", !.id = a,
                                                     !.reached = Reached(user[a].failed)]]
           /\ guesses' = guesses + 1
  <2> DEFINE r == [Idle EXCEPT !.pc = "increment", !.id = a, !.reached = Reached(user[a].failed)]
  <2>1. Reached(user[a].failed) \in BOOLEAN
        /\ (Reached(user[a].failed) <=> user[a].failed >= MaxFailed - 1)
    BY <1>2, CountAssumption DEF Reached, User
  <2>2. r \in Call /\ r.id = a /\ r.pc = "increment" /\ r.reached = Reached(user[a].failed)
    BY <2>1, IdleCall DEF Idle, Call
  <2>3. /\ Counting(a)' = Counting(a) \cup {c}
        /\ Locking(a)' = IF r.reached THEN Locking(a) \cup {c} ELSE Locking(a) \ {c}
    BY <1>4, <2>2, MovedCounts
  <2>4. c \notin Counting(a) /\ c \notin Locking(a) BY <1>1 DEF Counting, Locking
  <2>5. IsFiniteSet(Counting(a)) /\ IsFiniteSet(Locking(a))
    BY CountedCalls DEF Counting, Locking
  <2>6. Cardinality(Counting(a)') = Cardinality(Counting(a)) + 1
    BY <2>3, <2>4, <2>5, FS_AddElement
  <2>7. Cardinality(Locking(a)') = Cardinality(Locking(a)) + (IF r.reached THEN 1 ELSE 0)
    <3>1. CASE r.reached BY <2>3, <2>4, <2>5, <3>1, FS_AddElement, CountedSets
    <3>2. CASE ~r.reached
      <4>1. Locking(a)' = Locking(a) BY <2>3, <2>4, <3>2
      <4> QED BY <3>2, <4>1, CountedSets
    <3> QED BY <3>1, <3>2
  <2>8. PICK n, m, k \in Nat : n = Cardinality(Counting(a)) /\ m = Cardinality(Locking(a))
                               /\ k = Cardinality(Calls)
    BY CountedSets
  <2>9. GuessesOf(a) BY <1>1 DEF GuessInv
  <2>10. GuessesOf(a)'
    <3>1. n + 1 = Cardinality(Counting(a)') BY <2>6, <2>8
    <3>2. Cardinality(Locking(a)') = m + (IF user[a].failed >= MaxFailed - 1 THEN 1 ELSE 0)
      BY <2>1, <2>2, <2>7, <2>8
    <3>3. user'[a].failed = user[a].failed /\ ~user'[a].locked /\ user[a].failed \in Nat
          /\ faults' = faults /\ MaxFailed \in Nat
      BY <1>1, <1>2, GuessTypes DEF User
    <3> QED BY <1>1, <1>2, <1>4, <2>8, <2>9, <3>1, <3>2, <3>3 DEF GuessesOf
  <2>11. \A b \in Accounts : Exists(b)' => b = a BY <1>1 DEF TypeOK, Exists
  <2> QED BY <1>1, <2>10, <2>11 DEF GuessInv, Exists
<1> QED BY <1>1, <1>3, <1>4

\* The guess is in the count now, or its statement failed.
LEMMA LoginIncrementGuesses ==
    ASSUME TypeOK, TypeOK', GuessInv, NEW c \in Calls, LoginIncrement(c) PROVE GuessInv'
<1>1. PICK a \in Accounts : a = call[c].id /\ call[c] \in Call /\ call[c].reached \in BOOLEAN
  BY DEF TypeOK, Call
<1>2. /\ call[c].pc = "increment" /\ guesses' = guesses
      /\ \/ faults' = faults /\ user' = [user EXCEPT ![a] =
              IF Exists(a) THEN [user[a] EXCEPT !.failed = @ + 1] ELSE user[a]]
         \/ faults' = faults + 1 /\ user' = user
      /\ call' = [call EXCEPT ![c] = IF call[c].reached THEN [call[c] EXCEPT !.pc = "lock"]
                                    ELSE Idle]
  BY <1>1 DEF LoginIncrement, At, GoTo, Answer, Set, NoFault, Fault
<1>3. PICK r \in Call :
        /\ call' = [call EXCEPT ![c] = r]
        /\ r.pc \in {"idle", "lock"}
        /\ call[c].reached => r.pc = "lock" /\ r.id = a /\ r.reached
        /\ ~call[c].reached => r.pc = "idle"
  <2>1. CASE call[c].reached
    <3> DEFINE next == [call[c] EXCEPT !.pc = "lock"]
    <3>1. next \in Call /\ next.pc = "lock" /\ next.id = a /\ next.reached
      BY <1>1, <2>1 DEF Call
    <3> QED BY <1>2, <2>1, <3>1
  <2>2. CASE ~call[c].reached BY <1>2, <2>2, IdleCall
  <2> QED BY <2>1, <2>2
<1>4. /\ guesses \in Nat /\ faults \in Nat /\ MaxFailed \in Nat /\ MaxFailed >= 1
      /\ user \in [Accounts -> User]
      /\ \A b \in Accounts : user[b] \in User /\ user[b].failed \in Nat
  BY GuessTypes DEF TypeOK
<1>5. /\ \A b \in Accounts : b # a => user'[b] = user[b]
      /\ user'[a].exists = user[a].exists /\ user'[a].locked = user[a].locked
  BY <1>2, <1>4 DEF User
<1>6. ASSUME NEW b \in Accounts, b # a
      PROVE  Counting(b)' = Counting(b) /\ Locking(b)' = Locking(b)
  <2>1. c \notin Counting(b) /\ c \notin Locking(b) BY <1>1, <1>6 DEF Counting, Locking
  <2>2. call'[c] = r /\ \A d \in Calls : d # c => call'[d] = call[d] BY <1>3, Moved
  <2>3. r.pc = "idle" \/ (r.pc = "lock" /\ r.id = a) BY <1>3
  <2>4. Counting(b)' = Counting(b) BY <2>1, <2>2, <2>3 DEF Counting
  <2>5. Locking(b)' = Locking(b) BY <1>6, <2>1, <2>2, <2>3 DEF Locking
  <2> QED BY <2>4, <2>5
<1>7. Counting(a)' = Counting(a) \ {c} /\ c \in Counting(a)
  <2>1. Counting(a)' = Counting(a) \ {c} BY <1>3, MovedCounts
  <2>2. c \in Counting(a) BY <1>1, <1>2 DEF Counting
  <2> QED BY <2>1, <2>2
<1>8. Locking(a)' = Locking(a)
  <2>1. call[c].reached <=> c \in Locking(a) BY <1>1, <1>2 DEF Locking
  <2>2. Locking(a)' = IF call[c].reached THEN Locking(a) \cup {c} ELSE Locking(a) \ {c}
    BY <1>1, <1>2, <1>3, MovedCounts
  <2> QED BY <2>1, <2>2
<1>9. PICK n, m, k \in Nat : /\ n = Cardinality(Counting(a)) /\ m = Cardinality(Locking(a))
                             /\ k = Cardinality(Calls) /\ n <= k
  BY CountedSets
<1>10. Cardinality(Counting(a)') = n - 1 /\ Cardinality(Locking(a)') = m
  <2>1. IsFiniteSet(Counting(a)) BY CountedCalls DEF Counting
  <2> QED BY <1>7, <1>8, <1>9, <2>1, FS_RemoveElement
<1>11. ASSUME Exists(a) PROVE GuessesOf(a)'
  <2>1. GuessesOf(a) BY <1>11 DEF GuessInv
  <2>2. \/ user'[a].failed = user[a].failed + 1 /\ faults' = faults
        \/ user'[a].failed = user[a].failed /\ faults' = faults + 1
    BY <1>2, <1>4, <1>11 DEF User
  <2>3. user[a].failed \in Nat BY <1>4
  <2> QED BY <1>2, <1>4, <1>5, <1>9, <1>10, <2>1, <2>2, <2>3 DEF GuessesOf
<1>12. ASSUME NEW b \in Accounts, b # a, Exists(b) PROVE GuessesOf(b)'
  <2>1. GuessesOf(b) BY <1>12 DEF GuessInv
  <2>2. faults' \in Nat /\ faults' >= faults BY <1>2, <1>4
  <2>3. PICK i, j \in Nat : i = Cardinality(Counting(b)) /\ j = Cardinality(Locking(b))
    BY CountedSets
  <2>4. i = Cardinality(Counting(b)') /\ j = Cardinality(Locking(b)') BY <1>6, <1>12, <2>3
  <2> QED BY <1>2, <1>4, <1>5, <1>9, <1>12, <2>1, <2>2, <2>3, <2>4 DEF GuessesOf
<1>13. \A b \in Accounts : Exists(b)' <=> Exists(b) BY <1>5 DEF Exists
<1> QED BY <1>2, <1>11, <1>12, <1>13 DEF GuessInv

\* The lock leaves the requests that read the row before it to guess on.
LEMMA LoginLockGuesses ==
    ASSUME TypeOK, TypeOK', GuessInv, NEW c \in Calls, LoginLock(c) PROVE GuessInv'
<1>1. PICK a \in Accounts : a = call[c].id /\ call[c] \in Call BY DEF TypeOK, Call
<1>2. /\ call[c].pc = "lock" /\ guesses' = guesses /\ call' = [call EXCEPT ![c] = Idle]
      /\ \/ faults' = faults /\ user' = [user EXCEPT ![a] =
              IF Exists(a) THEN [user[a] EXCEPT !.locked = TRUE] ELSE user[a]]
         \/ faults' = faults + 1 /\ user' = user
  BY <1>1 DEF LoginLock, At, Answer, Set, NoFault, Fault
<1>3. /\ guesses \in Nat /\ faults \in Nat /\ MaxFailed \in Nat /\ MaxFailed >= 1
      /\ user \in [Accounts -> User]
      /\ \A b \in Accounts : user[b] \in User /\ user[b].failed \in Nat
  BY GuessTypes DEF TypeOK
<1>4. /\ \A b \in Accounts : b # a => user'[b] = user[b]
      /\ user'[a].exists = user[a].exists /\ user'[a].failed = user[a].failed
  BY <1>2, <1>3 DEF User
<1>5. ASSUME NEW b \in Accounts
      PROVE  /\ Counting(b)' = Counting(b)
             /\ Locking(b)' = Locking(b) \ {c} /\ (b # a => c \notin Locking(b))
  <2>1. Counting(b)' = Counting(b) \ {c} /\ Locking(b)' = Locking(b) \ {c}
    BY <1>2, IdleCall, MovedCounts
  <2> QED BY <1>1, <1>2, <2>1 DEF Counting, Locking
<1>6. ASSUME NEW b \in Accounts, Exists(b) PROVE GuessesOf(b)'
  <2>1. GuessesOf(b) BY <1>6 DEF GuessInv
  <2>2. PICK n, m, k \in Nat : /\ n = Cardinality(Counting(b)) /\ m = Cardinality(Locking(b))
                               /\ k = Cardinality(Calls) /\ n <= k /\ m <= k
    BY CountedSets
  <2>3. n = Cardinality(Counting(b)') BY <1>5, <2>2
  <2>4. PICK j \in Nat : /\ j = Cardinality(Locking(b)')
                         /\ j >= m - 1 /\ (b # a => j = m)
    <3>1. IsFiniteSet(Locking(b)) BY CountedCalls DEF Locking
    <3>2. /\ Cardinality(Locking(b)') = IF c \in Locking(b) THEN m - 1 ELSE m
          /\ c \in Locking(b) => m >= 1
      BY <1>5, <2>2, <3>1, FS_RemoveElement, CountedCalls DEF Locking
    <3> QED BY <1>5, <2>2, <3>2
  <2>5. user[b].failed \in Nat /\ user[b].locked \in BOOLEAN BY <1>3 DEF User
  <2>6. CASE b # a BY <1>2, <1>3, <1>4, <2>1, <2>2, <2>3, <2>4, <2>5, <2>6 DEF GuessesOf
  <2>7. CASE b = a
    <3>1. \/ user'[b].locked /\ faults' = faults
          \/ user'[b].locked = user[b].locked /\ faults' = faults + 1
      BY <1>2, <1>3, <1>6, <2>7 DEF User
    <3> QED BY <1>2, <1>3, <1>4, <2>1, <2>2, <2>3, <2>4, <2>5, <2>7, <3>1 DEF GuessesOf
  <2> QED BY <2>6, <2>7
<1>7. \A b \in Accounts : Exists(b)' <=> Exists(b) BY <1>4 DEF Exists
<1> QED BY <1>2, <1>6, <1>7 DEF GuessInv

\* The right password starts the count again, for an account that is still there.
LEMMA LoginResetGuesses ==
    ASSUME TypeOK, TypeOK', GuessInv, NEW c \in Calls, LoginReset(c) PROVE GuessInv'
<1>1. PICK a \in Accounts : a = call[c].id /\ call[c] \in Call BY DEF TypeOK, Call
<1>2. /\ call[c].pc = "reset" /\ call' = [call EXCEPT ![c] = [call[c] EXCEPT !.pc = "store"]]
      /\ \/ /\ Exists(a) /\ guesses' = 0
         \/ /\ ~Exists(a) /\ guesses' = guesses /\ faults' = faults
            /\ user' = [user EXCEPT ![a] = user[a]]
         \/ guesses' = guesses /\ faults' = faults + 1 /\ user' = user
  BY <1>1 DEF LoginReset, At, GoTo, Set, NoFault, Fault
<1>3. CASE guesses' = 0 BY <1>3, NoGuesses
<1>4. CASE guesses' = guesses /\ user' = user /\ faults' >= faults
  <2>1. call'[c].pc = "store" /\ \A d \in Calls : d # c => call'[d] = call[d]
    BY <1>1, <1>2 DEF TypeOK, Call
  <2> QED BY <1>2, <1>4, <2>1, QuietGuesses
<1>5. (user' = user /\ faults' >= faults) \/ guesses' = 0
  BY <1>2, GuessTypes DEF TypeOK
<1> QED BY <1>2, <1>3, <1>4, <1>5

\* The handlers that have no password to judge: what they change of an account is its
\* password or its role, and of a request what its session will say.
LEMMA OtherGuesses ==
    ASSUME TypeOK, TypeOK', GuessInv, NEW c \in Calls,
           \/ Store(c) \/ RefreshValidate(c) \/ RefreshRevoke(c) \/ RefreshFind(c)
           \/ ChangeRead(c) \/ ChangeUpdate(c) \/ RegisterCheck(c)
    PROVE  GuessInv'
<1>1. PICK a \in Accounts : a = call[c].id /\ call[c] \in Call BY DEF TypeOK, Call
<1>2. /\ call[c].pc \notin {"increment", "lock"} /\ guesses' = guesses
      /\ faults' \in {faults, faults + 1}
      /\ \/ user' = user
         \/ user' = [user EXCEPT ![a] = [user[a] EXCEPT !.password = changes']]
  BY <1>1 DEF Store, RefreshValidate, RefreshRevoke, RefreshFind, ChangeRead, ChangeUpdate,
              RegisterCheck, At, Set, NoFault, Fault
<1>3. faults' >= faults BY <1>2, GuessTypes DEF TypeOK
<1>4. \A b \in Accounts : /\ user'[b].exists = user[b].exists
                          /\ user'[b].locked = user[b].locked
                          /\ user'[b].failed = user[b].failed
  <2>1. user \in [Accounts -> User] /\ user[a] \in User BY DEF TypeOK
  <2> DEFINE row == [user[a] EXCEPT !.password = changes']
  <2>2. row.exists = user[a].exists /\ row.locked = user[a].locked /\ row.failed = user[a].failed
    BY <2>1 DEF User
  <2> QED BY <1>2, <2>1, <2>2
<1>5. \E r : call' = [call EXCEPT ![c] = r]
             /\ r.pc \in {"idle", "revoke", "find", "store", "update", "revokeAll", "create"}
  <2>1. CASE Store(c) BY <2>1, IdleCall DEF Store, Answer
  <2>2. CASE RefreshValidate(c)
    <3>1. PICK t \in Live : call' = [call EXCEPT ![c] = [Idle EXCEPT !.pc = "revoke",
                          !.id = token[t].owner, !.role = token[t].role,
                          !.password = token[t].password, !.token = t, !.late = token[t].late]]
      BY <2>2 DEF RefreshValidate
    <3> DEFINE r == [Idle EXCEPT !.pc = "revoke", !.id = token[t].owner, !.role = token[t].role,
                          !.password = token[t].password, !.token = t, !.late = token[t].late]
    <3>2. r.pc = "revoke" BY DEF Idle
    <3> QED BY <3>1, <3>2
  <2>3. CASE RefreshRevoke(c)
    <3>1. call' = [call EXCEPT ![c] = [call[c] EXCEPT !.pc = "find"]]
      BY <2>3 DEF RefreshRevoke, GoTo
    <3>2. [call[c] EXCEPT !.pc = "find"].pc = "find" BY <1>1 DEF Call
    <3> QED BY <3>1, <3>2
  <2>4. CASE RefreshFind(c)
    <3> DEFINE r == [call[c] EXCEPT !.pc = "store", !.role = CurrentRole(c), !.stale = FALSE]
    <3>1. call' = [call EXCEPT ![c] = r] \/ call' = [call EXCEPT ![c] = Idle]
      BY <2>4 DEF RefreshFind, Answer
    <3>2. r.pc = "store" BY <1>1 DEF Call
    <3> QED BY <3>1, <3>2, IdleCall
  <2>5. CASE ChangeRead(c)
    <3>1. PICK b \in Accounts : call' = [call EXCEPT ![c] = [Idle EXCEPT !.pc = "update", !.id = b]]
      BY <2>5 DEF ChangeRead
    <3>2. [Idle EXCEPT !.pc = "update", !.id = b].pc = "update" BY DEF Idle
    <3> QED BY <3>1, <3>2
  <2>6. CASE ChangeUpdate(c)
    <3>1. \/ call' = [call EXCEPT ![c] = [call[c] EXCEPT !.pc = "revokeAll"]]
          \/ call' = [call EXCEPT ![c] = Idle]
      BY <2>6 DEF ChangeUpdate, GoTo, Answer
    <3>2. [call[c] EXCEPT !.pc = "revokeAll"].pc = "revokeAll" BY <1>1 DEF Call
    <3> QED BY <3>1, <3>2, IdleCall
  <2>7. CASE RegisterCheck(c)
    <3>1. call' = [call EXCEPT ![c] = [Idle EXCEPT !.pc = "create"]] BY <2>7 DEF RegisterCheck
    <3>2. [Idle EXCEPT !.pc = "create"].pc = "create" BY DEF Idle
    <3> QED BY <3>1, <3>2
  <2> QED BY <2>1, <2>2, <2>3, <2>4, <2>5, <2>6, <2>7
<1>6. /\ call'[c].pc \notin {"increment", "lock"}
      /\ \A d \in Calls : d # c => call'[d] = call[d]
  BY <1>5 DEF TypeOK
<1> QED BY <1>2, <1>3, <1>4, <1>6, QuietGuesses

\* The revocation marks the sessions to come, and a new role those that exist as well.
LEMMA MarkGuesses ==
    ASSUME TypeOK, TypeOK', GuessInv,
           (\E c \in Calls : ChangeRevoke(c)) \/ (\E a \in Accounts : UpdateUser(a))
    PROVE  GuessInv'
<1>1. CASE \E c \in Calls : ChangeRevoke(c)
  <2>1. PICK c \in Calls : ChangeRevoke(c) BY <1>1
  <2>2. /\ call[c].pc = "revokeAll" /\ guesses' = guesses /\ user' = user
        /\ call' = [d \in Calls |-> IF d = c THEN Idle
                      ELSE IF d \in Storing(call[c].id) THEN Overtaken(call[d], call[c].id)
                      ELSE call[d]]
        /\ faults' \in {faults, faults + 1}
    BY <2>1 DEF ChangeRevoke, At, NoFault, Fault
  <2>3. ASSUME NEW d \in Calls, d # c
        PROVE  /\ call'[d].pc = call[d].pc /\ call'[d].id = call[d].id
               /\ call'[d].reached = call[d].reached
    <3>1. call[d] \in Call BY DEF TypeOK
    <3> QED BY <2>2, <2>3, <3>1 DEF Overtaken, Call
  <2>4. call'[c].pc = "idle" BY <2>2, IdleCall
  <2>5. faults' >= faults BY <2>2, GuessTypes DEF TypeOK
  <2> QED BY <2>2, <2>3, <2>4, <2>5, QuietGuesses
<1>2. CASE \E a \in Accounts : UpdateUser(a)
  <2>1. PICK a \in Accounts : UpdateUser(a) BY <1>2
  <2>2. PICK r \in Roles : user' = [user EXCEPT ![a] = [user[a] EXCEPT !.role = r]]
    BY <2>1 DEF UpdateUser, Set
  <2>3. /\ guesses' = guesses /\ faults' = faults
        /\ call' = [c \in Calls |-> IF c \in Storing(a) THEN [call[c] EXCEPT !.stale = TRUE]
                                    ELSE call[c]]
    BY <2>1 DEF UpdateUser
  <2>4. ASSUME NEW d \in Calls
        PROVE  /\ call'[d].pc = call[d].pc /\ call'[d].id = call[d].id
               /\ call'[d].reached = call[d].reached
    <3>1. call[d] \in Call BY DEF TypeOK
    <3> QED BY <2>3, <3>1 DEF Call
  <2>5. \A b \in Accounts : /\ user'[b].exists = user[b].exists
                            /\ user'[b].locked = user[b].locked
                            /\ user'[b].failed = user[b].failed
    BY <2>2 DEF TypeOK, User
  <2>6. faults' >= faults BY <2>3, GuessTypes DEF TypeOK
  <2> QED BY <2>3, <2>4, <2>5, <2>6, QuietGuesses
<1> QED BY <1>1, <1>2

\* An account is made when there is none, and when there is none nobody guesses.
LEMMA RegisterCreateGuesses ==
    ASSUME TypeOK, TypeOK', GuessInv, NEW c \in Calls, RegisterCreate(c) PROVE GuessInv'
<1>1. CASE \A a \in Accounts : ~Exists(a)
  <2>1. guesses' = 0 BY <1>1 DEF GuessInv, RegisterCreate
  <2> QED BY <2>1, NoGuesses
<1>2. CASE ~ \A a \in Accounts : ~Exists(a)
  <2>1. /\ user' = user /\ guesses' = guesses /\ faults' = faults
        /\ call[c].pc = "create" /\ call' = [call EXCEPT ![c] = Idle]
    BY <1>2 DEF RegisterCreate, NameFree, At, Answer
  <2>2. call'[c].pc = "idle" /\ \A d \in Calls : d # c => call'[d] = call[d]
    BY <2>1, IdleCall, Moved
  <2>3. faults' >= faults BY <2>1, GuessTypes DEF TypeOK
  <2> QED BY <2>1, <2>2, <2>3, QuietGuesses
<1> QED BY <1>1, <1>2

LEMMA NextGuesses ==
    ASSUME TypeOK, TypeOK', GuessInv, [Next]_vars PROVE GuessInv'
<1>1. CASE UNCHANGED vars
  <2>1. faults' >= faults BY <1>1, GuessTypes DEF vars, TypeOK
  <2> QED BY <1>1, <2>1, QuietGuesses DEF vars
<1>2. CASE \E t \in Live : Logout(t)
  <2>1. UNCHANGED <<user, call, faults, guesses>> BY <1>2 DEF Logout
  <2>2. faults' >= faults BY <2>1, GuessTypes DEF TypeOK
  <2> QED BY <2>1, <2>2, QuietGuesses
<1>3. CASE \E a \in Accounts : LockEnds(a) \/ DeleteUser(a)
  BY <1>3, NoGuesses DEF LockEnds, DeleteUser
<1>4. CASE \E c \in Calls : LoginRead(c) BY <1>4, LoginReadGuesses
<1>5. CASE \E c \in Calls : LoginIncrement(c) \/ LoginLock(c) \/ LoginReset(c)
  BY <1>5, LoginIncrementGuesses, LoginLockGuesses, LoginResetGuesses
<1>6. CASE \E c \in Calls :
              \/ Store(c) \/ RefreshValidate(c) \/ RefreshRevoke(c) \/ RefreshFind(c)
              \/ ChangeRead(c) \/ ChangeUpdate(c) \/ RegisterCheck(c)
  BY <1>6, OtherGuesses
<1>7. CASE \E c \in Calls : RegisterCreate(c) BY <1>7, RegisterCreateGuesses
<1>8. CASE (\E c \in Calls : ChangeRevoke(c)) \/ (\E a \in Accounts : UpdateUser(a))
  BY <1>8, MarkGuesses
<1> QED BY <1>1, <1>2, <1>3, <1>4, <1>5, <1>6, <1>7, <1>8 DEF Next

\* GuessInv is inductive, given the types.
THEOREM GuessInvariant == Spec => []GuessInv
<1>1. TypeOK /\ Init => GuessInv
  <2> SUFFICES ASSUME TypeOK, Init PROVE GuessInv OBVIOUS
  <2>1. guesses = 0 BY DEF Init
  <2>2. ASSUME NEW a \in Accounts PROVE GuessesOf(a)
    <3>1. PICK n, m, k \in Nat : /\ n = Cardinality(Counting(a)) /\ m = Cardinality(Locking(a))
                                 /\ k = Cardinality(Calls) /\ k >= 1
      BY CountedSets
    <3>2. faults \in Nat /\ user[a].failed \in Nat /\ MaxFailed \in Nat /\ MaxFailed >= 1
      BY GuessTypes
    <3> QED BY <2>1, <3>1, <3>2 DEF GuessesOf
  <2> QED BY <2>1, <2>2 DEF GuessInv
<1>2. TypeOK /\ TypeOK' /\ GuessInv /\ [Next]_vars => GuessInv' BY NextGuesses
<1> QED BY <1>1, <1>2, TypeCorrect, PTL DEF Spec

\* No more wrong passwords are tried between two locks than the limit, two for each
\* further request under way and one for each statement that failed: IncrementFailedAttempts
\* and LockAccount come after the count was read, and nothing orders them.
THEOREM GuessesAreBounded == Spec => []GuessesBounded
<1>1. TypeOK /\ GuessInv => GuessesBounded
  <2> SUFFICES ASSUME TypeOK, GuessInv PROVE GuessesBounded OBVIOUS
  <2>1. /\ guesses \in Nat /\ faults \in Nat /\ MaxFailed \in Nat /\ MaxFailed >= 1
        /\ \A a \in Accounts : user[a].failed \in Nat /\ user[a].locked \in BOOLEAN
    BY GuessTypes
  <2>2. CASE \A a \in Accounts : ~Exists(a)
    <3>1. guesses = 0 BY <2>2 DEF GuessInv
    <3>2. PICK k \in Nat : k = Cardinality(Calls) /\ k >= 1 BY CountedCalls
    <3> QED BY <2>1, <3>1, <3>2 DEF GuessesBounded
  <2>3. CASE \E a \in Accounts : Exists(a)
    <3>1. PICK a \in Accounts : Exists(a) BY <2>3
    <3>2. GuessesOf(a) BY <3>1 DEF GuessInv
    <3>3. PICK n, m, k \in Nat : /\ n = Cardinality(Counting(a)) /\ m = Cardinality(Locking(a))
                                 /\ k = Cardinality(Calls) /\ n <= k /\ m <= k
      BY CountedSets
    <3> QED BY <2>1, <3>2, <3>3 DEF GuessesOf, GuessesBounded
  <2> QED BY <2>2, <2>3
<1> QED BY <1>1, GuessInvariant, TypeCorrect, PTL

=============================================================================
