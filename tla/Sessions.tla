------------------------------ MODULE Sessions ------------------------------
(***************************************************************************)
(* Accounts and their sessions (internal/service/auth_service.go,          *)
(* user_repo.go, token_repo.go): login with lockout, rotation of refresh   *)
(* tokens, logout, password and role changes, registration and deletion.   *)
(*                                                                         *)
(* Requests share two tables and no transaction: what one statement read   *)
(* is used by a later one.  A step is one SQL statement.  bcrypt and the   *)
(* signature of a token depend on nothing but what was read, so they are   *)
(* part of the step that reads.  Every account here has the same username: *)
(* the ids tell an account from one registered after it was deleted.       *)
(* Access tokens are not stored; their claims are those of the pair.       *)
(***************************************************************************)
EXTENDS Integers, FiniteSets

CONSTANTS
    MaxAccounts,  \* bound on the accounts ever registered
    Tokens,       \* refresh tokens: one that is gone, and in hand of no request, stands for a new one
    MaxChanges,   \* bound on changes of password and role, and on deletions
    MaxFailed,    \* MaxFailedAttempts (5 in the code)
    MaxAttempts,  \* bound on the wrong passwords tried while nothing resets the count
    MaxFaults,    \* bound on SQL statements that fail
    Calls,        \* request goroutines; one that has answered serves again
    NoToken

ASSUME CountAssumption ==
    /\ MaxAccounts \in Nat \ {0} /\ MaxFailed \in Nat \ {0}
    /\ MaxChanges \in Nat /\ MaxAttempts \in Nat /\ MaxFaults \in Nat /\ NoToken \notin Tokens

\* The goroutines that serve requests are finitely many at any time.
ASSUME CallsAssumption == IsFiniteSet(Calls) /\ Calls # {}

Accounts == 1..MaxAccounts
Passwords == 0..MaxChanges
Roles == {"admin", "viewer"}

VARIABLES
    user,       \* id -> the row of table users
    known,      \* the ids drawn so far
    token,      \* the rows of table refresh_tokens that have not expired
    changes,    \* the changes so far: a new password is named by its number
    call,       \* request -> where its handler is
    faults,     \* the statements that failed so far
    guesses     \* history: wrong passwords since a lock ended or a right one reset the count

vars == <<user, known, token, changes, call, faults, guesses>>

User == [exists : BOOLEAN, password : Passwords, role : Roles, failed : Nat, locked : BOOLEAN]
NoUser == [exists |-> FALSE, password |-> 0, role |-> "viewer", failed |-> 0, locked |-> FALSE]

\* role, password: the claims of the pair, and the password its session began with.
\* History: exchanged, the tokens issued for it; shared, two refreshes had it in hand or
\* its revocation failed; late, it outlives a change of password; stale, it was issued,
\* or being issued, when the role changed.
Token == [live : BOOLEAN, owner : Accounts, role : Roles, password : Passwords,
          exchanged : Nat, shared : BOOLEAN, late : BOOLEAN, stale : BOOLEAN]
Gone == [live |-> FALSE, owner |-> 1, role |-> "viewer", password |-> 0,
         exchanged |-> 0, shared |-> FALSE, late |-> FALSE, stale |-> FALSE]

\* reached: the count as read says lock.  role, password, late, stale: of the pair to come.
Call == [pc : {"idle", "increment", "lock", "reset", "revoke", "find", "store",
               "update", "revokeAll", "create"},
         id : Accounts, reached : BOOLEAN, role : Roles, password : Passwords,
         token : Tokens \cup {NoToken}, late : BOOLEAN, stale : BOOLEAN]
Idle == [pc |-> "idle", id |-> 1, reached |-> FALSE, role |-> "viewer", password |-> 0,
         token |-> NoToken, late |-> FALSE, stale |-> FALSE]

\* NewAuthService has seeded the administrator.
Init ==
    /\ user = [a \in Accounts |-> IF a = 1 THEN [NoUser EXCEPT !.exists = TRUE, !.role = "admin"]
                                  ELSE NoUser]
    /\ known = 1 /\ changes = 0 /\ faults = 0 /\ guesses = 0
    /\ token = [t \in Tokens |-> Gone]
    /\ call = [c \in Calls |-> Idle]

At(c, pc) == call[c].pc = pc
GoTo(c, pc) == call' = [call EXCEPT ![c] = [@ EXCEPT !.pc = pc]]
Answer(c) == call' = [call EXCEPT ![c] = Idle]
Exists(a) == user[a].exists
Set(a, values) == user' = [user EXCEPT ![a] = values]
Live == {t \in Tokens : token[t].live}
OwnedBy(a) == {t \in Live : token[t].owner = a}

\* The rows of gone are deleted.  What is known of a token is kept while a request has it.
InHand(calls) == {calls[c].token : c \in Calls}
Delete(rows, gone, calls) ==
    [t \in Tokens |-> IF rows[t].live /\ t \notin gone THEN rows[t]
                      ELSE IF t \in InHand(calls) THEN [rows[t] EXCEPT !.live = FALSE] ELSE Gone]

Change == changes < MaxChanges /\ changes' = changes + 1

\* A statement fails: nothing has changed.
Fault == faults < MaxFaults /\ faults' = faults + 1
NoFault == UNCHANGED faults

-----------------------------------------------------------------------------
(* Login                                                                   *)

\* The count lives in the table; the decision to lock uses the one that was read.
MutReached(failed) == failed + 1 = MaxFailed   \* not when the count has passed the limit
Reached(failed) == failed + 1 >= MaxFailed

\* The row is read once: the lock, the hash and the count are judged as they were then.
LoginRead(c) ==
    \E a \in Accounts :
        /\ At(c, "idle")
        /\ Exists(a) /\ ~user[a].locked
        /\ \/ /\ call' = [call EXCEPT ![c] =
                     [Idle EXCEPT !.pc = IF user[a].failed > 0 THEN "reset" ELSE "store",
                                  !.id = a, !.role = user[a].role, !.password = user[a].password]]
              /\ UNCHANGED guesses
           \/ /\ user[a].failed < MaxAttempts
              /\ call' = [call EXCEPT ![c] = [Idle EXCEPT !.pc = "increment", !.id = a,
                                                         !.reached = Reached(user[a].failed)]]
              /\ guesses' = guesses + 1
        /\ UNCHANGED <<user, known, token, changes, faults>>

LoginIncrement(c) ==
    LET a == call[c].id
    IN  /\ At(c, "increment")
        /\ \/ NoFault /\ Set(a, IF Exists(a) THEN [user[a] EXCEPT !.failed = @ + 1] ELSE user[a])
           \/ Fault /\ UNCHANGED user
        /\ IF call[c].reached THEN GoTo(c, "lock") ELSE Answer(c)
        /\ UNCHANGED <<known, token, changes, guesses>>

LoginLock(c) ==
    LET a == call[c].id
    IN  /\ At(c, "lock")
        /\ \/ NoFault /\ Set(a, IF Exists(a) THEN [user[a] EXCEPT !.locked = TRUE] ELSE user[a])
           \/ Fault /\ UNCHANGED user
        /\ Answer(c)
        /\ UNCHANGED <<known, token, changes, guesses>>

\* ResetFailedAttempts clears a lock set since the row was read, too.
LoginReset(c) ==
    LET a == call[c].id
    IN  /\ At(c, "reset")
        /\ \/ /\ NoFault /\ guesses' = IF Exists(a) THEN 0 ELSE guesses
              /\ Set(a, IF Exists(a) THEN [user[a] EXCEPT !.failed = 0, !.locked = FALSE]
                        ELSE user[a])
           \/ Fault /\ UNCHANGED <<user, guesses>>
        /\ GoTo(c, "store")
        /\ UNCHANGED <<known, token, changes>>

\* Time passes: the lock ends, the count stays.
LockEnds(a) ==
    /\ user[a].locked
    /\ Set(a, [user[a] EXCEPT !.locked = FALSE])
    /\ guesses' = 0
    /\ UNCHANGED <<known, token, changes, call, faults>>

\* issueTokenPair, which ends login and refresh: the insert fails when the account is
\* gone, by the foreign key.
Issued(c, t) ==
    LET old == call[c].token
    IN  [s \in Tokens |->
            IF s = t THEN [Gone EXCEPT !.live = TRUE, !.owner = call[c].id, !.role = call[c].role,
                                       !.password = call[c].password,
                                       !.late = call[c].late, !.stale = call[c].stale]
            ELSE IF s = old THEN [token[s] EXCEPT !.exchanged = @ + 1] ELSE token[s]]

Store(c) ==
    /\ At(c, "store")
    /\ Answer(c)
    /\ \/ /\ Exists(call[c].id) /\ NoFault
          /\ \E t \in Tokens \ (Live \cup InHand(call)) : token' = Delete(Issued(c, t), {}, call')
       \/ /\ (~Exists(call[c].id) /\ NoFault) \/ Fault
          /\ token' = Delete(token, {}, call')
    /\ UNCHANGED <<user, known, changes, guesses>>

-----------------------------------------------------------------------------
(* Refresh and Logout                                                      *)

\* Another request has validated the token and is to revoke it.
Validated(t) == \E d \in Calls : At(d, "revoke") /\ call[d].token = t
Seen(t) == [token[t] EXCEPT !.shared = @ \/ Validated(t)]

RefreshValidate(c) ==
    \E t \in Live :
        /\ At(c, "idle")
        /\ call' = [call EXCEPT ![c] = [Idle EXCEPT !.pc = "revoke", !.id = token[t].owner,
                          !.role = token[t].role, !.password = token[t].password,
                          !.token = t, !.late = token[t].late]]
        /\ token' = [token EXCEPT ![t] = Seen(t)]
        /\ UNCHANGED <<user, known, changes, faults, guesses>>

MutRevoked(t) == {}   \* the token may be used again
Revoked(t) == {t}

\* Whether a row was deleted, and whether the statement failed, is not looked at.
RefreshRevoke(c) ==
    LET t == call[c].token
    IN  /\ At(c, "revoke")
        /\ GoTo(c, "find")
        /\ \/ NoFault /\ token' = Delete(token, Revoked(t), call')
           \/ Fault /\ token' = [token EXCEPT ![t] = [@ EXCEPT !.shared = TRUE]]
        /\ UNCHANGED <<user, known, changes, guesses>>

MutCurrentRole(c) == call[c].role   \* the claims of the old token
CurrentRole(c) == user[call[c].id].role

\* The new pair speaks of the account as it is now.
RefreshFind(c) ==
    /\ At(c, "find")
    /\ \/ /\ Exists(call[c].id)
          /\ call' = [call EXCEPT ![c] = [@ EXCEPT !.pc = "store", !.role = CurrentRole(c),
                                                   !.stale = FALSE]]
          /\ UNCHANGED token
       \/ /\ ~Exists(call[c].id)
          /\ Answer(c)
          /\ token' = Delete(token, {}, call')
    /\ UNCHANGED <<user, known, changes, faults, guesses>>

\* Logout answers whatever happens.  A token that expires is as good as deleted.
Logout(t) ==
    /\ t \in Live
    /\ token' = Delete(token, {t}, call)
    /\ UNCHANGED <<user, known, changes, call, faults, guesses>>

-----------------------------------------------------------------------------
(* ChangePassword                                                          *)

\* Requests that have read the account and may yet store a token for it.
Storing(a) == {c \in Calls : call[c].id = a /\ call[c].pc \in {"reset", "revoke", "find", "store"}}

\* The row is read, and the current password compared.
ChangeRead(c) ==
    \E a \in Accounts :
        /\ At(c, "idle")
        /\ Exists(a)
        /\ call' = [call EXCEPT ![c] = [Idle EXCEPT !.pc = "update", !.id = a]]
        /\ UNCHANGED <<user, known, token, changes, faults, guesses>>

ChangeUpdate(c) ==
    LET a == call[c].id
    IN  /\ At(c, "update")
        /\ \/ /\ Exists(a) /\ NoFault
              /\ Change
              /\ Set(a, [user[a] EXCEPT !.password = changes'])
              /\ GoTo(c, "revokeAll")
           \/ /\ (~Exists(a) /\ NoFault) \/ Fault
              /\ Answer(c)
              /\ UNCHANGED <<user, changes>>
        /\ UNCHANGED <<known, token, guesses>>

MutRevokedAll(a) == {t \in OwnedBy(a) : token[t].password = user[a].password}   \* the wrong ones
RevokedAll(a) == OwnedBy(a)

\* A session, or one to come, that was begun with another password.
Overtaken(session, a) == [session EXCEPT !.late = @ \/ session.password # user[a].password]

\* RevokeAllForUser, whose error is dropped.  Requests under way keep what they read.
ChangeRevoke(c) ==
    LET a == call[c].id
    IN  /\ At(c, "revokeAll")
        /\ call' = [d \in Calls |-> IF d = c THEN Idle
                                   ELSE IF d \in Storing(a) THEN Overtaken(call[d], a) ELSE call[d]]
        /\ \/ NoFault /\ token' = Delete(token, RevokedAll(a), call')
           \/ /\ Fault
              /\ token' = [t \in Tokens |->
                    IF t \in OwnedBy(a) THEN Overtaken(token[t], a) ELSE token[t]]
        /\ UNCHANGED <<user, known, changes, guesses>>

-----------------------------------------------------------------------------
(* The administrator's operations.  UpdateUser reads the row only to answer *)
(* 404, which the update does too.                                         *)

UpdateUser(a) ==
    /\ Exists(a)
    /\ Change
    /\ \E r \in Roles : r # user[a].role /\ Set(a, [user[a] EXCEPT !.role = r])
    /\ token' = [t \in Tokens |-> IF t \in OwnedBy(a) THEN [token[t] EXCEPT !.stale = TRUE]
                                   ELSE token[t]]
    /\ call' = [c \in Calls |-> IF c \in Storing(a) THEN [call[c] EXCEPT !.stale = TRUE]
                                ELSE call[c]]
    /\ UNCHANGED <<known, faults, guesses>>

\* ON DELETE CASCADE
MutCascaded(a) == {}   \* without the foreign key
Cascaded(a) == OwnedBy(a)

DeleteUser(a) ==
    /\ Exists(a)
    /\ Change
    /\ Set(a, NoUser)
    /\ token' = Delete(token, Cascaded(a), call)
    /\ guesses' = 0
    /\ UNCHANGED <<known, call, faults>>

\* The username is looked up, then inserted: the unique index refuses the second of
\* two requests that found it free.
RegisterCheck(c) ==
    /\ At(c, "idle")
    /\ known < MaxAccounts
    /\ \A a \in Accounts : ~Exists(a)
    /\ call' = [call EXCEPT ![c] = [Idle EXCEPT !.pc = "create"]]
    /\ UNCHANGED <<user, known, token, changes, faults, guesses>>

MutNameFree == TRUE   \* without the unique index
NameFree == \A a \in Accounts : ~Exists(a)

RegisterCreate(c) ==
    LET a == known + 1
    IN  /\ At(c, "create")
        /\ IF NameFree /\ a \in Accounts THEN known' = a /\ Set(a, [NoUser EXCEPT !.exists = TRUE])
           ELSE UNCHANGED <<user, known>>
        /\ Answer(c)
        /\ UNCHANGED <<token, changes, faults, guesses>>

Next ==
    \/ \E c \in Calls :
        \/ LoginRead(c) \/ LoginIncrement(c) \/ LoginLock(c) \/ LoginReset(c) \/ Store(c)
        \/ RefreshValidate(c) \/ RefreshRevoke(c) \/ RefreshFind(c)
        \/ ChangeRead(c) \/ ChangeUpdate(c) \/ ChangeRevoke(c)
        \/ RegisterCheck(c) \/ RegisterCreate(c)
    \/ \E t \in Live : Logout(t)
    \/ \E a \in Accounts : LockEnds(a) \/ UpdateUser(a) \/ DeleteUser(a)

Spec == Init /\ [][Next]_vars

-----------------------------------------------------------------------------
(* Properties                                                              *)

\* Every variable keeps its type, and at most one account has the username.
TypeOK ==
    /\ user \in [Accounts -> User] /\ known \in Accounts
    /\ token \in [Tokens -> Token] /\ changes \in Passwords
    /\ call \in [Calls -> Call] /\ faults \in 0..MaxFaults /\ guesses \in Nat
    /\ \A a, b \in Accounts : Exists(a) /\ Exists(b) => a = b

\* A change of password ends the sessions begun with an earlier one: those still open
\* wait for the revocation under way, stem from a request that overlapped it, or from a
\* revocation that failed.
OldSessionsEnd ==
    \A t \in Live :
        LET a == token[t].owner
        IN  \/ token[t].password = user[a].password
            \/ token[t].late
            \/ \E c \in Calls : At(c, "revokeAll") /\ call[c].id = a

\* A refresh token is exchanged at most once, unless two refreshes had validated it
\* before either revoked it, or its revocation failed.
ExchangedOnce == \A t \in Tokens : token[t].exchanged <= 1 \/ token[t].shared

\* No session outlives its account, though a request may store one for an account that
\* was deleted since it was read, and the username may belong to a new account.
SessionsOfAccounts == \A t \in Live : Exists(token[t].owner)

\* A new role reaches a session at its next refresh: only tokens issued before the change,
\* or by requests that had read the row, speak of an old one.
RolesRefresh == \A t \in Live : token[t].role = user[token[t].owner].role \/ token[t].stale

\* Between two locks, and unless the right password resets the count, no more wrong
\* passwords are tried than MaxFailed, two for each further request under way, which
\* judges by a count that is no longer true, and one for each statement that failed.
GuessesBounded == guesses <= MaxFailed + 2 * (Cardinality(Calls) - 1) + faults

=============================================================================
