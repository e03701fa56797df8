\* One username, registered again twice, two tokens at a time and two changes.
SPECIFICATION Spec
CONSTANTS
    MaxAccounts = 3
    Tokens = {t1, t2}
    MaxChanges = 2
    MaxFailed = 2
    MaxAttempts = 4
    MaxFaults = 1
    Calls = {c1, c2}
    NoToken = NoToken
SYMMETRY Symmetry
INVARIANTS TypeOK OldSessionsEnd ExchangedOnce SessionsOfAccounts RolesRefresh GuessesBounded
CHECK_DEADLOCK FALSE
