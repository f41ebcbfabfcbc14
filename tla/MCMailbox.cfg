\* concurrent logins, a death of doveauth, late updates, a delivery and a run of
\* chatmail-expire; accounts of an old database
CONSTANTS
    Login = {l1, l2}
    Password = {w1, w2}
    None = None
    DAY = 2
    INACTIVE = 2
    Start = 4
    OldLogins = {0, 2}
    MaxTime = 9
    MaxDelay = 1
    MaxAccounts = 2
    MaxLocks = 2
    MaxRuns = 1
    MaxMails = 1
    MaxCrashes = 1
SPECIFICATION Spec
SYMMETRY Symmetry
INVARIANTS TypeOK LoginMatchesAccount AccountsMigrated
PROPERTIES PasswordStable InactiveBeforeRemoval InactiveRemoved
CHECK_DEADLOCK FALSE
