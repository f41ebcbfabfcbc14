---------------------------- MODULE MailboxProofs ----------------------------
(* Proofs about Mailbox for any number of logins, deaths, runs of              *)
(* chatmail-expire and deliveries.                                            *)
EXTENDS Mailbox, TLAPS

-----------------------------------------------------------------------------
(* Types, and what the steps of doveauth imply for what it has in hand         *)

Holding == {"reread", "mkdir", "write", "touch", "release"}
Opened == Holding \cup {"acquire"}
Migrating == {"mkdir", "write", "touch", "utime", "rename"}

\* A login has a password from its first step to its last, and has the lock
\* file open while it waits for the lock or holds it.
LoginSteps ==
    \A l \in Login : (pc[l] # "idle" => given[l] # None) /\ (pc[l] \in Opened => fd[l] # None)

\* The migration is about a row of a database that is still there; nobody logs in
\* before it is done.
ServerSteps ==
    /\ server \in Migrating => passdb # None /\ ~moved
    /\ server = "serving" /\ passdb # None => moved
    /\ server # "serving" => \A l \in Login : pc[l] = "idle"

TypeInv == TypeOK /\ LoginSteps /\ ServerSteps

-----------------------------------------------------------------------------
(* The password                                                              *)

\* Whatever chatmail-expire removes, no two logins hold the same lock file.
MutualExclusion ==
    /\ \A l \in Login : pc[l] \in Holding => fd[l] \in held
    /\ \A k, l \in Login : pc[k] \in Holding /\ pc[l] \in Holding /\ k # l => fd[k] # fd[l]

\* As long as no mailbox has been removed there is one lock file and one password,
\* and who is about to store one has found none under the lock.
OneAccount ==
    runs = 0 =>
      /\ expiry.pc = "idle"
      /\ \A l \in Login : pc[l] \in Opened => fd[l] = lockfile
      /\ \A l \in Login : pc[l] \in {"mkdir", "write"} => pw = None
      /\ \A l \in Login : userdata[l] # None => pw = userdata[l]
      /\ passdb # None => pw \in {None, passdb.password}
      /\ passdb # None /\ (moved \/ server \in {"touch", "utime", "rename"}) => pw = passdb.password

AccountInv == MutualExclusion /\ OneAccount

-----------------------------------------------------------------------------
(* The last login                                                            *)

\* How far the mtime may be behind what the password file has been told of,
BehindInv ==
    /\ \A t \in notices : now <= t + MaxDelay
    /\ passdb # None /\ ~moved =>
         notices = {} /\ (passdb.last_login = 0 \/ noticed <= passdb.last_login)
    /\ pw # None => exists /\ mtime > 0 /\ noticed <= mtime + DAY + MaxDelay

\* and that it is not ahead of it, but during the migration.
AheadInv ==
    /\ server \in {"touch", "utime"} /\ passdb.last_login # 0 => passdb.last_login <= noticed
    /\ /\ pw # None
       /\ \/ passdb = None \/ moved \/ server = "rename"
          \/ server \in {"touch", "utime"} /\ passdb.last_login = 0
       => mtime <= noticed

ClockInv == BehindInv /\ AheadInv

-----------------------------------------------------------------------------
LEMMA DayStamp ==
    ASSUME NEW t \in Nat
    PROVE  /\ get_daytimestamp(t) \in Nat /\ get_daytimestamp(t) <= t /\ t < get_daytimestamp(t) + DAY
           /\ DAY <= t => DAY <= get_daytimestamp(t)
<1> DEFINE q == t \div DAY
<1>1. DAY \in Nat \ {0} /\ q \in Nat
  BY BoundAssumption
<1>2. q * DAY <= t /\ t < (q + 1) * DAY
  BY <1>1
<1>3. QED  BY <1>1, <1>2 DEF get_daytimestamp

LEMMA TypeInit == Init => TypeInv
<1> SUFFICES ASSUME Init PROVE TypeInv
  OBVIOUS
<1>1. {exists, e2ee, mail, delivery} \subseteq BOOLEAN
  <2>1. exists = TRUE \/ exists = FALSE
    BY DEF Init
  <2>2. mail = exists /\ e2ee = FALSE /\ delivery = FALSE
    BY DEF Init
  <2>3. QED  BY <2>1, <2>2
<1>2. TypeOK
  <2>1. now \in Time /\ 0 \in 0..now
    BY BoundAssumption DEF Init, Time
  <2>2. expiry \in [pc : {"idle", "scan", "rmtree", "unlink"}, now : 0..now, todo : SUBSET Name]
    BY <2>1 DEF Init, NoRun
  <2>3. /\ locks \in 0..MaxLocks /\ accounts \in 0..MaxAccounts
        /\ runs \in 0..MaxRuns /\ mails \in 0..MaxMails /\ crashes \in 0..MaxCrashes
    BY BoundAssumption DEF Init
  <2>4. /\ moved \in BOOLEAN /\ pw \in Password \cup {None} /\ mtime \in 0..now /\ noticed \in 0..now
        /\ lockfile \in 1..MaxLocks \cup {None} /\ held \in SUBSET (1..MaxLocks)
        /\ notices \in SUBSET (Start..now)
    BY <2>1 DEF Init
  <2>5. /\ server = "down" /\ passdb \in Rows \cup {None}
        /\ pc \in [Login -> {"idle"}] /\ given \in [Login -> {None}] /\ fd \in [Login -> {None}]
        /\ userdata \in [Login -> {None}]
    BY DEF Init
  <2>6. QED  BY <1>1, <2>1, <2>2, <2>3, <2>4, <2>5 DEF TypeOK
<1>3. LoginSteps /\ ServerSteps
  BY DEF Init, LoginSteps, ServerSteps, Opened, Holding, Migrating
<1>4. QED  BY <1>2, <1>3 DEF TypeInv

\* A login step, with the files that it does not touch left out
LoginStep(l) ==
    \/ \E w \in Password : Attempt(l, w)
    \/ Lookup(l) \/ Refuse(l) \/ OpenLock(l) \/ Acquire(l) \/ AcquireAgain(l) \/ LockTimeout(l) \/ Reread(l)
    \/ Mkdir(l) \/ WritePassword(l) \/ Touch(l) \/ DirectoryGone(l)
    \/ Release(l) \/ Final(l) \/ Reply(l)

ServerStep ==
    \/ Crash \/ Boot
    \/ MigrateMkdir \/ MigratePassword \/ MigrateTouch \/ MigrateRaises \/ MigrateLastLogin \/ MigrateRename

ExpiryStep == StartRun \/ Scan \/ Rmtree \/ (\E n \in Name : Unlink(n)) \/ Rmdir

LEMMA LoginType == ASSUME TypeInv, NEW l \in Login, LoginStep(l) PROVE TypeInv'
<1> USE DEF TypeInv, TypeOK, LoginSteps, ServerSteps, Opened, Holding, Migrating, Goto, doveauth, files,
    others, bounds
<1>1. CASE \E w \in Password : Attempt(l, w)
  BY <1>1, BoundAssumption DEF Attempt
<1>2. CASE Lookup(l)
  BY <1>2 DEF Lookup, Return
<1>3. CASE Refuse(l)
  BY <1>3 DEF Refuse, Return
<1>4. CASE OpenLock(l)
  BY <1>4, BoundAssumption DEF OpenLock
<1>5. CASE Acquire(l)
  BY <1>5 DEF Acquire
<1>6. CASE AcquireAgain(l) \/ LockTimeout(l)
  BY <1>6 DEF AcquireAgain, LockTimeout, Raise
<1>7. CASE Reread(l)
  BY <1>7 DEF Reread
<1>8. CASE Mkdir(l) \/ Touch(l)
  BY <1>8 DEF Mkdir, Touch
<1>9. CASE WritePassword(l)
  BY <1>9, BoundAssumption DEF WritePassword, Time
<1>10. CASE DirectoryGone(l)
  BY <1>10 DEF DirectoryGone, Raise
<1>11. CASE Release(l)
  BY <1>11 DEF Release
<1>12. CASE Final(l)
  BY <1>12 DEF Final, Return
<1>13. CASE Reply(l)
  BY <1>13, BoundAssumption DEF Reply, Raise, Time
<1>14. QED
  BY <1>1, <1>2, <1>3, <1>4, <1>5, <1>6, <1>7, <1>8, <1>9, <1>10, <1>11, <1>12, <1>13 DEF LoginStep

LEMMA ServerType == TypeInv /\ ServerStep => TypeInv'
<1> SUFFICES ASSUME TypeInv, ServerStep PROVE TypeInv'
  OBVIOUS
<1> USE BoundAssumption DEF TypeInv, TypeOK, LoginSteps, ServerSteps, Opened, Holding, Migrating, Step,
    doveauth, files, logins, others, bounds
<1>1. CASE Crash
  BY <1>1 DEF Crash
<1>2. CASE Boot
  BY <1>2 DEF Boot
<1>3. CASE MigrateMkdir
  BY <1>3 DEF MigrateMkdir
<1>4. CASE MigratePassword
  BY <1>4 DEF MigratePassword, Rows, Time
<1>5. CASE MigrateTouch
  BY <1>5 DEF MigrateTouch
<1>6. CASE MigrateRaises
  BY <1>6 DEF MigrateRaises
<1>7. CASE MigrateLastLogin
  <2>1. passdb.last_login \in 0..Start /\ get_daytimestamp(passdb.last_login) \in 0..passdb.last_login
    <3>1. passdb.last_login \in 0..Start
      BY <1>7 DEF MigrateLastLogin, Rows
    <3>2. QED  BY <3>1, DayStamp
  <2>2. mtime' \in 0..now
    BY <1>7, <2>1 DEF MigrateLastLogin, Time
  <2> HIDE BoundAssumption
  <2>3. QED  BY <1>7, <2>2 DEF MigrateLastLogin
<1>8. CASE MigrateRename
  BY <1>8 DEF MigrateRename
<1>9. QED  BY <1>1, <1>2, <1>3, <1>4, <1>5, <1>6, <1>7, <1>8 DEF ServerStep

LEMMA ExpiryType == TypeInv /\ ExpiryStep => TypeInv'
<1> SUFFICES ASSUME TypeInv, ExpiryStep PROVE TypeInv'
  OBVIOUS
<1> USE BoundAssumption DEF TypeInv, TypeOK, LoginSteps, ServerSteps, doveauth, files, logins, bounds
<1>1. CASE StartRun
  BY <1>1 DEF StartRun, Time
<1>2. CASE Scan
  BY <1>2 DEF Scan, NoRun, Time
<1>3. CASE Rmtree
  BY <1>3 DEF Rmtree, listing
<1>4. CASE \E n \in Name : Unlink(n)
  BY <1>4 DEF Unlink, Time
<1>5. CASE Rmdir
  BY <1>5 DEF Rmdir, NoRun, Time
<1>6. QED  BY <1>1, <1>2, <1>3, <1>4, <1>5 DEF ExpiryStep

LEMMA OtherType ==
    ASSUME TypeInv, (\E t \in Time : SetLastLogin(t)) \/ DeliverTo \/ Deliver \/ Tick \/ UNCHANGED vars
    PROVE  TypeInv'
<1> USE BoundAssumption DEF TypeInv, TypeOK, LoginSteps, ServerSteps, doveauth, files, logins, others, bounds
<1>1. CASE \E t \in Time : SetLastLogin(t)
  BY <1>1, DayStamp DEF SetLastLogin, Time
<1>2. CASE DeliverTo \/ Deliver
  <2>1. {exists', e2ee', mail', delivery'} \subseteq BOOLEAN
    <3>1. exists' = exists \/ exists' = TRUE
      BY <1>2 DEF DeliverTo, Deliver
    <3>2. mail' = mail \/ mail' = TRUE
      BY <1>2 DEF DeliverTo, Deliver
    <3>3. delivery' = TRUE \/ delivery' = FALSE
      BY <1>2 DEF DeliverTo, Deliver
    <3>4. e2ee' = e2ee
      BY <1>2 DEF DeliverTo, Deliver
    <3>5. QED  BY <3>1, <3>2, <3>3, <3>4
  <2>2. mails' \in 0..MaxMails
    BY <1>2 DEF DeliverTo, Deliver
  <2>3. UNCHANGED <<now, doveauth, pw, mtime, lockfile, locks, logins, notices, expiry, noticed, accounts,
                    runs, crashes>>
    BY <1>2 DEF DeliverTo, Deliver
  <2>4. QED  BY <2>1, <2>2, <2>3
<1>3. CASE Tick
  BY <1>3 DEF Tick, Time
<1>4. CASE UNCHANGED vars
  BY <1>4 DEF vars
<1>5. QED  BY <1>1, <1>2, <1>3, <1>4

LEMMA TypeNext == TypeInv /\ [Next]_vars => TypeInv'
BY LoginType, ServerType, ExpiryType, OtherType DEF Next, LoginStep, ServerStep, ExpiryStep

LEMMA TypeInvariant == Spec => []TypeInv
BY TypeInit, TypeNext, PTL DEF Spec

-----------------------------------------------------------------------------
LEMMA AccountInit == Init => AccountInv
BY BoundAssumption DEF Init, AccountInv, MutualExclusion, OneAccount, Holding, Opened, NoRun

LEMMA LoginMutex == ASSUME TypeInv, MutualExclusion, NEW l \in Login, LoginStep(l) PROVE MutualExclusion'
<1>1. pc = [k \in Login |-> pc[k]] /\ fd \in [Login -> 1..MaxLocks \cup {None}]
  BY DEF TypeInv, TypeOK
<1>2. ASSUME NEW q, q \notin Holding, pc' = [pc EXCEPT ![l] = q], fd' \in {fd, [fd EXCEPT ![l] = fd'[l]]},
             held' = held
      PROVE  MutualExclusion'
  BY <1>1, <1>2 DEF MutualExclusion
<1>3. ASSUME NEW q \in Holding, pc[l] \in Holding, pc' = [pc EXCEPT ![l] = q], fd' = fd, held' = held
      PROVE  MutualExclusion'
  BY <1>1, <1>3 DEF MutualExclusion
<1>4. ASSUME NEW q, q \notin Holding, pc[l] \in Holding, pc' = [pc EXCEPT ![l] = q],
             fd' \in {fd, [fd EXCEPT ![l] = None]}, held' = held \ {fd[l]}
      PROVE  MutualExclusion'
  BY <1>1, <1>4 DEF MutualExclusion
<1>5. CASE \/ \E w \in Password : Attempt(l, w)
           \/ Lookup(l) \/ Refuse(l) \/ Final(l)
  BY <1>2, <1>5 DEF Attempt, Lookup, Refuse, Final, Return, Goto, Holding
<1>6. CASE OpenLock(l) \/ AcquireAgain(l) \/ LockTimeout(l) \/ Reply(l)
  <2>1. fd' = [fd EXCEPT ![l] = fd'[l]] /\ held' = held
    BY <1>1, <1>6 DEF OpenLock, AcquireAgain, LockTimeout, Reply, Raise, files
  <2>2. \E q : q \notin Holding /\ pc' = [pc EXCEPT ![l] = q]
    BY <1>6 DEF OpenLock, AcquireAgain, LockTimeout, Reply, Raise, Goto, Holding
  <2>3. QED  BY <1>2, <2>1, <2>2
<1>7. CASE Acquire(l)
  BY <1>1, <1>7 DEF Acquire, Goto, MutualExclusion, Holding
<1>8. CASE Reread(l) \/ Mkdir(l) \/ WritePassword(l) \/ Touch(l)
  BY <1>3, <1>8 DEF Reread, Mkdir, WritePassword, Touch, Goto, Holding
<1>9. CASE DirectoryGone(l) \/ Release(l)
  BY <1>4, <1>9 DEF DirectoryGone, Release, Raise, Goto, Holding
<1>10. QED  BY <1>5, <1>6, <1>7, <1>8, <1>9 DEF LoginStep

LEMMA MutexNext == TypeInv /\ MutualExclusion /\ [Next]_vars => MutualExclusion'
<1> SUFFICES ASSUME TypeInv, MutualExclusion, [Next]_vars PROVE MutualExclusion'
  OBVIOUS
<1>1. CASE Crash
  BY <1>1 DEF Crash, MutualExclusion, Holding
<1>2. CASE UNCHANGED logins
  BY <1>2 DEF logins, MutualExclusion
<1>3. CASE \E l \in Login : LoginStep(l)
  BY <1>3, LoginMutex
<1>4. CASE \/ ServerStep /\ ~Crash
           \/ ExpiryStep \/ (\E t \in Time : SetLastLogin(t)) \/ DeliverTo \/ Deliver \/ Tick \/ UNCHANGED vars
  BY <1>2, <1>4 DEF ServerStep, Boot, MigrateMkdir, MigratePassword, MigrateTouch, MigrateRaises,
     MigrateLastLogin, MigrateRename, ExpiryStep, StartRun, Scan, Rmtree, Unlink, Rmdir, SetLastLogin,
     DeliverTo, Deliver, Tick, vars
<1>5. QED  BY <1>1, <1>3, <1>4 DEF Next, LoginStep, ServerStep, ExpiryStep

\* Two logins are not between the lock and its release at once.
LEMMA OneHolder ==
    ASSUME MutualExclusion, OneAccount, runs = 0, NEW k \in Login, NEW l \in Login,
           pc[k] \in Holding, pc[l] \in Holding
    PROVE  k = l
BY DEF MutualExclusion, OneAccount, Opened

LEMMA LoginAccount ==
    ASSUME TypeInv, AccountInv, NEW l \in Login, LoginStep(l) PROVE OneAccount'
<1> SUFFICES ASSUME runs' = 0 PROVE OneAccount'
  BY DEF OneAccount
<1> USE DEF Goto, doveauth, files, others, bounds
<1>1. UNCHANGED <<server, passdb, moved, expiry>> /\ runs = 0
  <2>1. UNCHANGED <<server, passdb, moved, expiry, runs>>
    BY DEF LoginStep, Attempt, Lookup, Refuse, OpenLock, Acquire, AcquireAgain, LockTimeout, Reread, Mkdir,
       WritePassword, Touch, DirectoryGone, Release, Final, Reply
  <2>2. QED  BY <2>1
<1>2. pc = [k \in Login |-> pc[k]] /\ fd \in [Login -> 1..MaxLocks \cup {None}] /\ LoginSteps /\ ServerSteps
      /\ given \in [Login -> Password \cup {None}] /\ userdata \in [Login -> Password \cup {None}]
  BY DEF TypeInv, TypeOK
<1>3. OneAccount /\ MutualExclusion
  BY DEF AccountInv
<1>4. CASE \E w \in Password : Attempt(l, w)
  BY <1>1, <1>2, <1>3, <1>4 DEF Attempt, OneAccount, Opened, Holding
<1>5. CASE Lookup(l)
  BY <1>1, <1>2, <1>3, <1>5 DEF Lookup, Return, OneAccount, Opened, Holding
<1>6. CASE Refuse(l)
  BY <1>1, <1>2, <1>3, <1>6 DEF Refuse, Return, OneAccount, Opened, Holding
<1>7. CASE OpenLock(l)
  BY <1>1, <1>2, <1>3, <1>7 DEF OpenLock, OneAccount, LoginSteps, Opened, Holding
<1>8. CASE Acquire(l)
  BY <1>1, <1>2, <1>3, <1>8 DEF Acquire, OneAccount, Opened, Holding
<1>9. CASE AcquireAgain(l) \/ LockTimeout(l) \/ DirectoryGone(l)
  BY <1>1, <1>2, <1>3, <1>9 DEF AcquireAgain, LockTimeout, DirectoryGone, Raise, OneAccount, Opened, Holding
<1>10. CASE Reread(l)
  BY <1>1, <1>2, <1>3, <1>10 DEF Reread, OneAccount, Opened, Holding
<1>11. CASE Mkdir(l) \/ Touch(l)
  BY <1>1, <1>2, <1>3, <1>11 DEF Mkdir, Touch, OneAccount, Opened, Holding
<1>12. CASE WritePassword(l)
  <2>1. pw = None /\ pw' = given[l] /\ server = "serving"
    BY <1>1, <1>2, <1>3, <1>12 DEF WritePassword, OneAccount, ServerSteps
  <2>2. passdb = None
    <3>1. SUFFICES ASSUME passdb # None PROVE FALSE
      OBVIOUS
    <3>2. moved
      BY <1>2, <2>1, <3>1 DEF ServerSteps
    <3>3. pw = passdb.password
      BY <1>1, <1>3, <3>1, <3>2 DEF OneAccount
    <3>4. passdb.password \in Password
      BY <3>1 DEF TypeInv, TypeOK, Rows
    <3>5. QED  BY <2>1, <3>3, <3>4, BoundAssumption
  <2>3. \A k \in Login : pc'[k] \notin {"mkdir", "write"}
    <3>1. SUFFICES ASSUME NEW k \in Login, pc'[k] \in {"mkdir", "write"} PROVE FALSE
      OBVIOUS
    <3>2. k # l /\ pc[k] \in Holding /\ pc[l] \in Holding
      BY <1>2, <1>12, <3>1 DEF WritePassword, Holding
    <3>3. QED  BY <1>1, <1>3, <3>2, OneHolder
  <2>4. QED  BY <1>1, <1>2, <1>3, <1>12, <2>1, <2>2, <2>3 DEF WritePassword, OneAccount, Opened, Holding
<1>13. CASE Release(l)
  BY <1>1, <1>2, <1>3, <1>13 DEF Release, OneAccount, Opened, Holding
<1>14. CASE Final(l) \/ Reply(l)
  BY <1>1, <1>2, <1>3, <1>14 DEF Final, Reply, Raise, Return, OneAccount, Opened, Holding
<1>15. QED  BY <1>4, <1>5, <1>6, <1>7, <1>8, <1>9, <1>10, <1>11, <1>12, <1>13, <1>14 DEF LoginStep

LEMMA ServerAccount == TypeInv /\ AccountInv /\ ServerStep => OneAccount'
<1> SUFFICES ASSUME TypeInv, AccountInv, ServerStep, runs' = 0 PROVE OneAccount'
  BY DEF OneAccount
<1> USE DEF Step, doveauth, files, logins, others, bounds
<1>1. UNCHANGED <<passdb, expiry, lockfile>> /\ runs = 0
  <2>1. UNCHANGED <<passdb, expiry, lockfile, runs>>
    BY DEF ServerStep, Crash, Boot, MigrateMkdir, MigratePassword, MigrateTouch, MigrateRaises,
       MigrateLastLogin, MigrateRename
  <2>2. QED  BY <2>1
<1>2. OneAccount /\ ServerSteps
  BY DEF AccountInv, TypeInv
<1>3. CASE Crash
  BY <1>1, <1>2, <1>3 DEF Crash, OneAccount, Opened, Holding
<1>4. CASE Boot
  BY <1>1, <1>2, <1>4 DEF Boot, OneAccount
<1>5. CASE MigratePassword
  <2>1. passdb # None /\ \A l \in Login : pc[l] = "idle"
    BY <1>2, <1>5 DEF MigratePassword, ServerSteps, Migrating
  <2>2. \A l \in Login : userdata[l] # None => userdata[l] = passdb.password
    BY <1>1, <1>2, <2>1 DEF OneAccount
  <2>3. QED  BY <1>1, <1>2, <1>5, <2>1, <2>2 DEF MigratePassword, OneAccount, Opened, Holding
<1>6. CASE MigrateMkdir \/ MigrateTouch \/ MigrateRaises \/ MigrateLastLogin
  <2>1. UNCHANGED <<moved, pw, logins>>
        /\ (server' \in {"touch", "utime", "rename"} => server \in {"touch", "utime"})
    BY <1>6 DEF MigrateMkdir, MigrateTouch, MigrateRaises, MigrateLastLogin
  <2>2. QED  BY <1>1, <1>2, <2>1 DEF OneAccount
<1>7. CASE MigrateRename
  BY <1>1, <1>2, <1>7 DEF MigrateRename, OneAccount
<1>8. QED  BY <1>3, <1>4, <1>5, <1>6, <1>7 DEF ServerStep

LEMMA ExpiryAccount == TypeInv /\ AccountInv /\ ExpiryStep => OneAccount'
<1> SUFFICES ASSUME TypeInv, AccountInv, ExpiryStep, runs' = 0 PROVE FALSE
  BY DEF OneAccount
<1>1. CASE StartRun
  BY <1>1 DEF StartRun, TypeInv, TypeOK
<1>2. CASE Scan \/ Rmtree \/ (\E n \in Name : Unlink(n)) \/ Rmdir
  <2>1. runs = 0
    BY <1>2 DEF Scan, Rmtree, Unlink, Rmdir, bounds
  <2>2. expiry.pc = "idle"
    BY <2>1 DEF AccountInv, OneAccount
  <2>3. QED  BY <1>2, <2>2 DEF Scan, Rmtree, Unlink, Rmdir
<1>3. QED  BY <1>1, <1>2 DEF ExpiryStep

LEMMA AccountNext == TypeInv /\ AccountInv /\ [Next]_vars => AccountInv'
<1> SUFFICES ASSUME TypeInv, AccountInv, [Next]_vars PROVE AccountInv'
  OBVIOUS
<1>1. MutualExclusion'
  BY MutexNext DEF AccountInv
<1>2. OneAccount'
  <2>1. CASE UNCHANGED <<doveauth, pw, lockfile, logins, expiry, runs>>
    BY <2>1 DEF AccountInv, OneAccount, doveauth, logins
  <2>2. CASE (\E t \in Time : SetLastLogin(t)) \/ DeliverTo \/ Deliver \/ Tick \/ UNCHANGED vars
    BY <2>1, <2>2 DEF SetLastLogin, DeliverTo, Deliver, Tick, vars, files, others, bounds
  <2>3. QED  BY <2>2, LoginAccount, ServerAccount, ExpiryAccount DEF Next, LoginStep, ServerStep, ExpiryStep
<1>3. QED  BY <1>1, <1>2 DEF AccountInv

LEMMA AccountInvariant == Spec => [](TypeInv /\ AccountInv)
BY TypeInit, TypeNext, AccountInit, AccountNext, PTL DEF Spec

-----------------------------------------------------------------------------
\* What truncation and a late update may cost
LEMMA LateUpdate ==
    ASSUME NEW t \in Nat, NEW day \in Nat, NEW known \in Nat, t < day + DAY, known <= t + MaxDelay
    PROVE  known <= day + DAY + MaxDelay
<1>1. DAY \in Nat /\ MaxDelay \in Nat
  BY BoundAssumption
<1>2. QED  BY <1>1

LEMMA OldLoginTime ==
    ASSUME TypeInv, passdb # None
    PROVE  passdb.last_login \in OldLogins /\ passdb.last_login \in 0..Start /\ Start \in Nat
<1>1. passdb.last_login \in OldLogins
  BY DEF TypeInv, TypeOK, Rows
<1>2. QED  BY <1>1, BoundAssumption

LEMMA ClockInit == Init => ClockInv
<1> SUFFICES ASSUME Init PROVE ClockInv
  OBVIOUS
<1>1. passdb # None => passdb.last_login \in Nat
  BY TypeInit, OldLoginTime
<1>2. QED  BY <1>1 DEF Init, ClockInv, BehindInv, AheadInv

\* Most steps leave the clock, the database and the password file alone.
LEMMA ClockUntouched ==
    ASSUME ClockInv, UNCHANGED <<now, doveauth, pw, mtime, notices, noticed>>,
           exists' = TRUE \/ exists' = exists
    PROVE  ClockInv'
BY DEF ClockInv, BehindInv, AheadInv, doveauth

LEMMA LoginClock == ASSUME TypeInv, ClockInv, NEW l \in Login, LoginStep(l) PROVE ClockInv'
<1> USE DEF doveauth, files, others, bounds
<1>1. CASE WritePassword(l)
  <2>1. server = "serving" /\ now \in Nat \ {0}
    BY <1>1, BoundAssumption DEF WritePassword, TypeInv, TypeOK, ServerSteps, Time
  <2>2. passdb # None => moved
    BY <2>1 DEF TypeInv, ServerSteps
  <2>3. QED  BY <1>1, <2>1, <2>2, BoundAssumption DEF WritePassword, ClockInv, BehindInv, AheadInv
<1>2. CASE Reply(l)
  <2>1. server = "serving" /\ now \in Nat
    BY <1>2, BoundAssumption DEF Reply, TypeInv, TypeOK, ServerSteps, Time
  <2>2. passdb # None => moved
    BY <2>1 DEF TypeInv, ServerSteps
  <2>3. \A t \in notices' : now <= t + MaxDelay
    BY <1>2, <2>1, BoundAssumption DEF Reply, ClockInv, BehindInv
  <2>4. UNCHANGED <<now, server, passdb, moved, exists, pw, mtime, noticed>>
    BY <1>2 DEF Reply
  <2>5. BehindInv'
    BY <2>2, <2>3, <2>4 DEF ClockInv, BehindInv
  <2>6. AheadInv'
    BY <2>4 DEF ClockInv, AheadInv
  <2>7. QED  BY <2>5, <2>6 DEF ClockInv
<1>3. CASE \/ \E w \in Password : Attempt(l, w)
           \/ Lookup(l) \/ Refuse(l) \/ OpenLock(l) \/ Acquire(l) \/ AcquireAgain(l) \/ LockTimeout(l)
           \/ Reread(l) \/ Mkdir(l) \/ Touch(l) \/ DirectoryGone(l) \/ Release(l) \/ Final(l)
  <2>1. UNCHANGED <<now, doveauth, pw, mtime, notices, noticed>> /\ (exists' = TRUE \/ exists' = exists)
    BY <1>3 DEF Attempt, Lookup, Refuse, OpenLock, Acquire, AcquireAgain, LockTimeout, Reread, Mkdir, Touch,
       DirectoryGone, Release, Final
  <2>2. QED  BY <2>1, ClockUntouched
<1>4. QED  BY <1>1, <1>2, <1>3 DEF LoginStep

LEMMA ServerClock == TypeInv /\ ClockInv /\ ServerStep => ClockInv'
<1> SUFFICES ASSUME TypeInv, ClockInv, ServerStep PROVE ClockInv'
  OBVIOUS
<1> USE DEF Step, doveauth, files, logins, others, bounds
<1>1. UNCHANGED <<now, passdb, notices>>
  BY DEF ServerStep, Crash, Boot, MigrateMkdir, MigratePassword, MigrateTouch, MigrateRaises,
     MigrateLastLogin, MigrateRename
<1>2. now \in Nat \ {0} /\ noticed \in 0..now /\ mtime \in 0..now /\ ServerSteps
  BY BoundAssumption DEF TypeInv, TypeOK, Time
<1>3. passdb # None => passdb.last_login \in OldLogins /\ passdb.last_login \in 0..Start /\ Start <= now
  BY OldLoginTime DEF TypeInv, TypeOK, Time
<1>4. CASE Crash \/ Boot \/ MigrateRaises
  BY <1>1, <1>4 DEF Crash, Boot, MigrateRaises, ClockInv, BehindInv, AheadInv
<1>5. CASE MigrateMkdir \/ MigrateTouch \/ MigrateRename
  BY <1>1, <1>5 DEF MigrateMkdir, MigrateTouch, MigrateRename, ClockInv, BehindInv, AheadInv
<1>6. CASE MigratePassword
  <2>1. passdb # None /\ ~moved
    BY <1>2, <1>6 DEF MigratePassword, ServerSteps, Migrating
  <2>2. BehindInv'
    BY <1>1, <1>2, <1>3, <1>6, <2>1, BoundAssumption DEF MigratePassword, ClockInv, BehindInv
  <2>3. AheadInv'
    BY <1>1, <1>2, <1>3, <1>6, <2>1 DEF MigratePassword, AheadInv
  <2>4. QED  BY <2>2, <2>3 DEF ClockInv
<1>7. CASE MigrateLastLogin
  <2> DEFINE ll == passdb.last_login
  <2>1. passdb # None /\ ~moved
    BY <1>2, <1>7 DEF MigrateLastLogin, ServerSteps, Migrating
  <2>2. CASE pw # None /\ ll # 0
    <3>1. mtime' = get_daytimestamp(ll) /\ noticed <= ll /\ ll <= noticed /\ ll \in Nat /\ DAY <= ll
      BY <1>3, <1>7, <2>1, <2>2, EpochAssumption DEF MigrateLastLogin, ClockInv, BehindInv, AheadInv
    <3>2. mtime' \in Nat /\ mtime' <= ll /\ ll < mtime' + DAY /\ DAY <= mtime'
      BY <3>1, DayStamp
    <3>3. UNCHANGED <<moved, pw, exists, noticed>> /\ server' = "rename"
      BY <1>7 DEF MigrateLastLogin
    <3>4. BehindInv'
      BY <1>1, <1>2, <3>1, <3>2, <3>3, BoundAssumption DEF ClockInv, BehindInv
    <3>5. AheadInv'
      BY <1>1, <1>2, <3>1, <3>2, <3>3 DEF AheadInv
    <3>6. QED  BY <3>4, <3>5 DEF ClockInv
  <2>3. CASE ~(pw # None /\ ll # 0)
    BY <1>1, <1>7, <2>3 DEF MigrateLastLogin, ClockInv, BehindInv, AheadInv
  <2>4. QED  BY <2>2, <2>3
<1>8. QED  BY <1>4, <1>5, <1>6, <1>7 DEF ServerStep

LEMMA ExpiryClock == TypeInv /\ ClockInv /\ ExpiryStep => ClockInv'
<1> SUFFICES ASSUME TypeInv, ClockInv, ExpiryStep PROVE ClockInv'
  OBVIOUS
<1> USE DEF doveauth, files, logins, bounds
<1>1. CASE StartRun \/ Scan \/ Rmtree
  BY <1>1, ClockUntouched DEF StartRun, Scan, Rmtree
<1>2. CASE \E n \in Name : Unlink(n)
  <2>1. /\ UNCHANGED <<now, doveauth, exists, notices, noticed>>
        /\ pw' = None \/ UNCHANGED <<pw, mtime>>
    BY <1>2 DEF Unlink
  <2>2. QED  BY <2>1 DEF ClockInv, BehindInv, AheadInv
<1>3. CASE Rmdir
  <2>1. pw # None => listing # {}
    BY DEF listing, Name
  <2>2. QED  BY <1>3, <2>1 DEF Rmdir, ClockInv, BehindInv, AheadInv
<1>4. QED  BY <1>1, <1>2, <1>3 DEF ExpiryStep

LEMMA OtherClock ==
    ASSUME TypeInv, ClockInv,
           (\E t \in Time : SetLastLogin(t)) \/ DeliverTo \/ Deliver \/ Tick \/ UNCHANGED vars
    PROVE  ClockInv'
<1> USE DEF doveauth, files, logins, others, bounds
<1>1. ASSUME NEW t \in Time, SetLastLogin(t) PROVE ClockInv'
  <2>1. t \in notices /\ t \in Nat /\ DAY <= t /\ now \in Nat /\ noticed \in 0..now /\ t <= now
    BY <1>1, BoundAssumption, EpochAssumption DEF SetLastLogin, TypeInv, TypeOK, Time
  <2>2. now <= t + MaxDelay /\ (passdb # None => moved)
    BY <2>1 DEF ClockInv, BehindInv
  <2>3. UNCHANGED <<now, server, passdb, moved, exists, pw>> /\ notices' = notices \ {t}
    BY <1>1 DEF SetLastLogin
  <2>4. CASE pw # None
    <3>1. mtime' = get_daytimestamp(t) /\ noticed' = IF t > noticed THEN t ELSE noticed
      BY <1>1, <2>4 DEF SetLastLogin
    <3>2. mtime' \in Nat /\ mtime' <= t /\ t < mtime' + DAY /\ DAY <= mtime'
      BY <2>1, <3>1, DayStamp
    <3>3. noticed' \in Nat /\ noticed' <= now /\ t <= noticed' /\ noticed <= noticed'
      BY <2>1, <3>1
    <3>4. BehindInv'
      <4>1. DAY \in Nat /\ MaxDelay \in Nat
        BY BoundAssumption
      <4>2. mtime' > 0 /\ noticed' <= mtime' + DAY + MaxDelay
        <5>1. DAY > 0 /\ mtime' > 0
          BY <3>2, BoundAssumption
        <5>2. noticed' <= t + MaxDelay
          BY <2>1, <2>2, <3>3, <4>1
        <5>3. t \in Nat /\ mtime' \in Nat /\ noticed' \in Nat
          BY <2>1, <3>2, <3>3
        <5>4. noticed' <= mtime' + DAY + MaxDelay
          BY <3>2, <5>2, <5>3, LateUpdate
        <5>5. QED  BY <5>1, <5>4
      <4>3. exists' /\ notices' \subseteq notices /\ (passdb' # None => moved')
        BY <2>2, <2>3, <2>4 DEF ClockInv, BehindInv
      <4>4. \A u \in notices : now <= u + MaxDelay
        BY DEF ClockInv, BehindInv
      <4>5. \A u \in notices' : now' <= u + MaxDelay
        BY <2>3, <4>3, <4>4
      <4>6. QED  BY <4>2, <4>3, <4>5 DEF BehindInv
    <3>5. AheadInv'
      BY <2>1, <2>2, <2>3, <3>2, <3>3 DEF ClockInv, AheadInv, TypeInv, ServerSteps, Migrating
    <3>6. QED  BY <3>4, <3>5 DEF ClockInv
  <2>5. CASE pw = None
    BY <1>1, <2>2, <2>3, <2>5 DEF SetLastLogin, ClockInv, BehindInv, AheadInv
  <2>6. QED  BY <2>4, <2>5
<1>2. CASE DeliverTo \/ Deliver \/ UNCHANGED vars
  BY <1>2, ClockUntouched DEF DeliverTo, Deliver, vars
<1>3. CASE Tick
  BY <1>3, BoundAssumption DEF Tick, ClockInv, BehindInv, AheadInv
<1>4. QED  BY <1>1, <1>2, <1>3

LEMMA ClockNext == TypeInv /\ ClockInv /\ [Next]_vars => ClockInv'
BY LoginClock, ServerClock, ExpiryClock, OtherClock DEF Next, LoginStep, ServerStep, ExpiryStep

LEMMA ClockInvariant == Spec => [](TypeInv /\ ClockInv)
BY TypeInit, TypeNext, ClockInit, ClockNext, PTL DEF Spec

\* Only the decision of process_mailbox_stat ends the scan.
LEMMA ScanOnly ==
    ASSUME Next, expiry.pc = "scan", expiry'.pc # "scan" PROVE Scan
<1> USE DEF others
<1>1. expiry' # expiry
  OBVIOUS
<1>2. ASSUME NEW l \in Login, LoginStep(l) PROVE FALSE
  BY <1>1, <1>2 DEF LoginStep, Attempt, Lookup, Refuse, OpenLock, Acquire, AcquireAgain, LockTimeout, Reread,
     Mkdir, WritePassword, Touch, DirectoryGone, Release, Final, Reply
<1>3. ~ServerStep
  BY <1>1 DEF ServerStep, Crash, Boot, MigrateMkdir, MigratePassword, MigrateTouch, MigrateRaises,
     MigrateLastLogin, MigrateRename
<1>4. ~((\E t \in Time : SetLastLogin(t)) \/ DeliverTo \/ Deliver \/ Tick)
  BY <1>1 DEF SetLastLogin, DeliverTo, Deliver, Tick
<1>5. ~(StartRun \/ Rmtree \/ (\E n \in Name : Unlink(n)) \/ Rmdir)
  BY DEF StartRun, Rmtree, Unlink, Rmdir
<1>6. QED  BY <1>2, <1>3, <1>4, <1>5 DEF Next, LoginStep, ServerStep

-----------------------------------------------------------------------------
(* The theorems                                                              *)

\* Every variable keeps its type, for any number of logins and any bounds: the
\* mtime and what it has been told of never lie in the future.
THEOREM MailboxTypes == Spec => []TypeOK
<1>1. TypeInv => TypeOK
  BY DEF TypeInv
<1>2. QED  BY <1>1, TypeInvariant, PTL

\* lookup_passdb and set_password under the lock, and migrate_from_db_to_maildir:
\* a stored password is never replaced by another one, however many threads of
\* doveauth log in at once and however often doveauth dies.
THEOREM PasswordsStay == Spec => PasswordStable
<1>1. TypeInv /\ AccountInv /\ [Next]_vars => [runs = 0 /\ pw # None => pw' = pw]_vars
  <2> SUFFICES ASSUME TypeInv, AccountInv, Next, runs = 0, pw # None PROVE pw' = pw
    OBVIOUS
  <2> USE DEF doveauth, files, others, bounds
  <2>1. OneAccount
    BY DEF AccountInv
  <2>2. ASSUME NEW l \in Login, LoginStep(l) PROVE pw' = pw
    <3>1. ~WritePassword(l)
      BY <2>1 DEF OneAccount, WritePassword
    <3>2. QED
      BY <2>2, <3>1 DEF LoginStep, Attempt, Lookup, Refuse, OpenLock, Acquire, AcquireAgain, LockTimeout,
         Reread, Mkdir, Touch, DirectoryGone, Release, Final, Reply
  <2>3. CASE ServerStep
    <3>1. CASE MigratePassword
      <4>1. passdb # None
        BY <3>1 DEF TypeInv, ServerSteps, Migrating, MigratePassword
      <4>2. QED  BY <2>1, <3>1, <4>1 DEF OneAccount, MigratePassword
    <3>2. QED
      BY <2>3, <3>1 DEF ServerStep, Crash, Boot, MigrateMkdir, MigrateTouch, MigrateRaises,
         MigrateLastLogin, MigrateRename
  <2>4. CASE ExpiryStep
    <3>1. expiry.pc = "idle"
      BY <2>1 DEF OneAccount
    <3>2. QED  BY <2>4, <3>1 DEF ExpiryStep, StartRun, Scan, Rmtree, Unlink, Rmdir
  <2>5. CASE (\E t \in Time : SetLastLogin(t)) \/ DeliverTo \/ Deliver \/ Tick
    BY <2>5 DEF SetLastLogin, DeliverTo, Deliver, Tick
  <2>6. QED  BY <2>2, <2>3, <2>4, <2>5 DEF Next, LoginStep, ServerStep, ExpiryStep
<1>2. QED  BY <1>1, AccountInvariant, PTL DEF Spec, PasswordStable

\* lookup_passdb: what it returns to a login that succeeds is the password the
\* account has.
THEOREM LoginsMatch == Spec => []LoginMatchesAccount
<1>1. TypeInv /\ AccountInv => LoginMatchesAccount
  BY DEF TypeInv, LoginSteps, AccountInv, OneAccount, LoginMatchesAccount
<1>2. QED  BY <1>1, AccountInvariant, PTL

\* migrate_from_db_to_maildir: when doveauth serves, every address of the old
\* database has the password it had there, wherever the migration was cut short.
THEOREM MigrationComplete == Spec => []AccountsMigrated
<1>1. TypeInv /\ AccountInv => AccountsMigrated
  BY DEF TypeInv, ServerSteps, AccountInv, OneAccount, AccountsMigrated
<1>2. QED  BY <1>1, AccountInvariant, PTL

\* process_mailbox_stat: whoever logged in within the period, less a day and the
\* delay of the last-login updates, keeps the mailbox.
THEOREM ActiveUsersStay == Spec => InactiveBeforeRemoval
<1>1. TypeInv /\ ClockInv /\ [Next]_vars =>
        [expiry.pc = "scan" /\ expiry'.pc = "rmtree" =>
           expiry.now - noticed > (INACTIVE - 1) * DAY - MaxDelay]_vars
  <2> SUFFICES ASSUME TypeInv, ClockInv, Next, expiry.pc = "scan", expiry'.pc = "rmtree"
               PROVE  expiry.now - noticed > (INACTIVE - 1) * DAY - MaxDelay
    OBVIOUS
  <2>1. Scan
    BY ScanOnly
  <2>2. pw # None /\ mtime < expiry.now - INACTIVE * DAY
    BY <2>1 DEF Scan, last_login, NoRun
  <2>3. noticed <= mtime + DAY + MaxDelay
    BY <2>2 DEF ClockInv, BehindInv
  <2>4. expiry.now \in Int /\ noticed \in Int /\ mtime \in Int
    BY BoundAssumption DEF TypeInv, TypeOK, Time
  <2>5. INACTIVE * DAY \in Int /\ (INACTIVE - 1) * DAY = INACTIVE * DAY - DAY
    BY BoundAssumption
  <2> DEFINE C == INACTIVE * DAY
  <2>6. QED
    <3> HIDE DEF C
    <3>1. C \in Int /\ mtime < expiry.now - C
      BY <2>2, <2>5 DEF C
    <3>2. expiry.now - noticed > (C - DAY) - MaxDelay
      BY <2>3, <2>4, <3>1, BoundAssumption
    <3>3. QED  BY <2>5, <3>2 DEF C
<1>2. QED  BY <1>1, ClockInvariant, PTL DEF Spec, InactiveBeforeRemoval

\* And a run spares nobody of whom nothing was heard for longer than the period.
THEOREM InactiveUsersGo == Spec => InactiveRemoved
<1>1. TypeInv /\ ClockInv /\ [Next]_vars =>
        [expiry.pc = "scan" /\ expiry' = NoRun /\ pw # None /\ (passdb = None \/ moved) =>
           expiry.now - noticed <= INACTIVE * DAY]_vars
  <2> SUFFICES ASSUME TypeInv, ClockInv, Next, expiry.pc = "scan", expiry' = NoRun, pw # None,
                      passdb = None \/ moved
               PROVE  expiry.now - noticed <= INACTIVE * DAY
    OBVIOUS
  <2>1. Scan
    BY ScanOnly DEF NoRun
  <2>2. exists /\ mtime > 0 /\ mtime <= noticed
    BY DEF ClockInv, BehindInv, AheadInv
  <2>3. expiry.now \in Int /\ noticed \in Int /\ mtime \in Int /\ INACTIVE * DAY \in Int
    BY BoundAssumption DEF TypeInv, TypeOK, Time
  <2>4. last_login = mtime /\ last_login \notin {None, 0}
    BY <2>2, <2>3, BoundAssumption DEF last_login
  <2>5. ~(mtime < expiry.now - INACTIVE * DAY)
    BY <2>1, <2>4 DEF Scan, NoRun
  <2>6. QED  BY <2>2, <2>3, <2>5
<1>2. QED  BY <1>1, ClockInvariant, PTL DEF Spec, InactiveRemoved
=============================================================================
