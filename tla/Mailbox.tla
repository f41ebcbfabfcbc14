------------------------------ MODULE Mailbox ------------------------------
(***************************************************************************)
(* One mailbox directory and the processes that share it without a common   *)
(* lock: doveauth, which takes over the accounts of an old database when it  *)
(* starts (migrate_db.py) and creates an account at its first login          *)
(* (doveauth.py, user.py), lastlogin, which keeps the date of the last login *)
(* in the mtime of the password file (lastlogin.py, user.py), the daily     *)
(* chatmail-expire, which removes the directory of an inactive user         *)
(* (expire.py), and Dovecot, which delivers mail into it.                    *)
(***************************************************************************)
EXTENDS Integers, FiniteSets

CONSTANTS
    Login,          \* threads of doveauth, one per login attempt
    Password,
    None,           \* no file, no password
    DAY,            \* seconds of a day
    INACTIVE,       \* delete_inactive_users_after, in days
    Start,          \* the second at which the history begins
    OldLogins,      \* bound: last logins in the old database, 0 for none
    MaxTime,        \* bound: the last second
    MaxDelay,       \* bound: how late Dovecot's last-login update arrives
    MaxAccounts,    \* bound: how often a password is stored
    MaxLocks,       \* bound: how often the lock file is created
    MaxRuns,        \* bound: runs of chatmail-expire
    MaxMails,       \* bound: deliveries
    MaxCrashes      \* bound: how often doveauth dies

ASSUME BoundAssumption ==
    /\ DAY \in Nat \ {0} /\ INACTIVE \in Nat \ {0} /\ Start \in Nat \ {0}
    /\ OldLogins \subseteq 0..Start
    /\ MaxTime \in Nat /\ MaxTime >= Start
    /\ {MaxDelay, MaxAccounts, MaxLocks, MaxRuns, MaxMails, MaxCrashes} \subseteq Nat
    /\ None \notin Password \cup Int

\* Seconds are counted from 1970: the history begins later, and so does any login.
ASSUME EpochAssumption == DAY <= Start /\ \A t \in OldLogins : t # 0 => DAY <= t

VARIABLES
    now,
    server,         \* doveauth: down, at a step of its start, or serving
    passdb,         \* the row of the address in the old database, or None
    moved,          \* the old database has been renamed
    exists,         \* the mailbox directory
    pw, mtime,      \* content and mtime of the password file (None: no file)
    e2ee,           \* the file enforceE2EEincoming
    mail,           \* there are messages in the directory
    lockfile,       \* inode of password.lock, or None
    locks,          \* inodes created so far
    held,           \* held inodes: FileLock locks an inode, not a name
    pc, given, fd, userdata,   \* per login attempt
    notices,        \* last-login updates under way
    expiry,         \* the chatmail-expire process
    delivery,       \* Dovecot is about to write a message
    noticed,        \* the latest login the mtime has been told of, or the creation
    accounts, runs, mails, crashes   \* counters for the bounds

doveauth == <<server, passdb, moved>>
files  == <<exists, pw, mtime, e2ee, mail, lockfile, locks>>
logins == <<held, pc, given, fd, userdata>>
others == <<notices, expiry, delivery>>
bounds == <<accounts, runs, mails, crashes>>
vars   == <<now, doveauth, files, logins, others, noticed, bounds>>

Time == Start..MaxTime
Name == {"password", "password.lock", "enforceE2EEincoming", "mail"}
Rows == [password : Password, last_login : OldLogins]
NoRun == [pc |-> "idle", now |-> 0, todo |-> {}]

TypeOK ==
    /\ now \in Time
    /\ server \in {"down", "mkdir", "write", "touch", "utime", "rename", "serving"}
    /\ passdb \in Rows \cup {None} /\ moved \in BOOLEAN
    /\ {exists, e2ee, mail, delivery} \subseteq BOOLEAN
    /\ pw \in Password \cup {None}
    /\ mtime \in 0..now
    /\ locks \in 0..MaxLocks /\ lockfile \in 1..MaxLocks \cup {None}
    /\ held \in SUBSET (1..MaxLocks)
    /\ pc \in [Login -> {"idle", "read", "open", "acquire", "reread", "mkdir", "write", "touch",
                         "release", "final", "reply"}]
    /\ given \in [Login -> Password \cup {None}]
    /\ fd \in [Login -> 1..MaxLocks \cup {None}]
    /\ userdata \in [Login -> Password \cup {None}]
    /\ notices \in SUBSET (Start..now)
    /\ expiry \in [pc : {"idle", "scan", "rmtree", "unlink"}, now : 0..now, todo : SUBSET Name]
    /\ noticed \in 0..now
    /\ accounts \in 0..MaxAccounts
    /\ runs \in 0..MaxRuns /\ mails \in 0..MaxMails /\ crashes \in 0..MaxCrashes

Init ==
    /\ now = Start
    /\ server = "down" /\ moved = FALSE
    /\ passdb \in Rows \cup {None}
    /\ exists \in {FALSE, passdb # None} /\ mail = exists
    /\ pw = None /\ mtime = 0 /\ e2ee = FALSE
    /\ lockfile = None /\ locks = 0 /\ held = {}
    /\ pc = [l \in Login |-> "idle"]
    /\ given = [l \in Login |-> None]
    /\ fd = [l \in Login |-> None]
    /\ userdata = [l \in Login |-> None]
    /\ notices = {}
    /\ expiry = NoRun
    /\ delivery = FALSE
    /\ noticed = 0
    /\ accounts = 0 /\ runs = 0 /\ mails = 0 /\ crashes = 0

\* What a directory listing shows.
listing == {n \in Name :
              \/ n = "password" /\ pw # None
              \/ n = "password.lock" /\ lockfile # None
              \/ n = "enforceE2EEincoming" /\ e2ee
              \/ n = "mail" /\ mail}

\* Mutant: rounds up.
get_daytimestamp_RoundsUp(t) == ((t + DAY - 1) \div DAY) * DAY

get_daytimestamp(t) == (t \div DAY) * DAY

-----------------------------------------------------------------------------
(* AuthDictProxy.lookup_passdb                                               *)

Goto(l, at) == pc' = [pc EXCEPT ![l] = at]

Return(l, data) ==
    /\ Goto(l, "reply")
    /\ userdata' = [userdata EXCEPT ![l] = data]

\* The request is over; when the handler raises, the proxy closes the
\* connection and the login fails.
Raise(l) ==
    /\ Goto(l, "idle")
    /\ given' = [given EXCEPT ![l] = None]
    /\ fd' = [fd EXCEPT ![l] = None]
    /\ userdata' = [userdata EXCEPT ![l] = None]

Attempt(l, w) ==
    /\ server = "serving" /\ pc[l] = "idle"
    /\ Goto(l, "read")
    /\ given' = [given EXCEPT ![l] = w]
    /\ UNCHANGED <<now, doveauth, files, held, fd, userdata, others, noticed, bounds>>

Lookup(l) ==
    /\ pc[l] = "read"
    /\ \/ pw # None /\ Return(l, pw)
       \/ pw = None /\ Goto(l, "open") /\ UNCHANGED userdata
    /\ UNCHANGED <<now, doveauth, files, held, given, fd, others, noticed, bounds>>

\* is_allowed_to_create says no
Refuse(l) ==
    /\ pc[l] = "read" /\ pw = None
    /\ Return(l, None)
    /\ UNCHANGED <<now, doveauth, files, held, given, fd, others, noticed, bounds>>

\* FileLock opens password.lock, creating it and the directory if need be,
OpenLock(l) ==
    /\ pc[l] = "open"
    /\ exists' = TRUE
    /\ \/ lockfile # None /\ UNCHANGED <<lockfile, locks>>
       \/ lockfile = None /\ locks < MaxLocks /\ locks' = locks + 1 /\ lockfile' = locks'
    /\ fd' = [fd EXCEPT ![l] = lockfile']
    /\ Goto(l, "acquire")
    /\ UNCHANGED <<now, doveauth, pw, mtime, e2ee, mail, held, given, userdata, others, noticed, bounds>>

\* Mutant: the lock that somebody holds is taken all the same.
Acquire_Shared(l) ==
    /\ pc[l] = "acquire"
    /\ held' = held \cup {fd[l]}
    /\ Goto(l, "reread")
    /\ UNCHANGED <<now, doveauth, files, given, fd, userdata, others, noticed, bounds>>

\* and locks what it has opened,
Acquire(l) ==
    /\ pc[l] = "acquire" /\ fd[l] \notin held
    /\ held' = held \cup {fd[l]}
    /\ Goto(l, "reread")
    /\ UNCHANGED <<now, doveauth, files, given, fd, userdata, others, noticed, bounds>>

\* or tries again from the start, for 5 seconds.
AcquireAgain(l) ==
    /\ pc[l] = "acquire" /\ fd[l] \in held
    /\ Goto(l, "open")
    /\ fd' = [fd EXCEPT ![l] = None]
    /\ UNCHANGED <<now, doveauth, files, held, given, userdata, others, noticed, bounds>>

LockTimeout(l) ==
    /\ pc[l] = "acquire" /\ fd[l] \in held
    /\ Raise(l)
    /\ UNCHANGED <<now, doveauth, files, held, others, noticed, bounds>>

\* Mutant: the password is not looked up again under the lock.
Reread_Skips(l) ==
    /\ pc[l] = "reread"
    /\ Goto(l, "mkdir")
    /\ UNCHANGED <<now, doveauth, files, held, given, fd, userdata, others, noticed, bounds>>

Reread(l) ==
    /\ pc[l] = "reread"
    /\ \/ pw # None /\ Goto(l, "release") /\ userdata' = [userdata EXCEPT ![l] = pw]
       \/ pw = None /\ Goto(l, "mkdir") /\ UNCHANGED userdata
    /\ UNCHANGED <<now, doveauth, files, held, given, fd, others, noticed, bounds>>

Release(l) ==
    /\ pc[l] = "release"
    /\ held' = held \ {fd[l]}
    /\ Goto(l, IF userdata[l] # None THEN "reply" ELSE "final")
    /\ UNCHANGED <<now, doveauth, files, given, fd, userdata, others, noticed, bounds>>

Final(l) ==
    /\ pc[l] = "final"
    /\ Return(l, pw)
    /\ UNCHANGED <<now, doveauth, files, held, given, fd, others, noticed, bounds>>

\* Dovecot compares the password; a successful login sends a last-login update.
Reply(l) ==
    /\ pc[l] = "reply"
    /\ Raise(l)
    /\ notices' = IF userdata[l] = given[l] THEN notices \cup {now} ELSE notices
    /\ UNCHANGED <<now, doveauth, files, held, expiry, delivery, noticed, bounds>>

(* User.set_password, called with the lock held                              *)

Mkdir(l) ==
    /\ pc[l] = "mkdir"
    /\ exists' = TRUE
    /\ Goto(l, "write")
    /\ UNCHANGED <<now, doveauth, pw, mtime, e2ee, mail, lockfile, locks, held, given, fd, userdata, others,
                   noticed, bounds>>

\* write_bytes_atomic
WritePassword(l) ==
    /\ pc[l] = "write" /\ exists
    /\ accounts < MaxAccounts /\ accounts' = accounts + 1
    /\ pw' = given[l]
    /\ mtime' = now
    /\ noticed' = now
    /\ Goto(l, "touch")
    /\ UNCHANGED <<now, doveauth, exists, e2ee, mail, lockfile, locks, held, given, fd, userdata, others,
                   runs, mails, crashes>>

Touch(l) ==
    /\ pc[l] = "touch" /\ exists
    /\ e2ee' = TRUE
    /\ Goto(l, "release")
    /\ UNCHANGED <<now, doveauth, exists, pw, mtime, mail, lockfile, locks, held, given, fd, userdata, others,
                   noticed, bounds>>

\* The directory has gone in the meantime.
DirectoryGone(l) ==
    /\ pc[l] \in {"write", "touch"} /\ ~exists
    /\ held' = held \ {fd[l]}
    /\ Raise(l)
    /\ UNCHANGED <<now, doveauth, files, others, noticed, bounds>>

\* doveauth dies; the operating system gives its locks back.
Crash ==
    /\ crashes < MaxCrashes /\ server # "down"
    /\ crashes' = crashes + 1
    /\ server' = "down"
    /\ held' = {}
    /\ pc' = [l \in Login |-> "idle"]
    /\ given' = [l \in Login |-> None]
    /\ fd' = [l \in Login |-> None]
    /\ userdata' = [l \in Login |-> None]
    /\ UNCHANGED <<now, passdb, moved, files, others, noticed, accounts, runs, mails>>

-----------------------------------------------------------------------------
(* main of doveauth.py: migrate_from_db_to_maildir, then the socket          *)

Step(at) == server' = at /\ UNCHANGED <<passdb, moved>>

\* Mutant: the database is moved away before its rows are transferred.
Boot_MovesFirst ==
    /\ server = "down"
    /\ server' = IF passdb # None /\ ~moved THEN "mkdir" ELSE "serving"
    /\ moved' = TRUE
    /\ UNCHANGED <<now, passdb, files, logins, others, noticed, bounds>>

\* systemd starts the service; the migration has nothing to do without a
\* database or without a row for this address.
Boot ==
    /\ server = "down"
    /\ Step(IF passdb # None /\ ~moved THEN "mkdir" ELSE "serving")
    /\ UNCHANGED <<now, files, logins, others, noticed, bounds>>

\* set_password,
MigrateMkdir ==
    /\ server = "mkdir"
    /\ Step("write")
    /\ exists' = TRUE
    /\ UNCHANGED <<now, pw, mtime, e2ee, mail, lockfile, locks, logins, others, noticed, bounds>>

MigratePassword ==
    /\ server = "write" /\ exists
    /\ Step("touch")
    /\ pw' = passdb.password
    /\ mtime' = now
    /\ noticed' = IF passdb.last_login = 0 THEN now
                  ELSE IF passdb.last_login > noticed THEN passdb.last_login ELSE noticed
    /\ UNCHANGED <<now, exists, e2ee, mail, lockfile, locks, logins, others, bounds>>

MigrateTouch ==
    /\ server = "touch" /\ exists
    /\ Step("utime")
    /\ e2ee' = TRUE
    /\ UNCHANGED <<now, exists, pw, mtime, mail, lockfile, locks, logins, others, noticed, bounds>>

\* which raises if the directory has gone, and ends the process,
MigrateRaises ==
    /\ server \in {"write", "touch"} /\ ~exists
    /\ Step("down")
    /\ UNCHANGED <<now, files, logins, others, noticed, bounds>>

\* Mutant: the mtime stays the time of the migration.
MigrateLastLogin_Forgets ==
    /\ server = "utime"
    /\ Step("rename")
    /\ UNCHANGED <<now, files, logins, others, noticed, bounds>>

\* set_last_login_timestamp, if the row has one,
MigrateLastLogin ==
    /\ server = "utime"
    /\ Step("rename")
    /\ mtime' = IF pw # None /\ passdb.last_login # 0 THEN get_daytimestamp(passdb.last_login) ELSE mtime
    /\ UNCHANGED <<now, exists, pw, e2ee, mail, lockfile, locks, logins, others, noticed, bounds>>

\* and when all rows are done, the rename of the database.
MigrateRename ==
    /\ server = "rename"
    /\ server' = "serving" /\ moved' = TRUE
    /\ UNCHANGED <<now, passdb, files, logins, others, noticed, bounds>>

-----------------------------------------------------------------------------
(* LastLoginDictProxy.handle_set and User.set_last_login_timestamp           *)

\* The comparison with the mtime only saves a call of utime; between the two
\* nothing but rmtree can come, after which utime raises.
SetLastLogin(t) ==
    /\ t \in notices
    /\ notices' = notices \ {t}
    /\ \/ /\ pw # None
          /\ mtime' = get_daytimestamp(t)
          /\ noticed' = IF t > noticed THEN t ELSE noticed
       \/ /\ pw = None
          /\ UNCHANGED <<mtime, noticed>>
    /\ UNCHANGED <<now, doveauth, exists, pw, e2ee, mail, lockfile, locks, logins, expiry, delivery, bounds>>

-----------------------------------------------------------------------------
(* chatmail-expire, as far as whole mailboxes go                             *)

StartRun ==
    /\ expiry.pc = "idle" /\ runs < MaxRuns
    /\ runs' = runs + 1
    /\ expiry' = [pc |-> "scan", now |-> now, todo |-> {}]
    /\ UNCHANGED <<now, doveauth, files, logins, notices, delivery, noticed, accounts, mails, crashes>>

last_login == IF exists /\ pw # None THEN mtime ELSE None

\* Mutant: the period is a day too short.
Scan_DayShort ==
    /\ expiry.pc = "scan"
    /\ expiry' = IF last_login \notin {None, 0} /\ last_login < expiry.now - (INACTIVE - 1) * DAY
                 THEN [expiry EXCEPT !.pc = "rmtree"]
                 ELSE NoRun
    /\ UNCHANGED <<now, doveauth, files, logins, notices, delivery, noticed, bounds>>

\* MailboxStat reads the mtime of the password file, process_mailbox_stat decides.
Scan ==
    /\ expiry.pc = "scan"
    /\ expiry' = IF last_login \notin {None, 0} /\ last_login < expiry.now - INACTIVE * DAY
                 THEN [expiry EXCEPT !.pc = "rmtree"]
                 ELSE NoRun
    /\ UNCHANGED <<now, doveauth, files, logins, notices, delivery, noticed, bounds>>

\* shutil.rmtree lists the directory,
Rmtree ==
    /\ expiry.pc = "rmtree"
    /\ expiry' = [expiry EXCEPT !.pc = "unlink", !.todo = listing]
    /\ UNCHANGED <<now, doveauth, files, logins, notices, delivery, noticed, bounds>>

\* removes what it has listed, in the order of the listing,
Unlink(n) ==
    /\ expiry.pc = "unlink" /\ n \in expiry.todo
    /\ expiry' = [expiry EXCEPT !.todo = @ \ {n}]
    /\ pw' = IF n = "password" THEN None ELSE pw
    /\ mtime' = IF n = "password" THEN 0 ELSE mtime
    /\ lockfile' = IF n = "password.lock" THEN None ELSE lockfile
    /\ e2ee' = (e2ee /\ n # "enforceE2EEincoming")
    /\ mail' = (mail /\ n # "mail")
    /\ UNCHANGED <<now, doveauth, exists, locks, logins, notices, delivery, noticed, bounds>>

\* and the directory; if something new is in it, rmtree raises and the run ends.
Rmdir ==
    /\ expiry.pc = "unlink" /\ expiry.todo = {}
    /\ exists' = (listing # {})
    /\ expiry' = NoRun
    /\ UNCHANGED <<now, doveauth, pw, mtime, e2ee, mail, lockfile, locks, logins, notices, delivery, noticed, bounds>>

-----------------------------------------------------------------------------
(* Dovecot delivers: a userdb lookup, then the message file                  *)

DeliverTo ==
    /\ ~delivery /\ pw # None /\ mails < MaxMails
    /\ mails' = mails + 1
    /\ delivery' = TRUE
    /\ UNCHANGED <<now, doveauth, files, logins, notices, expiry, noticed, accounts, runs, crashes>>

Deliver ==
    /\ delivery
    /\ exists' = TRUE
    /\ mail' = TRUE
    /\ delivery' = FALSE
    /\ UNCHANGED <<now, doveauth, pw, mtime, e2ee, lockfile, locks, logins, notices, expiry, noticed, bounds>>

Tick ==
    /\ now < MaxTime
    /\ \A t \in notices : now + 1 <= t + MaxDelay
    /\ now' = now + 1
    /\ UNCHANGED <<doveauth, files, logins, others, noticed, bounds>>

-----------------------------------------------------------------------------
Next ==
    \/ \E l \in Login :
         \/ \E w \in Password : Attempt(l, w)
         \/ Lookup(l) \/ Refuse(l) \/ OpenLock(l) \/ Acquire(l) \/ AcquireAgain(l) \/ LockTimeout(l) \/ Reread(l)
         \/ Mkdir(l) \/ WritePassword(l) \/ Touch(l) \/ DirectoryGone(l)
         \/ Release(l) \/ Final(l) \/ Reply(l)
    \/ Crash \/ Boot
    \/ MigrateMkdir \/ MigratePassword \/ MigrateTouch \/ MigrateRaises \/ MigrateLastLogin \/ MigrateRename
    \/ \E t \in Time : SetLastLogin(t)
    \/ StartRun \/ Scan \/ Rmtree \/ (\E n \in Name : Unlink(n)) \/ Rmdir
    \/ DeliverTo \/ Deliver
    \/ Tick

Spec == Init /\ [][Next]_vars

-----------------------------------------------------------------------------
(* Properties *)

\* lookup_passdb: whoever logs in first sets the password; no later or
\* concurrent login replaces it (test_doveauth.py:57-65 and :157-185).  Said
\* of a mailbox that chatmail-expire has not been at: rmtree removes
\* password.lock while a login may hold it.
PasswordStable == [][runs = 0 /\ pw # None => pw' = pw]_vars

\* A login that succeeds gave the password the account has: what lookup_passdb
\* returns may be old, but is not another password than the stored one.
LoginMatchesAccount ==
    runs = 0 =>
      \A l \in Login : pc[l] = "reply" /\ userdata[l] = given[l] => pw = given[l]

\* migrate_from_db_to_maildir: an address of the old database gets no other
\* password than the one it had there, and has it as soon as anyone may log in,
\* however often the migration is cut short.
AccountsMigrated ==
    passdb # None /\ runs = 0 =>
      /\ pw \in {None, passdb.password}
      /\ server = "serving" => pw = passdb.password

\* process_mailbox_stat: a mailbox is removed only if no login its password
\* file had been told of lies within the inactivity period, less the day that
\* truncation to the start of the day costs and the delay of an update that
\* arrives after a later one.
InactiveBeforeRemoval ==
    [][expiry.pc = "scan" /\ expiry'.pc = "rmtree" =>
         expiry.now - noticed > (INACTIVE - 1) * DAY - MaxDelay]_vars

\* Conversely a run spares no user of whom nothing was heard for longer than
\* the period; the last login of the old database counts.
InactiveRemoved ==
    [][expiry.pc = "scan" /\ expiry' = NoRun /\ pw # None /\ (passdb = None \/ moved) =>
         expiry.now - noticed <= INACTIVE * DAY]_vars
=============================================================================
