# A TLA+ development of chatmail-relay

This directory holds TLA+ modules that model the mail server side of
chatmail-relay (`chatmaild/`, with its deployment in `cmdeploy/`), TLC
configurations that check them on small instances, and TLAPS proofs for every
value of the constants. `PROJECT.json` lists components, runs, findings, hazards
and theorems, and maps each definition to the lines of source it stands for.

    tlc -workers 2 -config MCNotifier.cfg MCNotifier     # model-check
    tlapm NotifierProofs.tla                             # check the proofs

## 1. The system

A chatmail relay is Postfix and Dovecot with five small Python programs around
them. Dovecot speaks its *dict protocol* to three of them over unix sockets;
systemd timers and Dovecot's quota warning start the others. All share the
directory tree `vmail_dir/<address>/`, which is their database, and coordinate
by lock files, by atomic renames, or not at all.

| Component | State it keeps | Operations | Interacts with |
|---|---|---|---|
| dict protocol server (`dictproxy.py`) | per connection: the transactions that were begun, in memory | begin, set, commit, lookup, iterate, hello, end of stream | Dovecot; calls the handlers of the three programs |
| accounts (`doveauth.py`, `user.py`) | `password`, `password.lock`, `enforceE2EEincoming` per address | `lookup_passdb` (creates the account at its first login), `lookup_userdb`, iterate over users | Dovecot; all users of the mailbox directory |
| last login (`lastlogin.py`, `user.py`) | the mtime of `password` | `set_last_login_timestamp` | expiry reads it |
| metadata store (`metadata.py`, `filedict.py`) | `metadata.json`, `.lock`, `.tmp` per address | add, remove and look up device tokens; purge of expired ones | called by the dict server and the notifier |
| push notifier (`notifier.py`) | a directory of queue files, a `PriorityQueue` per number of failed attempts, a thread for each (two or more for the first) | `new_message_for_addr`, `queue_for_retry`, `retry_one`, `requeue_persistent_queue_items` | metadata store (tokens), the upstream notification server |
| expiry (`expire.py`) | none of its own; removes mailboxes, messages, `maildirsize` | `chatmail-expire` (daily), `chatmail-quota-expire` | everything in the mailbox directory, Dovecot, the user's devices |
| migration (`migrate_db.py`) | an SQLite file with a row per old account, until it is renamed | at each start of doveauth: set password and last login for each row, rename the file | accounts, last login; all programs are at the mailboxes meanwhile |
| report, new addresses, TURN (`fsreport.py`, `newemail.py`, `turnserver.py`) | none | print sums; print a random address; ask a socket | |
| configuration (`config.py`) | read once | `read_config`, `write_initial_config` | all |
| deployment (`cmdeploy/deployers.py`, `basedeploy.py`, `*/deployer.py`) | flags `need_restart`, `daemon_reload`, for one run; the files, units and services of the host | install, configure, activate for each of 19 deployers | systemd and apt on the remote host, through pyinfra |
| command line (`cmdeploy.py`) | none between commands; what it prints is what the operator goes by | `run` (checks, then pyinfra), `dns` (checks, zone file, verification); `init`, `adm`, `status`, `test`, `bench`, `fmt`, `webdev` | the operator, remote execution, the deployment |
| DNS checks (`dns.py`, `remote/rdns.py`) | none | read the initial records and the keys of the relay; compare a zone file with the records found, line by line | name servers, OpenDKIM and acmetool on the relay |
| remote execution (`sshexec.py`, `remote/*`) | one channel with requests, answers and log lines | call, with a timeout; a loop on the relay that handles one request after another | the command line, the DNS checks |
| web pages, templates of services (`www.py`, `*.j2`) | none | fill in templates | |

### What is hard here

* **Death of a process.** The notifier keeps its queue on disk so that it
  survives. doveauth, metadata and the notifier can die between any two system
  calls; systemd starts them again (`Restart=always`).
* **Interleaving.** Every Dovecot connection has a thread; NotifyThreads run
  besides; several processes share a mailbox directory. Only `FileDict.modify`
  and `lookup_passdb` take locks. `rmtree` removes a lock file that may be held.
* **Stale listings.** Expiry lists messages and removes them by name while
  devices rename them (seen, flags), remove them, and mail arrives.
* **Time.** Exponential back-off against a deadline, the age limit of tokens,
  last logins that are truncated to the day and come late, cutoffs in days.
* **State of a run and state of a host.** A deployer knows what it changed only
  until its process ends; the host keeps files, units and services between runs
  that are cut short, limited to some stages, or use other options.
* **A zone that moves.** The DNS checks ask one record after another over two calls,
  while others edit the zone; a query that gets no answer looks like a record that is not
  there; an answer may come after the reader gave up.
* **Commands that follow from one another.** Each command of `cmdeploy` ends with an
  advice, which the operator follows: the advice must lead somewhere.
* **Partial failure.** A failing read counts as an empty dict; a failing write
  leaves a `.tmp` file; a raising handler ends the thread of a NotifyThread.

### What makes each component correct

| Component | Properties |
|---|---|
| push notifier | a notification on disk is known to the process, in exactly one place; what is queued is on disk; back-off is kept; nothing goes before its deadline without an answer from upstream; every one is resolved at last; a withdrawn token is unregistered before its notification is forgotten |
| metadata store | one writer at a time, no lost update, no half file, only removed or expired tokens disappear; the steps are equivalent to atomic calls; the lock is given back |
| dict server | a set gets the address of its own begin, also with the same ids on several connections; a commit tells whether all its sets succeeded; replies come in order, none missing or doubled; one commit per begin; no thread is kept by a closed connection |
| accounts | of two concurrent first logins one wins; its password is never replaced; who logs in has the stored password |
| last login, expiry of mailboxes | no mailbox is removed before the period is over (up to the precision with which the last login is kept) |
| expiry of messages | no message goes without a reason; the oldest go first, no more than needed, none of the last day; the size that Dovecot has on record never outlives a removal |
| migration | who is in the database has the password of the database whenever doveauth serves, and is not removed for a last login that the migration lost, wherever it dies and is run again |
| deployment | what runs is what is on disk; a replaced binary and a block on services never outlive a run; a configuration that fails its validation is not what a mail service starts with in that run; `--disable-mail` means that no mail service runs or will |
| DNS checks, command line | a record that is needed is only found right if it was, and only complained about if it was not, was being changed, or a query of it got no answer; nothing is deployed with ACME before the names of the certificate resolve; who follows the advice comes to a verified zone |
| remote execution | a command ends at the first call that fails or gets no answer in time, and each has a channel of its own: what it prints rests on its own calls, and an end leads on like any other (the properties of the DNS checks) |

The hazards behind these properties are listed at their lines in `PROJECT.json`.

## 2. The modules

| Module | Models | Role |
|---|---|---|
| `Notifier` | `notifier.py` | component |
| `NotifierProofs`, `NotifierRetryProofs` | | theorems about `Notifier` |
| `TokenStore` | what `metadata.py` promises | abstract specification |
| `Metadata` | `metadata.py`, `filedict.py` step by step | component; implements `TokenStore` |
| `MetadataProofs` | | theorems about `Metadata`, among them that it implements `TokenStore` |
| `DictProxy` | `dictproxy.py` with the handlers of doveauth, metadata, lastlogin | component |
| `DictProxyProofs` | | theorems about `DictProxy` |
| `Mailbox` | `doveauth.lookup_passdb`, `user.py`, `migrate_db.py`, `lastlogin.py`, the mailbox part of `expire.py`, Dovecot's deliveries | composes all programs that share a mailbox directory |
| `MailboxProofs` | | theorems about `Mailbox` |
| `Expire` | the message part of `expire.py`, Dovecot and devices | composes two programs over one Maildir |
| `ExpireProofs` | | theorems about `Expire` |
| `Deploy` | the stages, the deployers and what systemd makes of them | composes all deployers over one host |
| `DeployProofs` | | theorems about `Deploy` |
| `Cmdeploy` | `run` and `dns` of `cmdeploy.py`, `dns.py`, `sshexec.py`, `remote/*` | composes the command, the loop on the relay, the operator and those who edit the zone |
| `CmdeployProofs` | | theorems about `Cmdeploy` |
| `MC*` | | instances for TLC: symmetry and functions that a cfg cannot write |

Definitions named `<operator>_<Slip>` are not part of a specification: each is the
operator before which it stands with a plausible mistake (a dropped guard, a
missing reset, an order swapped), kept to show which property notices it.

### Notifier

`file[i]` is the file `i` (`"item"`), its `.tmp` (`"tmp"`) or one that a power
failure left without content (`"torn"`); `item[i]` is what is in it.
`retry_queues[k]` is lane `k`, entries `[when, id]` taken in the order of
`PriorityQueue`. A connection goes through `new_message_for_addr` in steps
(`WriteTmp`, `Rename`, `QueueFirst`) for each token it found at the beginning; a
NotifyThread through `Get`, `Wake`, an answer (`Accepted`, `Gone`, `Failed`) and
`RemoveToken`, `Delete` or `Requeue`. `queue_for_retry` is an operator that both
use, as in the code. `Crash` empties memory in any state; `Boot`, `Visit` and
`Serve` are the start-up scan before threads and socket exist. `answer`, `fails`,
`failed_at` and `gone` are history that the properties read. Tokens are kept
simply as a set per address here; `Metadata` is about how.

### Metadata and TokenStore

`Metadata` takes `_modify_tokens` apart: `Acquire`, `Read`, `Update` (dating of the
old list format, purge, body of the caller), `OpenTmp`, `DumpTmp`, `Rename`, `Release`. Lookups
(`Peek`, `Filter`) take no lock and purge afterwards if they saw an expired token.
`Update` reads the clock once where the code does so twice, for the purge and for the
new token. The process may die anywhere; a write may raise; a read may fail, which the code
turns into an empty dict. `TokenStore` has the calls as atomic steps between call
and return. The refinement maps the file that readers see to `dated` and
`undated`, a modification to the `Rename`, a lookup to its `Peek`.

### DictProxy

`asked[c]` is what Dovecot has sent, `done[c]` how far the thread is, `replies[c]`
what went back. `service` is one of the three programs; `handle_set`,
`handle_lookup` and `handle_iterate` say what their handlers may do: reply, fail,
raise, or (doveauth, for an iteration over another prefix) stay silent. `call[c]`
is a `handle_set` under way, so that other connections come in between.
`outcome[c]` is history: the properties compare replies with lines and outcomes
and never look at the dict of transactions.

### Mailbox

A login goes through `lookup_passdb` by single system calls: read, open and lock
`password.lock` (`FileLock` locks the inode it opened and tries again with the
name), read again, make the directory, write the password atomically, touch
`enforceE2EEincoming`, release. `SetLastLogin` applies an update that Dovecot sent
up to `MaxDelay` earlier, in any order. `Scan` decides as `process_mailbox_stat`
does; `Rmtree`, `Unlink` and `Rmdir` remove entry by entry in any order.
`noticed` is history: the latest login the password file has been told of.

doveauth serves after its start only (`server`). The start goes through the row
that the old database has for this address, if any (`passdb`: a password and a last
login, 0 for none), by the steps of `set_password` and `set_last_login_timestamp`,
without the lock and whatever is in the directory already: `MigrateMkdir`,
`MigratePassword`, `MigrateTouch`, `MigrateLastLogin`; `MigrateRename` is the end of the
loop. A death at any of them leaves `moved` false, so that the next `Boot` begins
again; meanwhile late last-login updates arrive, and the expiry scans and removes.

### Expire

A file is its time of arrival, size, directory and flags. The daily run goes by the time and
size that `stat` gives and the quota by those that Dovecot writes into the name, and the daily
run also lists other folders: here a message has one time and one size, and there is one
folder. `Unlink` removes a file only if it still has the name that was listed. `StatDir` and
`RemoveExpired` are the removal by age; a large message that no device has noticed is
`spared`, which counts as a change all the same. `ScanCur`, `ScanNew` and `Shrink` are `expire_to_target`, which the
daily run and `chatmail-quota-expire` share, `Report` is the end with the removal of
`maildirsize`. `calm` is history: the processes whose files nobody else touched
since they were listed.

### Deploy

A deployer is three rows of operations (`deployer(install, configure, activate)`),
read off its methods with the options of the run; `perform_stages` puts the rows of
all deployers in the order in which `Deployment.perform_stages` calls them, and the
actions take one operation after another from `todo`. `marks` is `need_restart` and
`daemon_reload` of all deployers, `disk` the files, `loaded` the units as systemd
has them, `saw[s]` the files as service `s` found them when it started. `Edit`
changes a file on the build machine between runs, or gives Debian a new version of a
package, `Cut` ends a run anywhere, `Reboot` starts what is enabled.

Files that a deployer puts in the same stage with the same consequences are one
file, and services with the same operations one service (filtermail's three,
those of the metadata package and the timers). `[do |-> "other"]` stands for
operations that change none of these: users, directories, certificates, cron, the health
check of Dovecot. `upgrade` is `apt.upgrade` at the beginning of each installation, which
replaces the packages that come from the list of the server (`Debian`; Dovecot is pinned, the
other programs are downloaded), restarts the service of the same name, if it runs or is enabled
and `policy-rc.d` lets it, and marks nothing. A validation fails if the configuration is one of
`Broken`: the operation does not succeed, and all that is left of the run is a `Cut`.
pyinfra, apt and systemd are external, modelled as the deployers use them: an
operation changes something only if there is something to change; a package
enables its service and starts it unless `policy-rc.d` exists; `systemd.service`
reloads the units, starts or stops, restarts, enables, in this order, and what a
restart of a service makes that has just been stopped is left open. A service
takes a unit as systemd has loaded it, so a changed unit without `daemon_reload`
stays the old one.

With `--website-only` there is one deployer, whose row has nothing that the
properties see but takes the place of all others. The checks of ports and addresses
come before the first operation: one that fails is a `Cut` there.

`whole` says that all runs so far went through all stages; `Overlooked` names the
four pairs of service and file for which nothing restarts (section 6),
which `RunsCurrent` leaves out.

### Cmdeploy

`zone` is what the authoritative name server answers and `host` what matters of the
relay: a DKIM key, an ACME account. `cmd` is the command under way and where it is
(`initial` and `verify` wait for an answer, `deploy` is pyinfra); `outcome` is what
the last one printed, with the records it asked for and whether it returned 0.
`requests` and `answers` are the two directions of the channel; a request carries what
its function has found so far and what it has still to ask, and each name asked for
is an action (`QueryAddress`, `QueryAlias`, `AccountUrl`, `DkimEntry`, `QueryStsId`;
`CompareLine`, `AliasAddress`, `CompareAlias`), so that an `Edit` comes between any two. The
queries of `query_alias_or_same_address` for one alias (CNAME, A, AAAA) are one step.

A query of a name in `lost` gets no answer: no SOA record is found for it, or `dig` ends well
and has nothing to show. `query_dns` then returns what it returns for a record that is not
there. `Unanswered` is a query of which this is so, and `unheard` the history of them in the
command under way. A query that fails with an error is `Raises`.

`Finish` and `Raises` send the answer; `Checked`, `Verified`, `Failed` take it, and
`TimesOut` is the reader that gives up while the remote function goes on. An end by
`Ctrl-C` or of the ssh connection is like `TimesOut` for what is modelled. A call to
`localhost` has no timeout. `Deploy` and `DeployFails` say what a run of pyinfra makes
of `host`; what it does to services is the module `Deploy`.

The operator sets what was printed (`SetRecords`), calls what was advised (`Follow`),
or any command with an option (`Detour`). `seen` is history: each zone there has been
since the command began, for no verdict can be about one zone when records are
read one by one.

Records that the code treats alike are one: A and AAAA, `www` and `admin`, and the
recommended ones with a fixed value (`spf`). An alias is a CNAME to the mail domain
or elsewhere, or has an address of its own, since either will do.

## 3. The runs

| Run | Question | States |
|---|---|---|
| `notifier_safety` | all safety properties of the notifier | 2.4 M |
| `notifier_live` | is every notification resolved? | 70 k |
| `metadata_safety` | no lost update, and `Metadata` implements `TokenStore` | 840 k |
| `metadata_live` | is the file whole and the lock given back, failing reads included? | 130 k |
| `dictproxy` | transactions and replies, for all programs and commands | 2.8 M |
| `mailbox` | passwords, the migration of an account, and which mailboxes are removed | 3.3 M |
| `expire` | messages removed for a reason, target, size on record | 1.8 M |
| `deploy` | do services run with the files that are there, and with a configuration that passes its validation, whatever the order of runs? | 3.4 M |
| `cmdeploy` | is what the commands print true, or has a cause, whatever happens meanwhile, and does their advice lead to a verified zone? | 1.3 M |
| `metadata_read_error`, `expire_dry`, `deploy_mtail` | what documentation says and the code does not do: section 6 | |

Bounds, and why they are enough:

* *notifier*: two notifications make every pair of places; two lanes (`BASE_DELAY`
  2 and `DROP_DEADLINE` 3 give delays 0 and 2, a third would be 4) have a first
  attempt, a retry and the drop. The first lane has two threads, which is what a race within a
  lane takes (the code starts four, and two for the others). One crash reaches every state in which a process can die, with a complete
  start-up after it; one raising step makes a dead thread or a stale `.tmp`. The
  theorems of section 5 have no such bounds.
* *metadata*: two threads and two tokens: the token of the call and another one,
  the call and an interfering one. With `MAX_AGE` 2, `MaxTime` 2 and timestamps 0
  and 2 in the initial file, tokens expire during a call, and timestamps from the
  future occur. One death, one failing write; the live run adds a failing read.
* *dictproxy*: two connections, one id that both use, two addresses, four lines:
  a begin with two sets and a commit on one connection, or a transaction of each
  interleaved.
* *mailbox*: days of two seconds, a period of two days, five seconds from the start
  on, so that an account of the first second can expire; old accounts without a last
  login or with one that is past the period after one more second; two logins with two
  passwords; a password is stored twice, so that a migration is repeated and an
  address created again after it was removed; one death, at any step of a login or of
  the migration, one delivery, one run of the expiry.
* *expire*: two messages of one or two bytes with a target of one, two processes
  and two runs, two events by Dovecot or a device.
* *deploy*: three runs, each with all stages or some, with all services, with
  `--disable-mail` and without mtail and iroh, or with `--website-only`: a state to start from, a run that
  leaves something undone, and one that has to make up for it. One of nine files
  changes in between, one of each kind: installed or configured, counted for
  `need_restart` or not, validated, a unit, a binary, a Debian package that has a service and one
  that has none. The new configurations of Dovecot and Postfix do not pass validation (`Broken`).
  One run is cut short at any operation, one reboot. A run whose validation fails when no cut
  is left goes no further, as any failure would have it. TLS is `acme` or `external`; `self` has
  no operation that the properties see.
* *cmdeploy*: two events out of: an edit of any record to any value, a failing query, one
  without an answer, a timeout, a failing deployment, a command with any option. Two are a change and its
  undoing during one command, a query without an answer and one that has one, an
  edit of an alias and of the address it is compared with. What the operator does by
  advice is not bounded. The zone is right or empty at the beginning and the relay
  at any stage; two events after that make the states in between.

Symmetry is used for names, processes and messages in runs without liveness
properties only. All runs allow the system to stop, since time and the counters
are bounded.

Fairness:

* `Notifier!Fairness`: a thread that can go on does (`POST` returns by its timeout
  of 60 seconds at the latest, `sleep` returns), the service starts again after a
  death (`Restart=always`), time passes. Nothing is said about the upstream
  server, which may fail forever, nor about clients. In `notifier_live` no step
  raises: a thread that ended with a notification in its hands leaves it until
  the next start, which nothing guarantees.
* `Cmdeploy!Fairness`: the remote function and the command go on (a query and
  pyinfra end), and the operator sets the records or calls the command that was
  advised, at last. Failures, edits by others and detours are bounded, for with
  endless ones nobody arrives.
* `Metadata!FairSpec`: a thread inside the lock is scheduled. Nothing is assumed of
  threads that wait.

## 4. Only model-checked

* `EventuallyResolved`, `AdviceLeadsThere`: fairness is WF of actions, hence says
  `ENABLED`, which the prover cannot expand, and both need an induction, over the attempts
  of a notification and over the rounds of the operator.
* `ThreadEnds`: says `ENABLED` itself.

Every other property of a run that passes has a theorem. Parts of these three are
proved too, see the next section.

## 5. Proofs

### Progress

Five theorems are about what happens at last. Fairness is written in them with the
guard of an action in the place of `ENABLED`: `[]<>~Guard \/ []<><<A>>_vars`, which is
`WF_vars(A)` if `A` can be taken exactly when the guard holds. That the guards are
the right ones can be read off the actions, and is not proved.

| Theorem | Module | States | Guard |
|---|---|---|---|
| `LockGivenBack` | `MetadataProofs` | `LockReleased` | the lock has a holder |
| `LinesHandled` | `DictProxyProofs` | a line sent is dealt with, or the connection closed | the thread has a line or the end of the stream to read |
| `ThreadsEnd` | `DictProxyProofs` | after Dovecot has hung up, a thread has less and less left to do until it ends | the same |
| `CommandsEnd` | `CmdeployProofs` | a command has less and less left to do until it ends | there is a request; there is an answer, or a deployment is on |
| `AttemptsEnd` | `NotifierRetryProofs` | an attempt whose time has come ends: the notification is gone or in the next lane, or the thread or the process died | the thread has slept enough, or is past its sleep |

* `LockGivenBack` assumes fairness of the holder's step rather than of each thread's.
  `FairSpec`, which the run checks, gives it: while the lock has a holder that is one
  thread (`SingleWriter`), and it changes only through a moment when there is none. The proof goes down
  the steps inside `FileDict.modify`; the others leave the holder where it is.
* `ThreadsEnd` and `CommandsEnd` are the premises of an induction over the natural
  numbers: `left`, the number of steps that are left, is one, and does not stay at any `n`.
  The conclusion, that thread and command do end, is the reader's to draw: the induction
  theorem of the library takes an operator, which the prover cannot
  instantiate. The work left for `CommandsEnd` is bounded because each call asks about a
  fixed list, or the lines of one zone file; edits of the zone between two queries
  change the answers and not their number.
* `AttemptsEnd` is one round of `EventuallyResolved`. That the rounds come to an end is
  what `LaneIsFails` and `ScheduledInTime` say: each has a higher lane.

### Notifier

`NotifierProofs` and `NotifierRetryProofs` prove for all sets of notifications,
threads, connections, addresses and tokens, all delays that satisfy
`DelayAssumption` (a first attempt is immediate, a retry is not, and a retry that has no lane would be past the
deadline; `MCNotifier` has TLC evaluate it, also for the real 8 and 5 hours), any
number of crashes and faults:

| Theorem | States |
|---|---|
| `TypeCorrect` | `Spec => []TypeOK` |
| `NotificationsTracked` | `Spec => []NothingForgotten` |
| `NotificationsInOnePlace` | `Spec => []InOnePlace` |
| `NotificationsBacked` | `Spec => []BackedByFile` |
| `AttemptsInTime` | `Spec => []ScheduledInTime` |
| `NoLoss` | `Spec => NoSilentLoss` |
| `RetriesBackOff` | `Spec => []BackoffRespected` |
| `WithdrawnUnregistered` | `Spec => UnregisteredBeforeForgotten` |

The argument has layers, each inductive relative to the one before.

1. `TypeOK`.
2. `PlaceInv`, where notifications are: `InOnePlace`, `BackedByFile` and
   `NothingForgotten` are not inductive alone. `CreatedFile` adds what the file of a
   notification that is being created looks like in each step, without which
   `QueueFirst` might queue an incomplete one; `Phases` adds that lanes are empty
   while the process is down and threads idle until it serves, and that what
   the scan has still to visit is in no lane, without which `Visit` might queue a
   notification twice.
3. `HistoryInv`, what the place says about the past: `LaneIsFails` (the lane is the
   number of failed attempts since the start), `StartedBefore`, `ScheduledInTime`.
   `NoSilentLoss` follows: a drop by `queue_for_retry` for want of a lane is also
   one past the deadline, since `max_tries` is derived from the deadline.
4. `WaitInv`: the distance of a retry from the failure before it, in its lane, in a
   thread that sleeps and in one that sends; with `LaneIsFails` this is
   `BackoffRespected`.
5. `TokenInv`: what a thread that was told of a withdrawn token knows of it until
   the notification is deleted. `DropStep` says that a file goes only by `Delete` or
   because it is late; both together are `UnregisteredBeforeForgotten`.

Each action has a lemma per layer, or shares one with others like it. Seven of
the eight properties are also checked by the run `notifier_safety`; types are left
to the proof, here and in `Metadata`, and so is `SingleWriter`.

### Metadata

`MetadataProofs` proves for all sets of threads and tokens, all age limits and initial
files, any time and any number of deaths and failing writes (`TimeAssumption` says what
the constants are):

| Theorem | States | Assumes |
|---|---|---|
| `MetadataTypes` | `Spec => []TypeOK` | |
| `OneWriter` | `Spec => []SingleWriter` | |
| `FileComplete` | `Spec => []NeverTorn` | |
| `NoUpdateLost` | `Spec => []NoLostUpdate` | no read fails |
| `TokensStay` | `Spec => OnlyRemovedOrExpired` | no read fails |
| `Refinement` | `Spec => Implements` | no read fails |

That no read fails (`MaxReadFaults = 0`) is needed: with one failing read TLC finds the
trace of `metadata_read_error` (section 6). The layers:

1. `TypeInv`: types, and what a call in each step has for `op`, `arg` and `since`.
2. `LockInv`: `SingleWriter` and `NeverTorn` are not inductive without `Dumped`, which
   ties what a thread is about to rename to the `.tmp` file. A step is one of three
   kinds, with a lemma for each: outside the lock, holding it, giving it back.
3. `UpdateInv`: after its read a thread has in hand what is in the file, and after its
   update what its call makes of the file at some instant since it began. `NoLostUpdate`
   and, with the operators on dicts, `OnlyRemovedOrExpired` follow.
4. The step simulation: under the mapping a call begins with its first step, `Peek` is
   `Look`, `Filter` is `Answer`, `Rename` is `Modify` at the instant that `UpdateInv`
   provides, `Reply`, `Release` and `WriteRaises` are `End`, and the other steps inside the
   lock stutter. `TokenStore` makes no promise of liveness.

### Cmdeploy

`CmdeployProofs` proves for any number of edits of the zone, failures, queries without an answer,
late answers and commands that nobody advised (`NoneAssumption`: neither that there is
no record, nor that it has not been read yet, is a value of one):

| Theorem | States |
|---|---|
| `CmdeployTypes` | `Spec => []TypeOK` |
| `DeploymentChecked` | `Spec => []DeployedWithDns` |
| `VerdictTrue` | `Spec => []VerifiedWasRight` |
| `AlarmsJustified` | `Spec => []AlarmsHaveCause` |

1. `TypeInv` is `States` and `Channel`. The channel is empty, or has one request, or one
   answer, and if the command waits it is that of its call; while it idles, what is
   there is left of a call given up. A
   line has a value of its name (`Record`), which `TypeOK` does not say.
2. `HistoryInv` ties what a remote function has found so far to `seen`.
   `InitialFacts(d, k)` is what is known before the k-th query of
   `perform_initial_checks`: an alias found to be right was right in some zone. At its end it
   gives `DeployedWithDns`, and that the zone file asks for what is right
   (`ZoneFileFacts`). From there `ZonefileFacts(left, diff)` holds for each line compared: a
   record was good, is in `diff`, or is in a line still to come that only a good
   record matches. With no line left it is `VerifiedWasRight`.
   An edit only adds to `seen`, and no fact says that something was never seen
   (`FactsGrow`).
3. `AlarmInv` is the other direction: `Doubt(n)` is a reason to complain about `n`, a query
   of it that went unanswered among them.
   `AlarmFacts(d, k)` has one for each alias that was not found, and a zone with the
   `_mta-sts` that was read; `LineFacts(left, diff)` one for each line in `diff`, and says of
   each line still to come that a zone without it would be one. That a zone is
   bad depends on its own addresses; the bad one stays in `seen`, so doubts grow with it
   too (`DoubtsGrow`). An alias with an address of its own is compared with one read
   earlier: if that is not the one it should have, either a zone is bad or an
   address has changed (`AliasDoubt`), which is why `AlarmsHaveCause` allows for that.

Nothing in these proofs is about time: a reader that gives up may do so at any moment.

### Mailbox

`MailboxProofs` proves for any number of logins, passwords, mails, runs and deaths, any
clock and any delay of the updates:

| Theorem | States |
|---|---|
| `MailboxTypes` | `Spec => []TypeOK` |
| `PasswordsStay` | `Spec => PasswordStable` |
| `LoginsMatch` | `Spec => []LoginMatchesAccount` |
| `MigrationComplete` | `Spec => []AccountsMigrated` |
| `ActiveUsersStay` | `Spec => InactiveBeforeRemoval` |
| `InactiveUsersGo` | `Spec => InactiveRemoved` |

`BoundAssumption` gives the constants their types; `EpochAssumption` says that seconds
count from 1970, so that the start of the day of a login is never 0, which in the old
database means that there was none.

1. `TypeInv`: types, and what a login has in hand in each step.
2. `AccountInv`. `MutualExclusion` holds even while `chatmail-expire` removes the lock
   file: locks are of inodes, and two logins may hold two of them. `OneAccount` says what
   this gives as long as no mailbox has been removed: everybody has the same inode, so who
   is about to store a password has seen under the lock that there is none, and the row
   of the old database and the stored password agree. After a removal the three
   properties about passwords say nothing.
3. `ClockInv`. `BehindInv` bounds how far the mtime is behind what was noticed, by the
   day it is rounded to and the delay of updates; `AheadInv` says that it is not ahead,
   but between the steps of the migration that create the file and set its time.

### DictProxy

`DictProxyProofs` proves for any number of connections, ids, addresses and lines
(`LineAssumption`: commands are among those that Dovecot has):

| Theorem | States |
|---|---|
| `DictProxyTypes` | `Spec => []TypeOK` |
| `SetsRightAddress` | `Spec => []RightAddress` |
| `RepliesAreTruthful` | `Spec => []RepliesTruthful` |
| `BeginsCommittedOnce` | `Spec => []CommittedOnce` |

The invariant is said of each connection, and the actions of the others leave it
alone because `transactions` is a field of the connection. `AtLine` is how far the thread
is; `OpenTransactions` ties what is in `transactions` to the lines sent: an open one is left of the
last begin with its id, with no commit since, and is `F` exactly if a set of it failed.
`CommitsBegun` says the same of commits of the past, where the transaction is gone.
`Answered` is the n-th reply to the n-th line that gets one. `LatestBegin` shows that
`latest`, a maximum of a set of numbers, is the begin that `OpenTransactions` speaks of.

### Expire

`ExpireProofs` proves for all finite sets of messages, any number of processes, runs and
events of Dovecot and devices, all sizes, ages and limits:

| Theorem | States | Assumes |
|---|---|---|
| `ExpireTypes` | `Spec => []TypeOK` | |
| `ReasonsToRemove` | `Spec => RemovedForReason` | |
| `SizeRecorded` | `Spec => []SizeOnRecord` | no run without `--remove` |
| `TargetIsReached` | `Spec => []TargetReached` | |

`Dry \subseteq {FALSE}` is needed for `SizeRecorded`: without it TLC finds the trace of `expire_dry`
(section 6).

1. Sizes. `SizeOf` is a fold over a set. What it does with one element more or less is proved from
   the definition of the fold: its recursive function exists, by the minimal finite
   set for which none would (`SmallestSubset`, from the library's `WFMin`, which takes no
   operator). From there `SizeAdd`, `SizeRemove` and `SizeMonotone`, and what a delivery, a
   removal and a rename do to `used` (`HeldAdd`, `HeldRemove`, `HeldRename`).
2. `TypeInv`. That `total` and `maildirsize` are natural numbers takes `Counted`, that a total
   is the size of what is left of a listing, and `Covered`, that Dovecot has no less on
   record than there is.
3. `ReasonInv`: what the daily run has still to remove by age was expired when it was listed.
4. `RecordInv`: a record that is wrong is one that a run under way will remove.
5. `TargetInv`, of a process that nobody disturbed: what it has not removed is the mailbox,
   and each message removed is older than those and took the size from above the target.
   The oldest that goes next exists (`OldestExists`), again by a minimal set.

### Deploy

`DeployProofs` proves for any number of runs, with any options and stages, any changes
between them, runs cut short and reboots:

| Theorem | States | Assumes |
|---|---|---|
| `DeployTypes` | `Spec => []TypeOK` | |
| `RunsAreCurrent` | `Spec => []RunsCurrent` | |
| `BinaryIsCurrent` | `Spec => []BinaryCurrent` | |
| `PolicyIsRemoved` | `Spec => []PolicyRemoved` | |
| `MailIsDisabled` | `Spec => []MailDisabled` | |
| `ValidatedFirst` | `Spec => ValidatedBeforeStart` | |

`StageAssumption` says that whoever gives stages keeps their order, as the documentation does
(`install,configure` and `activate`, `doc/source/migrate.rst:47` and `92`); stages may be left out
and repeated. `DeployAssumption` leaves `Editable` and `Broken` free: any file may have a new
version, those of Debian packages too, and any configuration of Dovecot or Postfix may fail its
validation.

1. The operations of a run. `FlattenSeq` is recursive, so what it returns is found from its
   definition by the least number for which it would fail; `Places` then says where each element of
   the result comes from. `Sound` says of a deployer which operations it has in each stage and
   in what order; there is a lemma per deployer. From these, per stage, and for the whole run, comes
   `Plan`: a block is followed by its end, a changed file by the activation of all that read it,
   a configuration by its validation, and what starts services comes after all that changes files.
   A change has the marks that lead to a restart (`Marked`), which is where a forgotten `need_restart`
   would fail: of four pairs that fail three are of this kind, and `Overlooked`. The fourth is one of
   the upgrade, which comes first in a run, with `policy-rc.d` gone (`policy_first`), and restarts
   the services of the packages it replaces (`UpgradeDoes`), but not what else uses their programs.
2. `Plan` speaks of what is left, and stays true of the rest (`PlanTail`), so it is an
   invariant (`Planned`). It also says what is still to come after the operation just done (`PlanFollows`).
3. The other invariants say that whatever is wrong now has its remedy in `todo`: with `policy-rc.d`
   there, `unblock` (`PolicyInv`); with a mail service running, its stop (`DisabledInv`); with an old
   binary, the test for one, or a mark and the restart (`BinaryInv`); with a configuration that
   does not pass, the validation and the mark it needs, and no package or upgrade before it that
   might start the service (`ConfiguredInv`). At the end nothing is left.
4. `CurrentInv` is the one for `RunsCurrent`. `due(s)` is a mark with the activation of `s` to come.
   `units_due` says that the first operation on a service reloads systemd, so that every unit is
   loaded before anything restarts: that `filtermail`, the first to be activated, asks for it
   always is what all others rely on. Installation comes before any change of a unit
   (`units_first`), for packages start their service at once. The generated key marks nothing; it
   is made only when OpenDKIM has no configuration yet or one that was just put (`key_due`).
   `Installed`, that what runs is there, holds also after runs that were cut short.

## 6. What the code does not do

Three are runs that TLC finds violated, by a trace that the code allows.

* `metadata_read_error`: `FileDict.read` returns an empty dict for any exception,
  and `modify` writes that back, so one failed read (no descriptor left, an I/O
  error) costs an intact file its tokens.
* `expire_dry`: `chatmail-expire` without `--remove` still removes messages of a
  mailbox above its target.
* `deploy_mtail`: `mtail.service` has `mtail_address` in its command line, but its
  change does not count for `need_restart`, nor are the units reloaded: mtail goes
  on with the old address. The same holds for its binary.

Others were met while modelling; no run is kept for them.

* `metadata.py` has a comment that device tokens are only removed when upstream says
  so; `_modify_tokens` also removes those older than 90 days or from the future.
* The last login is kept as the start of its day, so a user is removed up to a day
  before `delete_inactive_users_after` days have passed. `InactiveBeforeRemoval` is
  the bound that does hold, up to late updates.
* If doveauth dies between writing the password and touching `enforceE2EEincoming`,
  the address exists and never gets that file.
* filtermail reads `chatmail.ini` when it starts and is not restarted for it. `apt.upgrade`
  (`deployers.py:500`) may bring a new `acmetool`, and `acmetool-redirector`, a service
  that the deployer adds, goes on with the old one. These pairs and the two of mtail are
  `Overlooked` in `Deploy`.
* A run that is cut short, and `CMDEPLOY_STAGES=install,configure` before
  `CMDEPLOY_STAGES=activate` (`doc/source/migrate.rst:47`, `:92`), lose
  `need_restart`: a service that already runs keeps its old configuration. Postfix is
  installed without a block on its start, so that in this procedure it comes up with
  the configuration of its package, and the second command does not restart it.
* After a validation that failed, the next run finds the configuration unchanged,
  does not validate it and starts the service. `ValidatedBeforeStart` therefore speaks, once a
  run was cut short, of the run that brought the configuration only.
* A `policy-rc.d` that a run left behind when it was cut short is still there when the next
  one upgrades the packages: their services are not restarted, and nothing makes up for it.
* A run of the expiry that is killed between the removal of messages and that of
  `maildirsize` leaves the old size on record, and the next run finds nothing to remove.
  No run is killed in `Expire`.
* `query_dns` returns nothing for a record that is there if no SOA record is found
  (`rdns.py:81`) or if `dig` has no answer and no error, as with SERVFAIL (`rdns.py:86`): the
  record is then reported as missing. `AlarmsHaveCause` counts this among the causes; the
  other direction holds, no record is found right for it (`VerifiedWasRight`).
* With an iroh relay of somebody else, `iroh-relay` is not enabled but still running
  (`running=True`), until the next reboot. After a change from ACME to
  certificates of one's own nothing stops the services of acmetool.
* `get_dkim_entry` pipes `openssl` into `awk` and gets no error if there is no key, but
  an entry with an empty one. So "could not determine dkim_entry" (`cmdeploy.py:267`)
  is never printed, and without ACME `cmdeploy dns` asks for the empty key and finds
  it correct before the first deployment. `VerifiedWasRight` therefore compares with
  the entry that the command makes. The tests have the shell raise instead
  (`test_dns.py:76`).
* The first deployment with ACME ends with "Deploy completed but letsencrypt not
  configured" and asks for a second one, since it goes by the account that there was
  before it (`cmdeploy.py:121`). With `--dry-run` nothing was deployed, and it says that
  the deployment completed.
* `cmdeploy dns` compares the address in the zone with itself (`dns.py:54`): a zone that
  points to another host is found correct. Of several answers to a query the first
  counts (`rdns.py:86`).
* An alias with an address of its own is compared with the address of the mail domain
  that was read before it. If the address changes in between the verdict is about
  neither; `VerifiedWasRight` and `AlarmsHaveCause` allow for that.

Two limits met while modelling are left as hazards without a property, since the
code promises nothing about them: a message delivered while `rmtree` is at work
stays in a directory without a password, and a message that a device renames
between listing and removal is counted by `expire_to_target` as removed while a
younger one may go. `TargetReached` is therefore about runs that nobody disturbs.

## 7. Not modelled

Programs without a state that others could disturb: configuration (parsed once at
the start of each program, constants here), web pages, QR codes and templates,
`newemail.py` (prints a random address), `turnserver.py` (one request, whose failure is
a reply in `DictProxy`), `fsreport.py` (reads the mailboxes and prints sums), and of the
command line `init`, `status`, `test`, `bench`, `fmt`, `webdev` and `adm`, which write a file
that is not there, print, or start another program: `adm` downloads and runs the installer of a
project of its own, and then edits that one's configuration.

Data that no property tells apart: the syntax of addresses and passwords (one
decision, `Refuse`), the answers for iroh and TURN (constants), hashing of passwords
(compared as values), `lookup_userdb` (a read), `allow_incoming_cleartext` (not called by
the programs), the contents of files, users and directories of a deployment, log lines
of remote functions. Clocks that are not UTC are left out; `expire.py:252` is listed as
a hazard.

## 8. Plan

1. `Push`: `Notifier` over the steps of `Metadata`, with `rmtree` of the mailbox in
   between; a set for a mailbox that is gone makes its directory anew.
2. Proofs: that `Notifier` delivers what `Metadata` keeps, once `Push` joins them; that
   the rounds of `AttemptsEnd` and of the operator come to an end.
