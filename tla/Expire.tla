------------------------------- MODULE Expire -------------------------------
(***************************************************************************)
(* The messages of one mailbox and the programs that remove them            *)
(* (expire.py): the daily chatmail-expire, which goes by age and then by    *)
(* size, and chatmail-quota-expire, which Dovecot starts when the mailbox   *)
(* fills up.  Neither takes a lock: they work on listings of the directory  *)
(* while Dovecot delivers messages and the user's devices rename and remove *)
(* them.                                                                     *)
(***************************************************************************)
EXTENDS Integers, FiniteSetsExt

CONSTANTS
    Msg, Proc, None,
    DAY,            \* seconds of a day
    MAILS_AFTER,    \* delete_mails_after, in days
    LARGE_AFTER,    \* delete_large_after, in days
    LARGE,          \* above this size a message is large (200000 bytes)
    TARGET,         \* the size to which a mailbox is cut down
    Start,          \* the second at which the history begins
    MaxTime,        \* bound: the last second
    Sizes,          \* bound: the sizes of messages
    Ages,           \* bound: when the messages that are there at first came
    MaxEvents,      \* bound: how often Dovecot delivers, renames or removes a message
    MaxRuns,        \* bound: runs of the two programs
    Dry             \* which runs of chatmail-expire: with --remove (FALSE), without

ASSUME ExpireAssumption ==
    /\ {DAY, MAILS_AFTER, LARGE_AFTER} \subseteq Nat \ {0}
    /\ {LARGE, TARGET, Start, MaxTime, MaxEvents, MaxRuns} \subseteq Nat /\ Start <= MaxTime
    /\ Sizes \subseteq Nat \ {0} /\ Ages \subseteq 0..Start
    /\ Dry \subseteq BOOLEAN
    /\ IsFiniteSet(Msg) /\ None \notin Nat

VARIABLES
    now,
    box,            \* box[m]: the file of message m, or None
    maildirsize,    \* the size Dovecot has on record, or None: it counts anew
    pc,
    since,          \* since[p]: the time a daily run goes by; for the quota its cutoff
    dry,
    todo,           \* todo[p]: the listed files that p has still to go through
    total, removed, \* total[p]: what p believes is left; removed[p]: something was
    changed,
    listed,         \* listed[p]: all that p has listed for the quota
    calm,           \* processes on whose files nobody else worked since then
    runs, events

work == <<pc, since, dry, todo, total, removed, changed, listed>>
vars == <<now, box, maildirsize, work, calm, runs, events>>

\* A file of the Maildir: Dovecot writes time of arrival and size into its
\* name; the directory and the flags are part of it too.
File == [at : 0..MaxTime, size : Sizes, dir : {"new", "cur"}, flags : {0, 1}]
Entry == [msg : Msg, file : File]

ASSUME NoFileAssumption == None \notin File

entries(dirs) == {e \in [msg : Msg, file : {box[m] : m \in Msg} \ {None}] :
                    box[e.msg] = e.file /\ e.file.dir \in dirs}
SizeOf(es) == MapThenSumSet(LAMBDA e : e.file.size, es)
used == SizeOf(entries({"new", "cur"}))

TypeOK ==
    /\ now \in Start..MaxTime
    /\ box \in [Msg -> File \cup {None}]
    /\ maildirsize \in Nat \cup {None}
    /\ pc \in [Proc -> {"idle", "stat", "stat_cur", "stat_new", "age", "cur", "new", "shrink"}]
    /\ since \in [Proc -> 0..now]
    /\ dry \in [Proc -> BOOLEAN] /\ removed \in [Proc -> BOOLEAN] /\ changed \in [Proc -> BOOLEAN]
    /\ todo \in [Proc -> SUBSET Entry] /\ listed \in [Proc -> SUBSET Entry]
    /\ total \in [Proc -> Nat]
    /\ calm \in SUBSET Proc
    /\ runs \in 0..MaxRuns /\ events \in 0..MaxEvents

Init ==
    /\ now = Start
    /\ box \in [Msg -> [at : Ages, size : Sizes, dir : {"new", "cur"}, flags : {0}] \cup {None}]
    /\ maildirsize = used
    /\ pc = [p \in Proc |-> "idle"]
    /\ since = [p \in Proc |-> 0]
    /\ dry = [p \in Proc |-> FALSE]
    /\ todo = [p \in Proc |-> {}]
    /\ total = [p \in Proc |-> 0]
    /\ removed = [p \in Proc |-> FALSE]
    /\ changed = [p \in Proc |-> FALSE]
    /\ listed = [p \in Proc |-> {}]
    /\ calm = {}
    /\ runs = 0 /\ events = 0

Goto(p, at) == pc' = [pc EXCEPT ![p] = at]

-----------------------------------------------------------------------------
(* Dovecot and the devices of the user                                       *)

\* Dovecot keeps maildirsize up to date with what it does itself.
Account(n) == maildirsize' = IF maildirsize = None THEN None ELSE maildirsize + n

Event ==
    /\ events < MaxEvents /\ events' = events + 1
    /\ calm' = {}
    /\ UNCHANGED <<now, work, runs>>

Deliver(m, s) ==
    /\ box[m] = None
    /\ box' = [box EXCEPT ![m] = [at |-> now, size |-> s, dir |-> "new", flags |-> 0]]
    /\ Account(s)
    /\ Event

\* A device notices a message, or changes its flags: the file is renamed.
Notice(m) ==
    /\ box[m] # None /\ box[m].dir = "new"
    /\ box' = [box EXCEPT ![m].dir = "cur"]
    /\ Event
    /\ UNCHANGED maildirsize

Flag(m) ==
    /\ box[m] # None /\ box[m].dir = "cur"
    /\ box' = [box EXCEPT ![m].flags = 1 - @]
    /\ Event
    /\ UNCHANGED maildirsize

Expunge(m) ==
    /\ box[m] # None
    /\ box' = [box EXCEPT ![m] = None]
    /\ Account(-box[m].size)
    /\ Event

\* Without a record of the size Dovecot counts anew.
Recount ==
    /\ maildirsize = None
    /\ maildirsize' = used
    /\ UNCHANGED <<now, box, work, calm, runs, events>>

Tick ==
    /\ now < MaxTime
    /\ now' = now + 1
    /\ UNCHANGED <<box, maildirsize, work, calm, runs, events>>

-----------------------------------------------------------------------------
(* Expiry.process_mailbox_stat of a mailbox whose user is active             *)

StartDaily(p, d) ==
    /\ pc[p] = "idle" /\ runs < MaxRuns
    /\ runs' = runs + 1
    /\ Goto(p, "stat")
    /\ since' = [since EXCEPT ![p] = now]
    /\ dry' = [dry EXCEPT ![p] = d]
    /\ UNCHANGED <<now, box, maildirsize, todo, total, removed, changed, listed, calm, events>>

\* Mutant: large messages are removed also when no device has noticed them.
expired_Unnoticed(f, n) ==
    \/ f.at < n - MAILS_AFTER * DAY
    \/ f.size > LARGE /\ f.at < n - LARGE_AFTER * DAY

expired(f, n) ==
    \/ f.at < n - MAILS_AFTER * DAY
    \/ f.size > LARGE /\ f.at < n - LARGE_AFTER * DAY /\ f.dir = "cur"

\* A large message that no device has noticed stays, but counts as a change.
spared(f, n) == f.size > LARGE /\ f.at < n - LARGE_AFTER * DAY /\ f.dir = "new"

\* MailboxStat lists cur and new, in whatever order the directory has them.
StatDir(p, dir) ==
    /\ \/ pc[p] = "stat" /\ Goto(p, IF dir = "cur" THEN "stat_new" ELSE "stat_cur")
       \/ pc[p] = (IF dir = "cur" THEN "stat_cur" ELSE "stat_new") /\ Goto(p, "age")
    /\ todo' = [todo EXCEPT ![p] = @ \cup {e \in entries({dir}) : expired(e.file, since[p])}]
    /\ changed' = [changed EXCEPT ![p] = @ \/ \E e \in entries({dir}) : spared(e.file, since[p])]
    /\ UNCHANGED <<now, box, maildirsize, since, dry, total, removed, listed, calm, runs, events>>

\* unlink by name: a file that was renamed or removed since stays what it is.
Unlink(e) == box' = IF box[e.msg] = e.file THEN [box EXCEPT ![e.msg] = None] ELSE box

\* Other processes find that somebody was at the files.
Disturb(p) == calm' = IF box' = box THEN calm ELSE calm \cap {p}

RemoveExpired(p, e) ==
    /\ pc[p] = "age" /\ e \in todo[p]
    /\ todo' = [todo EXCEPT ![p] = @ \ {e}]
    /\ changed' = [changed EXCEPT ![p] = TRUE]
    /\ IF dry[p] THEN box' = box ELSE Unlink(e)
    /\ Disturb(p)
    /\ UNCHANGED <<now, maildirsize, pc, since, dry, total, removed, listed, runs, events>>

-----------------------------------------------------------------------------
(* expire_to_target, of a daily run and of chatmail-quota-expire             *)

StartQuota(p) ==
    /\ pc[p] = "idle" /\ runs < MaxRuns
    /\ runs' = runs + 1
    /\ Goto(p, "cur")
    /\ UNCHANGED <<now, box, maildirsize, since, dry, todo, total, removed, changed, listed, calm, events>>

\* scan_mailbox_messages: cur first, then new
ScanCur(p) ==
    /\ pc[p] = "cur" \/ (pc[p] = "age" /\ todo[p] = {})
    /\ todo' = [todo EXCEPT ![p] = entries({"cur"})]
    /\ calm' = calm \cup {p}
    /\ Goto(p, "new")
    /\ UNCHANGED <<now, box, maildirsize, since, dry, total, removed, changed, listed, runs, events>>

\* Mutant: the total is what Dovecot has on record.
ScanNew_ByRecord(p) ==
    /\ pc[p] = "new"
    /\ todo' = [todo EXCEPT ![p] = @ \cup entries({"new"})]
    /\ total' = [total EXCEPT ![p] = maildirsize]
    /\ since' = [since EXCEPT ![p] = now]
    /\ listed' = [listed EXCEPT ![p] = todo'[p]]
    /\ Goto(p, "shrink")
    /\ UNCHANGED <<now, box, maildirsize, dry, removed, changed, calm, runs, events>>

ScanNew(p) ==
    /\ pc[p] = "new"
    /\ todo' = [todo EXCEPT ![p] = @ \cup entries({"new"})]
    /\ total' = [total EXCEPT ![p] = SizeOf(todo'[p])]
    /\ since' = [since EXCEPT ![p] = now]
    /\ listed' = [listed EXCEPT ![p] = todo'[p]]
    /\ Goto(p, "shrink")
    /\ UNCHANGED <<now, box, maildirsize, dry, removed, changed, calm, runs, events>>

\* The order of the QuotaFileEntry tuples, but for the names of equal ones.
sooner(f, g) == f.at < g.at \/ (f.at = g.at /\ f.size <= g.size)

\* Mutant: the newest come first.
next_Newest(p) == {e \in todo[p] : \A f \in todo[p] : sooner(f.file, e.file)}

next(p) == {e \in todo[p] : \A f \in todo[p] : sooner(e.file, f.file)}

\* The messages of the last 24 hours
protected(f, n) == f.at > n - DAY

Shrink(p, e) ==
    /\ pc[p] = "shrink" /\ total[p] > TARGET
    /\ e \in next(p) /\ ~protected(e.file, since[p])
    /\ Unlink(e)
    /\ Disturb(p)
    /\ todo' = [todo EXCEPT ![p] = @ \ {e}]
    /\ total' = [total EXCEPT ![p] = @ - e.file.size]
    /\ removed' = [removed EXCEPT ![p] = TRUE]
    /\ UNCHANGED <<now, maildirsize, pc, since, dry, changed, listed, runs, events>>

satisfied(p) ==
    /\ pc[p] = "shrink"
    /\ total[p] <= TARGET \/ \A e \in next(p) : protected(e.file, since[p])

\* Mutant: only what was removed by age counts as a change.
obsolete_ByAge(p) == changed[p] /\ ~dry[p]

\* Whether the size on record has to go: chatmail-expire does not remove it
\* without --remove.
obsolete(p) == (changed[p] \/ removed[p]) /\ ~dry[p]

Report(p) ==
    /\ satisfied(p)
    /\ maildirsize' = IF obsolete(p) THEN None ELSE maildirsize
    /\ Goto(p, "idle")
    /\ since' = [since EXCEPT ![p] = 0]
    /\ dry' = [dry EXCEPT ![p] = FALSE]
    /\ todo' = [todo EXCEPT ![p] = {}]
    /\ total' = [total EXCEPT ![p] = 0]
    /\ removed' = [removed EXCEPT ![p] = FALSE]
    /\ changed' = [changed EXCEPT ![p] = FALSE]
    /\ listed' = [listed EXCEPT ![p] = {}]
    /\ calm' = calm \ {p}
    /\ UNCHANGED <<now, box, runs, events>>

-----------------------------------------------------------------------------
Next ==
    \/ \E m \in Msg : (\E s \in Sizes : Deliver(m, s)) \/ Notice(m) \/ Flag(m) \/ Expunge(m)
    \/ Recount \/ Tick
    \/ \E p \in Proc :
         \/ (\E d \in Dry : StartDaily(p, d)) \/ (\E dir \in {"cur", "new"} : StatDir(p, dir))
         \/ (\E e \in todo[p] : RemoveExpired(p, e) \/ Shrink(p, e))
         \/ StartQuota(p) \/ ScanCur(p) \/ ScanNew(p) \/ Report(p)

Spec == Init /\ [][Next]_vars

-----------------------------------------------------------------------------
(* Properties *)

Lost(m) == box[m] # None /\ box'[m] = None /\ events' = events

\* Whoever removes a message has a reason to: it is past the age of all
\* messages, it is large, noticed and past the age of large ones, or it is at
\* least a day old and in a mailbox that was above the target.
RemovedForReason ==
    [][\A m \in Msg : Lost(m) =>
         \/ box[m].at < now - MAILS_AFTER * DAY
         \/ box[m].size > LARGE /\ box[m].dir = "cur" /\ box[m].at < now - LARGE_AFTER * DAY
         \/ /\ box[m].at <= now - DAY
            /\ \E p \in Proc : pc[p] = "shrink" /\ SizeOf(listed[p]) > TARGET]_vars

\* expire_to_target, when nobody else works on the files, removes the oldest
\* messages, no more than needed, and stops only at the target or at messages
\* of the last 24 hours.
TargetReached ==
    \A p \in calm : satisfied(p) =>
      LET left == entries({"new", "cur"})
          gone == listed[p] \ left
      IN  /\ SizeOf(left) <= TARGET \/ \A e \in left : protected(e.file, since[p])
          /\ \A e \in gone : /\ \A f \in left : sooner(e.file, f.file)
                             /\ (\A f \in gone : sooner(f.file, e.file)) =>
                                  SizeOf(left) + e.file.size > TARGET

\* Dovecot never goes by a size from before a removal once the runs are over:
\* maildirsize is removed whenever messages were, also by several runs at once.
SizeOnRecord == (\A p \in Proc : pc[p] = "idle") => maildirsize \in {None, used}

\* Help of --remove: "actually remove all expired files and dirs"
\* (expire.py:243-248); a run without it removes no message.
DryRunKeeps ==
    [][\A p \in Proc : dry[p] /\ pc[p] \in {"age", "shrink"} /\ todo'[p] # todo[p]
         => \A m \in Msg : ~Lost(m)]_vars
=============================================================================
