------------------------------ MODULE Metadata ------------------------------
(***************************************************************************)
(* The device tokens of one address as chatmaild/metadata.py and            *)
(* filedict.py keep them in metadata.json: a lock file, a read of the whole *)
(* dict, a write to metadata.json.tmp and a rename, each a step of its own  *)
(* that other threads and a death of the process may come between.  Reads   *)
(* take no lock.                                                            *)
(***************************************************************************)
EXTENDS Integers

CONSTANTS
    Token, Proc, Absent, MAX_AGE, MAX_AHEAD, MaxTime,
    None,             \* no lock holder, no token
    InitialTimes,     \* bound: timestamps a file may hold at the start
    MaxCrashes,       \* bound: how often the process dies
    MaxFaults,        \* bound: how often a write raises
    MaxReadFaults     \* bound: how often opening or reading the file fails

ASSUME TimeAssumption ==
    /\ MAX_AGE \in Nat \ {0} /\ MAX_AHEAD \in Nat \ {0} /\ MaxTime \in Nat
    /\ Absent \notin Nat /\ None \notin Token \cup Proc
    /\ InitialTimes \subseteq Nat
    /\ {MaxCrashes, MaxFaults, MaxReadFaults} \subseteq Nat

VARIABLES
    now,
    path,             \* content of metadata.json
    tmp,              \* content of metadata.json.tmp
    lock,             \* holder of metadata.json.lock
    pc, op, arg, since,
    data,             \* data[p]: the dict in the hands of p
    reply,
    crashes, faults, readfaults

files == <<path, tmp>>
calls == <<pc, op, arg, since, data, reply>>
env   == <<crashes, faults, readfaults>>
vars  == <<now, files, lock, calls, env>>

Timestamp == Nat \cup {Absent}
Dated == [Token -> Timestamp]
NoTokens == [t \in Token |-> Absent]
Data == [ts : Dated, list : SUBSET Token]
Empty == [ts |-> NoTokens, list |-> {}]

\* "part" is a file under construction, "corrupt" one that json.load rejects,
\* and list is the old format of the tokens.
Content == [kind : {"missing", "part", "corrupt", "dict"}, data : Data]
Missing == [kind |-> "missing", data |-> Empty]
Part == [kind |-> "part", data |-> Empty]

valid(ts, n) == ts \in Nat /\ ts > n - MAX_AGE /\ ts < n + MAX_AHEAD

\* Mutant: the age limit is off by one.
purged_Early(d, n) ==
    [t \in Token |-> IF t \in d.list THEN n ELSE IF valid(d.ts[t], n + 1) THEN d.ts[t] ELSE Absent]

purged(d, n) ==
    [t \in Token |-> IF t \in d.list THEN n ELSE IF valid(d.ts[t], n) THEN d.ts[t] ELSE Absent]

modified(o, t, d, n) ==
    CASE o = "add"    -> [d EXCEPT ![t] = n]
      [] o = "remove" -> [d EXCEPT ![t] = Absent]
      [] OTHER        -> d

\* FileDict.read: a missing or broken file reads as an empty dict.
contents(c) == IF c.kind = "dict" THEN c.data ELSE Empty

TypeOK ==
    /\ now \in Nat
    /\ path \in Content /\ tmp \in Content
    /\ lock \in Proc \cup {None}
    /\ pc \in [Proc -> {"idle", "lock", "read", "update", "open", "dump", "rename", "unlock",
                        "peek", "filter", "answer"}]
    /\ op \in [Proc -> {"none", "add", "remove", "look", "purge"}]
    /\ arg \in [Proc -> Token \cup {None}]
    /\ since \in [Proc -> Nat]
    /\ data \in [Proc -> Data]
    /\ reply \in [Proc -> SUBSET Token]
    /\ crashes \in Nat /\ faults \in Nat /\ readfaults \in Nat

Init ==
    /\ now = 0
    /\ path \in {Missing, [kind |-> "corrupt", data |-> Empty]}
                \cup [kind : {"dict"}, data : [ts : [Token -> InitialTimes \cup {Absent}], list : {{}}]
                                               \cup [ts : {NoTokens}, list : SUBSET Token]]
    /\ tmp \in {Missing, Part}
    /\ lock = None
    /\ pc = [p \in Proc |-> "idle"]
    /\ op = [p \in Proc |-> "none"]
    /\ arg = [p \in Proc |-> None]
    /\ since = [p \in Proc |-> 0]
    /\ data = [p \in Proc |-> Empty]
    /\ reply = [p \in Proc |-> {}]
    /\ crashes = 0 /\ faults = 0 /\ readfaults = 0

Goto(p, at) == pc' = [pc EXCEPT ![p] = at]

-----------------------------------------------------------------------------
(* The calls: add_token_to_addr, remove_token_from_addr and                  *)
(* get_tokens_for_addr.                                                      *)

Begin(p, o, t, at) ==
    /\ pc[p] = "idle"
    /\ Goto(p, at)
    /\ op' = [op EXCEPT ![p] = o]
    /\ arg' = [arg EXCEPT ![p] = t]
    /\ since' = [since EXCEPT ![p] = now]
    /\ UNCHANGED <<now, files, lock, data, reply, env>>

\* Mutant: add_token_to_addr modifies without the lock.
AddToken_NoLock(p, t) == Begin(p, "add", t, "read")

AddToken(p, t) == Begin(p, "add", t, "lock")

RemoveToken(p, t) == Begin(p, "remove", t, "lock")

GetTokens(p) == Begin(p, "look", None, "peek")

\* read() outside the lock
Peek(p) ==
    /\ pc[p] = "peek"
    /\ data' = [data EXCEPT ![p] = contents(path)]
    /\ Goto(p, "filter")
    /\ UNCHANGED <<now, files, lock, op, arg, since, reply, env>>

\* read() meets another error than a missing file: {}
PeekFails(p) ==
    /\ pc[p] = "peek" /\ readfaults < MaxReadFaults
    /\ readfaults' = readfaults + 1
    /\ data' = [data EXCEPT ![p] = Empty]
    /\ Goto(p, "filter")
    /\ UNCHANGED <<now, files, lock, op, arg, since, reply, crashes, faults>>

\* Mutant: expired tokens are returned once more, while they are purged.
Filter_Unfiltered(p) ==
    LET ts == data[p].ts
        expired == {t \in Token : ts[t] # Absent /\ ~valid(ts[t], now)}
    IN
    /\ pc[p] = "filter"
    /\ reply' = [reply EXCEPT ![p] = {t \in Token : ts[t] # Absent}]
    /\ Goto(p, IF expired = {} THEN "answer" ELSE "lock")
    /\ op' = IF expired = {} THEN op ELSE [op EXCEPT ![p] = "purge"]
    /\ since' = IF expired = {} THEN since ELSE [since EXCEPT ![p] = now]
    /\ data' = [data EXCEPT ![p] = Empty]
    /\ UNCHANGED <<now, files, lock, arg, env>>

\* The list that get_tokens_for_addr returns, and whether it purges first.
Filter(p) ==
    LET ts == data[p].ts
        expired == {t \in Token : ts[t] # Absent /\ ~valid(ts[t], now)}
    IN
    /\ pc[p] = "filter"
    /\ reply' = [reply EXCEPT ![p] = {t \in Token : valid(ts[t], now)}]
    /\ \/ /\ expired = {}
          /\ Goto(p, "answer")
          /\ UNCHANGED <<op, since>>
       \/ /\ expired # {}
          /\ Goto(p, "lock")
          /\ op' = [op EXCEPT ![p] = "purge"]
          /\ since' = [since EXCEPT ![p] = now]
    /\ data' = [data EXCEPT ![p] = Empty]
    /\ UNCHANGED <<now, files, lock, arg, env>>

-----------------------------------------------------------------------------
(* _modify_tokens within FileDict.modify.                                    *)

Acquire(p) ==
    /\ pc[p] = "lock" /\ lock = None
    /\ lock' = p
    /\ Goto(p, "read")
    /\ UNCHANGED <<now, files, op, arg, since, data, reply, env>>

Read(p) ==
    /\ pc[p] = "read"
    /\ data' = [data EXCEPT ![p] = contents(path)]
    /\ Goto(p, "update")
    /\ UNCHANGED <<now, files, lock, op, arg, since, reply, env>>

ReadFails(p) ==
    /\ pc[p] = "read" /\ readfaults < MaxReadFaults
    /\ readfaults' = readfaults + 1
    /\ data' = [data EXCEPT ![p] = Empty]
    /\ Goto(p, "update")
    /\ UNCHANGED <<now, files, lock, op, arg, since, reply, crashes, faults>>

\* Date the tokens of the list format, purge the expired ones, and run the
\* body of the caller's with block.
Update(p) ==
    /\ pc[p] = "update"
    /\ data' = [data EXCEPT ![p] =
                   [ts |-> modified(op[p], arg[p], purged(data[p], now), now), list |-> {}]]
    /\ Goto(p, "open")
    /\ UNCHANGED <<now, files, lock, op, arg, since, reply, env>>

\* Mutant: the dict is written into metadata.json itself.
OpenTmp_InPlace(p) ==
    /\ pc[p] = "open"
    /\ path' = Part
    /\ Goto(p, "dump")
    /\ UNCHANGED <<now, tmp, lock, op, arg, since, data, reply, env>>

\* open("w") empties what a call cut short may have left in the file
OpenTmp(p) ==
    /\ pc[p] = "open"
    /\ tmp' = Part
    /\ Goto(p, "dump")
    /\ UNCHANGED <<now, path, lock, op, arg, since, data, reply, env>>

DumpTmp(p) ==
    /\ pc[p] = "dump"
    /\ tmp' = [kind |-> "dict", data |-> data[p]]
    /\ Goto(p, "rename")
    /\ UNCHANGED <<now, path, lock, op, arg, since, data, reply, env>>

Rename(p) ==
    /\ pc[p] = "rename"
    /\ path' = tmp
    /\ tmp' = Missing
    /\ Goto(p, "unlock")
    /\ UNCHANGED <<now, lock, op, arg, since, data, reply, env>>

\* Leaving the call.
Finish(p) ==
    /\ Goto(p, "idle")
    /\ op' = [op EXCEPT ![p] = "none"]
    /\ arg' = [arg EXCEPT ![p] = None]
    /\ since' = [since EXCEPT ![p] = 0]
    /\ data' = [data EXCEPT ![p] = Empty]
    /\ reply' = [reply EXCEPT ![p] = {}]
    /\ UNCHANGED <<now, files>>

Release(p) ==
    /\ pc[p] = "unlock"
    /\ lock' = None
    /\ Finish(p)
    /\ UNCHANGED env

\* Mutant: modify gives the lock back only when all went well.
WriteRaises_KeepsLock(p) ==
    /\ pc[p] \in {"open", "dump", "rename"} /\ faults < MaxFaults
    /\ faults' = faults + 1
    /\ Finish(p)
    /\ UNCHANGED <<lock, crashes, readfaults>>

\* Opening, writing or renaming raises; the context manager gives the lock back.
WriteRaises(p) ==
    /\ pc[p] \in {"open", "dump", "rename"} /\ faults < MaxFaults
    /\ faults' = faults + 1
    /\ lock' = None
    /\ Finish(p)
    /\ UNCHANGED <<crashes, readfaults>>

\* A lookup that had nothing to purge returns.
Reply(p) ==
    /\ pc[p] = "answer"
    /\ Finish(p)
    /\ UNCHANGED <<lock, env>>

\* The process dies: the operating system gives the lock back.
Crash ==
    /\ crashes < MaxCrashes
    /\ crashes' = crashes + 1
    /\ lock' = None
    /\ pc' = [p \in Proc |-> "idle"]
    /\ op' = [p \in Proc |-> "none"]
    /\ arg' = [p \in Proc |-> None]
    /\ since' = [p \in Proc |-> 0]
    /\ data' = [p \in Proc |-> Empty]
    /\ reply' = [p \in Proc |-> {}]
    /\ UNCHANGED <<now, files, faults, readfaults>>

Tick ==
    /\ now < MaxTime
    /\ now' = now + 1
    /\ UNCHANGED <<files, lock, calls, env>>

-----------------------------------------------------------------------------
ModifyStep(p) ==
    \/ Read(p) \/ Update(p) \/ OpenTmp(p) \/ DumpTmp(p) \/ Rename(p) \/ Release(p)

Next ==
    \/ \E p \in Proc :
         \/ \E t \in Token : AddToken(p, t) \/ RemoveToken(p, t)
         \/ GetTokens(p) \/ Peek(p) \/ PeekFails(p) \/ Filter(p) \/ Reply(p)
         \/ Acquire(p) \/ ModifyStep(p) \/ ReadFails(p) \/ WriteRaises(p)
    \/ Crash
    \/ Tick

Spec == Init /\ [][Next]_vars

\* A thread that is running inside the lock is scheduled.
FairSpec == Spec /\ \A p \in Proc : WF_vars(ModifyStep(p))

-----------------------------------------------------------------------------
(* Properties *)

Inside(p) == pc[p] \in {"read", "update", "open", "dump", "rename", "unlock"}

\* FileDict.modify: one thread at a time is between taking the lock and giving
\* it back, and it is the holder; so the one name metadata.json.tmp is never
\* written by two.
SingleWriter ==
    /\ \A p \in Proc : Inside(p) => lock = p
    /\ lock # None => Inside(lock)

\* Reads take no lock and the process may die at any step of a write, and yet
\* metadata.json never holds a half-written dict (os.rename of a complete
\* file), also not one that an earlier death left in metadata.json.tmp.
NeverTorn == path.kind # "part"

\* FileDict.modify loses no update: nobody changes the file between the read
\* of a thread and its rename, and the rename installs what that thread wrote.
NoLostUpdate ==
    \A p \in Proc :
      /\ pc[p] = "update" => data[p] = contents(path)
      /\ pc[p] = "rename" => tmp = [kind |-> "dict", data |-> data[p]]

\* A token disappears only because a call removed it or because it expired
\* while a call that purges was running (_modify_tokens).
KnownReason(t) ==
    \E p \in Proc :
      /\ pc[p] = "rename"
      /\ \/ op[p] = "remove" /\ arg[p] = t
         \/ \E n \in since[p]..now : ~valid(path.data.ts[t], n)

OnlyRemovedOrExpired ==
    [][\A t \in Token :
         contents(path).ts[t] # Absent /\ contents(path)'.ts[t] = Absent
         => KnownReason(t)]_vars

\* FileDict calls itself a "persistent dict" (filedict.py:11): adding a token
\* leaves the valid tokens of an intact file where they were.
AddKeepsOthers ==
    [][\A p \in Proc : \A t \in Token :
         /\ pc[p] = "rename" /\ pc'[p] = "unlock" /\ op[p] = "add"
         /\ \A n \in since[p]..now : valid(contents(path).ts[t], n)
         => contents(path)'.ts[t] # Absent]_vars

\* The lock is always given back, whether the thread that holds it finishes,
\* raises or dies (comment in filedict.py:19-20).
LockReleased == lock # None ~> lock = None

\* The steps of the four calls add up to the calls of TokenStore: each
\* modification happens at its rename, a lookup at its read.
Store == INSTANCE TokenStore WITH
    dated   <- contents(path).ts,
    undated <- contents(path).list,
    op      <- [p \in Proc |-> CASE pc[p] \in {"unlock", "answer"} -> "return"
                                 [] pc[p] = "filter" -> "answer"
                                 [] OTHER            -> op[p]],
    seen    <- [p \in Proc |-> IF pc[p] = "filter" THEN data[p].ts ELSE NoTokens]

Implements == Store!Spec
=============================================================================
