--------------------------- MODULE MetadataProofs ---------------------------
(* Proofs about Metadata for every value of its constants. What depends on the *)
(* content of the file has the assumption that no read fails.                 *)
EXTENDS Metadata, TLAPS

Modifying == {"lock", "read", "update", "open", "dump", "rename", "unlock"}

\* A call knows what it is to do, and has begun.
CallOK ==
    \A p \in Proc :
      /\ pc[p] = "idle" <=> op[p] = "none"
      /\ pc[p] \in {"peek", "filter", "answer"} => op[p] = "look"
      /\ pc[p] \in Modifying => op[p] \in {"add", "remove", "purge"}
      /\ op[p] \in {"add", "remove"} => arg[p] \in Token /\ pc[p] \in Modifying
      /\ since[p] <= now

TypeInv == TypeOK /\ CallOK

LEMMA EmptyData == Empty \in Data /\ NoTokens \in Dated
BY DEF Empty, Data, NoTokens, Dated, Timestamp

LEMMA FilesType == Missing \in Content /\ Part \in Content
BY EmptyData DEF Missing, Part, Content

LEMMA ContentsType == ASSUME NEW c \in Content PROVE contents(c) \in Data
BY EmptyData DEF contents, Content

LEMMA PurgedType == ASSUME NEW d \in Data, NEW n \in Nat PROVE purged(d, n) \in Dated
BY DEF purged, Data, Dated, Timestamp

LEMMA ModifiedType ==
    ASSUME NEW o, NEW t, NEW d \in Dated, NEW n \in Nat
    PROVE  modified(o, t, d, n) \in Dated
BY DEF modified, Dated, Timestamp

LEMMA TypeInit == Init => TypeInv
<1> SUFFICES ASSUME Init PROVE TypeInv
  OBVIOUS
<1>1. path \in Content
  <2>1. CASE path \in {Missing, [kind |-> "corrupt", data |-> Empty]}
    BY <2>1, FilesType, EmptyData DEF Content
  <2>2. [ts : [Token -> InitialTimes \cup {Absent}], list : {{}}] \subseteq Data
    BY TimeAssumption DEF Data, Dated, Timestamp
  <2>3. [ts : {NoTokens}, list : SUBSET Token] \subseteq Data
    BY EmptyData DEF Data
  <2>4. CASE path \in [kind : {"dict"}, data : Data]
    BY <2>4 DEF Content
  <2>5. QED  BY <2>1, <2>2, <2>3, <2>4 DEF Init
<1>2. QED  BY <1>1, EmptyData, FilesType DEF Init, TypeInv, TypeOK, CallOK, Modifying

LEMMA TypeNext == TypeInv /\ [Next]_vars => TypeInv'
<1> SUFFICES ASSUME TypeInv, [Next]_vars PROVE TypeInv'
  OBVIOUS
<1> USE DEF TypeInv, files, calls, env
<1>1. ASSUME NEW p \in Proc, NEW t \in Token, AddToken(p, t) \/ RemoveToken(p, t) PROVE TypeInv'
  BY <1>1 DEF AddToken, RemoveToken, Begin, Goto, TypeOK, CallOK, Modifying
<1>2. ASSUME NEW p \in Proc, GetTokens(p) PROVE TypeInv'
  BY <1>2 DEF GetTokens, Begin, Goto, TypeOK, CallOK, Modifying
<1>3. ASSUME NEW p \in Proc, Peek(p) PROVE TypeInv'
  BY <1>3, ContentsType DEF Peek, Goto, TypeOK, CallOK, Modifying
<1>4. ASSUME NEW p \in Proc, PeekFails(p) PROVE TypeInv'
  BY <1>4, EmptyData DEF PeekFails, Goto, TypeOK, CallOK, Modifying
<1>5. ASSUME NEW p \in Proc, Filter(p) PROVE TypeInv'
  BY <1>5, EmptyData DEF Filter, Goto, TypeOK, CallOK, Modifying
<1>6. ASSUME NEW p \in Proc, Reply(p) \/ Release(p) \/ WriteRaises(p) PROVE TypeInv'
  BY <1>6, EmptyData DEF Reply, Release, WriteRaises, Finish, Goto, TypeOK, CallOK, Modifying
<1>7. ASSUME NEW p \in Proc, Acquire(p) PROVE TypeInv'
  BY <1>7 DEF Acquire, Goto, TypeOK, CallOK, Modifying
<1>8. ASSUME NEW p \in Proc, Read(p) PROVE TypeInv'
  BY <1>8, ContentsType DEF Read, Goto, TypeOK, CallOK, Modifying
<1>9. ASSUME NEW p \in Proc, ReadFails(p) PROVE TypeInv'
  BY <1>9, EmptyData DEF ReadFails, Goto, TypeOK, CallOK, Modifying
<1>10. ASSUME NEW p \in Proc, Update(p) PROVE TypeInv'
  <2>1. [ts |-> modified(op[p], arg[p], purged(data[p], now), now), list |-> {}] \in Data
    BY PurgedType, ModifiedType DEF TypeOK, Data
  <2>2. QED  BY <1>10, <2>1 DEF Update, Goto, TypeOK, CallOK, Modifying
<1>11. ASSUME NEW p \in Proc, OpenTmp(p) PROVE TypeInv'
  BY <1>11, FilesType DEF OpenTmp, Goto, TypeOK, CallOK, Modifying
<1>12. ASSUME NEW p \in Proc, DumpTmp(p) PROVE TypeInv'
  <2>1. [kind |-> "dict", data |-> data[p]] \in Content
    BY DEF TypeOK, Content
  <2>2. QED  BY <1>12, <2>1 DEF DumpTmp, Goto, TypeOK, CallOK, Modifying
<1>13. ASSUME NEW p \in Proc, Rename(p) PROVE TypeInv'
  BY <1>13, FilesType DEF Rename, Goto, TypeOK, CallOK, Modifying
<1>14. CASE Crash
  BY <1>14, EmptyData DEF Crash, TypeOK, CallOK, Modifying
<1>15. CASE Tick
  BY <1>15 DEF Tick, TypeOK, CallOK, Modifying
<1>16. CASE UNCHANGED vars
  BY <1>16 DEF vars, TypeOK, CallOK, Modifying
<1>17. QED
  BY <1>1, <1>2, <1>3, <1>4, <1>5, <1>6, <1>7, <1>8, <1>9, <1>10, <1>11, <1>12, <1>13, <1>14,
     <1>15, <1>16 DEF Next, ModifyStep

LEMMA TypeInvariant == Spec => []TypeInv
BY TypeInit, TypeNext, PTL DEF Spec

\* Every state of the metadata store is well formed.
THEOREM MetadataTypes == Spec => []TypeOK
BY TypeInvariant, PTL DEF TypeInv

-----------------------------------------------------------------------------
(* The lock, and the file that only its holder writes.                       *)

\* What a thread has dumped is what it will rename.
Dumped == \A p \in Proc : pc[p] = "rename" => tmp = [kind |-> "dict", data |-> data[p]]

LockInv == SingleWriter /\ Dumped /\ NeverTorn

LEMMA LockInit == Init => LockInv
<1> SUFFICES ASSUME Init PROVE LockInv
  OBVIOUS
<1>1. path.kind # "part"
  BY DEF Init, Missing
<1>2. QED  BY <1>1 DEF Init, LockInv, SingleWriter, Dumped, NeverTorn, Inside

\* Steps of a thread outside the lock
LEMMA LockOutside ==
    ASSUME TypeInv, LockInv, NEW p \in Proc, ~Inside(p), ~Inside(p)',
           UNCHANGED <<files, lock>>,
           \A q \in Proc : q # p => pc'[q] = pc[q] /\ data'[q] = data[q]
    PROVE  LockInv'
<1> USE DEF Inside, files
<1>1. \A q \in Proc : Inside(q)' <=> Inside(q)
  OBVIOUS
<1>2. SingleWriter'
  <2>1. lock # None => lock # p
    BY DEF LockInv, SingleWriter
  <2>2. lock # None => lock \in Proc
    BY DEF TypeInv, TypeOK
  <2>3. QED  BY <1>1, <2>1, <2>2 DEF LockInv, SingleWriter
<1>3. Dumped' /\ NeverTorn'
  BY DEF LockInv, Dumped, NeverTorn
<1>4. QED  BY <1>2, <1>3 DEF LockInv

\* Steps of the holder of the lock that keep it
LEMMA LockHeld ==
    ASSUME TypeInv, LockInv, NEW p \in Proc, Inside(p), Inside(p)',
           UNCHANGED lock,
           path' = path \/ (path' = tmp /\ tmp.kind = "dict"),
           pc'[p] = "rename" => tmp' = [kind |-> "dict", data |-> data'[p]],
           \A q \in Proc : q # p => pc'[q] = pc[q] /\ data'[q] = data[q]
    PROVE  LockInv'
<1>1. lock = p /\ \A q \in Proc : q # p => ~Inside(q)
  BY DEF LockInv, SingleWriter
<1>2. \A q \in Proc : q # p => ~Inside(q)'
  BY <1>1 DEF Inside
<1>3. SingleWriter'
  BY <1>1, <1>2 DEF SingleWriter
<1>4. Dumped'
  BY <1>2 DEF Dumped, Inside
<1>5. NeverTorn'
  BY DEF LockInv, NeverTorn
<1>6. QED  BY <1>3, <1>4, <1>5 DEF LockInv

\* Steps of the holder of the lock that give it back
LEMMA LockReturned ==
    ASSUME TypeInv, LockInv, NEW p \in Proc, Inside(p), ~Inside(p)', lock' = None,
           UNCHANGED path,
           \A q \in Proc : q # p => pc'[q] = pc[q]
    PROVE  LockInv'
<1>1. \A q \in Proc : q # p => ~Inside(q)
  BY DEF LockInv, SingleWriter
<1>2. \A q \in Proc : ~Inside(q)'
  BY <1>1 DEF Inside
<1>3. QED  BY <1>2 DEF LockInv, SingleWriter, Dumped, NeverTorn, Inside

LEMMA LockNext == TypeInv /\ LockInv /\ [Next]_vars => LockInv'
<1> SUFFICES ASSUME TypeInv, LockInv, [Next]_vars PROVE LockInv'
  OBVIOUS
<1> USE DEF files, calls, env
<1>1. ASSUME NEW p \in Proc,
             \/ \E t \in Token : AddToken(p, t) \/ RemoveToken(p, t)
             \/ GetTokens(p) \/ Peek(p) \/ PeekFails(p) \/ Filter(p) \/ Reply(p)
      PROVE  LockInv'
  <2>1. /\ ~Inside(p) /\ ~Inside(p)' /\ UNCHANGED <<files, lock>>
        /\ \A q \in Proc : q # p => pc'[q] = pc[q] /\ data'[q] = data[q]
    BY <1>1 DEF AddToken, RemoveToken, GetTokens, Begin, Peek, PeekFails, Filter, Reply, Finish, Goto,
                Inside, TypeInv, TypeOK
  <2>2. QED  BY <2>1, LockOutside
<1>2. ASSUME NEW p \in Proc, Acquire(p) PROVE LockInv'
  <2>1. /\ \A q \in Proc : ~Inside(q)
        /\ lock' = p /\ pc'[p] = "read" /\ UNCHANGED path
        /\ \A q \in Proc : q # p => pc'[q] = pc[q]
    BY <1>2, TimeAssumption DEF Acquire, Goto, LockInv, SingleWriter, TypeInv, TypeOK
  <2>2. QED  BY <2>1 DEF LockInv, SingleWriter, Dumped, NeverTorn, Inside
<1>3. ASSUME NEW p \in Proc,
             Read(p) \/ ReadFails(p) \/ Update(p) \/ OpenTmp(p) \/ DumpTmp(p) \/ Rename(p)
      PROVE  LockInv'
  <2>1. /\ Inside(p) /\ Inside(p)' /\ UNCHANGED lock
        /\ \A q \in Proc : q # p => pc'[q] = pc[q] /\ data'[q] = data[q]
    BY <1>3 DEF Read, ReadFails, Update, OpenTmp, DumpTmp, Rename, Goto, Inside, TypeInv, TypeOK
  <2>2. path' = path \/ (path' = tmp /\ tmp.kind = "dict")
    <3>1. CASE Rename(p)
      BY <3>1 DEF Rename, LockInv, Dumped
    <3>2. CASE path' = path
      BY <3>2
    <3>3. QED  BY <1>3, <3>1, <3>2 DEF Read, ReadFails, Update, OpenTmp, DumpTmp
  <2>3. pc'[p] = "rename" => tmp' = [kind |-> "dict", data |-> data'[p]]
    BY <1>3 DEF Read, ReadFails, Update, OpenTmp, DumpTmp, Rename, Goto, TypeInv, TypeOK
  <2>4. QED  BY <2>1, <2>2, <2>3, LockHeld
<1>4. ASSUME NEW p \in Proc, Release(p) \/ WriteRaises(p) PROVE LockInv'
  <2>1. /\ Inside(p) /\ ~Inside(p)' /\ lock' = None /\ UNCHANGED path
        /\ \A q \in Proc : q # p => pc'[q] = pc[q]
    BY <1>4 DEF Release, WriteRaises, Finish, Goto, Inside, TypeInv, TypeOK
  <2>2. QED  BY <2>1, LockReturned
<1>5. CASE Crash
  BY <1>5 DEF Crash, LockInv, SingleWriter, Dumped, NeverTorn, Inside
<1>6. CASE Tick \/ UNCHANGED vars
  BY <1>6 DEF Tick, vars, LockInv, SingleWriter, Dumped, NeverTorn, Inside
<1>7. QED
  BY <1>1, <1>2, <1>3, <1>4, <1>5, <1>6 DEF Next, ModifyStep

LEMMA LockInvariant == Spec => []LockInv
BY LockInit, LockNext, TypeInvariant, PTL DEF Spec

\* FileDict.modify excludes all others, whatever raises or dies.
THEOREM OneWriter == Spec => []SingleWriter
BY LockInvariant, PTL DEF LockInv

\* metadata.json is complete at any moment.
THEOREM FileComplete == Spec => []NeverTorn
BY LockInvariant, PTL DEF LockInv

-----------------------------------------------------------------------------
(* The lock is given back.                                                    *)

\* Fairness of the threads inside the lock, with the guard of their steps in the
\* place of ENABLED: a ModifyStep can be taken exactly while the lock has a
\* holder, and it is a step of the holder (SingleWriter).
Scheduled == []<>(lock = None) \/ []<><<\E p \in Proc : ModifyStep(p)>>_vars

Busy(at) == lock # None /\ pc[lock] = at

\* Where the holder goes from each point.
After == [read |-> "update", update |-> "open", open |-> "dump", dump |-> "rename", rename |-> "unlock"]

\* A step of the holder takes it one point further, or out of the lock.
LEMMA HolderWorks ==
    ASSUME TypeInv, SingleWriter, lock # None, NEW p \in Proc, ModifyStep(p) \/ ReadFails(p)
    PROVE  IF pc[lock] = "unlock" THEN lock' = None ELSE lock' = lock /\ pc'[lock] = After[pc[lock]]
<1> USE DEF TypeInv, TypeOK, Goto, After
<1>1. p = lock
  BY DEF ModifyStep, Read, ReadFails, Update, OpenTmp, DumpTmp, Rename, Release, SingleWriter, Inside
<1>2. CASE Release(p)
  BY <1>1, <1>2 DEF Release
<1>3. CASE Read(p) \/ ReadFails(p) \/ Update(p) \/ OpenTmp(p) \/ DumpTmp(p) \/ Rename(p)
  BY <1>1, <1>3 DEF Read, ReadFails, Update, OpenTmp, DumpTmp, Rename
<1>4. QED  BY <1>2, <1>3 DEF ModifyStep

\* Whatever else happens, the holder stays where it is, or loses the lock.
LEMMA HolderStays ==
    ASSUME TypeInv, SingleWriter, lock # None, [Next]_vars
    PROVE  \/ lock' = None
           \/ lock' = lock /\ pc'[lock] = pc[lock]
           \/ lock' = lock /\ pc[lock] # "unlock" /\ pc'[lock] = After[pc[lock]]
<1> USE DEF TypeInv, TypeOK, files, calls, env
<1>1. lock \in Proc /\ Inside(lock)
  BY DEF SingleWriter
<1>2. ASSUME NEW p \in Proc,
             \/ \E t \in Token : AddToken(p, t) \/ RemoveToken(p, t)
             \/ GetTokens(p) \/ Peek(p) \/ PeekFails(p) \/ Filter(p) \/ Reply(p)
      PROVE  lock' = lock /\ pc'[lock] = pc[lock]
  BY <1>1, <1>2 DEF AddToken, RemoveToken, GetTokens, Begin, Peek, PeekFails, Filter, Reply, Finish, Goto, Inside
<1>3. ASSUME NEW p \in Proc, Acquire(p) PROVE FALSE
  BY <1>3 DEF Acquire
<1>4. ASSUME NEW p \in Proc, WriteRaises(p) PROVE lock' = None
  BY <1>4 DEF WriteRaises
<1>5. CASE Crash
  BY <1>5 DEF Crash
<1>6. CASE Tick \/ UNCHANGED vars
  BY <1>6 DEF Tick, vars
<1>7. QED  BY <1>2, <1>3, <1>4, <1>5, <1>6, HolderWorks DEF Next

\* The two lemmas, as the temporal argument needs them: from each point to the
\* next, and from the last one out.
LEMMA Onward ==
    ASSUME NEW at \in DOMAIN After
    PROVE  /\ TypeInv /\ SingleWriter /\ Busy(at) /\ [Next]_vars
                => lock' = None \/ Busy(at)' \/ Busy(After[at])'
           /\ TypeInv /\ SingleWriter /\ Busy(at) /\ (\E p \in Proc : ModifyStep(p)) => Busy(After[at])'
<1>1. at # "unlock"
  BY DEF After
<1>2. QED  BY <1>1, HolderWorks, HolderStays DEF Busy

LEMMA Out ==
    /\ TypeInv /\ SingleWriter /\ Busy("unlock") /\ [Next]_vars => lock' = None \/ Busy("unlock")'
    /\ TypeInv /\ SingleWriter /\ Busy("unlock") /\ (\E p \in Proc : ModifyStep(p)) => lock' = None
BY HolderWorks, HolderStays DEF Busy

\* The lock is always given back, whichever thread holds it and whatever the
\* others do, if the holder is scheduled.
THEOREM LockGivenBack == Spec /\ Scheduled => LockReleased
<1> DEFINE Work == \E p \in Proc : ModifyStep(p)
           Free == lock = None
           Inv  == TypeInv /\ SingleWriter
<1>1. Spec => []Inv
  BY TypeInvariant, OneWriter, PTL
<1>2. Inv => \/ Free \/ Busy("read") \/ Busy("update") \/ Busy("open") \/ Busy("dump") \/ Busy("rename")
             \/ Busy("unlock")
  BY DEF SingleWriter, Inside, Busy
<1>3. /\ Inv /\ Busy("read") /\ [Next]_vars => Free' \/ Busy("read")' \/ Busy("update")'
      /\ Inv /\ Busy("read") /\ <<Work>>_vars => Busy("update")'
  BY Onward DEF After
<1>4. /\ Inv /\ Busy("update") /\ [Next]_vars => Free' \/ Busy("update")' \/ Busy("open")'
      /\ Inv /\ Busy("update") /\ <<Work>>_vars => Busy("open")'
  BY Onward DEF After
<1>5. /\ Inv /\ Busy("open") /\ [Next]_vars => Free' \/ Busy("open")' \/ Busy("dump")'
      /\ Inv /\ Busy("open") /\ <<Work>>_vars => Busy("dump")'
  BY Onward DEF After
<1>6. /\ Inv /\ Busy("dump") /\ [Next]_vars => Free' \/ Busy("dump")' \/ Busy("rename")'
      /\ Inv /\ Busy("dump") /\ <<Work>>_vars => Busy("rename")'
  BY Onward DEF After
<1>7. /\ Inv /\ Busy("rename") /\ [Next]_vars => Free' \/ Busy("rename")' \/ Busy("unlock")'
      /\ Inv /\ Busy("rename") /\ <<Work>>_vars => Busy("unlock")'
  BY Onward DEF After
<1>8. /\ Inv /\ Busy("unlock") /\ [Next]_vars => Free' \/ Busy("unlock")'
      /\ Inv /\ Busy("unlock") /\ <<Work>>_vars => Free'
  BY Out
<1>9. Busy("read") \/ Busy("update") \/ Busy("open") \/ Busy("dump") \/ Busy("rename") \/ Busy("unlock") => ~Free
  BY DEF Busy
<1>10. lock # None <=> ~Free
  OBVIOUS
<1> HIDE DEF Inv, Work
<1>11. QED
  BY <1>1, <1>2, <1>3, <1>4, <1>5, <1>6, <1>7, <1>8, <1>9, <1>10, PTL DEF Spec, Scheduled, LockReleased, Work, Free

-----------------------------------------------------------------------------
(* What the holder of the lock makes of the file, when no read fails.         *)

\* The dict that a call made of the file at an instant n
Made(p, n) == [ts |-> modified(op[p], arg[p], purged(contents(path), n), n), list |-> {}]

UpdateInv ==
    \A p \in Proc :
      /\ pc[p] = "update" => data[p] = contents(path)
      /\ pc[p] \in {"open", "dump", "rename"} => \E n \in since[p]..now : data[p] = Made(p, n)

LEMMA UpdateInit == Init => UpdateInv
BY DEF Init, UpdateInv

\* Steps that change nothing of what threads inside the lock rely on
LEMMA UpdateOthers ==
    ASSUME TypeInv, UpdateInv, NEW p \in Proc, UNCHANGED <<now, path>>,
           pc'[p] \notin {"update", "open", "dump", "rename"},
           \A q \in Proc : q # p => /\ pc'[q] = pc[q] /\ data'[q] = data[q] /\ op'[q] = op[q]
                                    /\ arg'[q] = arg[q] /\ since'[q] = since[q]
    PROVE  UpdateInv'
BY DEF UpdateInv, Made

LEMMA UpdateNext == MaxReadFaults = 0 /\ TypeInv /\ LockInv /\ UpdateInv /\ [Next]_vars => UpdateInv'
<1> SUFFICES ASSUME MaxReadFaults = 0, TypeInv, LockInv, UpdateInv, [Next]_vars PROVE UpdateInv'
  OBVIOUS
<1> USE DEF files, calls, env
<1>1. ASSUME NEW p \in Proc,
             \/ \E t \in Token : AddToken(p, t) \/ RemoveToken(p, t)
             \/ GetTokens(p) \/ Peek(p) \/ PeekFails(p) \/ Filter(p) \/ Reply(p)
             \/ Acquire(p) \/ Release(p) \/ WriteRaises(p)
      PROVE  UpdateInv'
  <2>1. UNCHANGED <<now, path>> /\ pc'[p] \notin {"update", "open", "dump", "rename"}
    BY <1>1 DEF AddToken, RemoveToken, GetTokens, Begin, Peek, PeekFails, Filter, Reply, Acquire, Release,
                WriteRaises, Finish, Goto, TypeInv, TypeOK
  <2>2. \A q \in Proc : q # p => /\ pc'[q] = pc[q] /\ data'[q] = data[q] /\ op'[q] = op[q]
                                  /\ arg'[q] = arg[q] /\ since'[q] = since[q]
    BY <1>1 DEF AddToken, RemoveToken, GetTokens, Begin, Peek, PeekFails, Filter, Reply, Acquire, Release,
                WriteRaises, Finish, Goto, TypeInv, TypeOK
  <2>3. QED  BY <2>1, <2>2, UpdateOthers
<1>2. ASSUME NEW p \in Proc, Read(p) PROVE UpdateInv'
  BY <1>2 DEF Read, Goto, UpdateInv, Made, TypeInv, TypeOK
<1>3. ASSUME NEW p \in Proc, ReadFails(p) PROVE FALSE
  BY <1>3 DEF ReadFails, TypeInv, TypeOK
<1>4. ASSUME NEW p \in Proc, Update(p) PROVE UpdateInv'
  <2>1. /\ pc'[p] = "open" /\ UNCHANGED <<now, path, op, arg, since>>
        /\ \A q \in Proc : q # p => pc'[q] = pc[q] /\ data'[q] = data[q]
    BY <1>4 DEF Update, Goto, TypeInv, TypeOK
  <2>2. data'[p] = Made(p, now)' /\ now' \in since'[p]..now'
    <3>1. pc[p] = "update" /\ data[p] = contents(path)
      BY <1>4 DEF Update, UpdateInv
    <3>2. data'[p] = Made(p, now)
      BY <1>4, <3>1 DEF Update, Made, TypeInv, TypeOK
    <3>3. Made(p, now)' = Made(p, now)
      BY <2>1 DEF Made
    <3>4. now' \in since'[p]..now'
      BY <2>1 DEF TypeInv, TypeOK, CallOK
    <3>5. QED  BY <3>2, <3>3, <3>4
  <2>3. QED  BY <2>1, <2>2 DEF UpdateInv, Made
<1>5. ASSUME NEW p \in Proc, OpenTmp(p) \/ DumpTmp(p) PROVE UpdateInv'
  <2>1. /\ UNCHANGED <<now, path, op, arg, since, data>>
        /\ pc[p] \in {"open", "dump", "rename"} /\ pc'[p] \in {"open", "dump", "rename"}
        /\ \A q \in Proc : q # p => pc'[q] = pc[q]
    BY <1>5 DEF OpenTmp, DumpTmp, Goto, TypeInv, TypeOK
  <2>2. QED  BY <2>1 DEF UpdateInv, Made
<1>6. ASSUME NEW p \in Proc, Rename(p) PROVE UpdateInv'
  <2>1. Inside(p) /\ pc'[p] = "unlock" /\ \A q \in Proc : q # p => pc'[q] = pc[q]
    BY <1>6 DEF Rename, Goto, Inside, TypeInv, TypeOK
  <2>2. \A q \in Proc : q # p => ~Inside(q)
    BY <2>1 DEF LockInv, SingleWriter
  <2>3. QED  BY <2>1, <2>2 DEF UpdateInv, Inside
<1>7. CASE Crash
  BY <1>7 DEF Crash, UpdateInv
<1>8. CASE Tick
  <2>1. UNCHANGED <<path, pc, op, arg, since, data>> /\ \A p \in Proc : since[p]..now \subseteq since[p]..now'
    BY <1>8 DEF Tick, TypeInv, TypeOK
  <2>2. QED  BY <2>1 DEF UpdateInv, Made
<1>9. CASE UNCHANGED vars
  BY <1>9 DEF vars, UpdateInv, Made
<1>10. QED
  BY <1>1, <1>2, <1>3, <1>4, <1>5, <1>6, <1>7, <1>8, <1>9 DEF Next, ModifyStep

LEMMA UpdateInvariant == ASSUME MaxReadFaults = 0 PROVE Spec => []UpdateInv
<1>1. TypeInv /\ LockInv /\ UpdateInv /\ [Next]_vars => UpdateInv'
  BY UpdateNext
<1>2. QED  BY <1>1, UpdateInit, TypeInvariant, LockInvariant, PTL DEF Spec

\* Between the read of a thread and its rename nobody else changes the file.
THEOREM NoUpdateLost == ASSUME MaxReadFaults = 0 PROVE Spec => []NoLostUpdate
<1>1. LockInv /\ UpdateInv => NoLostUpdate
  BY DEF LockInv, Dumped, UpdateInv, NoLostUpdate
<1>2. QED  BY <1>1, LockInvariant, UpdateInvariant, PTL

\* The rename puts what the call made of the file in place of the file.
LEMMA RenameEffect ==
    ASSUME TypeInv, LockInv, UpdateInv, NEW p \in Proc, Rename(p)
    PROVE  /\ pc[p] = "rename" /\ op[p] \in {"add", "remove", "purge"}
           /\ \E n \in since[p]..now :
                /\ n \in Nat
                /\ contents(path)'.ts = modified(op[p], arg[p], purged(contents(path), n), n)
                /\ contents(path)'.list = {}
<1>1. pc[p] = "rename" /\ op[p] \in {"add", "remove", "purge"} /\ since[p] \in Nat
  BY DEF Rename, TypeInv, TypeOK, CallOK, Modifying
<1>2. path' = [kind |-> "dict", data |-> data[p]]
  BY <1>1 DEF Rename, LockInv, Dumped
<1>3. contents(path)' = data[p]
  BY <1>2 DEF contents
<1>4. PICK n \in since[p]..now : data[p] = Made(p, n)
  BY <1>1 DEF UpdateInv
<1>5. n \in Nat
  BY <1>1, <1>4
<1>6. QED  BY <1>1, <1>3, <1>4, <1>5 DEF Made

LEMMA LossStep ==
    ASSUME TypeInv, LockInv, UpdateInv, [Next]_vars, NEW t \in Token,
           contents(path).ts[t] # Absent, contents(path)'.ts[t] = Absent
    PROVE  KnownReason(t)
<1>1. PICK p \in Proc : Rename(p)
  <2>1. path' # path
    OBVIOUS
  <2>2. QED
    BY <2>1 DEF Next, AddToken, RemoveToken, GetTokens, Begin, Peek, PeekFails, Filter, Reply, Acquire,
                ModifyStep, Read, Update, OpenTmp, DumpTmp, Release, ReadFails, WriteRaises, Finish, Crash, Tick,
                vars, files
<1>2. path.kind = "dict" /\ contents(path) = path.data
  BY EmptyData DEF contents, Empty, NoTokens
<1>3. PICK n \in since[p]..now :
         /\ n \in Nat
         /\ contents(path)'.ts = modified(op[p], arg[p], purged(contents(path), n), n)
  BY <1>1, RenameEffect
<1>4. pc[p] = "rename" /\ op[p] \in {"add", "remove", "purge"}
  BY <1>1, RenameEffect
<1>5. n # Absent
  BY <1>3, TimeAssumption
<1>6. DEFINE d == purged(contents(path), n)
<1>7. d \in [Token -> Timestamp]
  BY <1>3, ContentsType, PurgedType DEF TypeInv, TypeOK, Dated
<1>8. \/ op[p] = "remove" /\ arg[p] = t
      \/ d[t] = Absent
  <2>1. CASE op[p] = "add"
    BY <1>3, <1>5, <1>7, <2>1 DEF modified
  <2>2. CASE op[p] = "remove"
    BY <1>3, <1>7, <2>2 DEF modified
  <2>3. CASE op[p] = "purge"
    BY <1>3, <2>3 DEF modified
  <2>4. QED  BY <1>4, <2>1, <2>2, <2>3
<1>9. d[t] = Absent => ~valid(path.data.ts[t], n)
  BY <1>2, <1>5 DEF purged
<1>10. QED  BY <1>3, <1>4, <1>8, <1>9 DEF KnownReason

\* A token disappears only by a removal, or expired, in a call that is running.
THEOREM TokensStay == ASSUME MaxReadFaults = 0 PROVE Spec => OnlyRemovedOrExpired
<1>1. TypeInv /\ LockInv /\ UpdateInv /\ [Next]_vars =>
        [\A t \in Token :
           contents(path).ts[t] # Absent /\ contents(path)'.ts[t] = Absent => KnownReason(t)]_vars
  BY LossStep
<1>2. QED
  BY <1>1, TypeInvariant, LockInvariant, UpdateInvariant, PTL DEF Spec, OnlyRemovedOrExpired

-----------------------------------------------------------------------------
(* Metadata implements TokenStore.                                           *)

\* The values of TokenStore's op and seen
StoreOp ==
    [p \in Proc |-> CASE pc[p] \in {"unlock", "answer"} -> "return"
                      [] pc[p] = "filter" -> "answer"
                      [] OTHER            -> op[p]]

StoreSeen == [p \in Proc |-> IF pc[p] = "filter" THEN data[p].ts ELSE NoTokens]

LEMMA StoreNames ==
    /\ Store!NoTokens = NoTokens /\ Store!Dated = Dated
    /\ \A t, n : Store!valid(t, n) <=> valid(t, n)
    /\ \A o, t, d, n : Store!modified(o, t, d, n) = modified(o, t, d, n)
    /\ \A d, n : Store!purged(d.ts, d.list, n) = purged(d, n)
BY DEF Store!NoTokens, NoTokens, Store!Dated, Dated, Store!Timestamp, Timestamp, Store!valid, valid,
       Store!modified, modified, Store!purged, purged

LEMMA StoreInit == Init => Store!Init
<1> SUFFICES ASSUME Init PROVE Store!Init
  OBVIOUS
<1>1. contents(path) \in Data
  BY TypeInit, ContentsType DEF TypeInv, TypeOK
<1>2. StoreOp = [p \in Proc |-> "none"] /\ StoreSeen = [p \in Proc |-> NoTokens]
  BY DEF Init, StoreOp, StoreSeen
<1>3. QED  BY <1>1, <1>2, StoreNames DEF Init, Store!Init, StoreOp, StoreSeen, Data

\* What a step of one thread makes of op and seen
LEMMA StoreFrame ==
    ASSUME TypeInv, TypeInv', NEW p \in Proc,
           \A q \in Proc : q # p => pc'[q] = pc[q] /\ data'[q] = data[q] /\ op'[q] = op[q]
    PROVE  /\ StoreOp' = [StoreOp EXCEPT ![p] = StoreOp'[p]]
           /\ StoreSeen' = [StoreSeen EXCEPT ![p] = StoreSeen'[p]]
BY DEF StoreOp, StoreSeen

LEMMA StoreBegin ==
    ASSUME TypeInv, TypeInv', NEW p \in Proc, NEW o \in {"add", "remove", "look"}, NEW t \in Token \cup {None},
           NEW at \in {"lock", "peek"}, Begin(p, o, t, at)
    PROVE  Store!Begin(p, o, t)
<1>1. \A q \in Proc : q # p => pc'[q] = pc[q] /\ data'[q] = data[q] /\ op'[q] = op[q]
  BY DEF Begin, Goto, TypeInv, TypeOK
<1>2. StoreOp[p] = "none" /\ StoreOp'[p] = o /\ StoreSeen[p] = NoTokens /\ StoreSeen'[p] = NoTokens
  BY DEF Begin, Goto, StoreOp, StoreSeen, TypeInv, TypeOK, CallOK
<1>3. StoreOp' = [StoreOp EXCEPT ![p] = o] /\ StoreSeen' = StoreSeen
  BY <1>1, <1>2, StoreFrame DEF StoreOp, StoreSeen
<1>4. UNCHANGED <<now, path, reply>> /\ arg' = [arg EXCEPT ![p] = t] /\ since' = [since EXCEPT ![p] = now]
  BY DEF Begin, files
<1>5. QED  BY <1>2, <1>3, <1>4 DEF Store!Begin, StoreOp, StoreSeen

LEMMA StorePeek ==
    ASSUME TypeInv, TypeInv', NEW p \in Proc, Peek(p)
    PROVE  Store!Look(p)
<1>1. \A q \in Proc : q # p => pc'[q] = pc[q] /\ data'[q] = data[q] /\ op'[q] = op[q]
  BY DEF Peek, Goto, TypeInv, TypeOK
<1>2. StoreOp[p] = "look" /\ StoreOp'[p] = "answer" /\ StoreSeen'[p] = contents(path).ts
  BY DEF Peek, Goto, StoreOp, StoreSeen, TypeInv, TypeOK, CallOK
<1>3. /\ StoreOp' = [StoreOp EXCEPT ![p] = "answer"]
      /\ StoreSeen' = [StoreSeen EXCEPT ![p] = contents(path).ts]
  BY <1>1, <1>2, StoreFrame
<1>4. UNCHANGED <<now, path, arg, since, reply>>
  BY DEF Peek, files
<1>5. QED  BY <1>2, <1>3, <1>4 DEF Store!Look, StoreOp, StoreSeen

LEMMA StoreFilter ==
    ASSUME TypeInv, TypeInv', NEW p \in Proc, Filter(p)
    PROVE  Store!Answer(p)
<1> DEFINE ts == data[p].ts
           expired == {t \in Token : ts[t] # Absent /\ ~valid(ts[t], now)}
<1>1. \A q \in Proc : q # p => pc'[q] = pc[q] /\ data'[q] = data[q] /\ op'[q] = op[q]
  BY DEF Filter, Goto, TypeInv, TypeOK
<1>2. /\ StoreOp[p] = "answer" /\ StoreSeen[p] = ts /\ StoreSeen'[p] = NoTokens
      /\ \/ expired = {} /\ StoreOp'[p] = "return" /\ UNCHANGED since
         \/ expired # {} /\ StoreOp'[p] = "purge" /\ since' = [since EXCEPT ![p] = now]
  BY DEF Filter, Goto, StoreOp, StoreSeen, TypeInv, TypeOK, CallOK
<1>3. /\ StoreOp' = [StoreOp EXCEPT ![p] = StoreOp'[p]]
      /\ StoreSeen' = [StoreSeen EXCEPT ![p] = NoTokens]
  BY <1>1, <1>2, StoreFrame
<1>4. /\ UNCHANGED <<now, path, arg>>
      /\ reply' = [reply EXCEPT ![p] = {t \in Token : valid(StoreSeen[p][t], now)}]
  BY <1>2 DEF Filter, files
<1>5. \/ /\ \A t \in Token : StoreSeen[p][t] # Absent => valid(StoreSeen[p][t], now)
         /\ StoreOp' = [StoreOp EXCEPT ![p] = "return"] /\ UNCHANGED since
      \/ /\ \E t \in Token : StoreSeen[p][t] # Absent /\ ~valid(StoreSeen[p][t], now)
         /\ StoreOp' = [StoreOp EXCEPT ![p] = "purge"] /\ since' = [since EXCEPT ![p] = now]
  BY <1>2, <1>3
<1>6. QED  BY <1>2, <1>3, <1>4, <1>5, StoreNames DEF Store!Answer, StoreOp, StoreSeen

LEMMA StoreRename ==
    ASSUME TypeInv, TypeInv', LockInv, UpdateInv, NEW p \in Proc, Rename(p)
    PROVE  Store!Modify(p)
<1>1. \A q \in Proc : q # p => pc'[q] = pc[q] /\ data'[q] = data[q] /\ op'[q] = op[q]
  BY DEF Rename, Goto, TypeInv, TypeOK
<1>2. /\ StoreOp[p] = op[p] /\ op[p] \in {"add", "remove", "purge"} /\ StoreOp'[p] = "return"
      /\ StoreSeen[p] = NoTokens /\ StoreSeen'[p] = NoTokens
  BY RenameEffect DEF Rename, Goto, StoreOp, StoreSeen, TypeInv, TypeOK
<1>3. StoreOp' = [StoreOp EXCEPT ![p] = "return"] /\ StoreSeen' = StoreSeen
  BY <1>1, <1>2, StoreFrame DEF StoreOp, StoreSeen
<1>4. UNCHANGED <<now, arg, since, reply>>
  BY DEF Rename
<1>5. PICK n \in since[p]..now :
         /\ contents(path)'.ts = modified(op[p], arg[p], purged(contents(path), n), n)
         /\ contents(path)'.list = {}
  BY RenameEffect
<1>6. contents(path)'.ts =
        Store!modified(StoreOp[p], arg[p], Store!purged(contents(path).ts, contents(path).list, n), n)
  BY <1>2, <1>5, StoreNames
<1>7. QED  BY <1>2, <1>3, <1>4, <1>5, <1>6 DEF Store!Modify, StoreOp, StoreSeen

LEMMA StoreEnd ==
    ASSUME TypeInv, TypeInv', NEW p \in Proc, Reply(p) \/ Release(p) \/ WriteRaises(p)
    PROVE  Store!End(p)
<1> USE DEF Reply, Release, WriteRaises, Finish
<1>1. \A q \in Proc : q # p => pc'[q] = pc[q] /\ data'[q] = data[q] /\ op'[q] = op[q]
  BY DEF Goto, TypeInv, TypeOK
<1>2. StoreOp[p] # "none" /\ StoreOp'[p] = "none" /\ StoreSeen'[p] = NoTokens
  BY DEF Goto, StoreOp, StoreSeen, TypeInv, TypeOK, CallOK
<1>3. StoreOp' = [StoreOp EXCEPT ![p] = "none"] /\ StoreSeen' = [StoreSeen EXCEPT ![p] = NoTokens]
  BY <1>1, <1>2, StoreFrame
<1>4. /\ UNCHANGED <<now, path>> /\ arg' = [arg EXCEPT ![p] = None]
      /\ since' = [since EXCEPT ![p] = 0] /\ reply' = [reply EXCEPT ![p] = {}]
  BY DEF files
<1>5. QED  BY <1>2, <1>3, <1>4, StoreNames DEF Store!End, StoreOp, StoreSeen

\* The steps between the lock and the rename do not show.
LEMMA StoreStutter ==
    ASSUME TypeInv, TypeInv', NEW p \in Proc,
           Acquire(p) \/ Read(p) \/ Update(p) \/ OpenTmp(p) \/ DumpTmp(p)
    PROVE  UNCHANGED Store!vars
<1> USE DEF Acquire, Read, Update, OpenTmp, DumpTmp
<1>1. \A q \in Proc : q # p => pc'[q] = pc[q] /\ data'[q] = data[q] /\ op'[q] = op[q]
  BY DEF Goto, TypeInv, TypeOK
<1>2. StoreOp'[p] = StoreOp[p] /\ StoreSeen'[p] = NoTokens /\ StoreSeen[p] = NoTokens
  BY DEF Goto, StoreOp, StoreSeen, TypeInv, TypeOK
<1>3. StoreOp' = StoreOp /\ StoreSeen' = StoreSeen
  BY <1>1, <1>2, StoreFrame DEF StoreOp, StoreSeen
<1>4. UNCHANGED <<now, path, arg, since, reply>>
  BY DEF files
<1>5. QED  BY <1>3, <1>4 DEF Store!vars, StoreOp, StoreSeen

LEMMA StoreCrash == ASSUME Crash PROVE Store!Crash
<1>1. StoreOp' = [p \in Proc |-> "none"] /\ StoreSeen' = [p \in Proc |-> NoTokens]
  BY DEF Crash, StoreOp, StoreSeen
<1>2. QED  BY <1>1, StoreNames DEF Crash, Store!Crash, StoreOp, StoreSeen, files

LEMMA StoreTick == ASSUME Tick PROVE Store!Tick
BY DEF Tick, Store!Tick, files, calls

LEMMA StoreNext ==
    MaxReadFaults = 0 /\ TypeInv /\ TypeInv' /\ LockInv /\ UpdateInv /\ [Next]_vars
    => [Store!Next]_Store!vars
<1> SUFFICES ASSUME MaxReadFaults = 0, TypeInv, TypeInv', LockInv, UpdateInv, [Next]_vars
             PROVE  Store!Next \/ UNCHANGED Store!vars
  OBVIOUS
<1>1. ASSUME NEW p \in Proc, NEW t \in Token, AddToken(p, t) PROVE Store!Next
  BY <1>1, StoreBegin DEF AddToken, Store!Next
<1>2. ASSUME NEW p \in Proc, NEW t \in Token, RemoveToken(p, t) PROVE Store!Next
  BY <1>2, StoreBegin DEF RemoveToken, Store!Next
<1>3. ASSUME NEW p \in Proc, GetTokens(p) PROVE Store!Next
  BY <1>3, StoreBegin DEF GetTokens, Store!Next
<1>4. ASSUME NEW p \in Proc, PeekFails(p) \/ ReadFails(p) PROVE FALSE
  BY <1>4 DEF PeekFails, ReadFails, TypeInv, TypeOK
<1>5. ASSUME NEW p \in Proc, Peek(p) \/ Filter(p) \/ Rename(p) PROVE Store!Next
  BY <1>5, StorePeek, StoreFilter, StoreRename DEF Store!Next
<1>6. ASSUME NEW p \in Proc, Reply(p) \/ Release(p) \/ WriteRaises(p) PROVE Store!Next
  BY <1>6, StoreEnd DEF Store!Next
<1>7. ASSUME NEW p \in Proc, Acquire(p) \/ Read(p) \/ Update(p) \/ OpenTmp(p) \/ DumpTmp(p)
      PROVE  UNCHANGED Store!vars
  BY <1>7, StoreStutter
<1>8. CASE Crash \/ Tick
  BY <1>8, StoreCrash, StoreTick DEF Store!Next
<1>9. CASE UNCHANGED vars
  BY <1>9 DEF vars, files, calls, Store!vars
<1>10. QED
  BY <1>1, <1>2, <1>3, <1>4, <1>5, <1>6, <1>7, <1>8, <1>9 DEF Next, ModifyStep

\* The steps of metadata.py and filedict.py amount to atomic calls, as long as
\* no read fails.
THEOREM Refinement == ASSUME MaxReadFaults = 0 PROVE Spec => Implements
<1>1. TypeInv /\ TypeInv' /\ LockInv /\ UpdateInv /\ [Next]_vars => [Store!Next]_Store!vars
  BY StoreNext
<1>2. QED
  BY <1>1, StoreInit, TypeInvariant, LockInvariant, UpdateInvariant, PTL DEF Spec, Implements, Store!Spec
=============================================================================
