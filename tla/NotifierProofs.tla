--------------------------- MODULE NotifierProofs ---------------------------
(* Proofs about Notifier for every value of its constants. *)
EXTENDS Notifier, TLAPS

\* A connection holds a queue file exactly while it creates one, a thread
\* exactly while it is not waiting in get().
JobOK ==
    /\ \A c \in Conn : conn[c].pc \in {"tmp", "named"} <=> conn[c].id # None
    /\ \A w \in Worker : wpc[w] = "get" <=> wjob[w] = None

TypeInv == TypeOK /\ JobOK

LEMMA DelayNat == \A k \in 0..max_tries : compute_delay(k) \in Nat
BY DelayAssumption

LEMMA LaneNat == /\ max_tries \in Nat \ {0}
                 /\ Lane = 0..(max_tries - 1)
                 /\ 0 \in Lane
                 /\ \A w \in Worker : retry_num[w] \in Lane /\ retry_num[w] + 1 \in 0..max_tries
BY DelayAssumption, LaneAssumption DEF Lane

\* queue_for_retry keeps files, contents and lanes well formed.
LEMMA QueueType ==
    ASSUME TypeInv, NEW i \in Item, NEW k \in 0..max_tries, queue_for_retry(i, k)
    PROVE  /\ file' \in [Item -> {"none", "tmp", "item", "torn"}]
           /\ item' \in [Item -> [addr : Addr \cup {None}, token : Token \cup {None}, start : Nat]]
           /\ retry_queues' \in [Lane -> SUBSET Entry]
<1> USE DEF TypeInv, TypeOK
<1>1. CASE exceeded(i, k) /\ unlink(i) /\ UNCHANGED retry_queues
  BY <1>1 DEF unlink, Blank
<1>2. CASE ~exceeded(i, k) /\ put(i, k) /\ UNCHANGED disk
  <2>1. [when |-> now + compute_delay(k), id |-> i] \in Entry
    BY DelayNat DEF Entry
  <2>2. QED  BY <1>2, <2>1 DEF put, disk
<1>3. QED  BY <1>1, <1>2 DEF queue_for_retry

LEMMA TypeInit == Init => TypeInv
BY DEF Init, TypeInv, TypeOK, JobOK, Blank, Idle

LEMMA Jobs ==
    ASSUME TypeInv
    PROVE  /\ \A c \in Conn : conn[c].pc \in {"tmp", "named"} => conn[c].id \in Item
           /\ \A w \in Worker : wpc[w] # "get" => wjob[w] \in Item
BY DEF TypeInv, TypeOK, JobOK

LEMMA TypeNext == TypeInv /\ [Next]_vars => TypeInv'
<1> SUFFICES ASSUME TypeInv, [Next]_vars PROVE TypeInv'
  OBVIOUS
<1> USE DEF disk, memory, threads, upstream, env, TypeInv
<1>1. ASSUME NEW c \in Conn, NEW a \in Addr, NewMessage(c, a) PROVE TypeInv'
  BY <1>1 DEF TypeOK, JobOK, NewMessage
<1>2. ASSUME NEW c \in Conn, NEW t \in Token, NEW i \in Item, WriteTmp(c, t, i) PROVE TypeInv'
  BY <1>2, ItemAssumption DEF TypeOK, JobOK, WriteTmp, Goto
<1>3. ASSUME NEW c \in Conn, Rename(c) PROVE TypeInv'
  BY <1>3 DEF TypeOK, JobOK, Rename, Goto
<1>4. ASSUME NEW c \in Conn, QueueFirst(c) PROVE TypeInv'
  <2>1. conn[c].id \in Item /\ 0 \in 0..max_tries
    BY <1>4, Jobs, LaneNat DEF QueueFirst
  <2>2. queue_for_retry(conn[c].id, 0)
    BY <1>4 DEF QueueFirst
  <2>3. /\ file' \in [Item -> {"none", "tmp", "item", "torn"}]
        /\ item' \in [Item -> [addr : Addr \cup {None}, token : Token \cup {None}, start : Nat]]
        /\ retry_queues' \in [Lane -> SUBSET Entry]
    BY <2>1, <2>2, QueueType
  <2>4. CASE conn' = [conn EXCEPT ![c] = Idle]
    BY <1>4, <2>3, <2>4 DEF TypeOK, JobOK, QueueFirst, Idle
  <2>5. CASE Goto(c, "loop", None, conn[c].todo)
    BY <1>4, <2>3, <2>5 DEF TypeOK, JobOK, QueueFirst, Goto
  <2>6. QED  BY <1>4, <2>4, <2>5 DEF QueueFirst, Proceed
<1>5. ASSUME NEW c \in Conn, CreateRaises(c) PROVE TypeInv'
  BY <1>5 DEF TypeOK, JobOK, CreateRaises, Idle
<1>6. ASSUME NEW w \in Worker, Get(w) PROVE TypeInv'
  BY <1>6, LaneNat, ItemAssumption DEF TypeOK, JobOK, Get, Entry
<1>7. ASSUME NEW w \in Worker, Wake(w) PROVE TypeInv'
  BY <1>7 DEF TypeOK, JobOK, Wake, Running
<1>8. ASSUME NEW w \in Worker, Answer(w) PROVE TypeInv'
  <2>1. wjob[w] \in Item
    BY <1>8, Jobs DEF Answer, Accepted, Gone, Failed, Running
  <2>2. CASE Accepted(w)
    BY <2>1, <2>2 DEF TypeOK, JobOK, Accepted, Running
  <2>3. CASE Gone(w)
    <3>1. item[wjob[w]].token \in Token \cup {None}
      BY <2>1 DEF TypeOK
    <3>2. QED  BY <2>1, <2>3, <3>1 DEF TypeOK, JobOK, Gone, Running
  <2>4. CASE Failed(w)
    BY <2>1, <2>4 DEF TypeOK, JobOK, Failed, Running
  <2>5. QED  BY <1>8, <2>2, <2>3, <2>4 DEF Answer
<1>9. ASSUME NEW w \in Worker, RemoveToken(w) \/ RemoveTokenRaises(w) PROVE TypeInv'
  <2>1. CASE RemoveToken(w)
    <3>1. tokens' \in [Addr -> SUBSET Token]
      BY <2>1 DEF TypeOK, RemoveToken
    <3>2. QED  BY <2>1, <3>1 DEF TypeOK, JobOK, RemoveToken, Running
  <2>2. CASE RemoveTokenRaises(w)
    BY <2>2 DEF TypeOK, JobOK, RemoveTokenRaises, Running
  <2>3. QED  BY <1>9, <2>1, <2>2
<1>10. ASSUME NEW w \in Worker, Delete(w) PROVE TypeInv'
  BY <1>10 DEF TypeOK, JobOK, Delete, unlink, NextJob, Blank
<1>11. ASSUME NEW w \in Worker, Requeue(w) PROVE TypeInv'
  <2>1. wjob[w] \in Item /\ retry_num[w] + 1 \in 0..max_tries
    BY <1>11, Jobs, LaneNat DEF Requeue, Running
  <2>2. queue_for_retry(wjob[w], retry_num[w] + 1)
    BY <1>11 DEF Requeue
  <2>3. /\ file' \in [Item -> {"none", "tmp", "item", "torn"}]
        /\ item' \in [Item -> [addr : Addr \cup {None}, token : Token \cup {None}, start : Nat]]
        /\ retry_queues' \in [Lane -> SUBSET Entry]
    BY <2>1, <2>2, QueueType
  <2>4. QED
    BY <1>11, <2>3 DEF TypeOK, JobOK, Requeue, NextJob
<1>12. CASE Crash
  BY <1>12 DEF TypeOK, JobOK, Crash, Idle
<1>13. CASE Boot \/ Serve
  BY <1>13 DEF TypeOK, JobOK, Boot, Serve
<1>14. ASSUME NEW i \in Item, Visit(i) PROVE TypeInv'
  <2>1. /\ file' \in [Item -> {"none", "tmp", "item", "torn"}]
        /\ item' \in [Item -> [addr : Addr \cup {None}, token : Token \cup {None}, start : Nat]]
        /\ retry_queues' \in [Lane -> SUBSET Entry]
    <3>1. CASE queue_for_retry(i, 0)
      BY <3>1, LaneNat, QueueType
    <3>2. CASE unlink(i) /\ UNCHANGED retry_queues
      BY <3>2 DEF TypeOK, unlink, Blank
    <3>3. QED  BY <1>14, <3>1, <3>2 DEF Visit
  <2>2. QED
    BY <1>14, <2>1 DEF TypeOK, JobOK, Visit
<1>15. CASE Tick
  BY <1>15 DEF TypeOK, JobOK, Tick
<1>16. ASSUME NEW a \in Addr, NEW t \in Token, Register(a, t) PROVE TypeInv'
  BY <1>16 DEF TypeOK, JobOK, Register
<1>17. CASE UNCHANGED vars
  BY <1>17 DEF TypeOK, JobOK, vars
<1>18. QED
  BY <1>1, <1>2, <1>3, <1>4, <1>5, <1>6, <1>7, <1>8, <1>9, <1>10, <1>11, <1>12, <1>13, <1>14,
     <1>15, <1>16, <1>17 DEF Next, HandlerStep, WorkerStep, StartStep

LEMMA TypeInvariant == Spec => []TypeInv
BY TypeInit, TypeNext, PTL DEF Spec

\* Every state of the notifier is well formed.
THEOREM TypeCorrect == Spec => []TypeOK
BY TypeInvariant, PTL DEF TypeInv

-----------------------------------------------------------------------------
(* Every notification is in one place, backed by its file.                   *)

\* queue_for_retry either removes the file of i, or adds one entry for i.
LEMMA QueueEffect ==
    ASSUME TypeInv, NEW i \in Item, NEW k \in 0..max_tries, queue_for_retry(i, k)
    PROVE  \/ /\ file'[i] = "none"
              /\ \A j \in Item : j # i => file'[j] = file[j] /\ item'[j] = item[j]
              /\ retry_queues' = retry_queues
              /\ exceeded(i, k)
           \/ /\ k \in Lane
              /\ file' = file /\ item' = item
              /\ \A l \in Lane : l # k => retry_queues'[l] = retry_queues[l]
              /\ retry_queues'[k] = retry_queues[k] \cup {[when |-> now + compute_delay(k), id |-> i]}
              /\ now + compute_delay(k) <= deadline(i)
<1>1. CASE exceeded(i, k) /\ unlink(i) /\ UNCHANGED retry_queues
  BY <1>1 DEF unlink, TypeInv, TypeOK
<1>2. CASE ~exceeded(i, k) /\ put(i, k) /\ UNCHANGED disk
  <2>1. k \in Lane /\ now + compute_delay(k) <= deadline(i)
    BY <1>2, DelayNat, LaneNat, BoundAssumption DEF exceeded, deadline, TypeInv, TypeOK
  <2>2. QED  BY <1>2, <2>1 DEF put, disk, TypeInv, TypeOK
<1>3. QED  BY <1>1, <1>2 DEF queue_for_retry

LEMMA PlaceInit == Init => PlaceInv
<1> SUFFICES ASSUME Init PROVE PlaceInv
  OBVIOUS
<1> USE ItemAssumption DEF Init, Idle, Queued, QueuedAt, Held, HeldBy, Creating, CreatedBy
<1>1. InOnePlace
  BY DEF InOnePlace, QueuedOnce, HeldOnce, CreatedOnce, OneHolder
<1>2. BackedByFile /\ CreatedFile /\ Phases /\ NothingForgotten
  BY DEF BackedByFile, CreatedFile, Phases, NothingForgotten
<1>3. QED  BY <1>1, <1>2 DEF PlaceInv

\* Steps that move no notification keep them where they are.
LEMMA PlaceFrame ==
    ASSUME PlaceInv, UNCHANGED <<phase, file, scan, retry_queues, wjob, conn>>
    PROVE  PlaceInv'
BY DEF PlaceInv, InOnePlace, QueuedOnce, HeldOnce, CreatedOnce, OneHolder, BackedByFile, CreatedFile,
       Phases, NothingForgotten, Queued, QueuedAt, Held, HeldBy, Creating, CreatedBy

LEMMA PlaceNewMessage ==
    ASSUME TypeInv, PlaceInv, NEW c \in Conn, NEW a \in Addr, NewMessage(c, a)
    PROVE  PlaceInv'
<1> USE ItemAssumption DEF TypeInv, PlaceInv
<1>0. conn[c].id = None /\ conn'[c].id = None /\ \A d \in Conn : d # c => conn'[d] = conn[d]
  BY DEF NewMessage, TypeOK, JobOK
<1>1. UNCHANGED <<phase, file, scan, retry_queues, wjob>> /\ phase = "up"
  BY DEF NewMessage, disk, threads
<1>2. \A i \in Item : /\ Queued(i)' <=> Queued(i)
                      /\ Held(i)' <=> Held(i)
                      /\ Creating(i)' <=> Creating(i)
  BY <1>0, <1>1 DEF Queued, QueuedAt, Held, HeldBy, Creating, CreatedBy
<1>3. QueuedOnce' /\ HeldOnce'
  BY <1>1 DEF InOnePlace, QueuedOnce, HeldOnce, HeldBy
<1>4. CreatedOnce'
  BY <1>0 DEF InOnePlace, CreatedOnce, CreatedBy
<1>5. CreatedFile'
  BY <1>0, <1>1 DEF CreatedFile, CreatedBy
<1>6. OneHolder' /\ BackedByFile' /\ Phases' /\ NothingForgotten'
  BY <1>1, <1>2 DEF InOnePlace, OneHolder, BackedByFile, Phases, NothingForgotten
<1>7. QED  BY <1>3, <1>4, <1>5, <1>6 DEF InOnePlace

LEMMA PlaceWriteTmp ==
    ASSUME TypeInv, PlaceInv, NEW c \in Conn, NEW t \in Token, NEW i \in Item, WriteTmp(c, t, i)
    PROVE  PlaceInv'
<1> USE ItemAssumption DEF TypeInv, PlaceInv
<1>0. /\ conn[c].id = None /\ conn'[c].id = i /\ conn'[c].pc = "tmp"
      /\ \A d \in Conn : d # c => conn'[d] = conn[d]
      /\ file[i] = "none" /\ file'[i] = "tmp" /\ \A j \in Item : j # i => file'[j] = file[j]
  BY DEF WriteTmp, Goto, TypeOK, JobOK
<1>1. UNCHANGED <<phase, scan, retry_queues, wjob>> /\ phase = "up"
  BY DEF WriteTmp, threads
<1>2. ~Queued(i) /\ ~Held(i) /\ ~Creating(i)
  BY <1>0 DEF BackedByFile, CreatedFile, Creating
<1>3. \A j \in Item : /\ Queued(j)' <=> Queued(j)
                      /\ Held(j)' <=> Held(j)
                      /\ Creating(j)' <=> Creating(j) \/ j = i
  BY <1>0, <1>1 DEF Queued, QueuedAt, Held, HeldBy, Creating, CreatedBy
<1>4. QueuedOnce' /\ HeldOnce'
  BY <1>1 DEF InOnePlace, QueuedOnce, HeldOnce, HeldBy
<1>5. CreatedOnce' /\ CreatedFile'
  BY <1>0, <1>2 DEF InOnePlace, CreatedOnce, CreatedFile, Creating, CreatedBy
<1>6. OneHolder' /\ BackedByFile' /\ Phases' /\ NothingForgotten'
  BY <1>0, <1>1, <1>2, <1>3 DEF InOnePlace, OneHolder, BackedByFile, Phases, NothingForgotten
<1>7. QED  BY <1>4, <1>5, <1>6 DEF InOnePlace

LEMMA PlaceRename ==
    ASSUME TypeInv, PlaceInv, NEW c \in Conn, Rename(c)
    PROVE  PlaceInv'
<1> DEFINE i == conn[c].id
<1> USE ItemAssumption DEF TypeInv, PlaceInv
<1>0. /\ i \in Item /\ conn'[c].id = i /\ conn'[c].pc = "named" /\ CreatedBy(i, c)
      /\ \A d \in Conn : d # c => conn'[d] = conn[d]
      /\ file[i] = "tmp" /\ file'[i] = "item" /\ \A j \in Item : j # i => file'[j] = file[j]
  BY Jobs DEF Rename, Goto, TypeOK, CreatedFile, CreatedBy
<1>1. UNCHANGED <<phase, scan, retry_queues, wjob>> /\ phase = "up"
  BY DEF Rename, threads
<1>2. ~Queued(i) /\ ~Held(i) /\ Creating(i)
  BY <1>0 DEF BackedByFile, Creating
<1>3. \A j \in Item : /\ Queued(j)' <=> Queued(j)
                      /\ Held(j)' <=> Held(j)
                      /\ Creating(j)' <=> Creating(j)
  BY <1>0, <1>1 DEF Queued, QueuedAt, Held, HeldBy, Creating, CreatedBy
<1>4. QueuedOnce' /\ HeldOnce'
  BY <1>1 DEF InOnePlace, QueuedOnce, HeldOnce, HeldBy
<1>5. CreatedOnce' /\ CreatedFile'
  BY <1>0 DEF InOnePlace, CreatedOnce, CreatedFile, CreatedBy
<1>6. OneHolder' /\ BackedByFile' /\ Phases' /\ NothingForgotten'
  BY <1>0, <1>1, <1>2, <1>3 DEF InOnePlace, OneHolder, BackedByFile, Phases, NothingForgotten
<1>7. QED  BY <1>4, <1>5, <1>6 DEF InOnePlace

LEMMA PlaceCreateRaises ==
    ASSUME TypeInv, PlaceInv, NEW c \in Conn, CreateRaises(c)
    PROVE  PlaceInv'
<1> USE ItemAssumption DEF TypeInv, PlaceInv
<1>0. /\ conn'[c].id = None /\ conn[c].pc \in {"loop", "tmp"}
      /\ \A d \in Conn : d # c => conn'[d] = conn[d]
  BY DEF CreateRaises, TypeOK, Idle
<1>1. UNCHANGED <<phase, file, scan, retry_queues, wjob>> /\ phase = "up"
  BY DEF CreateRaises, disk, threads
<1>2. \A j \in Item : /\ Queued(j)' <=> Queued(j)
                      /\ Held(j)' <=> Held(j)
                      /\ Creating(j)' => Creating(j)
                      /\ Creating(j) /\ ~Creating(j)' => file[j] # "item"
  BY <1>0, <1>1 DEF Queued, QueuedAt, Held, HeldBy, Creating, CreatedBy, CreatedFile, JobOK
<1>3. QueuedOnce' /\ HeldOnce'
  BY <1>1 DEF InOnePlace, QueuedOnce, HeldOnce, HeldBy
<1>4. CreatedOnce' /\ CreatedFile'
  BY <1>0, <1>1 DEF InOnePlace, CreatedOnce, CreatedFile, CreatedBy
<1>5. OneHolder' /\ BackedByFile' /\ Phases' /\ NothingForgotten'
  BY <1>1, <1>2 DEF InOnePlace, OneHolder, BackedByFile, Phases, NothingForgotten
<1>6. QED  BY <1>3, <1>4, <1>5 DEF InOnePlace

LEMMA PlaceGet ==
    ASSUME TypeInv, PlaceInv, NEW w \in Worker, Get(w)
    PROVE  PlaceInv'
<1> USE ItemAssumption DEF TypeInv, PlaceInv
<1> DEFINE k == retry_num[w]
<1>0. PICK e \in retry_queues[k] :
        /\ retry_queues' = [retry_queues EXCEPT ![k] = @ \ {e}]
        /\ wjob' = [wjob EXCEPT ![w] = e.id]
  BY DEF Get
<1> DEFINE i == e.id
<1>1. /\ k \in Lane /\ e \in Entry /\ i \in Item /\ wjob[w] = None /\ wjob'[w] = i
      /\ \A v \in Worker : v # w => wjob'[v] = wjob[v]
      /\ \A l \in Lane : l # k => retry_queues'[l] = retry_queues[l]
      /\ retry_queues'[k] = retry_queues[k] \ {e}
  BY <1>0, LaneNat DEF Get, Running, TypeOK, JobOK, Entry
<1>2. UNCHANGED <<phase, file, scan, conn>> /\ phase = "up"
  BY DEF Get, disk, Running
<1>3. Queued(i) /\ ~Held(i) /\ ~Creating(i) /\ file[i] = "item"
  BY <1>1 DEF Queued, QueuedAt, InOnePlace, OneHolder, BackedByFile
<1>4. \A j \in Item : Queued(j)' <=> Queued(j) /\ j # i
  BY <1>1 DEF Queued, QueuedAt, InOnePlace, QueuedOnce
<1>5. \A j \in Item : /\ Held(j)' <=> Held(j) \/ j = i
                      /\ Creating(j)' <=> Creating(j)
  BY <1>1, <1>2 DEF Held, HeldBy, Creating, CreatedBy
<1>6. QueuedOnce'
  BY <1>1 DEF InOnePlace, QueuedOnce
<1>7. HeldOnce'
  BY <1>1, <1>3 DEF InOnePlace, HeldOnce, Held, HeldBy
<1>8. CreatedOnce' /\ CreatedFile'
  BY <1>2 DEF InOnePlace, CreatedOnce, CreatedFile, CreatedBy
<1>9. OneHolder' /\ BackedByFile' /\ Phases' /\ NothingForgotten'
  BY <1>2, <1>3, <1>4, <1>5 DEF InOnePlace, OneHolder, BackedByFile, Phases, NothingForgotten
<1>10. QED  BY <1>6, <1>7, <1>8, <1>9 DEF InOnePlace

LEMMA PlaceDelete ==
    ASSUME TypeInv, PlaceInv, NEW w \in Worker, Delete(w)
    PROVE  PlaceInv'
<1> USE ItemAssumption DEF TypeInv, PlaceInv
<1> DEFINE i == wjob[w]
<1>1. /\ i \in Item /\ wjob'[w] = None
      /\ \A v \in Worker : v # w => wjob'[v] = wjob[v]
      /\ file'[i] = "none" /\ \A j \in Item : j # i => file'[j] = file[j]
  BY Jobs DEF Delete, NextJob, unlink, Running, TypeOK
<1>2. UNCHANGED <<phase, scan, retry_queues, conn>> /\ phase = "up"
  BY DEF Delete, memory, Running
<1>3. Held(i) /\ ~Queued(i) /\ ~Creating(i)
  BY <1>1 DEF Held, HeldBy, InOnePlace, OneHolder
<1>4. \A j \in Item : /\ Queued(j)' <=> Queued(j)
                      /\ Held(j)' <=> Held(j) /\ j # i
                      /\ Creating(j)' <=> Creating(j)
  BY <1>1, <1>2 DEF Queued, QueuedAt, Held, HeldBy, Creating, CreatedBy, InOnePlace, HeldOnce
<1>5. QueuedOnce' /\ HeldOnce' /\ CreatedOnce'
  BY <1>1, <1>2 DEF InOnePlace, QueuedOnce, HeldOnce, HeldBy, CreatedOnce, CreatedBy
<1>6. CreatedFile'
  BY <1>1, <1>2, <1>3 DEF CreatedFile, Creating, CreatedBy
<1>7. OneHolder' /\ BackedByFile' /\ Phases' /\ NothingForgotten'
  BY <1>1, <1>2, <1>3, <1>4 DEF InOnePlace, OneHolder, BackedByFile, Phases, NothingForgotten
<1>8. QED  BY <1>5, <1>6, <1>7 DEF InOnePlace

\* Once whoever had notification i has let go of it, queue_for_retry leaves
\* every notification in one place.
LEMMA PlaceQueue ==
    ASSUME TypeInv, PlaceInv, NEW i \in Item, NEW k \in 0..max_tries, queue_for_retry(i, k),
           ~Queued(i), file[i] = "item", phase # "down", UNCHANGED phase,
           i \notin scan', scan' \subseteq scan, scan \subseteq scan' \cup {i},
           phase # "up" => UNCHANGED <<wjob, conn>>,
           HeldOnce', CreatedOnce', CreatedFile',
           \A j \in Item : Held(j)' <=> Held(j) /\ j # i,
           \A j \in Item : Creating(j)' <=> Creating(j) /\ j # i
    PROVE  PlaceInv'
<1> USE DEF PlaceInv
<1>0. scan \subseteq Item
  BY DEF TypeInv, TypeOK
<1>1. CASE /\ file'[i] = "none"
           /\ \A j \in Item : j # i => file'[j] = file[j]
           /\ retry_queues' = retry_queues
  <2>1. \A j \in Item : Queued(j)' <=> Queued(j)
    BY <1>1 DEF Queued, QueuedAt
  <2>2. QueuedOnce'
    BY <1>1 DEF InOnePlace, QueuedOnce
  <2>3. OneHolder' /\ BackedByFile' /\ Phases' /\ NothingForgotten'
    BY <1>0, <1>1, <2>1 DEF InOnePlace, OneHolder, BackedByFile, Phases, NothingForgotten
  <2>4. QED  BY <2>2, <2>3 DEF InOnePlace
<1>2. ASSUME NEW n \in Nat,
             k \in Lane, file' = file,
             \A l \in Lane : l # k => retry_queues'[l] = retry_queues[l],
             retry_queues'[k] = retry_queues[k] \cup {[when |-> n, id |-> i]}
      PROVE  PlaceInv'
  <2>1. \A j \in Item : Queued(j)' <=> Queued(j) \/ j = i
    <3>1. \A l \in Lane, j \in Item :
             (\E e \in retry_queues'[l] : e.id = j) <=>
             (\E e \in retry_queues[l] : e.id = j) \/ (l = k /\ j = i)
      <4> TAKE l \in Lane, j \in Item
      <4>1. CASE l # k
        BY <1>2, <4>1
      <4>2. CASE l = k
        <5>1. [when |-> n, id |-> i].id = i
          OBVIOUS
        <5>2. \A e : e \in retry_queues'[k] <=> e \in retry_queues[k] \/ e = [when |-> n, id |-> i]
          BY <1>2
        <5>3. QED  BY <4>2, <5>1, <5>2
      <4>3. QED  BY <4>1, <4>2
    <3>2. QED  BY <1>2, <3>1 DEF Queued, QueuedAt
  <2>2. QueuedOnce'
    BY <1>2 DEF InOnePlace, QueuedOnce, Queued, QueuedAt
  <2>3. OneHolder' /\ BackedByFile' /\ Phases' /\ NothingForgotten'
    BY <1>0, <1>2, <2>1 DEF InOnePlace, OneHolder, BackedByFile, Phases, NothingForgotten
  <2>4. QED  BY <2>2, <2>3 DEF InOnePlace
<1>3. now + compute_delay(k) \in Nat
  BY DelayNat DEF TypeInv, TypeOK
<1>4. QED  BY <1>1, <1>2, <1>3, QueueEffect

LEMMA PlaceQueueFirst ==
    ASSUME TypeInv, PlaceInv, NEW c \in Conn, QueueFirst(c)
    PROVE  PlaceInv'
<1> USE ItemAssumption DEF TypeInv, PlaceInv
<1> DEFINE i == conn[c].id
<1>1. /\ i \in Item /\ conn'[c].id = None /\ CreatedBy(i, c) /\ file[i] = "item"
      /\ \A d \in Conn : d # c => conn'[d] = conn[d]
  BY Jobs DEF QueueFirst, Proceed, Goto, Idle, TypeOK, CreatedFile, CreatedBy
<1>2. UNCHANGED <<phase, scan, wjob>> /\ phase = "up" /\ scan = {}
  BY DEF QueueFirst, threads, Phases
<1>3. ~Queued(i) /\ ~Held(i) /\ Creating(i)
  BY <1>1 DEF Creating, InOnePlace, OneHolder
<1>4. \A j \in Item : /\ Held(j)' <=> Held(j) /\ j # i
                      /\ Creating(j)' <=> Creating(j) /\ j # i
  BY <1>1, <1>2, <1>3 DEF Held, HeldBy, Creating, CreatedBy, InOnePlace, CreatedOnce
<1>5. HeldOnce' /\ CreatedOnce'
  BY <1>1, <1>2 DEF InOnePlace, HeldOnce, HeldBy, CreatedOnce, CreatedBy
<1>6. 0 \in 0..max_tries /\ queue_for_retry(i, 0)
  BY LaneNat DEF QueueFirst
<1>7. \A j \in Item : j # i => file'[j] = file[j]
  BY <1>1, <1>6, QueueEffect
<1>8. CreatedFile'
  BY <1>1, <1>7 DEF CreatedFile, CreatedBy, InOnePlace, CreatedOnce
<1>9. QED  BY <1>1, <1>2, <1>3, <1>4, <1>5, <1>6, <1>8, PlaceQueue

LEMMA PlaceRequeue ==
    ASSUME TypeInv, PlaceInv, NEW w \in Worker, Requeue(w)
    PROVE  PlaceInv'
<1> USE ItemAssumption DEF TypeInv, PlaceInv
<1> DEFINE i == wjob[w]
<1>1. /\ i \in Item /\ wjob'[w] = None /\ Held(i)
      /\ \A v \in Worker : v # w => wjob'[v] = wjob[v]
  BY Jobs DEF Requeue, NextJob, Running, TypeOK, Held, HeldBy
<1>2. UNCHANGED <<phase, scan, conn>> /\ phase = "up" /\ scan = {} /\ file[i] = "item"
  BY <1>1 DEF Requeue, Running, Phases, BackedByFile
<1>3. ~Queued(i) /\ ~Creating(i)
  BY <1>1 DEF InOnePlace, OneHolder
<1>4. \A j \in Item : /\ Held(j)' <=> Held(j) /\ j # i
                      /\ Creating(j)' <=> Creating(j) /\ j # i
  BY <1>1, <1>2, <1>3 DEF Held, HeldBy, Creating, CreatedBy, InOnePlace, HeldOnce
<1>5. HeldOnce' /\ CreatedOnce'
  BY <1>1, <1>2 DEF InOnePlace, HeldOnce, HeldBy, CreatedOnce, CreatedBy
<1>6. retry_num[w] + 1 \in 0..max_tries /\ queue_for_retry(i, retry_num[w] + 1)
  BY LaneNat DEF Requeue
<1>7. \A j \in Item : j # i => file'[j] = file[j]
  BY <1>1, <1>6, QueueEffect
<1>8. CreatedFile'
  BY <1>2, <1>3, <1>7 DEF CreatedFile, Creating, CreatedBy
<1>9. QED  BY <1>1, <1>2, <1>3, <1>4, <1>5, <1>6, <1>8, PlaceQueue

LEMMA PlaceVisit ==
    ASSUME TypeInv, PlaceInv, NEW i \in Item, Visit(i)
    PROVE  PlaceInv'
<1> USE ItemAssumption DEF TypeInv, PlaceInv
<1>1. /\ UNCHANGED <<phase, wjob, conn>> /\ phase = "boot" /\ i \in scan
      /\ scan' = scan \ {i} /\ ~Queued(i)
  BY DEF Visit, threads, Phases
<1>2. \A j \in Item : ~Held(j) /\ ~Creating(j) /\ ~Held(j)' /\ ~Creating(j)'
  BY <1>1 DEF Phases, Held, HeldBy, Creating, CreatedBy
<1>3. HeldOnce' /\ CreatedOnce' /\ CreatedFile'
  BY <1>1, <1>2 DEF HeldOnce, CreatedOnce, CreatedFile, Held, Creating
<1>4. CASE file[i] = "item" /\ queue_for_retry(i, 0)
  BY <1>1, <1>2, <1>3, <1>4, LaneNat, PlaceQueue
<1>5. CASE file[i] # "item" /\ unlink(i) /\ UNCHANGED retry_queues
  <2>1. file'[i] = "none" /\ \A j \in Item : j # i => file'[j] = file[j]
    BY <1>5 DEF unlink, TypeOK
  <2>2. \A j \in Item : Queued(j)' <=> Queued(j)
    BY <1>5 DEF Queued, QueuedAt
  <2>3. QueuedOnce'
    BY <1>5 DEF InOnePlace, QueuedOnce
  <2>4. OneHolder' /\ BackedByFile' /\ Phases' /\ NothingForgotten'
    BY <1>1, <1>2, <1>5, <2>1, <2>2 DEF TypeOK, InOnePlace, OneHolder, BackedByFile, Phases, NothingForgotten
  <2>5. QED  BY <1>3, <2>3, <2>4 DEF InOnePlace
<1>6. QED  BY <1>4, <1>5 DEF Visit

LEMMA PlaceCrash == ASSUME TypeInv, PlaceInv, Crash PROVE PlaceInv'
<1> USE ItemAssumption DEF TypeInv, PlaceInv
<1>1. /\ phase' = "down" /\ scan' = {} /\ \A k \in Lane : retry_queues'[k] = {}
      /\ \A w \in Worker : wjob'[w] = None
      /\ \A c \in Conn : conn'[c] = Idle
  BY DEF Crash
<1>2. \A j \in Item : ~Queued(j)' /\ ~Held(j)' /\ ~Creating(j)'
  BY <1>1 DEF Queued, QueuedAt, Held, HeldBy, Creating, CreatedBy, Idle
<1>3. InOnePlace'
  BY <1>1, <1>2 DEF InOnePlace, QueuedOnce, HeldOnce, CreatedOnce, OneHolder, Held, Creating
<1>4. BackedByFile' /\ CreatedFile' /\ Phases' /\ NothingForgotten'
  BY <1>1, <1>2 DEF BackedByFile, CreatedFile, Creating, Phases, NothingForgotten, Idle
<1>5. QED  BY <1>3, <1>4

LEMMA PlaceStart == ASSUME TypeInv, PlaceInv, Boot \/ Serve PROVE PlaceInv'
<1> USE ItemAssumption DEF TypeInv, PlaceInv, disk, memory, threads
<1>1. UNCHANGED <<file, retry_queues, wjob, conn>>
  BY DEF Boot, Serve
<1>2. \A j \in Item : /\ Queued(j)' <=> Queued(j)
                      /\ Held(j)' <=> Held(j)
                      /\ Creating(j)' <=> Creating(j)
  BY <1>1 DEF Queued, QueuedAt, Held, HeldBy, Creating, CreatedBy
<1>3. InOnePlace' /\ BackedByFile' /\ CreatedFile'
  BY <1>1, <1>2 DEF InOnePlace, QueuedOnce, HeldOnce, HeldBy, CreatedOnce, CreatedBy, OneHolder,
                    BackedByFile, CreatedFile
<1>4. CASE Boot
  <2>1. \A j \in Item : ~Queued(j)
    BY <1>4 DEF Boot, Phases, Queued, QueuedAt
  <2>2. Phases' /\ NothingForgotten'
    BY <1>1, <1>2, <1>4, <2>1 DEF Boot, Phases, NothingForgotten
  <2>3. QED  BY <1>3, <2>2
<1>5. CASE Serve
  <2>1. Phases' /\ NothingForgotten'
    BY <1>1, <1>2, <1>5 DEF Serve, Phases, NothingForgotten
  <2>2. QED  BY <1>3, <2>1
<1>6. QED  BY <1>4, <1>5

LEMMA PlaceNext == TypeInv /\ PlaceInv /\ [Next]_vars => PlaceInv'
<1> SUFFICES ASSUME TypeInv, PlaceInv, [Next]_vars PROVE PlaceInv'
  OBVIOUS
<1> USE DEF disk, memory, threads
<1>1. ASSUME NEW w \in Worker, Wake(w) \/ Answer(w) \/ RemoveToken(w) \/ RemoveTokenRaises(w)
      PROVE  PlaceInv'
  BY <1>1, PlaceFrame DEF Wake, Answer, Accepted, Gone, Failed, RemoveToken, RemoveTokenRaises
<1>2. CASE Tick \/ \E a \in Addr, t \in Token : Register(a, t)
  BY <1>2, PlaceFrame DEF Tick, Register
<1>3. CASE UNCHANGED vars
  BY <1>3, PlaceFrame DEF vars
<1>4. QED
  BY <1>1, <1>2, <1>3, PlaceNewMessage, PlaceWriteTmp, PlaceRename, PlaceQueueFirst, PlaceCreateRaises,
     PlaceGet, PlaceDelete, PlaceRequeue, PlaceCrash, PlaceStart, PlaceVisit
  DEF Next, HandlerStep, WorkerStep, StartStep

LEMMA PlaceInvariant == Spec => []PlaceInv
BY PlaceInit, PlaceNext, TypeInvariant, PTL DEF Spec

\* No notification is lost track of while the process runs.
THEOREM NotificationsTracked == Spec => []NothingForgotten
BY PlaceInvariant, PTL DEF PlaceInv

\* No notification is queued or handled twice at the same time.
THEOREM NotificationsInOnePlace == Spec => []InOnePlace
BY PlaceInvariant, PTL DEF PlaceInv

\* Every queued or handled notification is on disk.
THEOREM NotificationsBacked == Spec => []BackedByFile
BY PlaceInvariant, PTL DEF PlaceInv

-----------------------------------------------------------------------------
(* The lane of a notification and the history of its attempts.               *)

LEMMA HistoryInit == Init => HistoryInv
BY DEF Init, HistoryInv, StartedBefore, ScheduledInTime, LaneIsFails, Blank, Idle

\* Scheduling i in lane k when k attempts have failed keeps the history right
\* for the queued notifications.
LEMMA HistoryQueue ==
    ASSUME TypeInv, TypeInv', PlaceInv, HistoryInv, NEW i \in Item, NEW k \in 0..max_tries,
           queue_for_retry(i, k), fails[i] = k, ~Queued(i), UNCHANGED <<now, fails>>
    PROVE  /\ \A j \in Item : item'[j].start <= now'
           /\ ScheduledInTime'
           /\ \A l \in Lane : \A e \in retry_queues'[l] : fails'[e.id] = l
<1> USE DEF HistoryInv, StartedBefore, ScheduledInTime, LaneIsFails, deadline
<1>0. \A l \in Lane : retry_queues[l] \subseteq Entry /\ retry_queues'[l] \subseteq Entry
  BY DEF TypeInv, TypeOK
<1>1. CASE exceeded(i, k) /\ unlink(i) /\ UNCHANGED retry_queues
  <2>1. item'[i].start = 0 /\ \A j \in Item : j # i => item'[j] = item[j]
    BY <1>1 DEF unlink, Blank, TypeInv, TypeOK
  <2>2. \A l \in Lane : \A e \in retry_queues'[l] : e.id \in Item /\ e.id # i
    BY <1>0, <1>1 DEF Queued, QueuedAt, Entry
  <2>3. now \in Nat
    BY DEF TypeInv, TypeOK
  <2>4. QED  BY <1>1, <2>1, <2>2, <2>3
<1>2. CASE ~exceeded(i, k) /\ put(i, k) /\ UNCHANGED disk
  <2> DEFINE new == [when |-> now + compute_delay(k), id |-> i]
  <2>1. /\ k \in Lane /\ item' = item /\ new.id = i /\ new.when <= deadline(i)
        /\ \A l \in Lane : l # k => retry_queues'[l] = retry_queues[l]
        /\ \A e : e \in retry_queues'[k] <=> e \in retry_queues[k] \/ e = new
    BY <1>2, DelayNat, LaneNat, BoundAssumption DEF put, disk, exceeded, TypeInv, TypeOK
  <2>2. \A l \in Lane : \A e \in retry_queues'[l] : e \in retry_queues[l] \/ (l = k /\ e = new)
    BY <2>1
  <2>3. \A j \in Item : item'[j].start <= now'
    BY <2>1
  <2>4. ScheduledInTime'
    <3> SUFFICES ASSUME NEW l \in Lane, NEW e \in retry_queues'[l]
                 PROVE  e.when <= item'[e.id].start + DROP_DEADLINE
      OBVIOUS
    <3>1. CASE e \in retry_queues[l]
      BY <2>1, <3>1
    <3>2. CASE e = new
      BY <2>1, <3>2
    <3>3. QED  BY <2>2, <3>1, <3>2
  <2>5. \A l \in Lane : \A e \in retry_queues'[l] : fails'[e.id] = l
    <3> SUFFICES ASSUME NEW l \in Lane, NEW e \in retry_queues'[l]
                 PROVE  fails[e.id] = l
      OBVIOUS
    <3>1. CASE e \in retry_queues[l]
      BY <3>1
    <3>2. CASE l = k /\ e = new
      BY <2>1, <3>2
    <3>3. QED  BY <2>2, <3>1, <3>2
  <2>6. QED  BY <2>3, <2>4, <2>5
<1>3. QED  BY <1>1, <1>2 DEF queue_for_retry

LEMMA HistoryConn ==
    ASSUME TypeInv, TypeInv', PlaceInv, HistoryInv, NEW c \in Conn,
           \/ \E a \in Addr : NewMessage(c, a)
           \/ Rename(c) \/ CreateRaises(c)
    PROVE  HistoryInv'
<1> USE DEF HistoryInv, disk, memory, threads, upstream
<1>1. UNCHANGED <<phase, now, item, scan, retry_queues, wpc, wjob, fails, answer>>
  BY DEF NewMessage, Rename, CreateRaises
<1>2. /\ conn'[c].start <= now /\ (conn'[c].id = conn[c].id \/ conn'[c].id = None)
      /\ \A d \in Conn : d # c => conn'[d] = conn[d]
  BY DEF NewMessage, Rename, Goto, CreateRaises, Idle, StartedBefore, TypeInv, TypeOK
<1>3. \A j \in Item : Creating(j)' => Creating(j)
  BY <1>2, ItemAssumption DEF Creating, CreatedBy
<1>4. StartedBefore' /\ ScheduledInTime' /\ LaneIsFails'
  BY <1>1, <1>2, <1>3 DEF StartedBefore, ScheduledInTime, LaneIsFails, deadline
<1>5. QED  BY <1>4

LEMMA HistoryWriteTmp ==
    ASSUME TypeInv, TypeInv', PlaceInv, HistoryInv,
           NEW c \in Conn, NEW t \in Token, NEW i \in Item, WriteTmp(c, t, i)
    PROVE  HistoryInv'
<1> USE DEF HistoryInv
<1>1. /\ UNCHANGED <<phase, now, scan, retry_queues, wpc, wjob>> /\ phase = "up" /\ scan = {}
      /\ conn'[c].id = i /\ \A d \in Conn : conn'[d].start = conn[d].start
      /\ \A d \in Conn : d # c => conn'[d] = conn[d]
  BY DEF WriteTmp, Goto, threads, PlaceInv, Phases, TypeInv, TypeOK
<1>2. /\ item'[i].start = conn[c].start /\ fails'[i] = 0
      /\ \A j \in Item : j # i => item'[j] = item[j] /\ fails'[j] = fails[j] /\ answer'[j] = answer[j]
  BY DEF WriteTmp, TypeInv, TypeOK
<1>3. ~Queued(i) /\ ~Held(i)
  BY DEF WriteTmp, PlaceInv, BackedByFile
<1>4. \A l \in Lane : \A e \in retry_queues[l] : e.id \in Item /\ e.id # i
  BY <1>3 DEF Queued, QueuedAt, TypeInv, TypeOK, Entry
<1>5. \A w \in Worker : wpc[w] # "get" => wjob[w] \in Item /\ wjob[w] # i
  BY <1>3, Jobs DEF Held, HeldBy
<1>6. \A j \in Item : Creating(j)' => Creating(j) \/ j = i
  BY <1>1, ItemAssumption DEF Creating, CreatedBy
<1>7. StartedBefore'
  BY <1>1, <1>2 DEF StartedBefore
<1>8. ScheduledInTime'
  BY <1>1, <1>2, <1>4 DEF ScheduledInTime, deadline
<1>9. LaneIsFails'
  BY <1>1, <1>2, <1>4, <1>5, <1>6 DEF LaneIsFails
<1>10. QED  BY <1>7, <1>8, <1>9

LEMMA HistoryQueueFirst ==
    ASSUME TypeInv, TypeInv', PlaceInv, HistoryInv, NEW c \in Conn, QueueFirst(c)
    PROVE  HistoryInv'
<1> USE DEF HistoryInv
<1> DEFINE i == conn[c].id
<1>1. UNCHANGED <<phase, now, scan, wpc, wjob, fails, answer>> /\ phase = "up"
  BY DEF QueueFirst, threads, upstream
<1>2. i \in Item /\ CreatedBy(i, c) /\ fails[i] = 0
  BY Jobs DEF QueueFirst, CreatedBy, Creating, LaneIsFails
<1>3. ~Queued(i)
  BY <1>2 DEF PlaceInv, InOnePlace, OneHolder, Creating
<1>4. /\ \A j \in Item : item'[j].start <= now'
      /\ ScheduledInTime'
      /\ \A l \in Lane : \A e \in retry_queues'[l] : fails'[e.id] = l
  BY <1>1, <1>2, <1>3, LaneNat, HistoryQueue DEF QueueFirst
<1>5. /\ \A d \in Conn : conn'[d].start <= now
      /\ conn'[c].id = None /\ \A d \in Conn : d # c => conn'[d] = conn[d]
  <2>1. CASE conn' = [conn EXCEPT ![c] = Idle]
    BY <2>1 DEF Idle, StartedBefore, TypeInv, TypeOK
  <2>2. CASE Goto(c, "loop", None, conn[c].todo)
    BY <2>2 DEF Goto, StartedBefore, TypeInv, TypeOK
  <2>3. QED  BY <2>1, <2>2 DEF QueueFirst, Proceed
<1>6. \A j \in Item : Creating(j)' => Creating(j)
  BY <1>5, ItemAssumption DEF Creating, CreatedBy
<1>7. StartedBefore' /\ LaneIsFails'
  BY <1>1, <1>4, <1>5, <1>6 DEF StartedBefore, LaneIsFails
<1>8. QED  BY <1>4, <1>7

LEMMA HistoryWorker ==
    ASSUME TypeInv, TypeInv', PlaceInv, HistoryInv, NEW w \in Worker, 
           Get(w) \/ Wake(w) \/ RemoveToken(w) \/ RemoveTokenRaises(w)
    PROVE  HistoryInv'
<1> USE DEF HistoryInv, disk, memory, upstream
<1>1. UNCHANGED <<phase, now, item, scan, conn, fails, answer>> /\ phase = "up"
  BY DEF Get, Wake, RemoveToken, RemoveTokenRaises, Running
<1>2. \A l \in Lane : retry_queues'[l] \subseteq retry_queues[l]
  BY DEF Get, Wake, RemoveToken, RemoveTokenRaises, TypeInv, TypeOK
<1>3. \A v \in Worker : v # w => wpc'[v] = wpc[v] /\ wjob'[v] = wjob[v]
  BY DEF Get, Wake, RemoveToken, RemoveTokenRaises, TypeInv, TypeOK
<1>4. \/ wpc'[w] \in {"sleep", "post"} /\ fails[wjob'[w]] = retry_num[w]
      \/ wpc'[w] = "delete" /\ fails[wjob'[w]] = retry_num[w] /\ answer[wjob'[w]] = "gone"
      \/ wpc'[w] = "dead" /\ fails[wjob'[w]] = retry_num[w] /\ answer[wjob'[w]] = "gone"
  <2>1. CASE Get(w)
    <3>1. PICK e \in retry_queues[retry_num[w]] :
             /\ wpc' = [wpc EXCEPT ![w] = "sleep"]
             /\ wjob' = [wjob EXCEPT ![w] = e.id]
      BY <2>1 DEF Get
    <3>2. wpc'[w] = "sleep" /\ wjob'[w] = e.id
      BY <3>1 DEF TypeInv, TypeOK
    <3>3. fails[e.id] = retry_num[w]
      BY LaneNat DEF LaneIsFails
    <3>4. QED  BY <3>2, <3>3
  <2>2. CASE Wake(w) \/ RemoveToken(w) \/ RemoveTokenRaises(w)
    BY <2>2 DEF Wake, RemoveToken, RemoveTokenRaises, Running, LaneIsFails, TypeInv, TypeOK
  <2>3. QED  BY <2>1, <2>2
<1>5. StartedBefore' /\ ScheduledInTime'
  BY <1>1, <1>2 DEF StartedBefore, ScheduledInTime, deadline
<1>6. \A j \in Item : Creating(j)' => Creating(j)
  BY <1>1 DEF Creating, CreatedBy
<1>7. LaneIsFails'
  BY <1>1, <1>2, <1>3, <1>4, <1>6 DEF LaneIsFails
<1>8. QED  BY <1>5, <1>7

LEMMA HistoryAnswer ==
    ASSUME TypeInv, TypeInv', PlaceInv, HistoryInv, NEW w \in Worker, Answer(w)
    PROVE  HistoryInv'
<1> USE DEF HistoryInv, disk, memory
<1> DEFINE i == wjob[w]
<1>1. UNCHANGED <<phase, now, item, scan, retry_queues, conn, wjob>> /\ wpc[w] = "post" /\ phase = "up"
  BY DEF Answer, Accepted, Gone, Failed, Running
<1>2. i \in Item /\ Held(i) /\ fails[i] = retry_num[w]
  BY <1>1, Jobs DEF Held, HeldBy, LaneIsFails
<1>3. ~Queued(i) /\ ~Creating(i) /\ scan = {}
  BY <1>1, <1>2 DEF PlaceInv, InOnePlace, OneHolder, Phases
<1>4. /\ \A v \in Worker : v # w => wpc'[v] = wpc[v]
      /\ \A j \in Item : j # i => fails'[j] = fails[j] /\ answer'[j] = answer[j]
  BY DEF Answer, Accepted, Gone, Failed, upstream, TypeInv, TypeOK
<1>5. \/ wpc'[w] = "delete" /\ fails'[i] = retry_num[w] /\ answer'[i] = "ok"
      \/ wpc'[w] = "remove" /\ fails'[i] = retry_num[w] /\ answer'[i] = "gone"
      \/ wpc'[w] = "requeue" /\ fails'[i] = retry_num[w] + 1
  BY <1>2 DEF Answer, Accepted, Gone, Failed, TypeInv, TypeOK
<1>6. \A v \in Worker : v # w /\ wpc[v] # "get" => wjob[v] \in Item /\ wjob[v] # i
  BY <1>2, Jobs DEF PlaceInv, InOnePlace, HeldOnce, HeldBy
<1>7. \A l \in Lane : \A e \in retry_queues[l] : e.id \in Item /\ e.id # i
  BY <1>3 DEF Queued, QueuedAt, TypeInv, TypeOK, Entry
<1>8. \A j \in Item : Creating(j)' => Creating(j)
  BY <1>1 DEF Creating, CreatedBy
<1>9. StartedBefore' /\ ScheduledInTime'
  BY <1>1 DEF StartedBefore, ScheduledInTime, deadline
<1>10. LaneIsFails'
  BY <1>1, <1>3, <1>4, <1>5, <1>6, <1>7, <1>8 DEF LaneIsFails
<1>11. QED  BY <1>9, <1>10

LEMMA HistoryDelete ==
    ASSUME TypeInv, TypeInv', PlaceInv, HistoryInv, NEW w \in Worker, Delete(w)
    PROVE  HistoryInv'
<1> USE DEF HistoryInv
<1> DEFINE i == wjob[w]
<1>1. UNCHANGED <<phase, now, scan, retry_queues, conn, fails, answer>> /\ wpc[w] = "delete" /\ phase = "up"
  BY DEF Delete, memory, upstream, Running
<1>2. i \in Item /\ Held(i)
  BY <1>1, Jobs DEF Held, HeldBy
<1>3. ~Queued(i)
  BY <1>2 DEF PlaceInv, InOnePlace, OneHolder
<1>4. /\ wpc'[w] = "get" /\ \A v \in Worker : v # w => wpc'[v] = wpc[v] /\ wjob'[v] = wjob[v]
      /\ item'[i].start = 0 /\ \A j \in Item : j # i => item'[j] = item[j]
  BY <1>2 DEF Delete, NextJob, unlink, Blank, TypeInv, TypeOK
<1>5. now \in Nat /\ \A l \in Lane : \A e \in retry_queues[l] : e.id \in Item /\ e.id # i
  BY <1>3 DEF Queued, QueuedAt, TypeInv, TypeOK, Entry
<1>6. \A j \in Item : Creating(j)' => Creating(j)
  BY <1>1 DEF Creating, CreatedBy
<1>7. StartedBefore' /\ ScheduledInTime'
  BY <1>1, <1>4, <1>5 DEF StartedBefore, ScheduledInTime, deadline
<1>8. LaneIsFails'
  BY <1>1, <1>4, <1>6 DEF LaneIsFails
<1>9. QED  BY <1>7, <1>8

LEMMA HistoryRequeue ==
    ASSUME TypeInv, TypeInv', PlaceInv, HistoryInv, NEW w \in Worker, Requeue(w)
    PROVE  HistoryInv'
<1> USE DEF HistoryInv
<1> DEFINE i == wjob[w]
<1>1. UNCHANGED <<phase, now, scan, conn, fails, answer>> /\ wpc[w] = "requeue" /\ phase = "up"
  BY DEF Requeue, upstream, Running
<1>2. i \in Item /\ Held(i) /\ fails[i] = retry_num[w] + 1
  BY <1>1, Jobs DEF Held, HeldBy, LaneIsFails
<1>3. ~Queued(i)
  BY <1>2 DEF PlaceInv, InOnePlace, OneHolder
<1>4. wpc'[w] = "get" /\ \A v \in Worker : v # w => wpc'[v] = wpc[v] /\ wjob'[v] = wjob[v]
  BY DEF Requeue, NextJob, TypeInv, TypeOK
<1>5. /\ \A j \in Item : item'[j].start <= now'
      /\ ScheduledInTime'
      /\ \A l \in Lane : \A e \in retry_queues'[l] : fails'[e.id] = l
  BY <1>1, <1>2, <1>3, LaneNat, HistoryQueue DEF Requeue
<1>6. \A j \in Item : Creating(j)' => Creating(j)
  BY <1>1 DEF Creating, CreatedBy
<1>7. StartedBefore' /\ LaneIsFails'
  BY <1>1, <1>4, <1>5, <1>6 DEF StartedBefore, LaneIsFails
<1>8. QED  BY <1>5, <1>7

LEMMA HistoryVisit ==
    ASSUME TypeInv, TypeInv', PlaceInv, HistoryInv, NEW i \in Item, Visit(i)
    PROVE  HistoryInv'
<1> USE DEF HistoryInv
<1>1. /\ UNCHANGED <<phase, now, wpc, wjob, conn, fails, answer>> /\ i \in scan /\ phase = "boot"
      /\ scan' \subseteq scan
  BY DEF Visit, threads, upstream
<1>2. fails[i] = 0 /\ ~Queued(i)
  BY <1>1 DEF LaneIsFails, PlaceInv, Phases
<1>3. /\ \A j \in Item : item'[j].start <= now'
      /\ ScheduledInTime'
      /\ \A l \in Lane : \A e \in retry_queues'[l] : fails'[e.id] = l
  <2>1. CASE queue_for_retry(i, 0)
    BY <1>1, <1>2, <2>1, LaneNat, HistoryQueue
  <2>2. CASE unlink(i) /\ UNCHANGED retry_queues
    <3>1. item'[i].start = 0 /\ \A j \in Item : j # i => item'[j] = item[j]
      BY <2>2 DEF unlink, Blank, TypeInv, TypeOK
    <3>2. now \in Nat /\ \A l \in Lane : \A e \in retry_queues[l] : e.id \in Item /\ e.id # i
      BY <1>2 DEF Queued, QueuedAt, TypeInv, TypeOK, Entry
    <3>3. QED  BY <1>1, <2>2, <3>1, <3>2 DEF StartedBefore, ScheduledInTime, deadline, LaneIsFails
  <2>3. QED  BY <2>1, <2>2 DEF Visit
<1>4. \A j \in Item : Creating(j)' => Creating(j)
  BY <1>1 DEF Creating, CreatedBy
<1>5. StartedBefore' /\ LaneIsFails'
  BY <1>1, <1>3, <1>4 DEF StartedBefore, LaneIsFails
<1>6. QED  BY <1>3, <1>5

LEMMA HistoryCrash == ASSUME TypeInv, TypeInv', PlaceInv, HistoryInv, Crash PROVE HistoryInv'
<1> USE DEF HistoryInv
<1>1. /\ UNCHANGED <<now, item>> /\ phase' = "down" /\ \A l \in Lane : retry_queues'[l] = {}
      /\ \A w \in Worker : wpc'[w] = "get"
      /\ \A c \in Conn : conn'[c] = Idle
      /\ \A j \in Item : fails'[j] = 0
  BY DEF Crash
<1>2. now \in Nat
  BY DEF TypeInv, TypeOK
<1>3. StartedBefore' /\ ScheduledInTime' /\ LaneIsFails'
  BY <1>1, <1>2 DEF StartedBefore, ScheduledInTime, LaneIsFails, Idle
<1>4. QED  BY <1>3

LEMMA HistoryRest ==
    ASSUME TypeInv, TypeInv', PlaceInv, HistoryInv,
           \/ Boot \/ Serve \/ Tick \/ UNCHANGED vars
           \/ \E a \in Addr, t \in Token : Register(a, t)
    PROVE  HistoryInv'
<1> USE DEF HistoryInv, disk, memory, threads, upstream
<1>1. UNCHANGED <<item, retry_queues, wpc, wjob, conn, fails, answer>>
  BY DEF Boot, Serve, Tick, vars, Register
<1>2. now \in Nat /\ now' \in Nat /\ now <= now' /\ (phase' = "down" => phase = "down")
  BY DEF Boot, Serve, Tick, vars, Register, TypeInv, TypeOK
<1>3. scan' \subseteq scan \/ phase = "down"
  BY DEF Boot, Serve, Tick, vars, Register
<1>4. scan' \subseteq Item
  BY DEF TypeInv, TypeOK
<1>5. StartedBefore' /\ ScheduledInTime'
  BY <1>1, <1>2 DEF StartedBefore, ScheduledInTime, deadline, TypeInv, TypeOK
<1>6. \A j \in Item : Creating(j)' => Creating(j)
  BY <1>1 DEF Creating, CreatedBy
<1>7. LaneIsFails'
  BY <1>1, <1>2, <1>3, <1>4, <1>6 DEF LaneIsFails
<1>8. QED  BY <1>5, <1>7

LEMMA HistoryNext == TypeInv /\ TypeInv' /\ PlaceInv /\ HistoryInv /\ [Next]_vars => HistoryInv'
BY HistoryConn, HistoryWriteTmp, HistoryQueueFirst, HistoryWorker, HistoryAnswer, HistoryDelete,
   HistoryRequeue, HistoryVisit, HistoryCrash, HistoryRest
DEF Next, HandlerStep, WorkerStep, StartStep

LEMMA HistoryInvariant == Spec => []HistoryInv
BY HistoryInit, HistoryNext, TypeInvariant, PlaceInvariant, PTL DEF Spec

\* No attempt is ever scheduled past the deadline of its notification.
THEOREM AttemptsInTime == Spec => []ScheduledInTime
BY HistoryInvariant, PTL DEF HistoryInv

\* Running out of lanes and being past the deadline are one and the same, so
\* that dropping a notification is never a silent loss.
LEMMA DropIsLate ==
    ASSUME TypeInv, HistoryInv, NEW i \in Item, NEW k \in 0..max_tries, exceeded(i, k)
    PROVE  now + compute_delay(k) > deadline(i)
<1>1. now \in Nat /\ item[i].start \in Nat /\ item[i].start <= now /\ DROP_DEADLINE \in Nat
  BY BoundAssumption DEF TypeInv, TypeOK, HistoryInv, StartedBefore
<1>2. CASE k >= max_tries
  <2>1. k = max_tries /\ compute_delay(k) > DROP_DEADLINE /\ compute_delay(k) \in Nat
    BY <1>2, LaneNat, DelayNat, DelayAssumption
  <2>2. QED  BY <1>1, <2>1 DEF deadline
<1>3. CASE now + compute_delay(k) > deadline(i)
  BY <1>3
<1>4. QED  BY <1>2, <1>3 DEF exceeded

\* A file goes because its next attempt would be late, or by the Delete of the
\* thread that holds it.
LEMMA DropStep ==
    TypeInv /\ PlaceInv /\ HistoryInv /\ [Next]_vars =>
      \A i \in Item : file[i] = "item" /\ file'[i] = "none" =>
          \/ now + compute_delay(fails[i]) > deadline(i)
          \/ \E w \in Worker : wpc[w] = "delete" /\ HeldBy(i, w)
<1> SUFFICES ASSUME TypeInv, PlaceInv, HistoryInv, [Next]_vars, NEW i \in Item,
                    file[i] = "item", file'[i] = "none"
             PROVE  \/ now + compute_delay(fails[i]) > deadline(i)
                    \/ \E w \in Worker : wpc[w] = "delete" /\ HeldBy(i, w)
  OBVIOUS
<1> USE DEF TypeInv, TypeOK, disk
\* what queue_for_retry drops has failed as often as its lane says
<1>1. ASSUME NEW j \in Item, NEW k \in 0..max_tries, queue_for_retry(j, k), fails[j] = k
      PROVE  now + compute_delay(fails[i]) > deadline(i)
  <2>1. j = i /\ exceeded(i, k)
    BY <1>1, QueueEffect
  <2>2. QED  BY <1>1, <2>1, DropIsLate
<1>2. ASSUME NEW c \in Conn, HandlerStep(c) \/ CreateRaises(c) \/ \E a \in Addr : NewMessage(c, a)
      PROVE  now + compute_delay(fails[i]) > deadline(i)
  <2>1. CASE QueueFirst(c)
    <3>1. conn[c].id \in Item /\ fails[conn[c].id] = 0 /\ queue_for_retry(conn[c].id, 0)
      BY <2>1, Jobs DEF QueueFirst, Creating, CreatedBy, HistoryInv, LaneIsFails
    <3>2. QED  BY <3>1, <1>1, LaneNat
  <2>2. CASE \E t \in Token, j \in Item : WriteTmp(c, t, j)
    BY <2>2 DEF WriteTmp
  <2>3. CASE Rename(c)
    BY <2>3 DEF Rename
  <2>4. QED  BY <1>2, <2>1, <2>2, <2>3 DEF HandlerStep, CreateRaises, NewMessage
<1>3. ASSUME NEW w \in Worker, WorkerStep(w) \/ RemoveTokenRaises(w)
      PROVE  \/ now + compute_delay(fails[i]) > deadline(i)
             \/ wpc[w] = "delete" /\ HeldBy(i, w)
  <2>1. CASE Delete(w)
    <3>1. wjob[w] \in Item /\ wpc[w] = "delete"
      BY <2>1, Jobs DEF Delete, Running
    <3>2. i = wjob[w]
      BY <2>1, <3>1 DEF Delete, unlink
    <3>3. QED  BY <3>1, <3>2 DEF HeldBy
  <2>2. CASE Requeue(w)
    <3>1. wjob[w] \in Item /\ fails[wjob[w]] = retry_num[w] + 1 /\ queue_for_retry(wjob[w], retry_num[w] + 1)
      BY <2>2, Jobs DEF Requeue, Running, HistoryInv, LaneIsFails
    <3>2. QED  BY <3>1, <1>1, LaneNat
  <2>3. CASE UNCHANGED file
    BY <2>3
  <2>4. QED
    BY <1>3, <2>1, <2>2, <2>3
    DEF WorkerStep, Get, Wake, Answer, Accepted, Gone, Failed, RemoveToken, RemoveTokenRaises
<1>4. ASSUME NEW j \in Item, Visit(j)
      PROVE  now + compute_delay(fails[i]) > deadline(i)
  <2>1. CASE queue_for_retry(j, 0)
    <3>1. fails[j] = 0
      BY <1>4 DEF Visit, HistoryInv, LaneIsFails
    <3>2. QED  BY <2>1, <3>1, <1>1, LaneNat
  <2>2. CASE file[j] # "item" /\ unlink(j)
    BY <2>2 DEF unlink
  <2>3. QED  BY <1>4, <2>1, <2>2 DEF Visit
<1>5. CASE Crash
  BY <1>5 DEF Crash
<1>6. CASE Boot \/ Serve \/ Tick \/ (\E a \in Addr, t \in Token : Register(a, t)) \/ UNCHANGED vars
  BY <1>6 DEF Boot, Serve, Tick, Register, vars
<1>7. QED
  BY <1>2, <1>3, <1>4, <1>5, <1>6 DEF Next, StartStep

LEMMA LossStep ==
    TypeInv /\ PlaceInv /\ HistoryInv /\ [Next]_vars =>
      \A i \in Item : file[i] = "item" /\ file'[i] = "none" =>
          answer[i] \in {"ok", "gone"} \/ now + compute_delay(fails[i]) > deadline(i)
BY DropStep DEF HeldBy, HistoryInv, LaneIsFails

\* The file of a notification disappears only when upstream has answered for
\* it, or when its next attempt would come too late.
THEOREM NoLoss == Spec => NoSilentLoss
<1>1. TypeInv /\ PlaceInv /\ HistoryInv /\ [Next]_vars =>
        [\A i \in Item : file[i] = "item" /\ file'[i] = "none" =>
          \/ answer[i] \in {"ok", "gone"}
          \/ now + compute_delay(fails[i]) > deadline(i)]_vars
  BY LossStep
<1>2. QED
  BY <1>1, TypeInvariant, PlaceInvariant, HistoryInvariant, PTL DEF Spec, NoSilentLoss
=============================================================================
