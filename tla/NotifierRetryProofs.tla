------------------------- MODULE NotifierRetryProofs -------------------------
(* Proofs about the distance between attempts and about withdrawn tokens, from *)
(* the invariants of NotifierProofs.                                          *)
EXTENDS NotifierProofs

\* What is known of every reachable state, and of the state after it
Known == TypeInv /\ PlaceInv /\ HistoryInv

-----------------------------------------------------------------------------
(* Back-off: WaitInv.                                                        *)

LEMMA WaitInit == Init => WaitInv
BY DEF Init, WaitInv

\* Steps that leave lanes, threads, clock and failures alone
LEMMA WaitFrame ==
    ASSUME WaitInv, UNCHANGED <<now, retry_queues, wpc, wjob, wake, failed_at>>
    PROVE  WaitInv'
BY DEF WaitInv

\* queue_for_retry adds an entry at a distance from now, which is not before
\* the last failure.
LEMMA WaitQueue ==
    ASSUME TypeInv, WaitInv, NEW i \in Item, NEW k \in 0..max_tries, queue_for_retry(i, k),
           UNCHANGED failed_at
    PROVE  \A l \in Lane : \A e \in retry_queues'[l] :
             l > 0 => e.when >= failed_at'[e.id] + compute_delay(l)
<1>1. CASE retry_queues' = retry_queues
  BY <1>1 DEF WaitInv
<1>2. CASE /\ k \in Lane
           /\ \A l \in Lane : l # k => retry_queues'[l] = retry_queues[l]
           /\ retry_queues'[k] = retry_queues[k] \cup {[when |-> now + compute_delay(k), id |-> i]}
  <2>1. now \in Nat /\ failed_at[i] \in Nat /\ failed_at[i] <= now /\ compute_delay(k) \in Nat
    BY DelayNat DEF WaitInv, TypeInv, TypeOK
  <2>2. now + compute_delay(k) >= failed_at[i] + compute_delay(k)
    BY <2>1
  <2>3. QED  BY <1>2, <2>2 DEF WaitInv
<1>3. QED  BY <1>1, <1>2, QueueEffect

LEMMA WaitWriteTmp ==
    ASSUME Known, WaitInv, NEW c \in Conn, NEW t \in Token, NEW i \in Item, WriteTmp(c, t, i)
    PROVE  WaitInv'
<1> USE DEF Known
<1>1. UNCHANGED <<now, retry_queues, wpc, wjob, wake>> /\ now \in Nat
  BY DEF WriteTmp, threads, TypeInv, TypeOK
<1>2. failed_at'[i] = 0 /\ \A j \in Item : j # i => failed_at'[j] = failed_at[j]
  BY DEF WriteTmp, TypeInv, TypeOK
<1>3. ~Queued(i) /\ ~Held(i)
  BY DEF WriteTmp, PlaceInv, BackedByFile
<1>4. \A l \in Lane : \A e \in retry_queues[l] : e.id \in Item /\ e.id # i
  BY <1>3 DEF Queued, QueuedAt, TypeInv, TypeOK, Entry
<1>5. \A w \in Worker : wpc[w] # "get" => wjob[w] \in Item /\ wjob[w] # i
  BY <1>3, Jobs DEF Held, HeldBy
<1>6. QED  BY <1>1, <1>2, <1>4, <1>5 DEF WaitInv

LEMMA WaitGet ==
    ASSUME Known, WaitInv, NEW w \in Worker, Get(w)
    PROVE  WaitInv'
<1> USE DEF Known
<1>1. UNCHANGED <<now, failed_at>> /\ \A l \in Lane : retry_queues'[l] \subseteq retry_queues[l]
  BY DEF Get, upstream, TypeInv, TypeOK
<1>2. PICK e \in retry_queues[retry_num[w]] :
         /\ wpc' = [wpc EXCEPT ![w] = "sleep"]
         /\ wjob' = [wjob EXCEPT ![w] = e.id]
         /\ wake' = [wake EXCEPT ![w] = e.when]
  BY DEF Get
<1>3. wpc'[w] = "sleep" /\ wjob'[w] = e.id /\ wake'[w] = e.when
  BY <1>2 DEF TypeInv, TypeOK
<1>4. \A v \in Worker : v # w => wpc'[v] = wpc[v] /\ wjob'[v] = wjob[v] /\ wake'[v] = wake[v]
  BY <1>2 DEF TypeInv, TypeOK
<1>5. retry_num[w] > 0 => e.when >= failed_at[e.id] + compute_delay(retry_num[w])
  BY LaneNat DEF WaitInv
<1>6. QED  BY <1>1, <1>3, <1>4, <1>5 DEF WaitInv

LEMMA WaitWake ==
    ASSUME Known, WaitInv, NEW w \in Worker, Wake(w)
    PROVE  WaitInv'
<1> USE DEF Known
<1>1. UNCHANGED <<now, failed_at, retry_queues, wjob, wake>> /\ wpc[w] = "sleep" /\ now >= wake[w]
  BY DEF Wake, Running, upstream, memory
<1>2. wpc'[w] = "post" /\ \A v \in Worker : v # w => wpc'[v] = wpc[v]
  BY DEF Wake, TypeInv, TypeOK
<1>3. /\ now \in Nat /\ wake[w] \in Nat /\ failed_at[wjob[w]] \in Nat
      /\ compute_delay(retry_num[w]) \in Nat
  <2>1. wjob[w] \in Item
    BY <1>1, Jobs
  <2>2. compute_delay(retry_num[w]) \in Nat
    BY LaneNat, DelayNat
  <2>3. QED  BY <2>1, <2>2 DEF TypeInv, TypeOK
<1>4. retry_num[w] > 0 => now >= failed_at[wjob[w]] + compute_delay(retry_num[w])
  BY <1>1, <1>3 DEF WaitInv
<1>5. QED  BY <1>1, <1>2, <1>4 DEF WaitInv

LEMMA WaitFailed ==
    ASSUME Known, WaitInv, NEW w \in Worker, Failed(w)
    PROVE  WaitInv'
<1> USE DEF Known
<1> DEFINE i == wjob[w]
<1>1. UNCHANGED <<now, retry_queues, wjob, wake>> /\ wpc[w] = "post" /\ now \in Nat
  BY DEF Failed, Running, memory, TypeInv, TypeOK
<1>2. i \in Item /\ Held(i)
  BY <1>1, Jobs DEF Held, HeldBy
<1>3. ~Queued(i)
  BY <1>2 DEF PlaceInv, InOnePlace, OneHolder
<1>4. /\ wpc'[w] = "requeue" /\ \A v \in Worker : v # w => wpc'[v] = wpc[v]
      /\ failed_at'[i] = now /\ \A j \in Item : j # i => failed_at'[j] = failed_at[j]
  BY <1>2 DEF Failed, TypeInv, TypeOK
<1>5. \A v \in Worker : v # w /\ wpc[v] # "get" => wjob[v] \in Item /\ wjob[v] # i
  BY <1>2, Jobs DEF PlaceInv, InOnePlace, HeldOnce, HeldBy
<1>6. \A l \in Lane : \A e \in retry_queues[l] : e.id \in Item /\ e.id # i
  BY <1>3 DEF Queued, QueuedAt, TypeInv, TypeOK, Entry
<1>7. \A j \in Item : failed_at'[j] <= now'
  BY <1>1, <1>4 DEF WaitInv
<1>8. QED  BY <1>1, <1>4, <1>5, <1>6, <1>7 DEF WaitInv

\* The other steps of a thread end its wait.
LEMMA WaitWorker ==
    ASSUME Known, WaitInv, NEW w \in Worker,
           \/ Accepted(w) \/ Gone(w) \/ RemoveToken(w) \/ RemoveTokenRaises(w) \/ Delete(w)
    PROVE  WaitInv'
<1>1. UNCHANGED <<now, failed_at, retry_queues>>
  BY DEF Accepted, Gone, RemoveToken, RemoveTokenRaises, Delete, upstream, memory
<1>2. /\ wpc'[w] \notin {"sleep", "post"}
      /\ \A v \in Worker : v # w => wpc'[v] = wpc[v] /\ wjob'[v] = wjob[v] /\ wake'[v] = wake[v]
  BY DEF Accepted, Gone, RemoveToken, RemoveTokenRaises, Delete, NextJob, Known, TypeInv, TypeOK
<1>3. QED  BY <1>1, <1>2 DEF WaitInv

LEMMA WaitRequeue ==
    ASSUME Known, WaitInv, NEW w \in Worker, Requeue(w)
    PROVE  WaitInv'
<1> USE DEF Known
<1>1. UNCHANGED <<now, failed_at>> /\ wpc[w] = "requeue" /\ wjob[w] \in Item
  BY Jobs DEF Requeue, Running, upstream
<1>2. /\ wpc'[w] = "get"
      /\ \A v \in Worker : v # w => wpc'[v] = wpc[v] /\ wjob'[v] = wjob[v] /\ wake'[v] = wake[v]
  BY DEF Requeue, NextJob, TypeInv, TypeOK
<1>3. \A l \in Lane : \A e \in retry_queues'[l] : l > 0 => e.when >= failed_at'[e.id] + compute_delay(l)
  BY <1>1, LaneNat, WaitQueue DEF Requeue
<1>4. QED  BY <1>1, <1>2, <1>3 DEF WaitInv

LEMMA WaitFirst ==
    ASSUME Known, WaitInv,
           (\E c \in Conn : QueueFirst(c)) \/ (\E i \in Item : Visit(i))
    PROVE  WaitInv'
<1> USE DEF Known
<1>1. UNCHANGED <<now, failed_at, wpc, wjob, wake>>
  BY DEF QueueFirst, Visit, upstream, threads
<1>2. \/ retry_queues' = retry_queues
      \/ \E i \in Item : queue_for_retry(i, 0)
  BY Jobs DEF QueueFirst, Visit
<1>3. \A l \in Lane : \A e \in retry_queues'[l] : l > 0 => e.when >= failed_at'[e.id] + compute_delay(l)
  <2>1. CASE retry_queues' = retry_queues
    BY <1>1, <2>1 DEF WaitInv
  <2>2. CASE \E i \in Item : queue_for_retry(i, 0)
    BY <1>1, <2>2, LaneNat, WaitQueue
  <2>3. QED  BY <1>2, <2>1, <2>2
<1>4. QED  BY <1>1, <1>3 DEF WaitInv

LEMMA WaitCrash == ASSUME Known, WaitInv, Crash PROVE WaitInv'
<1>1. /\ \A i \in Item : failed_at'[i] = 0
      /\ \A k \in Lane : retry_queues'[k] = {}
      /\ \A w \in Worker : wpc'[w] = "get"
      /\ now' = now /\ now \in Nat
  BY DEF Crash, Known, TypeInv, TypeOK
<1>2. QED  BY <1>1 DEF WaitInv

LEMMA WaitTick == ASSUME Known, WaitInv, Tick PROVE WaitInv'
<1> USE DEF Known
<1>1. /\ UNCHANGED <<failed_at, retry_queues, wpc, wjob, wake>>
      /\ now \in Nat /\ now' \in Nat /\ now <= now'
  BY DEF Tick, upstream, memory, threads, TypeInv, TypeOK
<1>2. \A i \in Item : failed_at[i] \in Nat
  BY DEF TypeInv, TypeOK
<1>3. \A i \in Item : failed_at'[i] <= now'
  BY <1>1, <1>2 DEF WaitInv
<1>4. ASSUME NEW w \in Worker, retry_num[w] > 0, wpc'[w] = "post"
      PROVE  now' >= failed_at'[wjob'[w]] + compute_delay(retry_num[w])
  <2>1. wjob[w] \in Item /\ failed_at[wjob[w]] \in Nat /\ compute_delay(retry_num[w]) \in Nat
    BY <1>1, <1>2, <1>4, Jobs, LaneNat, DelayNat
  <2>2. now >= failed_at[wjob[w]] + compute_delay(retry_num[w])
    BY <1>1, <1>4 DEF WaitInv
  <2>3. QED  BY <1>1, <2>1, <2>2
<1>5. QED  BY <1>1, <1>3, <1>4 DEF WaitInv

LEMMA WaitNext == Known /\ WaitInv /\ [Next]_vars => WaitInv'
<1> SUFFICES ASSUME Known, WaitInv, [Next]_vars PROVE WaitInv'
  OBVIOUS
<1>1. ASSUME \/ \E c \in Conn : Rename(c) \/ CreateRaises(c) \/ \E a \in Addr : NewMessage(c, a)
             \/ Boot \/ Serve \/ UNCHANGED vars
             \/ \E a \in Addr, t \in Token : Register(a, t)
      PROVE  WaitInv'
  <2>1. UNCHANGED <<now, retry_queues, wpc, wjob, wake, failed_at>>
    BY <1>1 DEF Rename, CreateRaises, NewMessage, Boot, Serve, Register, vars, memory, threads, upstream
  <2>2. QED  BY <2>1, WaitFrame
<1>2. QED
  BY <1>1, WaitWriteTmp, WaitGet, WaitWake, WaitFailed, WaitWorker, WaitRequeue, WaitFirst, WaitCrash, WaitTick
  DEF Next, HandlerStep, WorkerStep, Answer, StartStep

LEMMA KnownInvariant == Spec => []Known
BY TypeInvariant, PlaceInvariant, HistoryInvariant, PTL DEF Known

LEMMA WaitInvariant == Spec => []WaitInv
BY WaitInit, WaitNext, KnownInvariant, PTL DEF Spec

LEMMA PostRespectsBackoff == Known /\ WaitInv => BackoffRespected
<1> SUFFICES ASSUME Known, WaitInv, NEW w \in Worker, wpc[w] = "post"
             PROVE  /\ fails[wjob[w]] = retry_num[w]
                    /\ fails[wjob[w]] > 0 =>
                         now >= failed_at[wjob[w]] + compute_delay(fails[wjob[w]])
  BY DEF BackoffRespected
<1>1. fails[wjob[w]] = retry_num[w]
  BY DEF Known, HistoryInv, LaneIsFails
<1>2. QED  BY <1>1 DEF WaitInv

\* No retry is sent before the delay of its lane has passed since the failure
\* before it, and its lane is the number of its failures.
THEOREM RetriesBackOff == Spec => []BackoffRespected
BY PostRespectsBackoff, KnownInvariant, WaitInvariant, PTL

-----------------------------------------------------------------------------
(* Withdrawn tokens: TokenInv.                                               *)

AddressOK ==
    /\ \A c \in Conn : conn[c].pc # "idle" => conn[c].addr \in Addr
    /\ \A i \in Item : file[i] \in {"tmp", "item"} => item[i].addr \in Addr

WithdrawnOK ==
    \A w \in Worker :
      /\ wpc[w] = "remove" => item[wjob[w]].token \in gone
      /\ wpc[w] = "delete" /\ answer[wjob[w]] = "gone" =>
           /\ item[wjob[w]].token \in gone
           /\ item[wjob[w]].token \notin tokens[item[wjob[w]].addr]

LEMMA TokenParts == TokenInv <=> AddressOK /\ WithdrawnOK
BY DEF TokenInv, AddressOK, WithdrawnOK

LEMMA TokenInit == Init => TokenInv
BY DEF Init, TokenInv, Idle

\* Connections and files keep their addresses.
LEMMA AddressNext == Known /\ AddressOK /\ [Next]_vars => AddressOK'
<1> SUFFICES ASSUME Known, AddressOK, [Next]_vars PROVE AddressOK'
  OBVIOUS
<1> USE DEF Known, TypeInv, TypeOK
<1>1. ASSUME NEW i \in Item, NEW k \in 0..max_tries, queue_for_retry(i, k)
      PROVE  \A j \in Item : file'[j] \in {"tmp", "item"} => item'[j].addr \in Addr
  BY <1>1, QueueEffect DEF AddressOK
<1>2. ASSUME NEW c \in Conn, NEW a \in Addr, NewMessage(c, a) PROVE AddressOK'
  BY <1>2 DEF NewMessage, AddressOK, disk
<1>3. ASSUME NEW c \in Conn, NEW t \in Token, NEW i \in Item, WriteTmp(c, t, i) PROVE AddressOK'
  BY <1>3 DEF WriteTmp, Goto, AddressOK
<1>4. ASSUME NEW c \in Conn, Rename(c) PROVE AddressOK'
  <2>1. conn[c].id \in Item /\ file[conn[c].id] = "tmp"
    BY <1>4, Jobs DEF Rename, PlaceInv, CreatedFile, CreatedBy
  <2>2. QED  BY <1>4, <2>1 DEF Rename, Goto, AddressOK
<1>5. ASSUME NEW c \in Conn, QueueFirst(c) PROVE AddressOK'
  <2>1. \A j \in Item : file'[j] \in {"tmp", "item"} => item'[j].addr \in Addr
    BY <1>5, <1>1, Jobs, LaneNat DEF QueueFirst
  <2>2. \A d \in Conn : conn'[d].pc # "idle" => conn'[d].addr \in Addr
    <3>1. CASE conn' = [conn EXCEPT ![c] = Idle]
      BY <3>1 DEF Idle, AddressOK
    <3>2. CASE Goto(c, "loop", None, conn[c].todo)
      BY <1>5, <3>2 DEF QueueFirst, Goto, AddressOK
    <3>3. QED  BY <1>5, <3>1, <3>2 DEF QueueFirst, Proceed
  <2>3. QED  BY <2>1, <2>2 DEF AddressOK
<1>6. ASSUME NEW c \in Conn, CreateRaises(c) PROVE AddressOK'
  BY <1>6 DEF CreateRaises, Idle, AddressOK, disk
<1>7. ASSUME NEW w \in Worker,
             Get(w) \/ Wake(w) \/ Answer(w) \/ RemoveToken(w) \/ RemoveTokenRaises(w)
      PROVE  AddressOK'
  BY <1>7 DEF Get, Wake, Answer, Accepted, Gone, Failed, RemoveToken, RemoveTokenRaises,
              disk, memory, AddressOK
<1>8. ASSUME NEW w \in Worker, Delete(w) PROVE AddressOK'
  <2>1. wjob[w] \in Item
    BY <1>8, Jobs DEF Delete, Running
  <2>2. QED  BY <1>8, <2>1 DEF Delete, unlink, memory, AddressOK
<1>9. ASSUME NEW w \in Worker, Requeue(w) PROVE AddressOK'
  <2>1. \A j \in Item : file'[j] \in {"tmp", "item"} => item'[j].addr \in Addr
    BY <1>9, <1>1, Jobs, LaneNat DEF Requeue, Running
  <2>2. QED  BY <1>9, <2>1 DEF Requeue, AddressOK
<1>10. CASE Crash
  BY <1>10 DEF Crash, Idle, AddressOK
<1>11. ASSUME NEW i \in Item, Visit(i) PROVE AddressOK'
  <2>1. CASE queue_for_retry(i, 0)
    BY <1>11, <2>1, <1>1, LaneNat DEF Visit, AddressOK
  <2>2. CASE unlink(i)
    BY <1>11, <2>2 DEF Visit, unlink, AddressOK
  <2>3. QED  BY <1>11, <2>1, <2>2 DEF Visit
<1>12. CASE \/ Boot \/ Serve \/ Tick \/ UNCHANGED vars
            \/ \E a \in Addr, t \in Token : Register(a, t)
  BY <1>12 DEF Boot, Serve, Tick, Register, vars, disk, memory, AddressOK
<1>13. QED
  BY <1>2, <1>3, <1>4, <1>5, <1>6, <1>7, <1>8, <1>9, <1>10, <1>11, <1>12
  DEF Next, HandlerStep, WorkerStep, StartStep

\* What is known of the token of a thread stays true while others work: its
\* item is its own, and no step of theirs registers a withdrawn token.
LEMMA WithdrawnKept ==
    ASSUME Known, AddressOK, WithdrawnOK, NEW w \in Worker,
           UNCHANGED <<wpc[w], wjob[w]>>,
           wpc[w] # "get" => UNCHANGED <<item[wjob[w]], answer[wjob[w]]>>,
           gone \subseteq gone',
           \A a \in Addr : tokens'[a] \cap gone \subseteq tokens[a]
    PROVE  /\ wpc'[w] = "remove" => item'[wjob'[w]].token \in gone'
           /\ wpc'[w] = "delete" /\ answer'[wjob'[w]] = "gone" =>
                /\ item'[wjob'[w]].token \in gone'
                /\ item'[wjob'[w]].token \notin tokens'[item'[wjob'[w]].addr]
<1>1. CASE wpc[w] = "get"
  BY <1>1
<1>2. CASE wpc[w] # "get"
  <2>1. wjob[w] \in Item /\ file[wjob[w]] = "item" /\ item[wjob[w]].addr \in Addr
    BY <1>2, Jobs DEF Known, PlaceInv, BackedByFile, Held, HeldBy, AddressOK
  <2>2. QED  BY <1>2, <2>1 DEF WithdrawnOK
<1>3. QED  BY <1>1, <1>2

LEMMA WithdrawnNext == Known /\ AddressOK /\ WithdrawnOK /\ [Next]_vars => WithdrawnOK'
<1> SUFFICES ASSUME Known, AddressOK, WithdrawnOK, [Next]_vars PROVE WithdrawnOK'
  OBVIOUS
<1> USE DEF Known
\* what queue_for_retry touches is in no thread's hands but those of w
<1>1. ASSUME NEW i \in Item, NEW k \in 0..max_tries, queue_for_retry(i, k),
             NEW w \in Worker, wpc[w] # "get", ~HeldBy(i, w)
      PROVE  item'[wjob[w]] = item[wjob[w]]
  <2>1. wjob[w] \in Item /\ wjob[w] # i
    BY <1>1, Jobs DEF HeldBy
  <2>2. UNCHANGED item \/ \A j \in Item : j # i => item'[j] = item[j]
    BY <1>1, QueueEffect
  <2>3. QED  BY <2>1, <2>2
<1>2. ASSUME NEW c \in Conn, NEW t \in Token, NEW i \in Item, WriteTmp(c, t, i) PROVE WithdrawnOK'
  <2>1. UNCHANGED <<wpc, wjob, tokens, gone>> /\ ~Held(i)
    BY <1>2 DEF WriteTmp, threads, PlaceInv, BackedByFile
  <2>2. \A w \in Worker : wpc[w] # "get" => UNCHANGED <<item[wjob[w]], answer[wjob[w]]>>
    BY <1>2, <2>1, Jobs DEF WriteTmp, Held, HeldBy, TypeInv, TypeOK
  <2>3. QED  BY <2>1, <2>2, WithdrawnKept DEF WithdrawnOK
<1>3. ASSUME NEW c \in Conn, QueueFirst(c) PROVE WithdrawnOK'
  <2>1. UNCHANGED <<wpc, wjob, answer, tokens, gone>> /\ conn[c].id \in Item /\ queue_for_retry(conn[c].id, 0)
    BY <1>3, Jobs DEF QueueFirst, threads, upstream
  <2>2. \A w \in Worker : ~HeldBy(conn[c].id, w)
    BY <2>1 DEF PlaceInv, InOnePlace, OneHolder, Creating, CreatedBy, Held
  <2>3. \A w \in Worker : wpc[w] # "get" => UNCHANGED <<item[wjob[w]], answer[wjob[w]]>>
    BY <1>1, <2>1, <2>2, LaneNat
  <2>4. QED  BY <2>1, <2>3, WithdrawnKept DEF WithdrawnOK
<1>4. ASSUME NEW w \in Worker, Get(w) \/ Wake(w) \/ RemoveTokenRaises(w) PROVE WithdrawnOK'
  <2>1. UNCHANGED <<item, answer, tokens, gone>>
    BY <1>4 DEF Get, Wake, RemoveTokenRaises, disk, upstream
  <2>2. /\ wpc'[w] \notin {"remove", "delete"}
        /\ \A v \in Worker : v # w => wpc'[v] = wpc[v] /\ wjob'[v] = wjob[v]
    BY <1>4 DEF Get, Wake, RemoveTokenRaises, TypeInv, TypeOK
  <2>3. QED  BY <2>1, <2>2, WithdrawnKept DEF WithdrawnOK
<1>5. ASSUME NEW w \in Worker, Answer(w) PROVE WithdrawnOK'
  <2>1. UNCHANGED <<item, wjob, tokens>> /\ wpc[w] = "post" /\ wjob[w] \in Item /\ gone \subseteq gone'
    BY <1>5, Jobs DEF Answer, Accepted, Gone, Failed, Running, disk
  <2>2. /\ \A v \in Worker : v # w => wpc'[v] = wpc[v]
        /\ \A j \in Item : j # wjob[w] => answer'[j] = answer[j]
    BY <1>5 DEF Answer, Accepted, Gone, Failed, TypeInv, TypeOK
  <2>3. \A v \in Worker : v # w /\ wpc[v] # "get" => wjob[v] \in Item /\ wjob[v] # wjob[w]
    BY <2>1, Jobs DEF PlaceInv, InOnePlace, HeldOnce, HeldBy
  <2>4. \/ wpc'[w] = "delete" /\ answer'[wjob[w]] = "ok"
        \/ wpc'[w] = "remove" /\ item[wjob[w]].token \in gone'
        \/ wpc'[w] = "requeue"
    BY <1>5, <2>1 DEF Answer, Accepted, Gone, Failed, TypeInv, TypeOK
  <2>5. QED  BY <2>1, <2>2, <2>3, <2>4, WithdrawnKept DEF WithdrawnOK
<1>6. ASSUME NEW w \in Worker, RemoveToken(w) PROVE WithdrawnOK'
  <2>1. UNCHANGED <<item, wjob, answer, gone>> /\ wpc[w] = "remove" /\ wjob[w] \in Item
    BY <1>6, Jobs DEF RemoveToken, Running, disk, upstream
  <2>2. wpc'[w] = "delete" /\ \A v \in Worker : v # w => wpc'[v] = wpc[v]
    BY <1>6 DEF RemoveToken, TypeInv, TypeOK
  <2>3. item[wjob[w]].addr \in Addr /\ item[wjob[w]].token \in gone
    BY <2>1 DEF PlaceInv, BackedByFile, Held, HeldBy, AddressOK, WithdrawnOK
  <2>4. /\ item[wjob[w]].token \notin tokens'[item[wjob[w]].addr]
        /\ \A a \in Addr : tokens'[a] \subseteq tokens[a]
    BY <1>6, <2>3 DEF RemoveToken, TypeInv, TypeOK
  <2>5. QED  BY <2>1, <2>2, <2>3, <2>4, WithdrawnKept DEF WithdrawnOK
<1>7. ASSUME NEW w \in Worker, Delete(w) \/ Requeue(w) PROVE WithdrawnOK'
  <2>1. UNCHANGED <<answer, tokens, gone>> /\ wpc[w] # "get" /\ wjob[w] \in Item
    BY <1>7, Jobs DEF Delete, Requeue, Running, upstream
  <2>2. /\ wpc'[w] = "get"
        /\ \A v \in Worker : v # w => wpc'[v] = wpc[v] /\ wjob'[v] = wjob[v]
    BY <1>7 DEF Delete, Requeue, NextJob, TypeInv, TypeOK
  <2>3. \A v \in Worker : v # w => ~HeldBy(wjob[w], v)
    BY <2>1 DEF PlaceInv, InOnePlace, HeldOnce, HeldBy
  <2>4. ASSUME NEW v \in Worker, v # w, wpc[v] # "get" PROVE item'[wjob[v]] = item[wjob[v]]
    <3>1. CASE Delete(w)
      <4>1. wjob[v] \in Item /\ wjob[v] # wjob[w]
        BY <2>3, <2>4, Jobs DEF HeldBy
      <4>2. \A j \in Item : j # wjob[w] => item'[j] = item[j]
        BY <3>1 DEF Delete, unlink, TypeInv, TypeOK
      <4>3. QED  BY <4>1, <4>2
    <3>2. CASE Requeue(w)
      BY <1>1, <2>1, <2>3, <2>4, <3>2, LaneNat DEF Requeue
    <3>3. QED  BY <1>7, <3>1, <3>2
  <2>5. QED  BY <2>1, <2>2, <2>4, WithdrawnKept DEF WithdrawnOK
<1>8. CASE Crash
  BY <1>8 DEF Crash, WithdrawnOK
<1>9. ASSUME NEW i \in Item, Visit(i) PROVE WithdrawnOK'
  <2>1. \A w \in Worker : wpc'[w] = "get"
    BY <1>9 DEF Visit, threads, PlaceInv, Phases, TypeInv, JobOK
  <2>2. QED  BY <2>1 DEF WithdrawnOK
<1>10. ASSUME NEW a \in Addr, NEW t \in Token, Register(a, t) PROVE WithdrawnOK'
  <2>1. UNCHANGED <<item, wpc, wjob, answer, gone>>
    BY <1>10 DEF Register, disk, threads, upstream
  <2>2. \A b \in Addr : tokens'[b] \cap gone \subseteq tokens[b]
    BY <1>10 DEF Register, TypeInv, TypeOK
  <2>3. QED  BY <2>1, <2>2, WithdrawnKept DEF WithdrawnOK
<1>11. CASE \/ Boot \/ Serve \/ Tick \/ UNCHANGED vars
            \/ \E c \in Conn : Rename(c) \/ CreateRaises(c) \/ \E a \in Addr : NewMessage(c, a)
  <2>1. UNCHANGED <<item, wpc, wjob, answer, tokens, gone>>
    BY <1>11 DEF Boot, Serve, Tick, vars, Rename, CreateRaises, NewMessage, disk, threads, upstream
  <2>2. QED  BY <2>1 DEF WithdrawnOK
<1>12. QED
  BY <1>2, <1>3, <1>4, <1>5, <1>6, <1>7, <1>8, <1>9, <1>10, <1>11
  DEF Next, HandlerStep, WorkerStep, StartStep

LEMMA TokenNext == Known /\ TokenInv /\ [Next]_vars => TokenInv'
BY TokenParts, AddressNext, WithdrawnNext DEF TokenInv, AddressOK, WithdrawnOK

LEMMA TokenInvariant == Spec => []TokenInv
BY TokenInit, TokenNext, KnownInvariant, PTL DEF Spec

\* Nobody forgets a notification whose token upstream withdrew before the
\* token is unregistered, unless the notification is late anyway.
THEOREM WithdrawnUnregistered == Spec => UnregisteredBeforeForgotten
<1>1. Known /\ TokenInv /\ [Next]_vars =>
        [\A i \in Item : file[i] = "item" /\ file'[i] = "none" /\ answer[i] = "gone" =>
          \/ item[i].token \notin tokens[item[i].addr]
          \/ now + compute_delay(fails[i]) > deadline(i)]_vars
  BY DropStep DEF Known, TokenInv, HeldBy
<1>2. QED
  BY <1>1, KnownInvariant, TokenInvariant, PTL DEF Spec, UnregisteredBeforeForgotten

-----------------------------------------------------------------------------
(* An attempt ends                                                           *)

\* The thread w has an attempt of i to make or to finish, and need not wait.
Holds(w, i, pc) ==
    /\ phase = "up" /\ wjob[w] = i /\ wpc[w] = pc
    /\ pc = "sleep" => now >= wake[w]

\* The outcomes: the file is gone, the notification is in the next lane, or its
\* thread or the process has died.
Ended(w, i) ==
    \/ file[i] = "none" \/ (retry_num[w] + 1 \in Lane /\ QueuedAt(i, retry_num[w] + 1))
    \/ wpc[w] = "dead" \/ phase # "up"

\* The steps of the thread
LEMMA AttemptAdvances ==
    ASSUME TypeInv, NEW w \in Worker, NEW i \in Item, WorkerStep(w) \/ RemoveTokenRaises(w)
    PROVE  /\ Holds(w, i, "sleep") => Holds(w, i, "post")'
           /\ Holds(w, i, "post") => Holds(w, i, "remove")' \/ Holds(w, i, "delete")' \/ Holds(w, i, "requeue")'
           /\ Holds(w, i, "remove") => Holds(w, i, "delete")' \/ Ended(w, i)'
           /\ Holds(w, i, "delete") \/ Holds(w, i, "requeue") => Ended(w, i)'
<1> USE DEF Holds, Running
<1>1. wpc \in [Worker -> {"get", "sleep", "post", "remove", "delete", "requeue", "dead"}]
  BY DEF TypeInv, TypeOK
<1>2. CASE Get(w)
  BY <1>2 DEF Get
<1>3. CASE Wake(w)
  BY <1>1, <1>3 DEF Wake
<1>4. CASE Accepted(w) \/ Gone(w) \/ Failed(w)
  BY <1>1, <1>4 DEF Accepted, Gone, Failed
<1>5. CASE RemoveToken(w) \/ RemoveTokenRaises(w)
  BY <1>1, <1>5 DEF RemoveToken, RemoveTokenRaises, Ended
<1>6. CASE Delete(w)
  <2>1. wjob[w] = i => file'[i] = "none"
    BY <1>6 DEF Delete, unlink, TypeInv, TypeOK
  <2>2. QED  BY <1>6, <2>1 DEF Delete, Ended
<1>7. CASE Requeue(w)
  <2>1. retry_num[w] + 1 \in 0..max_tries /\ retry_num[w] + 1 \in Nat
    BY LaneNat
  <2>2. wjob[w] = i => queue_for_retry(i, retry_num[w] + 1)
    BY <1>7 DEF Requeue
  <2>3. wjob[w] = i => file'[i] = "none" \/ (retry_num[w] + 1 \in Lane /\ QueuedAt(i, retry_num[w] + 1)')
    <3>1. CASE exceeded(i, retry_num[w] + 1)
      BY <2>2, <3>1 DEF queue_for_retry, unlink, TypeInv, TypeOK
    <3>2. CASE ~exceeded(i, retry_num[w] + 1)
      <4>1. retry_num[w] + 1 \in Lane
        BY <2>1, <3>2, LaneNat DEF exceeded, Lane
      <4>2. wjob[w] = i =>
              [when |-> now + compute_delay(retry_num[w] + 1), id |-> i] \in retry_queues'[retry_num[w] + 1]
        BY <2>2, <3>2, <4>1 DEF queue_for_retry, put, TypeInv, TypeOK
      <4>3. QED  BY <4>1, <4>2 DEF QueuedAt
    <3>3. QED  BY <3>1, <3>2
  <2>4. QED  BY <1>7, <2>3 DEF Requeue, Ended
<1>8. QED  BY <1>2, <1>3, <1>4, <1>5, <1>6, <1>7 DEF WorkerStep, Answer

\* Nobody else touches the attempt, but the process may die.
LEMMA AttemptStays ==
    ASSUME TypeInv, NEW w \in Worker, NEW i \in Item, NEW pc, Holds(w, i, pc), [Next]_vars,
           ~WorkerStep(w), ~RemoveTokenRaises(w)
    PROVE  Holds(w, i, pc)' \/ Ended(w, i)'
<1> DEFINE goal == Holds(w, i, pc)' \/ Ended(w, i)'
<1>1. now \in Nat /\ wake[w] \in Nat /\ phase = "up" /\ wjob[w] = i /\ wpc[w] = pc /\ (pc = "sleep" => now >= wake[w])
  BY DEF Holds, TypeInv, TypeOK
<1>2. CASE /\ phase' = "up" /\ wpc'[w] = wpc[w] /\ wjob'[w] = wjob[w] /\ wake'[w] = wake[w]
           /\ now' = now \/ now' = now + 1
  BY <1>1, <1>2 DEF Holds
<1>3. CASE phase' # "up"
  BY <1>3 DEF Ended
<1> HIDE DEF goal
<1>4. ASSUME NEW c \in Conn, (\E a \in Addr : NewMessage(c, a)) \/ HandlerStep(c) \/ CreateRaises(c)
      PROVE  goal
  BY <1>1, <1>2, <1>4 DEF goal, NewMessage, HandlerStep, WriteTmp, Rename, QueueFirst, CreateRaises, threads
<1>5. ASSUME NEW v \in Worker, v # w, WorkerStep(v) \/ RemoveTokenRaises(v)
      PROVE  goal
  <2>1. UNCHANGED <<phase, now>>
    BY <1>5 DEF WorkerStep, Answer, Get, Wake, Accepted, Gone, Failed, RemoveToken, RemoveTokenRaises, Delete, Requeue
  <2>2. wpc'[w] = wpc[w] /\ wjob'[w] = wjob[w] /\ wake'[w] = wake[w]
    BY <1>5 DEF WorkerStep, Answer, Get, Wake, Accepted, Gone, Failed, RemoveToken, RemoveTokenRaises, Delete,
                Requeue, NextJob, TypeInv, TypeOK
  <2>3. QED  BY <1>1, <1>2, <2>1, <2>2 DEF goal
<1>6. CASE Crash
  BY <1>3, <1>6 DEF goal, Crash
<1>7. ASSUME StartStep PROVE FALSE
  BY <1>1, <1>7 DEF StartStep, Boot, Visit, Serve
<1>8. CASE Tick
  BY <1>1, <1>2, <1>8 DEF goal, Tick, threads
<1>9. CASE (\E a \in Addr, t \in Token : Register(a, t)) \/ UNCHANGED vars
  BY <1>1, <1>2, <1>9 DEF goal, Register, vars, threads
<1>10. goal
  BY <1>4, <1>5, <1>6, <1>7, <1>8, <1>9 DEF Next, goal
<1>11. QED  BY <1>10 DEF goal

\* Fairness of the thread w, with the guards of these steps in the place of ENABLED
Able(w) ==
    /\ phase = "up"
    /\ wpc[w] \in {"post", "remove", "delete", "requeue"} \/ (wpc[w] = "sleep" /\ now >= wake[w])
Scheduled(w) == []<>~Able(w) \/ []<><<WorkerStep(w)>>_vars

\* An attempt whose time has come ends: the notification is deleted or dropped, or
\* it is in the next lane, unless its thread or the process dies.
THEOREM AttemptsEnd ==
    ASSUME NEW w \in Worker, NEW i \in Item
    PROVE  Spec /\ Scheduled(w) => (Holds(w, i, "sleep") \/ Holds(w, i, "post") ~> Ended(w, i))
<1> DEFINE Slept == Holds(w, i, "sleep")
           Post == Holds(w, i, "post")
           Remove == Holds(w, i, "remove")
           Last == Holds(w, i, "delete") \/ Holds(w, i, "requeue")
           Done == Ended(w, i)
           Ready == Able(w)
           Work == WorkerStep(w)
<1>1. Slept \/ Post \/ Remove \/ Last => Ready
  BY DEF Holds, Able
<1>2. /\ TypeInv /\ Slept /\ [Next]_vars => Slept' \/ Post' \/ Done'
      /\ TypeInv /\ Slept /\ <<Work>>_vars => Post'
  BY AttemptAdvances, AttemptStays
<1>3. /\ TypeInv /\ Post /\ [Next]_vars => Post' \/ Remove' \/ Last' \/ Done'
      /\ TypeInv /\ Post /\ <<Work>>_vars => Remove' \/ Last'
  BY AttemptAdvances, AttemptStays
<1>4. /\ TypeInv /\ Remove /\ [Next]_vars => Remove' \/ Last' \/ Done'
      /\ TypeInv /\ Remove /\ <<Work>>_vars => Last' \/ Done'
  BY AttemptAdvances, AttemptStays
<1>5. /\ TypeInv /\ Last /\ [Next]_vars => Last' \/ Done'
      /\ TypeInv /\ Last /\ <<Work>>_vars => Done'
  BY AttemptAdvances, AttemptStays
<1> HIDE DEF Slept, Post, Remove, Last, Done, Ready, Work
<1>6. Spec /\ ([]<>~Ready \/ []<><<Work>>_vars) => (Slept \/ Post ~> Done)
  BY <1>1, <1>2, <1>3, <1>4, <1>5, TypeInvariant, PTL DEF Spec
<1>7. QED  BY <1>6 DEF Slept, Post, Done, Ready, Work, Scheduled
=============================================================================
