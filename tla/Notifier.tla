------------------------------ MODULE Notifier ------------------------------
(***************************************************************************)
(* The push-notification machinery of chatmaild/notifier.py: one file per   *)
(* pending notification, one PriorityQueue ("lane") per number of failed    *)
(* attempts, NotifyThreads that take, sleep, POST, and either delete the    *)
(* file or move the notification to the next lane, and the requeueing of    *)
(* the files when the process starts again.                                 *)
(*                                                                          *)
(* Time is int(time.time()), one Tick per second.  The upstream server, the *)
(* clients that register tokens, crashes and the failures of the file       *)
(* system are the environment.                                              *)
(***************************************************************************)
EXTENDS Naturals, FiniteSets

CONSTANTS
    Item,           \* names of queue files, uuid4().hex in the code
    None,           \* no queue file, address or token
    Addr,           \* mailbox addresses
    Token,          \* device tokens
    Conn,           \* threads of the dict proxy, one per Dovecot connection
    Worker,         \* NotifyThreads
    retry_num,      \* retry_num[w]: the lane a NotifyThread serves
    BASE_DELAY,
    DROP_DEADLINE,
    LastArrival,    \* bound: no message arrives after this second
    MaxTime,        \* bound: the last second
    MaxCrashes,     \* bound: how often the process dies
    MaxFaults,      \* bound: how often an operation of a thread raises
    PowerLoss       \* whether a crash may leave queue files without content

compute_delay(k) == IF k = 0 THEN 0 ELSE BASE_DELAY^k

\* int(math.log(DROP_DEADLINE, BASE_DELAY)) + 1
max_tries == CHOOSE n \in 1..(DROP_DEADLINE + 1) :
                BASE_DELAY^(n-1) <= DROP_DEADLINE /\ DROP_DEADLINE < BASE_DELAY^n

Lane == 0..(max_tries - 1)

ASSUME ItemAssumption == None \notin Item \cup Addr \cup Token

ASSUME LaneAssumption == retry_num \in [Worker -> Lane]

ASSUME BoundAssumption ==
    /\ DROP_DEADLINE \in Nat /\ LastArrival \in Nat /\ MaxTime \in Nat
    /\ MaxCrashes \in Nat /\ MaxFaults \in Nat
    /\ PowerLoss \in BOOLEAN

\* What exponential back-off amounts to: a first attempt is not delayed, every
\* retry is, and a retry that has no lane would be scheduled past the deadline.
ASSUME DelayAssumption ==
    /\ max_tries \in Nat \ {0}
    /\ compute_delay(0) = 0
    /\ \A k \in 1..max_tries : compute_delay(k) \in Nat \ {0}
    /\ compute_delay(max_tries) > DROP_DEADLINE

VARIABLES
    phase,          \* of the process: "down", "boot" (requeueing) or "up"
    now,            \* int(time.time())
    file,           \* file[i]: the file i or i.tmp in queue_dir
    item,           \* item[i]: addr, token and start_ts in file i
    scan,           \* files requeue_persistent_queue_items still has to visit
    retry_queues,   \* retry_queues[k]: the entries of lane k
    wpc, wjob, wake,\* per NotifyThread: where it is, its item, and its when
    conn,           \* per connection: progress of new_message_for_addr
    tokens,         \* tokens[a]: the device tokens registered for a
    answer,         \* answer[i]: upstream's last answer to a POST of i
    fails,          \* fails[i]: POSTs of i that failed since the process started
    failed_at,      \* failed_at[i]: when the last of them failed
    gone,           \* tokens upstream has answered 410 for
    crashes, faults \* how many there have been

disk     == <<file, item>>
memory   == <<scan, retry_queues, conn>>
threads  == <<wpc, wjob, wake>>
upstream == <<answer, fails, failed_at, gone>>
env      == <<crashes, faults>>
vars     == <<phase, now, disk, memory, threads, tokens, upstream, env>>

Idle == [pc |-> "idle", id |-> None, addr |-> None, start |-> 0, todo |-> {}]

Blank == [addr |-> None, token |-> None, start |-> 0]

Entry == [when : Nat, id : Item]

TypeOK ==
    /\ phase \in {"down", "boot", "up"}
    /\ now \in Nat
    /\ file \in [Item -> {"none", "tmp", "item", "torn"}]
    /\ item \in [Item -> [addr : Addr \cup {None}, token : Token \cup {None}, start : Nat]]
    /\ scan \in SUBSET Item
    /\ retry_queues \in [Lane -> SUBSET Entry]
    /\ wpc \in [Worker -> {"get", "sleep", "post", "remove", "delete", "requeue", "dead"}]
    /\ wjob \in [Worker -> Item \cup {None}]
    /\ wake \in [Worker -> Nat]
    /\ conn \in [Conn -> [pc : {"idle", "loop", "tmp", "named"}, id : Item \cup {None},
                          addr : Addr \cup {None}, start : Nat, todo : SUBSET Token]]
    /\ tokens \in [Addr -> SUBSET Token]
    /\ answer \in [Item -> {"none", "ok", "gone", "fail"}]
    /\ fails \in [Item -> Nat]
    /\ failed_at \in [Item -> Nat]
    /\ gone \in SUBSET (Token \cup {None})
    /\ crashes \in Nat
    /\ faults \in Nat

Init ==
    /\ phase = "up"
    /\ now = 0
    /\ file = [i \in Item |-> "none"]
    /\ item = [i \in Item |-> Blank]
    /\ scan = {}
    /\ retry_queues = [k \in Lane |-> {}]
    /\ wpc = [w \in Worker |-> "get"]
    /\ wjob = [w \in Worker |-> None]
    /\ wake = [w \in Worker |-> 0]
    /\ conn = [c \in Conn |-> Idle]
    /\ tokens \in [Addr -> SUBSET Token]
    /\ answer = [i \in Item |-> "none"]
    /\ fails = [i \in Item |-> 0]
    /\ failed_at = [i \in Item |-> 0]
    /\ gone = {}
    /\ crashes = 0
    /\ faults = 0

-----------------------------------------------------------------------------
(* Notifier.queue_for_retry: schedule the item in lane k, or drop it.        *)

deadline(i) == item[i].start + DROP_DEADLINE

\* Variants named <operator>_<slip> are not part of the model: each is the
\* operator with a plausible mistake, kept to show which property catches it.
exceeded_NoDeadline(i, k) == k >= max_tries

exceeded_LaneShort(i, k) == k >= max_tries - 1 \/ now + compute_delay(k) > deadline(i)

exceeded(i, k) == k >= max_tries \/ now + compute_delay(k) > deadline(i)

put(i, k) == retry_queues' = [retry_queues EXCEPT ![k] =
                                  @ \cup {[when |-> now + compute_delay(k), id |-> i]}]

unlink(i) ==
    /\ file' = [file EXCEPT ![i] = "none"]
    /\ item' = [item EXCEPT ![i] = Blank]

queue_for_retry_NoReturn(i, k) ==
    \/ exceeded(i, k) /\ unlink(i) /\ put(i, k)
    \/ ~exceeded(i, k) /\ put(i, k) /\ UNCHANGED disk

queue_for_retry(i, k) ==
    \/ exceeded(i, k) /\ unlink(i) /\ UNCHANGED retry_queues
    \/ ~exceeded(i, k) /\ put(i, k) /\ UNCHANGED disk

-----------------------------------------------------------------------------
(* Notifier.new_message_for_addr, run by a connection when Dovecot sets      *)
(* priv/.../messagenew, and PersistentQueueItem.create within it.            *)

NewMessage(c, a) ==
    /\ phase = "up" /\ conn[c].pc = "idle" /\ now <= LastArrival
    /\ tokens[a] # {}
    /\ conn' = [conn EXCEPT ![c] = [pc |-> "loop", id |-> None, addr |-> a,
                                    start |-> now, todo |-> tokens[a]]]
    /\ UNCHANGED <<phase, now, disk, scan, retry_queues, threads, tokens, upstream, env>>

Goto(c, pc, id, todo) ==
    conn' = [conn EXCEPT ![c] = [pc |-> pc, id |-> id, addr |-> conn[c].addr,
                                 start |-> conn[c].start, todo |-> todo]]

WriteTmp(c, t, i) ==
    /\ phase = "up" /\ conn[c].pc = "loop" /\ t \in conn[c].todo
    /\ file[i] = "none"
    /\ file' = [file EXCEPT ![i] = "tmp"]
    /\ item' = [item EXCEPT ![i] = [addr |-> conn[c].addr, token |-> t, start |-> conn[c].start]]
    /\ Goto(c, "tmp", i, conn[c].todo \ {t})
    /\ answer' = [answer EXCEPT ![i] = "none"]
    /\ fails' = [fails EXCEPT ![i] = 0]
    /\ failed_at' = [failed_at EXCEPT ![i] = 0]
    /\ UNCHANGED <<phase, now, scan, retry_queues, threads, tokens, gone, env>>

Rename(c) ==
    /\ phase = "up" /\ conn[c].pc = "tmp"
    /\ file' = [file EXCEPT ![conn[c].id] = "item"]
    /\ Goto(c, "named", conn[c].id, conn[c].todo)
    /\ UNCHANGED <<phase, now, item, scan, retry_queues, threads, tokens, upstream, env>>

\* The loop goes on with the next token, or handle_set returns.
Proceed(c) ==
    \/ conn[c].todo = {} /\ conn' = [conn EXCEPT ![c] = Idle]
    \/ conn[c].todo # {} /\ Goto(c, "loop", None, conn[c].todo)

QueueFirst(c) ==
    /\ phase = "up" /\ conn[c].pc = "named"
    /\ queue_for_retry(conn[c].id, 0)
    /\ Proceed(c)
    /\ UNCHANGED <<phase, now, scan, threads, tokens, upstream, env>>

\* Writing or renaming raises: the proxy closes the connection, a .tmp file
\* stays behind and the tokens not yet reached are not notified.
CreateRaises(c) ==
    /\ phase = "up" /\ conn[c].pc \in {"loop", "tmp"} /\ faults < MaxFaults
    /\ faults' = faults + 1
    /\ conn' = [conn EXCEPT ![c] = Idle]
    /\ UNCHANGED <<phase, now, disk, scan, retry_queues, threads, tokens, upstream, crashes>>

-----------------------------------------------------------------------------
(* NotifyThread.retry_one and perform_request_to_notification_server.        *)

\* The order of PriorityQueue: by when, then by start_ts (__lt__).
precedes(e, f) == e.when < f.when \/ (e.when = f.when /\ item[e.id].start <= item[f.id].start)

Running(w, at) == phase = "up" /\ wpc[w] = at

\* Mutant: the notification stays in its lane.
Get_Peek(w) ==
    /\ Running(w, "get")
    /\ \E e \in retry_queues[retry_num[w]] :
         /\ \A f \in retry_queues[retry_num[w]] : precedes(e, f)
         /\ retry_queues' = [retry_queues EXCEPT ![retry_num[w]] = @]
         /\ wpc' = [wpc EXCEPT ![w] = "sleep"]
         /\ wjob' = [wjob EXCEPT ![w] = e.id]
         /\ wake' = [wake EXCEPT ![w] = e.when]
    /\ UNCHANGED <<phase, now, disk, scan, conn, tokens, upstream, env>>

Get(w) ==
    /\ Running(w, "get")
    /\ \E e \in retry_queues[retry_num[w]] :
         /\ \A f \in retry_queues[retry_num[w]] : precedes(e, f)
         /\ retry_queues' = [retry_queues EXCEPT ![retry_num[w]] = @ \ {e}]
         /\ wpc' = [wpc EXCEPT ![w] = "sleep"]
         /\ wjob' = [wjob EXCEPT ![w] = e.id]
         /\ wake' = [wake EXCEPT ![w] = e.when]
    /\ UNCHANGED <<phase, now, disk, scan, conn, tokens, upstream, env>>

\* sleep(when - int(time.time())) has returned, or was not needed.
Wake_NoSleep(w) ==
    /\ Running(w, "sleep")
    /\ wpc' = [wpc EXCEPT ![w] = "post"]
    /\ UNCHANGED <<phase, now, disk, memory, wjob, wake, tokens, upstream, env>>

Wake(w) ==
    /\ Running(w, "sleep") /\ now >= wake[w]
    /\ wpc' = [wpc EXCEPT ![w] = "post"]
    /\ UNCHANGED <<phase, now, disk, memory, wjob, wake, tokens, upstream, env>>

Accepted(w) ==
    /\ Running(w, "post")
    /\ wpc' = [wpc EXCEPT ![w] = "delete"]
    /\ answer' = [answer EXCEPT ![wjob[w]] = "ok"]
    /\ UNCHANGED <<phase, now, disk, memory, wjob, wake, tokens, fails, failed_at, gone, env>>

Gone_DeletesFirst(w) ==
    /\ Running(w, "post")
    /\ wpc' = [wpc EXCEPT ![w] = "delete"]
    /\ answer' = [answer EXCEPT ![wjob[w]] = "gone"]
    /\ gone' = gone \cup {item[wjob[w]].token}
    /\ UNCHANGED <<phase, now, disk, memory, wjob, wake, tokens, fails, failed_at, env>>

Gone(w) ==
    /\ Running(w, "post")
    /\ wpc' = [wpc EXCEPT ![w] = "remove"]
    /\ answer' = [answer EXCEPT ![wjob[w]] = "gone"]
    /\ gone' = gone \cup {item[wjob[w]].token}
    /\ UNCHANGED <<phase, now, disk, memory, wjob, wake, tokens, fails, failed_at, env>>

\* Another status, no connection, or no answer within CONNECTION_TIMEOUT.
Failed(w) ==
    /\ Running(w, "post")
    /\ wpc' = [wpc EXCEPT ![w] = "requeue"]
    /\ answer' = [answer EXCEPT ![wjob[w]] = "fail"]
    /\ fails' = [fails EXCEPT ![wjob[w]] = @ + 1]
    /\ failed_at' = [failed_at EXCEPT ![wjob[w]] = now]
    /\ UNCHANGED <<phase, now, disk, memory, wjob, wake, tokens, gone, env>>

RemoveToken(w) ==
    /\ Running(w, "remove")
    /\ wpc' = [wpc EXCEPT ![w] = "delete"]
    /\ tokens' = [tokens EXCEPT ![item[wjob[w]].addr] = @ \ {item[wjob[w]].token}]
    /\ UNCHANGED <<phase, now, disk, memory, wjob, wake, upstream, env>>

\* remove_token_from_addr raises: run() has no handler and the thread ends
\* with its item in hand.
RemoveTokenRaises(w) ==
    /\ Running(w, "remove") /\ faults < MaxFaults
    /\ faults' = faults + 1
    /\ wpc' = [wpc EXCEPT ![w] = "dead"]
    /\ UNCHANGED <<phase, now, disk, memory, wjob, wake, tokens, upstream, crashes>>

\* The thread has dealt with its item and goes back to get().
NextJob(w) ==
    /\ wpc' = [wpc EXCEPT ![w] = "get"]
    /\ wjob' = [wjob EXCEPT ![w] = None]
    /\ wake' = [wake EXCEPT ![w] = 0]

Delete(w) ==
    /\ Running(w, "delete")
    /\ unlink(wjob[w])
    /\ NextJob(w)
    /\ UNCHANGED <<phase, now, memory, tokens, upstream, env>>

Requeue(w) ==
    /\ Running(w, "requeue")
    /\ queue_for_retry(wjob[w], retry_num[w] + 1)
    /\ NextJob(w)
    /\ UNCHANGED <<phase, now, scan, conn, tokens, upstream, env>>

-----------------------------------------------------------------------------
(* Death of the process and main(): requeue, then threads, then the socket.  *)

Crash ==
    /\ phase # "down" /\ crashes < MaxCrashes
    /\ crashes' = crashes + 1
    /\ phase' = "down"
    /\ scan' = {}
    /\ retry_queues' = [k \in Lane |-> {}]
    /\ wpc' = [w \in Worker |-> "get"]
    /\ wjob' = [w \in Worker |-> None]
    /\ wake' = [w \in Worker |-> 0]
    /\ conn' = [c \in Conn |-> Idle]
    /\ fails' = [i \in Item |-> 0]
    /\ failed_at' = [i \in Item |-> 0]
    /\ \E lost \in SUBSET {i \in Item : PowerLoss /\ file[i] = "item"} :
         file' = [i \in Item |-> IF i \in lost THEN "torn" ELSE file[i]]
    /\ UNCHANGED <<now, item, tokens, answer, gone, faults>>

Boot_NoRequeue ==
    /\ phase = "down"
    /\ phase' = "boot"
    /\ scan' = {}
    /\ UNCHANGED <<now, disk, retry_queues, conn, threads, tokens, upstream, env>>

Boot ==
    /\ phase = "down"
    /\ phase' = "boot"
    /\ scan' = {i \in Item : file[i] # "none"}
    /\ UNCHANGED <<now, disk, retry_queues, conn, threads, tokens, upstream, env>>

\* The entry of the scan is read but not put into a lane.
Visit_Skips(i) ==
    /\ phase = "boot" /\ i \in scan
    /\ scan' = scan \ {i}
    /\ \/ file[i] = "item" /\ UNCHANGED <<disk, retry_queues>>
       \/ file[i] # "item" /\ unlink(i) /\ UNCHANGED retry_queues
    /\ UNCHANGED <<phase, now, conn, threads, tokens, upstream, env>>

\* One turn of the loop of requeue_persistent_queue_items.
Visit(i) ==
    /\ phase = "boot" /\ i \in scan
    /\ scan' = scan \ {i}
    /\ \/ file[i] = "item" /\ queue_for_retry(i, 0)
       \/ file[i] # "item" /\ unlink(i) /\ UNCHANGED retry_queues
    /\ UNCHANGED <<phase, now, conn, threads, tokens, upstream, env>>

Serve ==
    /\ phase = "boot" /\ scan = {}
    /\ phase' = "up"
    /\ UNCHANGED <<now, disk, memory, threads, tokens, upstream, env>>

-----------------------------------------------------------------------------
(* The environment: time, and clients registering tokens (a device whose     *)
(* token upstream has withdrawn registers a new one).                        *)

Tick ==
    /\ now < MaxTime
    /\ now' = now + 1
    /\ UNCHANGED <<phase, disk, memory, threads, tokens, upstream, env>>

Register(a, t) ==
    /\ phase = "up" /\ t \notin tokens[a] \cup gone
    /\ tokens' = [tokens EXCEPT ![a] = @ \cup {t}]
    /\ UNCHANGED <<phase, now, disk, memory, threads, upstream, env>>

-----------------------------------------------------------------------------
HandlerStep(c) ==
    \/ \E t \in Token, i \in Item : WriteTmp(c, t, i)
    \/ Rename(c)
    \/ QueueFirst(c)

Answer(w) == Accepted(w) \/ Gone(w) \/ Failed(w)

WorkerStep(w) ==
    \/ Get(w) \/ Wake(w) \/ Answer(w)
    \/ RemoveToken(w) \/ Delete(w) \/ Requeue(w)

StartStep == Boot \/ (\E i \in Item : Visit(i)) \/ Serve

Next ==
    \/ \E c \in Conn : \/ \E a \in Addr : NewMessage(c, a)
                       \/ HandlerStep(c)
                       \/ CreateRaises(c)
    \/ \E w \in Worker : WorkerStep(w) \/ RemoveTokenRaises(w)
    \/ Crash
    \/ StartStep
    \/ Tick
    \/ \E a \in Addr, t \in Token : Register(a, t)

Spec == Init /\ [][Next]_vars

\* Threads are scheduled, a POST ends by its timeout at the latest, systemd
\* starts the service again (Restart=always), and time passes.
Fairness ==
    /\ \A c \in Conn : WF_vars(HandlerStep(c))
    /\ \A w \in Worker : WF_vars(WorkerStep(w))
    /\ WF_vars(StartStep)
    /\ WF_vars(Tick)

FairSpec == Spec /\ Fairness

-----------------------------------------------------------------------------
(* Properties *)

\* The items a lane, a thread or a connection knows of.
QueuedAt(i, k) == \E e \in retry_queues[k] : e.id = i
Queued(i)  == \E k \in Lane : QueuedAt(i, k)
HeldBy(i, w) == wjob[w] = i
Held(i)    == \E w \in Worker : HeldBy(i, w)
CreatedBy(i, c) == conn[c].id = i
Creating(i) == \E c \in Conn : CreatedBy(i, c)

\* No notification is forgotten: while the process runs, every notification
\* on disk is in a lane, in a thread's hands or being created, or is still to
\* be visited by the start-up scan.  (queue_for_retry, retry_one and the
\* order of start-up in main.)
NothingForgotten ==
    phase # "down" =>
      \A i \in Item : file[i] = "item" => Queued(i) \/ Held(i) \/ Creating(i) \/ i \in scan

QueuedOnce ==
    \A k, l \in Lane : \A e \in retry_queues[k], f \in retry_queues[l] :
        e.id = f.id => k = l /\ e = f

HeldOnce == \A i \in Item, v, w \in Worker : HeldBy(i, v) /\ HeldBy(i, w) => v = w

CreatedOnce == \A i \in Item, c, d \in Conn : CreatedBy(i, c) /\ CreatedBy(i, d) => c = d

OneHolder ==
    \A i \in Item : /\ ~(Queued(i) /\ Held(i))
                    /\ ~(Queued(i) /\ Creating(i))
                    /\ ~(Held(i) /\ Creating(i))

\* No notification is in two places, so that two threads never send it at the
\* same time and none outlives the deletion of its file.
InOnePlace == QueuedOnce /\ HeldOnce /\ CreatedOnce /\ OneHolder

\* Whatever is queued or in a thread's hands is still on disk, complete: a
\* crash at any moment loses no notification that is still to be sent.
BackedByFile == \A i \in Item : Queued(i) \/ Held(i) => file[i] = "item"

\* The lane of a notification is the number of attempts that failed since the
\* process started, and no attempt starts before the delay of its lane has
\* passed since the last failure (exponential back-off, docstring of notifier.py).
BackoffRespected ==
    \A w \in Worker : wpc[w] = "post" =>
      /\ fails[wjob[w]] = retry_num[w]
      /\ fails[wjob[w]] > 0 =>
           now >= failed_at[wjob[w]] + compute_delay(fails[wjob[w]])

\* Nothing is scheduled past its deadline (docstring of notifier.py).
ScheduledInTime ==
    \A k \in Lane : \A e \in retry_queues[k] : e.when <= deadline(e.id)

\* The file of a notification is removed only when upstream accepted it or
\* withdrew its token, or when its next attempt would be past the deadline:
\* running out of lanes never drops a notification early.
NoSilentLoss ==
    [][\A i \in Item : file[i] = "item" /\ file'[i] = "none" =>
          \/ answer[i] \in {"ok", "gone"}
          \/ now + compute_delay(fails[i]) > deadline(i)]_vars

\* When upstream withdraws a token, the notification is forgotten only after
\* the token has been unregistered: a crash in between is made up for at the
\* next start.
UnregisteredBeforeForgotten ==
    [][\A i \in Item :
          file[i] = "item" /\ file'[i] = "none" /\ answer[i] = "gone"
          => \/ item[i].token \notin tokens[item[i].addr]
             \/ now + compute_delay(fails[i]) > deadline(i)]_vars

\* The strengthening that makes the properties above inductive: what a
\* connection is creating, what exists in which phase of the process,
CreatedFile ==
    \A i \in Item, c \in Conn : CreatedBy(i, c) =>
        file[i] = IF conn[c].pc = "tmp" THEN "tmp" ELSE "item"

Phases ==
    /\ phase # "boot" => scan = {}
    /\ \A i \in scan : file[i] # "none" /\ ~Queued(i)
    /\ phase # "up" => /\ \A w \in Worker : wjob[w] = None
                       /\ \A c \in Conn : conn[c].pc = "idle" /\ conn[c].id = None
    /\ phase = "down" => \A k \in Lane : retry_queues[k] = {}

\* and how the history of a notification shows in the place it is in.
StartedBefore ==
    /\ \A i \in Item : item[i].start <= now
    /\ \A c \in Conn : conn[c].start <= now

LaneIsFails ==
    /\ \A k \in Lane : \A e \in retry_queues[k] : fails[e.id] = k
    /\ \A w \in Worker :
         /\ wpc[w] \notin {"get", "requeue"} => fails[wjob[w]] = retry_num[w]
         /\ wpc[w] = "requeue" => fails[wjob[w]] = retry_num[w] + 1
         /\ wpc[w] \in {"remove", "dead"} => answer[wjob[w]] = "gone"
         /\ wpc[w] = "delete" => answer[wjob[w]] \in {"ok", "gone"}
    /\ \A i \in Item : i \in scan \/ Creating(i) => fails[i] = 0
    /\ phase = "down" => \A i \in Item : fails[i] = 0

\* A retry keeps its distance from the last failure, in its lane, while the
\* thread sleeps and after that.
WaitInv ==
    /\ \A i \in Item : failed_at[i] <= now
    /\ \A k \in Lane : \A e \in retry_queues[k] : k > 0 => e.when >= failed_at[e.id] + compute_delay(k)
    /\ \A w \in Worker : retry_num[w] > 0 =>
         /\ wpc[w] = "sleep" => wake[w] >= failed_at[wjob[w]] + compute_delay(retry_num[w])
         /\ wpc[w] = "post" => now >= failed_at[wjob[w]] + compute_delay(retry_num[w])

\* A token that upstream withdrew is unregistered between the answer and the
\* deletion, and no client registers it again.
TokenInv ==
    /\ \A c \in Conn : conn[c].pc # "idle" => conn[c].addr \in Addr
    /\ \A i \in Item : file[i] \in {"tmp", "item"} => item[i].addr \in Addr
    /\ \A w \in Worker :
         /\ wpc[w] = "remove" => item[wjob[w]].token \in gone
         /\ wpc[w] = "delete" /\ answer[wjob[w]] = "gone" =>
              /\ item[wjob[w]].token \in gone
              /\ item[wjob[w]].token \notin tokens[item[wjob[w]].addr]

PlaceInv == InOnePlace /\ BackedByFile /\ CreatedFile /\ Phases /\ NothingForgotten

HistoryInv == StartedBefore /\ ScheduledInTime /\ LaneIsFails

\* Every notification is eventually delivered, withdrawn or dropped, crashes
\* notwithstanding.
EventuallyResolved == \A i \in Item : file[i] = "item" ~> file[i] = "none"
=============================================================================
