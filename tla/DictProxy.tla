----------------------------- MODULE DictProxy -----------------------------
(***************************************************************************)
(* The server side of Dovecot's dict protocol (dictproxy.py) as doveauth,   *)
(* chatmail-metadata and chatmail-lastlogin run it: a thread per connection *)
(* reads one line after the other, and a transaction is a B, any number of  *)
(* S and a C with the same id.  Dovecot sends without waiting, and uses the *)
(* same ids on all its connections.                                         *)
(***************************************************************************)
EXTENDS Integers, Sequences, FiniteSetsExt

CONSTANTS
    Conn, Id, Addr, None,
    Command,        \* bound: the commands that Dovecot sends
    MaxLines        \* bound: how many lines it sends

ASSUME LineAssumption ==
    /\ Command \subseteq {"B", "S", "C", "L", "I", "H", "R"}
    /\ MaxLines \in Nat
    /\ None \notin Addr \cup Id

VARIABLES
    service,        \* which of the three programs this is
    stream,         \* stream[c]: "open" and "eof" (Dovecot has closed it) have a thread
    asked,          \* asked[c]: the lines that Dovecot has sent on c
    done,           \* done[c]: how many of them loop_forever is through with
    call,           \* call[c]: the address with which handle_set was called, or None
    transactions,   \* transactions[c]: address and result per id, local to the loop
    outcome,        \* outcome[c]: what handle_set returned, for each line done
    replies,        \* replies[c]: what Dovecot gets
    lines           \* lines sent so far, on all connections

vars == <<service, stream, asked, done, call, transactions, outcome, replies, lines>>

\* A key the program serves, one it does not serve, one it cannot parse.
Key == {"known", "other", "malformed"}

Line ==
    LET line(cmds, ids, addrs, keys) ==
            [cmd : Command \cap cmds, id : ids, addr : addrs, key : keys]
    IN  line({"B"}, Id, Addr, {"known"}) \cup line({"S"}, Id, {None}, Key)
        \cup line({"C"}, Id, {None}, {"known"}) \cup line({"L", "I"}, {None}, {None}, Key)
        \cup line({"H", "R"}, {None}, {None}, {"known"})

Transaction == [addr : Addr, res : {"O", "F"}]
NoTransactions == [i \in Id |-> None]

TypeOK ==
    /\ service \in {"auth", "metadata", "lastlogin"}
    /\ stream \in [Conn -> {"closed", "open", "eof"}]
    /\ call \in [Conn -> Addr \cup {None}]
    /\ transactions \in [Conn -> [Id -> Transaction \cup {None}]]
    /\ \A c \in Conn :
         /\ asked[c] \in Seq(Line)
         /\ done[c] \in 0..Len(asked[c])
         /\ outcome[c] \in Seq({"none", "ok", "failed"}) /\ Len(outcome[c]) = done[c]
         /\ replies[c] \in Seq({"O", "F", "lookup", "iterate"})
         /\ call[c] # None => done[c] < Len(asked[c])
         /\ stream[c] = "closed" => asked[c] = <<>> /\ transactions[c] = NoTransactions
    /\ lines \in 0..MaxLines

Init ==
    /\ service \in {"auth", "metadata", "lastlogin"}
    /\ stream = [c \in Conn |-> "closed"]
    /\ asked = [c \in Conn |-> <<>>]
    /\ done = [c \in Conn |-> 0]
    /\ call = [c \in Conn |-> None]
    /\ transactions = [c \in Conn |-> NoTransactions]
    /\ outcome = [c \in Conn |-> <<>>]
    /\ replies = [c \in Conn |-> <<>>]
    /\ lines = 0

-----------------------------------------------------------------------------
(* Dovecot                                                                   *)

Connect(c) ==
    /\ stream[c] = "closed" /\ lines < MaxLines
    /\ stream' = [stream EXCEPT ![c] = "open"]
    /\ UNCHANGED <<service, asked, done, call, transactions, outcome, replies, lines>>

Send(c, line) ==
    /\ stream[c] = "open" /\ lines < MaxLines
    /\ lines' = lines + 1
    /\ asked' = [asked EXCEPT ![c] = Append(@, line)]
    /\ UNCHANGED <<service, stream, done, call, transactions, outcome, replies>>

Hangup(c) ==
    /\ stream[c] = "open"
    /\ stream' = [stream EXCEPT ![c] = "eof"]
    /\ UNCHANGED <<service, asked, done, call, transactions, outcome, replies, lines>>

-----------------------------------------------------------------------------
(* loop_forever and handle_dovecot_request                                   *)

\* The line at which the thread of c is.
current(c) == asked[c][done[c] + 1]

reads(c, cmds) ==
    /\ stream[c] # "closed" /\ call[c] = None
    /\ done[c] < Len(asked[c]) /\ current(c).cmd \in cmds

\* The line is done; reply is empty or the one that goes back.
Handled(c, out, reply) ==
    /\ done' = [done EXCEPT ![c] = @ + 1]
    /\ outcome' = [outcome EXCEPT ![c] = Append(@, out)]
    /\ replies' = [replies EXCEPT ![c] = @ \o reply]
    /\ UNCHANGED <<service, stream, asked, lines>>

\* Mutant: the transactions outlive the connection, for the next one on this socket.
Close_Keeps(c) ==
    /\ stream' = [stream EXCEPT ![c] = "closed"]
    /\ asked' = [asked EXCEPT ![c] = <<>>]
    /\ done' = [done EXCEPT ![c] = 0]
    /\ call' = [call EXCEPT ![c] = None]
    /\ outcome' = [outcome EXCEPT ![c] = <<>>]
    /\ replies' = [replies EXCEPT ![c] = <<>>]
    /\ UNCHANGED <<service, transactions, lines>>

\* The loop ends, the connection is closed and its transactions are forgotten.
Close(c) ==
    /\ stream' = [stream EXCEPT ![c] = "closed"]
    /\ asked' = [asked EXCEPT ![c] = <<>>]
    /\ done' = [done EXCEPT ![c] = 0]
    /\ call' = [call EXCEPT ![c] = None]
    /\ transactions' = [transactions EXCEPT ![c] = NoTransactions]
    /\ outcome' = [outcome EXCEPT ![c] = <<>>]
    /\ replies' = [replies EXCEPT ![c] = <<>>]
    /\ UNCHANGED <<service, lines>>

\* What handle_set returns; "raise" stands for the connection that it ends.
handle_set(key) ==
    IF service = "auth" THEN {"failed"}
    ELSE CASE key = "known"     -> {"ok", "raise"}
           [] key = "other"     -> {"failed"}
           [] key = "malformed" -> {"raise"}

handle_lookup(key) ==
    IF service = "lastlogin" THEN {"reply"}
    ELSE CASE key = "known"     -> {"reply", "raise"}
           [] key = "other"     -> {"reply"}
           [] key = "malformed" -> {"raise"}

\* doveauth lists its users, and returns nothing for another prefix.
handle_iterate(key) ==
    IF service # "auth" THEN {"reply"}
    ELSE CASE key = "known"     -> {"reply", "raise"}
           [] key = "other"     -> {"silent"}
           [] key = "malformed" -> {"raise"}

Lookup(c) ==
    /\ reads(c, {"L"})
    /\ "reply" \in handle_lookup(current(c).key)
    /\ Handled(c, "none", <<"lookup">>)
    /\ UNCHANGED <<call, transactions>>

Iterate(c) ==
    /\ reads(c, {"I"})
    /\ \/ "reply" \in handle_iterate(current(c).key) /\ Handled(c, "none", <<"iterate">>)
       \/ "silent" \in handle_iterate(current(c).key) /\ Handled(c, "none", <<>>)
    /\ UNCHANGED <<call, transactions>>

\* Hello, and commands that dictproxy does not know, such as a rollback.
Ignore(c) ==
    /\ reads(c, {"H", "R"})
    /\ Handled(c, "none", <<>>)
    /\ UNCHANGED <<call, transactions>>

\* Mutant: all connections share their transactions.
handle_begin_transaction_Shared(c) ==
    /\ reads(c, {"B"})
    /\ transactions' = [d \in Conn |-> IF stream[d] = "closed" THEN transactions[d]
                           ELSE [transactions[d] EXCEPT ![current(c).id] =
                                   [addr |-> current(c).addr, res |-> "O"]]]
    /\ Handled(c, "none", <<>>)
    /\ UNCHANGED call

handle_begin_transaction(c) ==
    /\ reads(c, {"B"})
    /\ transactions' = [transactions EXCEPT ![c][current(c).id] =
                           [addr |-> current(c).addr, res |-> "O"]]
    /\ Handled(c, "none", <<>>)
    /\ UNCHANGED call

\* handle_set runs, and other connections go on meanwhile.
CallSet(c) ==
    /\ reads(c, {"S"}) /\ transactions[c][current(c).id] # None
    /\ call' = [call EXCEPT ![c] = transactions[c][current(c).id].addr]
    /\ UNCHANGED <<service, stream, asked, done, transactions, outcome, replies, lines>>

SetDone(c) ==
    /\ call[c] # None /\ "ok" \in handle_set(current(c).key)
    /\ call' = [call EXCEPT ![c] = None]
    /\ Handled(c, "ok", <<>>)
    /\ UNCHANGED transactions

\* Mutant: a set that failed is only logged.
SetFailed_Logs(c) ==
    /\ call[c] # None /\ "failed" \in handle_set(current(c).key)
    /\ call' = [call EXCEPT ![c] = None]
    /\ Handled(c, "failed", <<>>)
    /\ UNCHANGED transactions

SetFailed(c) ==
    /\ call[c] # None /\ "failed" \in handle_set(current(c).key)
    /\ call' = [call EXCEPT ![c] = None]
    /\ transactions' = [transactions EXCEPT ![c][current(c).id].res = "F"]
    /\ Handled(c, "failed", <<>>)

\* Mutant: the transaction stays, to be committed again.
handle_commit_transaction_Gets(c) ==
    /\ reads(c, {"C"}) /\ transactions[c][current(c).id] # None
    /\ Handled(c, "none", <<transactions[c][current(c).id].res>>)
    /\ UNCHANGED <<call, transactions>>

handle_commit_transaction(c) ==
    /\ reads(c, {"C"}) /\ transactions[c][current(c).id] # None
    /\ transactions' = [transactions EXCEPT ![c][current(c).id] = None]
    /\ Handled(c, "none", <<transactions[c][current(c).id].res>>)
    /\ UNCHANGED call

\* A KeyError for an unknown id, an exception of the handler, or a reply that
\* cannot be written to a connection that Dovecot has closed.
Raise(c) ==
    /\ \/ reads(c, {"S", "C"}) /\ transactions[c][current(c).id] = None
       \/ call[c] # None /\ "raise" \in handle_set(current(c).key)
       \/ reads(c, {"L"}) /\ "raise" \in handle_lookup(current(c).key)
       \/ reads(c, {"I"}) /\ "raise" \in handle_iterate(current(c).key)
       \/ reads(c, {"L", "I", "C"}) /\ stream[c] = "eof"
    /\ Close(c)

\* Mutant: the loop goes on reading at the end of the stream.
EndOfStream_Loops(c) ==
    /\ stream[c] = "eof" /\ call[c] = None /\ done[c] = Len(asked[c])
    /\ UNCHANGED vars

EndOfStream(c) ==
    /\ stream[c] = "eof" /\ call[c] = None /\ done[c] = Len(asked[c])
    /\ Close(c)

-----------------------------------------------------------------------------
Serve(c) ==
    \/ Lookup(c) \/ Iterate(c) \/ Ignore(c)
    \/ handle_begin_transaction(c) \/ CallSet(c) \/ SetDone(c) \/ SetFailed(c)
    \/ handle_commit_transaction(c)
    \/ Raise(c) \/ EndOfStream(c)

Next ==
    \E c \in Conn :
      \/ Connect(c) \/ Hangup(c) \/ (\E line \in Line : Send(c, line))
      \/ Serve(c)

Spec == Init /\ [][Next]_vars

-----------------------------------------------------------------------------
(* Properties.  They read the lines sent and the outcomes of handle_set, not  *)
(* the dict of transactions.                                                  *)

\* The last line before the i-th with this command and the id of the i-th; 0 if none.
latest(c, cmd, i) ==
    Max({0} \cup {j \in 1..(i - 1) : asked[c][j].cmd = cmd /\ asked[c][j].id = asked[c][i].id})

\* "O" if no set of the transaction that the i-th line commits has failed.
committed(c, i) ==
    IF \E j \in latest(c, "B", i)..(i - 1) :
         j > 0 /\ asked[c][j].id = asked[c][i].id /\ outcome[c][j] = "failed"
    THEN "F" ELSE "O"

answer(c, i) ==
    CASE asked[c][i].cmd = "C" -> committed(c, i)
      [] asked[c][i].cmd = "L" -> "lookup"
      [] asked[c][i].cmd = "I" -> "iterate"

\* The lines that were handled and have a reply: doveauth leaves an iteration
\* over another prefix than shared/userdb/ without one.
answered(c) == {i \in 1..done[c] : \/ asked[c][i].cmd \in {"L", "C"}
                                   \/ /\ asked[c][i].cmd = "I"
                                      /\ ~(service = "auth" /\ asked[c][i].key = "other")}

\* handle_set is given the address that this connection named in the last B
\* with this id, however connections reuse ids (comment in dictproxy.py:8-11).
RightAddress ==
    \A c \in Conn : call[c] # None =>
      LET b == latest(c, "B", done[c] + 1) IN b > 0 /\ asked[c][b].addr = call[c]

\* Replies come in the order of the requests, none is missing or doubled, and a
\* commit is answered with O only if all sets since the last begin with its id
\* have succeeded.
RepliesTruthful ==
    \A c \in Conn :
      /\ Len(replies[c]) = Cardinality(answered(c))
      /\ \A i \in answered(c) : replies[c][Cardinality(answered(c) \cap 1..i)] = answer(c, i)

\* A transaction is committed once: no commit is answered without a begin
\* after the last commit with its id.
CommittedOnce ==
    \A c \in Conn : \A i \in 1..done[c] :
      asked[c][i].cmd = "C" => latest(c, "B", i) > latest(c, "C", i)

\* A connection that Dovecot has closed does not keep its thread: whatever
\* has been sent before, a step of the thread is left until it ends.
ThreadEnds == \A c \in Conn : stream[c] = "eof" => ENABLED <<Serve(c)>>_vars
=============================================================================
