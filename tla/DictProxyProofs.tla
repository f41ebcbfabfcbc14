-------------------------- MODULE DictProxyProofs --------------------------
(* Proofs about DictProxy for any number of connections, ids, addresses and   *)
(* lines.                                                                     *)
EXTENDS DictProxy, FiniteSetTheorems, WellFoundedInduction, TLAPS

-----------------------------------------------------------------------------
(* The largest number of a set, which latest takes                            *)

LEMMA LeastNumber ==
    ASSUME NEW S \in SUBSET Nat, S # {}
    PROVE  \E n \in S : \A m \in S : n <= m
<1> DEFINE R == OpToRel(<, Nat)
<1>1. \E n \in S : \A m \in S : ~(<<m, n>> \in R)
  <2>1. IsWellFoundedOn(R, Nat)
    BY NatLessThanWellFounded
  <2> HIDE DEF R
  <2>2. S \subseteq Nat
    OBVIOUS
  <2>3. QED  BY <2>1, <2>2, WFMin
<1>2. PICK n \in S : \A m \in S : ~(<<m, n>> \in R)
  BY <1>1
<1>3. \A m \in S : <<m, n>> \in R <=> m < n
  BY DEF OpToRel
<1> HIDE DEF R
<1>4. \A m \in S : ~(m < n)
  BY <1>2, <1>3
<1>5. QED  BY <1>4

LEMMA MaxOfBounded ==
    ASSUME NEW S \in SUBSET Nat, S # {}, NEW n \in Nat, \A y \in S : y <= n
    PROVE  Max(S) \in S /\ \A y \in S : y <= Max(S)
<1> DEFINE U == {m \in Nat : \A y \in S : y <= m}
<1>1. PICK m \in U : \A k \in U : m <= k
  <2>1. U \in SUBSET Nat /\ n \in U
    OBVIOUS
  <2>2. QED  BY <2>1, LeastNumber
<1>2. m \in S
  <2>1. SUFFICES ASSUME m \notin S PROVE FALSE
    OBVIOUS
  <2>2. m \in Nat /\ \A y \in S : y \in Nat /\ y <= m - 1
    BY <1>1, <2>1
  <2>3. m - 1 \in Nat
    <3>1. PICK y \in S : TRUE
      OBVIOUS
    <3>2. QED  BY <2>2, <3>1
  <2>4. m - 1 \in U
    BY <2>2, <2>3
  <2>5. QED  BY <1>1, <2>2, <2>4
<1>3. \A y \in S : m >= y
  BY <1>1
<1>4. QED  BY <1>2, <1>3 DEF Max

\* latest is 0 or a line before the i-th, with the command and the id, and the
\* last one of these.
LEMMA LatestIs ==
    ASSUME NEW c \in Conn, NEW cmd, NEW i \in Nat
    PROVE  /\ latest(c, cmd, i) \in 0..(i - 1) \cup {0}
           /\ latest(c, cmd, i) # 0 => /\ asked[c][latest(c, cmd, i)].cmd = cmd
                                       /\ asked[c][latest(c, cmd, i)].id = asked[c][i].id
           /\ \A j \in 1..(i - 1) : asked[c][j].cmd = cmd /\ asked[c][j].id = asked[c][i].id
                                      => j <= latest(c, cmd, i)
<1> DEFINE S == {0} \cup {j \in 1..(i - 1) : asked[c][j].cmd = cmd /\ asked[c][j].id = asked[c][i].id}
<1>1. Max(S) \in S /\ \A y \in S : y <= Max(S)
  <2>1. S \in SUBSET Nat /\ S # {} /\ \A y \in S : y <= i
    OBVIOUS
  <2> HIDE DEF S
  <2>2. QED  BY <2>1, MaxOfBounded
<1>2. latest(c, cmd, i) = Max(S)
  BY DEF latest
<1> DEFINE m == Max(S)
<1>3. m \in S /\ \A y \in S : y <= m
  BY <1>1
<1> HIDE DEF m
<1>4. latest(c, cmd, i) = m
  BY <1>2 DEF m
<1>5. QED  BY <1>3, <1>4

-----------------------------------------------------------------------------
(* The inductive invariants, each said of a connection                        *)

Typed ==
    /\ service \in {"auth", "metadata", "lastlogin"}
    /\ stream \in [Conn -> {"closed", "open", "eof"}]
    /\ call \in [Conn -> Addr \cup {None}]
    /\ transactions \in [Conn -> [Id -> Transaction \cup {None}]]
    /\ asked \in [Conn -> Seq(Line)]
    /\ done \in [Conn -> Nat]
    /\ outcome \in [Conn -> Seq({"none", "ok", "failed"})]
    /\ replies \in [Conn -> Seq({"O", "F", "lookup", "iterate"})]
    /\ lines \in 0..MaxLines

\* How far the thread is; a call is one of a set whose transaction is open.
AtLine(c) ==
    /\ done[c] <= Len(asked[c]) /\ Len(outcome[c]) = done[c]
    /\ call[c] # None => /\ done[c] < Len(asked[c]) /\ current(c).cmd = "S"
                         /\ transactions[c][current(c).id] # None
                         /\ transactions[c][current(c).id].addr = call[c]
    /\ stream[c] = "closed" => asked[c] = <<>> /\ transactions[c] = NoTransactions

\* Of n lines sent, with these outcomes, t is what is left of the last begin with
\* this id.
Opened(sent, outs, n, id, t) ==
    \E b \in 1..n :
      /\ sent[b].cmd = "B" /\ sent[b].id = id /\ sent[b].addr = t.addr
      /\ \A k \in (b + 1)..n : sent[k].id = id => sent[k].cmd \notin {"B", "C"}
      /\ t.res = "F" <=> \E k \in b..n : sent[k].id = id /\ outs[k] = "failed"

OpenTransactions(c) ==
    \A id \in Id : transactions[c][id] # None =>
      Opened(asked[c], outcome[c], done[c], id, transactions[c][id])

\* The i-th line has a begin with its id, and no commit in between.
Begun(sent, i) ==
    \E b \in 1..(i - 1) :
      /\ sent[b].cmd = "B" /\ sent[b].id = sent[i].id
      /\ \A k \in (b + 1)..(i - 1) : sent[k].id = sent[i].id => sent[k].cmd \notin {"B", "C"}

CommitsBegun(c) == \A i \in 1..done[c] : asked[c][i].cmd = "C" => Begun(asked[c], i)

Answered(c) ==
    /\ Len(replies[c]) = Cardinality(answered(c))
    /\ \A i \in answered(c) : replies[c][Cardinality(answered(c) \cap 1..i)] = answer(c, i)

TypeInv == Typed /\ \A c \in Conn : AtLine(c)
Inv == TypeInv /\ \A c \in Conn : OpenTransactions(c) /\ CommitsBegun(c) /\ Answered(c)

-----------------------------------------------------------------------------
(* Types                                                                     *)

LEMMA LineIs ==
    ASSUME NEW line \in Line
    PROVE  /\ line.cmd \in {"B", "S", "C", "L", "I", "H", "R"}
           /\ line.cmd = "B" => line.id \in Id /\ line.addr \in Addr
           /\ line.cmd \in {"S", "C"} => line.id \in Id
           /\ line.key \in Key
BY DEF Line, Key

LEMMA CurrentIs ==
    ASSUME Typed, NEW c \in Conn, done[c] < Len(asked[c])
    PROVE  current(c) \in Line
BY DEF Typed, current

LEMMA TypeInit == Init => TypeInv
BY LineAssumption DEF Init, TypeInv, Typed, AtLine, NoTransactions

\* The steps of a thread, and those of Dovecot, at one connection
Step(c) == Connect(c) \/ Hangup(c) \/ (\E line \in Line : Send(c, line)) \/ Serve(c)

Outcome == {"none", "ok", "failed"}
Reply == {"O", "F", "lookup", "iterate"}

\* A line done, whatever the reply
AnyReply(c, out) == Handled(c, out, <<>>) \/ \E r \in Reply : Handled(c, out, <<r>>)

LEMMA HandledTypes ==
    ASSUME Typed, NEW c \in Conn, NEW out \in Outcome, AnyReply(c, out),
           call' \in [Conn -> Addr \cup {None}],
           transactions' \in [Conn -> [Id -> Transaction \cup {None}]]
    PROVE  Typed'
<1>1. PICK reply \in Seq(Reply) : Handled(c, out, reply)
  <2>1. <<>> \in Seq(Reply) /\ \A r \in Reply : <<r>> \in Seq(Reply)
    OBVIOUS
  <2>2. QED  BY <2>1 DEF AnyReply
<1>2. done' \in [Conn -> Nat]
  BY <1>1 DEF Handled, Typed
<1>3. outcome' \in [Conn -> Seq(Outcome)]
  <2>1. outcome \in [Conn -> Seq(Outcome)]
    BY DEF Typed, Outcome
  <2>2. Append(outcome[c], out) \in Seq(Outcome)
    BY <2>1
  <2>3. QED  BY <1>1, <2>1, <2>2 DEF Handled
<1>4. replies' \in [Conn -> Seq(Reply)]
  <2>1. replies \in [Conn -> Seq(Reply)]
    BY DEF Typed, Reply
  <2>2. replies[c] \o reply \in Seq(Reply)
    BY <2>1
  <2>3. QED  BY <1>1, <2>1, <2>2 DEF Handled
<1>5. UNCHANGED <<service, stream, asked, lines>>
  BY <1>1 DEF Handled
<1>6. QED  BY <1>2, <1>3, <1>4, <1>5 DEF Typed, Outcome, Reply

LEMMA TypedNext == ASSUME TypeInv, NEW c \in Conn, Step(c) PROVE Typed'
<1> USE DEF TypeInv, Typed
<1>1. CASE Connect(c) \/ Hangup(c)
  BY <1>1 DEF Connect, Hangup
<1>2. CASE \E line \in Line : Send(c, line)
  BY <1>2, LineAssumption DEF Send
<1>3. CASE Lookup(c) \/ Iterate(c) \/ Ignore(c)
  <2>1. UNCHANGED <<call, transactions>> /\ AnyReply(c, "none")
    BY <1>3 DEF Lookup, Iterate, Ignore, AnyReply, Reply
  <2>2. call' \in [Conn -> Addr \cup {None}] /\ transactions' \in [Conn -> [Id -> Transaction \cup {None}]]
    BY <2>1
  <2>3. QED  BY <2>1, <2>2, HandledTypes DEF Outcome
<1>4. CASE handle_begin_transaction(c)
  <2>1. current(c).id \in Id /\ [addr |-> current(c).addr, res |-> "O"] \in Transaction
    BY <1>4, CurrentIs, LineIs DEF handle_begin_transaction, reads, Transaction
  <2>2. transactions' \in [Conn -> [Id -> Transaction \cup {None}]]
    BY <1>4, <2>1 DEF handle_begin_transaction
  <2>3. call' = call /\ AnyReply(c, "none")
    BY <1>4 DEF handle_begin_transaction, AnyReply
  <2>4. QED  BY <2>2, <2>3, HandledTypes DEF Outcome
<1>5. CASE CallSet(c)
  <2>1. current(c).id \in Id
    BY <1>5, CurrentIs, LineIs DEF CallSet, reads
  <2>2. QED  BY <1>5, <2>1 DEF CallSet, Transaction
<1>6. CASE SetDone(c)
  <2>1. call' \in [Conn -> Addr \cup {None}] /\ transactions' = transactions /\ AnyReply(c, "ok")
    BY <1>6 DEF SetDone, AnyReply
  <2>2. QED  BY <2>1, HandledTypes DEF Outcome
<1>7. CASE SetFailed(c)
  <2>1. current(c).id \in Id /\ transactions[c][current(c).id] \in Transaction
    <3>1. AtLine(c) /\ call[c] # None
      BY <1>7 DEF SetFailed
    <3>2. done[c] < Len(asked[c]) /\ current(c).cmd = "S" /\ transactions[c][current(c).id] # None
      BY <3>1 DEF AtLine
    <3>3. current(c).id \in Id
      BY <3>2, CurrentIs, LineIs
    <3>4. QED  BY <3>2, <3>3
  <2>2. [transactions[c][current(c).id] EXCEPT !.res = "F"] \in Transaction
    BY <2>1 DEF Transaction
  <2>3. transactions' \in [Conn -> [Id -> Transaction \cup {None}]]
    BY <1>7, <2>1, <2>2 DEF SetFailed
  <2>4. call' \in [Conn -> Addr \cup {None}] /\ AnyReply(c, "failed")
    BY <1>7 DEF SetFailed, AnyReply
  <2>5. QED  BY <2>3, <2>4, HandledTypes DEF Outcome
<1>8. CASE handle_commit_transaction(c)
  <2>1. current(c).id \in Id
    BY <1>8, CurrentIs, LineIs DEF handle_commit_transaction, reads
  <2>2. transactions[c][current(c).id].res \in {"O", "F"}
    BY <1>8, <2>1 DEF handle_commit_transaction, Transaction
  <2>3. transactions' \in [Conn -> [Id -> Transaction \cup {None}]]
    BY <1>8, <2>1 DEF handle_commit_transaction
  <2>4. call' = call /\ AnyReply(c, "none")
    BY <1>8, <2>2 DEF handle_commit_transaction, AnyReply, Reply
  <2>5. QED  BY <2>3, <2>4, HandledTypes DEF Outcome
<1>9. CASE Raise(c) \/ EndOfStream(c)
  <2>1. Close(c) /\ NoTransactions \in [Id -> Transaction \cup {None}]
    BY <1>9 DEF Raise, EndOfStream, NoTransactions
  <2>2. QED  BY <2>1 DEF Close
<1>10. QED  BY <1>1, <1>2, <1>3, <1>4, <1>5, <1>6, <1>7, <1>8, <1>9 DEF Step, Serve

\* What belongs to a connection, and is left alone by the steps of the others.
conn(c) == <<stream[c], asked[c], done[c], call[c], transactions[c], outcome[c], replies[c]>>

LEMMA OtherConnection ==
    ASSUME Typed, NEW c \in Conn, Step(c), NEW d \in Conn, d # c
    PROVE  UNCHANGED <<service, conn(d)>>
<1> USE DEF Typed, conn
<1>1. CASE Connect(c) \/ Hangup(c) \/ (\E line \in Line : Send(c, line)) \/ CallSet(c)
  BY <1>1 DEF Connect, Hangup, Send, CallSet
<1>2. CASE Lookup(c) \/ Iterate(c) \/ Ignore(c) \/ SetDone(c)
  BY <1>2 DEF Lookup, Iterate, Ignore, SetDone, Handled
<1>3. CASE handle_begin_transaction(c) \/ SetFailed(c) \/ handle_commit_transaction(c)
  BY <1>3 DEF handle_begin_transaction, SetFailed, handle_commit_transaction, Handled
<1>4. CASE Raise(c) \/ EndOfStream(c)
  BY <1>4 DEF Raise, EndOfStream, Close
<1>5. QED  BY <1>1, <1>2, <1>3, <1>4 DEF Step, Serve

-----------------------------------------------------------------------------
(* A step, as its own connection sees it                                      *)

LEMMA OwnHandled ==
    ASSUME Typed, NEW c \in Conn, NEW out, NEW reply, Handled(c, out, reply)
    PROVE  /\ UNCHANGED <<service, stream, asked>>
           /\ done'[c] = done[c] + 1 /\ outcome'[c] = Append(outcome[c], out)
           /\ replies'[c] = replies[c] \o reply
BY DEF Typed, Handled

LEMMA OwnClose ==
    ASSUME Typed, NEW c \in Conn, Raise(c) \/ EndOfStream(c)
    PROVE  /\ stream'[c] = "closed" /\ asked'[c] = <<>> /\ done'[c] = 0 /\ call'[c] = None
           /\ transactions'[c] = NoTransactions /\ outcome'[c] = <<>> /\ replies'[c] = <<>>
BY DEF Typed, Raise, EndOfStream, Close

\* A line handled is one that was sent.
LEMMA AtCurrent ==
    ASSUME TypeInv, NEW c \in Conn, call[c] # None \/ (\E cmds : reads(c, cmds))
    PROVE  /\ done[c] \in Nat /\ done[c] < Len(asked[c]) /\ current(c) \in Line
           /\ current(c) = asked[c][done[c] + 1] /\ Len(outcome[c]) = done[c]
<1>1. done[c] < Len(asked[c]) /\ Len(outcome[c]) = done[c]
  BY DEF TypeInv, AtLine, reads
<1>2. QED  BY <1>1, CurrentIs DEF TypeInv, Typed, current

LEMMA AtLineNext == ASSUME TypeInv, NEW c \in Conn, Step(c) PROVE AtLine(c)'
<1> USE DEF AtLine
<1>1. Typed /\ AtLine(c)
  BY DEF TypeInv
<1>2. CASE Connect(c) \/ Hangup(c)
  BY <1>1, <1>2 DEF Connect, Hangup, Typed, current
<1>3. CASE \E line \in Line : Send(c, line)
  <2>1. PICK line \in Line : Send(c, line)
    BY <1>3
  <2>2. asked[c] \in Seq(Line) /\ asked'[c] = Append(asked[c], line) /\ done[c] \in Nat
    BY <1>1, <2>1 DEF Typed, Send
  <2>3. UNCHANGED <<stream, done, call, transactions, outcome>> /\ stream[c] = "open"
    BY <2>1 DEF Send
  <2>4. call[c] # None => asked'[c][done[c] + 1] = asked[c][done[c] + 1]
    BY <1>1, <2>2
  <2>5. Len(asked'[c]) = Len(asked[c]) + 1
    BY <2>2
  <2>6. QED  BY <1>1, <2>2, <2>3, <2>4, <2>5 DEF current
<1>4. ASSUME NEW out, NEW reply, Handled(c, out, reply), call'[c] = None,
             call[c] # None \/ (\E cmds : reads(c, cmds))
      PROVE  AtLine(c)'
  <2>1. /\ done[c] \in Nat /\ done[c] < Len(asked[c]) /\ Len(outcome[c]) = done[c]
        /\ asked[c] \in Seq(Line) /\ outcome[c] \in Seq(Outcome)
    BY <1>1, <1>4, AtCurrent DEF Typed, Outcome
  <2>2. UNCHANGED <<stream, asked>> /\ done'[c] = done[c] + 1 /\ outcome'[c] = Append(outcome[c], out)
    BY <1>1, <1>4, OwnHandled
  <2>3. stream[c] # "closed"
    BY <1>1, <2>1
  <2>4. Len(outcome'[c]) = done[c] + 1
    BY <2>1, <2>2
  <2>5. QED  BY <1>4, <2>1, <2>2, <2>3, <2>4
<1>5. CASE Lookup(c) \/ Iterate(c) \/ Ignore(c)
  BY <1>4, <1>5 DEF Lookup, Iterate, Ignore, reads
<1>6. CASE handle_begin_transaction(c) \/ handle_commit_transaction(c)
  BY <1>4, <1>6 DEF handle_begin_transaction, handle_commit_transaction, reads
<1>7. CASE SetDone(c) \/ SetFailed(c)
  <2>1. call'[c] = None
    BY <1>1, <1>7 DEF SetDone, SetFailed, Typed
  <2>2. QED  BY <1>4, <1>7, <2>1 DEF SetDone, SetFailed
<1>8. CASE CallSet(c)
  <2>1. /\ done[c] < Len(asked[c]) /\ current(c).cmd = "S" /\ transactions[c][current(c).id] # None
        /\ call'[c] = transactions[c][current(c).id].addr /\ stream[c] # "closed"
        /\ UNCHANGED <<stream, asked, done, transactions, outcome>>
    BY <1>1, <1>8 DEF CallSet, reads, Typed
  <2>2. QED  BY <1>1, <2>1 DEF current
<1>9. CASE Raise(c) \/ EndOfStream(c)
  BY <1>1, <1>9, OwnClose
<1>10. QED  BY <1>2, <1>3, <1>5, <1>6, <1>7, <1>8, <1>9 DEF Step, Serve

LEMMA TypeNext == TypeInv /\ [Next]_vars => TypeInv'
<1> SUFFICES ASSUME TypeInv, [Next]_vars PROVE TypeInv'
  OBVIOUS
<1>1. ASSUME NEW c \in Conn, Step(c) PROVE TypeInv'
  <2>1. ASSUME NEW d \in Conn, d # c PROVE AtLine(d)'
    <3>1. UNCHANGED conn(d) /\ AtLine(d)
      BY <1>1, <2>1, OtherConnection DEF TypeInv
    <3>2. QED  BY <3>1 DEF conn, AtLine, current
  <2>2. QED  BY <1>1, <2>1, TypedNext, AtLineNext DEF TypeInv
<1>2. CASE UNCHANGED vars
  BY <1>2 DEF vars, TypeInv, Typed, AtLine, current
<1>3. QED  BY <1>1, <1>2 DEF Next, Step

-----------------------------------------------------------------------------
(* Open transactions                                                         *)

\* Another line is sent.
LEMMA OpenedSent ==
    ASSUME NEW sent \in Seq(Line), NEW outs, NEW n \in 0..Len(sent), NEW id, NEW t, NEW line \in Line,
           Opened(sent, outs, n, id, t)
    PROVE  Opened(Append(sent, line), outs, n, id, t)
<1>1. \A k \in 1..n : Append(sent, line)[k] = sent[k]
  OBVIOUS
<1>2. QED  BY <1>1 DEF Opened

\* A line is handled, which is not a begin or a commit with this id; if a set
\* with this id has failed, so has the transaction.
LEMMA OpenedGoesOn ==
    ASSUME NEW sent \in Seq(Line), NEW outs \in Seq(Outcome), Len(outs) < Len(sent), NEW id, NEW t, NEW u,
           NEW out \in Outcome, Opened(sent, outs, Len(outs), id, t),
           sent[Len(outs) + 1].id = id => sent[Len(outs) + 1].cmd \notin {"B", "C"},
           u.addr = t.addr,
           u.res = "F" <=> t.res = "F" \/ (sent[Len(outs) + 1].id = id /\ out = "failed")
    PROVE  Opened(sent, Append(outs, out), Len(outs) + 1, id, u)
<1> DEFINE n == Len(outs)
           more == Append(outs, out)
<1>1. n \in Nat /\ more[n + 1] = out /\ \A k \in 1..n : more[k] = outs[k]
  OBVIOUS
<1>2. PICK b \in 1..n :
         /\ sent[b].cmd = "B" /\ sent[b].id = id /\ sent[b].addr = t.addr
         /\ \A k \in (b + 1)..n : sent[k].id = id => sent[k].cmd \notin {"B", "C"}
         /\ t.res = "F" <=> \E k \in b..n : sent[k].id = id /\ outs[k] = "failed"
  BY DEF Opened
<1> HIDE DEF n, more
<1>3. \A k \in (b + 1)..(n + 1) : k = n + 1 \/ k \in (b + 1)..n
  BY <1>1
<1>4. \A k \in (b + 1)..(n + 1) : sent[k].id = id => sent[k].cmd \notin {"B", "C"}
  BY <1>2, <1>3 DEF n
<1>5. (\E k \in b..(n + 1) : sent[k].id = id /\ more[k] = "failed")
        <=> (\E k \in b..n : sent[k].id = id /\ outs[k] = "failed") \/ (sent[n + 1].id = id /\ out = "failed")
  <2>1. \A k \in b..(n + 1) : k = n + 1 \/ k \in b..n
    BY <1>1
  <2>2. n + 1 \in b..(n + 1) /\ \A k \in b..n : k \in b..(n + 1) /\ k \in 1..n
    BY <1>1
  <2>3. QED  BY <1>1, <2>1, <2>2
<1>6. u.res = "F" <=> \E k \in b..(n + 1) : sent[k].id = id /\ more[k] = "failed"
  BY <1>2, <1>5 DEF n
<1>7. b \in 1..(n + 1)
  BY <1>1
<1>8. QED  BY <1>2, <1>4, <1>6, <1>7 DEF Opened, n, more

\* A begin is handled.
LEMMA OpenedBegins ==
    ASSUME NEW sent \in Seq(Line), NEW outs \in Seq(Outcome), Len(outs) < Len(sent),
           sent[Len(outs) + 1].cmd = "B"
    PROVE  Opened(sent, Append(outs, "none"), Len(outs) + 1, sent[Len(outs) + 1].id,
                  [addr |-> sent[Len(outs) + 1].addr, res |-> "O"])
<1> DEFINE n == Len(outs)
           more == Append(outs, "none")
<1>1. n \in Nat /\ more[n + 1] = "none"
  OBVIOUS
<1> HIDE DEF n, more
<1>2. n + 1 \in 1..(n + 1) /\ (n + 1 + 1)..(n + 1) = {} /\ (n + 1)..(n + 1) = {n + 1}
  BY <1>1
<1>3. ~ \E k \in (n + 1)..(n + 1) : sent[k].id = sent[n + 1].id /\ more[k] = "failed"
  BY <1>1, <1>2
<1>4. QED  BY <1>2, <1>3 DEF Opened, n, more

LEMMA OpenNext ==
    ASSUME TypeInv, NEW c \in Conn, OpenTransactions(c), Step(c) PROVE OpenTransactions(c)'
<1>1. Typed /\ AtLine(c)
  BY DEF TypeInv
<1>2. CASE Connect(c) \/ Hangup(c) \/ CallSet(c)
  BY <1>2 DEF Connect, Hangup, CallSet, OpenTransactions
<1>3. CASE \E line \in Line : Send(c, line)
  <2>1. PICK line \in Line : Send(c, line)
    BY <1>3
  <2>2. /\ asked[c] \in Seq(Line) /\ asked'[c] = Append(asked[c], line) /\ done[c] \in 0..Len(asked[c])
        /\ UNCHANGED <<done, transactions, outcome>>
    BY <1>1, <2>1 DEF Typed, AtLine, Send
  <2>3. QED  BY <2>2, OpenedSent DEF OpenTransactions
<1>4. ASSUME NEW out \in Outcome, NEW reply, Handled(c, out, reply), done[c] < Len(asked[c]),
             NEW id \in Id, transactions'[c][id] # None, transactions[c][id] # None,
             asked[c][done[c] + 1].id = id => asked[c][done[c] + 1].cmd \notin {"B", "C"},
             transactions'[c][id].addr = transactions[c][id].addr,
             transactions'[c][id].res = "F"
               <=> transactions[c][id].res = "F" \/ (asked[c][done[c] + 1].id = id /\ out = "failed")
      PROVE  Opened(asked[c], outcome[c], done[c], id, transactions[c][id])'
  <2>1. asked[c] \in Seq(Line) /\ outcome[c] \in Seq(Outcome) /\ Len(outcome[c]) = done[c]
    BY <1>1 DEF Typed, AtLine, Outcome
  <2>2. Opened(asked[c], outcome[c], Len(outcome[c]), id, transactions[c][id])
    BY <1>4, <2>1 DEF OpenTransactions
  <2>3. Opened(asked[c], Append(outcome[c], out), Len(outcome[c]) + 1, id, transactions'[c][id])
    BY <1>4, <2>1, <2>2, OpenedGoesOn
  <2>4. asked' = asked /\ done'[c] = Len(outcome[c]) + 1 /\ outcome'[c] = Append(outcome[c], out)
    BY <1>1, <1>4, <2>1, OwnHandled
  <2>5. QED  BY <2>3, <2>4
<1>5. CASE Lookup(c) \/ Iterate(c) \/ Ignore(c)
  <2>1. \E reply : Handled(c, "none", reply)
    BY <1>5 DEF Lookup, Iterate, Ignore
  <2>2. /\ transactions' = transactions /\ done[c] < Len(asked[c])
        /\ asked[c][done[c] + 1].cmd \notin {"B", "C"}
    BY <1>5 DEF Lookup, Iterate, Ignore, reads, current
  <2>3. QED  BY <1>4, <2>1, <2>2 DEF OpenTransactions, Outcome
<1>6. CASE handle_begin_transaction(c)
  <2>1. /\ Handled(c, "none", <<>>) /\ done[c] < Len(asked[c]) /\ asked[c][done[c] + 1].cmd = "B"
        /\ current(c) = asked[c][done[c] + 1] /\ current(c).id \in Id
    BY <1>1, <1>6, CurrentIs, LineIs DEF handle_begin_transaction, reads, current
  <2>2. \A id \in Id : transactions'[c][id] = IF id = current(c).id
                                              THEN [addr |-> current(c).addr, res |-> "O"]
                                              ELSE transactions[c][id]
    BY <1>1, <1>6, <2>1 DEF handle_begin_transaction, Typed
  <2>3. ASSUME NEW id \in Id, id # current(c).id, transactions'[c][id] # None
        PROVE  Opened(asked[c], outcome[c], done[c], id, transactions[c][id])'
    BY <1>4, <2>1, <2>2, <2>3 DEF Outcome
  <2>4. Opened(asked'[c], outcome'[c], done'[c], current(c).id, [addr |-> current(c).addr, res |-> "O"])
    <3>1. asked[c] \in Seq(Line) /\ outcome[c] \in Seq(Outcome) /\ Len(outcome[c]) = done[c]
      BY <1>1 DEF Typed, AtLine, Outcome
    <3>2. asked' = asked /\ done'[c] = Len(outcome[c]) + 1 /\ outcome'[c] = Append(outcome[c], "none")
      BY <1>1, <2>1, <3>1, OwnHandled
    <3>3. QED  BY <2>1, <3>1, <3>2, OpenedBegins
  <2>5. QED  BY <2>2, <2>3, <2>4 DEF OpenTransactions
<1>7. CASE SetDone(c) \/ SetFailed(c)
  <2>1. /\ done[c] < Len(asked[c]) /\ current(c) = asked[c][done[c] + 1] /\ current(c).cmd = "S"
        /\ current(c).id \in Id /\ transactions[c][current(c).id] # None
    <3>1. call[c] # None
      BY <1>7 DEF SetDone, SetFailed
    <3>2. QED  BY <1>1, <3>1, CurrentIs, LineIs DEF AtLine, current
  <2>2. CASE SetDone(c)
    BY <1>4, <2>1, <2>2 DEF SetDone, OpenTransactions, Outcome
  <2>3. CASE SetFailed(c)
    <3>1. \A id \in Id : transactions'[c][id] = IF id = current(c).id
                                                THEN [transactions[c][id] EXCEPT !.res = "F"]
                                                ELSE transactions[c][id]
      BY <1>1, <2>1, <2>3 DEF SetFailed, Typed
    <3>2. transactions[c][current(c).id] \in Transaction
      BY <1>1, <2>1 DEF Typed
    <3>3. SUFFICES ASSUME NEW id \in Id, transactions'[c][id] # None
                   PROVE  Opened(asked[c], outcome[c], done[c], id, transactions[c][id])'
      BY DEF OpenTransactions
    <3>4. transactions[c][id] # None
      BY <2>1, <3>1, <3>3
    <3>5. /\ transactions'[c][id].addr = transactions[c][id].addr
          /\ transactions'[c][id].res = "F" <=> transactions[c][id].res = "F" \/ id = current(c).id
      BY <3>1, <3>2 DEF Transaction
    <3>6. Handled(c, "failed", <<>>)
      BY <2>3 DEF SetFailed
    <3>7. QED  BY <1>4, <2>1, <3>3, <3>4, <3>5, <3>6 DEF Outcome
  <2>4. QED  BY <1>7, <2>2, <2>3
<1>8. CASE handle_commit_transaction(c)
  <2>1. /\ \E reply : Handled(c, "none", reply)
        /\ done[c] < Len(asked[c]) /\ current(c) = asked[c][done[c] + 1] /\ current(c).id \in Id
    BY <1>1, <1>8, CurrentIs, LineIs DEF handle_commit_transaction, reads, current
  <2>2. \A id \in Id : transactions'[c][id] = IF id = current(c).id THEN None ELSE transactions[c][id]
    BY <1>1, <1>8, <2>1 DEF handle_commit_transaction, Typed
  <2>3. QED  BY <1>4, <2>1, <2>2 DEF OpenTransactions, Outcome
<1>9. CASE Raise(c) \/ EndOfStream(c)
  BY <1>1, <1>9, OwnClose DEF OpenTransactions, NoTransactions
<1>10. QED  BY <1>2, <1>3, <1>5, <1>6, <1>7, <1>8, <1>9 DEF Step, Serve

-----------------------------------------------------------------------------
(* Commits                                                                   *)

LEMMA BegunSent ==
    ASSUME NEW sent \in Seq(Line), NEW i \in 1..Len(sent), NEW line \in Line, Begun(sent, i)
    PROVE  Begun(Append(sent, line), i)
<1>1. \A k \in 1..i : Append(sent, line)[k] = sent[k]
  OBVIOUS
<1>2. QED  BY <1>1 DEF Begun

LEMMA OpenIsBegun ==
    ASSUME NEW sent, NEW outs, NEW n \in Nat, NEW t, Opened(sent, outs, n, sent[n + 1].id, t)
    PROVE  Begun(sent, n + 1)
BY DEF Opened, Begun

LEMMA CommitsNext ==
    ASSUME TypeInv, NEW c \in Conn, OpenTransactions(c), CommitsBegun(c), Step(c) PROVE CommitsBegun(c)'
<1>1. Typed /\ AtLine(c)
  BY DEF TypeInv
<1>2. CASE Connect(c) \/ Hangup(c) \/ CallSet(c)
  BY <1>2 DEF Connect, Hangup, CallSet, CommitsBegun
<1>3. CASE \E line \in Line : Send(c, line)
  <2>1. PICK line \in Line : Send(c, line)
    BY <1>3
  <2>2. /\ asked[c] \in Seq(Line) /\ asked'[c] = Append(asked[c], line) /\ done[c] \in 0..Len(asked[c])
        /\ done' = done
    BY <1>1, <2>1 DEF Typed, AtLine, Send
  <2>3. \A i \in 1..done[c] : i \in 1..Len(asked[c]) /\ asked'[c][i] = asked[c][i]
    BY <2>2
  <2>4. QED  BY <2>2, <2>3, BegunSent DEF CommitsBegun
<1>4. ASSUME NEW out, NEW reply, Handled(c, out, reply),
             asked[c][done[c] + 1].cmd = "C" => Begun(asked[c], done[c] + 1)
      PROVE  CommitsBegun(c)'
  <2>1. asked' = asked /\ done'[c] = done[c] + 1 /\ done[c] \in Nat
    BY <1>1, <1>4, OwnHandled DEF Typed
  <2>2. QED  BY <1>4, <2>1 DEF CommitsBegun
<1>5. CASE Lookup(c) \/ Iterate(c) \/ Ignore(c) \/ handle_begin_transaction(c)
  BY <1>4, <1>5 DEF Lookup, Iterate, Ignore, handle_begin_transaction, reads, current
<1>6. CASE SetDone(c) \/ SetFailed(c)
  <2>1. current(c).cmd = "S"
    BY <1>1, <1>6 DEF SetDone, SetFailed, AtLine
  <2>2. QED  BY <1>4, <1>6, <2>1 DEF SetDone, SetFailed, current
<1>7. CASE handle_commit_transaction(c)
  <2>1. /\ \E reply : Handled(c, "none", reply)
        /\ current(c) = asked[c][done[c] + 1] /\ current(c).id \in Id /\ transactions[c][current(c).id] # None
    BY <1>1, <1>7, CurrentIs, LineIs DEF handle_commit_transaction, reads, current
  <2>2. Begun(asked[c], done[c] + 1)
    BY <1>1, <2>1, OpenIsBegun DEF OpenTransactions, Typed
  <2>3. QED  BY <1>4, <2>1, <2>2
<1>8. CASE Raise(c) \/ EndOfStream(c)
  BY <1>1, <1>8, OwnClose DEF CommitsBegun
<1>9. QED  BY <1>2, <1>3, <1>5, <1>6, <1>7, <1>8 DEF Step, Serve

-----------------------------------------------------------------------------
(* Replies                                                                   *)

\* What was sent and what it came to stays as it was, as far as the i-th answer
\* depends on it.
LEMMA LatestStays ==
    ASSUME NEW c \in Conn, NEW i \in Nat, i > 0, NEW cmd, \A j \in 1..i : asked'[c][j] = asked[c][j]
    PROVE  latest(c, cmd, i)' = latest(c, cmd, i)
<1>1. i \in 1..i /\ \A j \in 1..(i - 1) : j \in 1..i
  OBVIOUS
<1>2. {j \in 1..(i - 1) : asked'[c][j].cmd = cmd /\ asked'[c][j].id = asked'[c][i].id}
        = {j \in 1..(i - 1) : asked[c][j].cmd = cmd /\ asked[c][j].id = asked[c][i].id}
  BY <1>1
<1>3. QED  BY <1>2 DEF latest

LEMMA AnswerStays ==
    ASSUME NEW c \in Conn, NEW i \in Nat, i > 0, \A j \in 1..i : asked'[c][j] = asked[c][j],
           \A j \in 1..(i - 1) : outcome'[c][j] = outcome[c][j]
    PROVE  answer(c, i)' = answer(c, i)
<1>1. latest(c, "B", i)' = latest(c, "B", i)
  BY LatestStays
<1> DEFINE b == latest(c, "B", i)
<1>2. b \in Nat
  BY LatestIs
<1>3. b' = b
  BY <1>1
<1>4. committed(c, i)' = committed(c, i)
  <2> HIDE DEF b
  <2>1. i \in 1..i /\ \A j \in b..(i - 1) : j > 0 => j \in 1..i /\ j \in 1..(i - 1)
    BY <1>2
  <2>2. (\E j \in b..(i - 1) : j > 0 /\ asked'[c][j].id = asked'[c][i].id /\ outcome'[c][j] = "failed")
        <=> (\E j \in b..(i - 1) : j > 0 /\ asked[c][j].id = asked[c][i].id /\ outcome[c][j] = "failed")
    BY <2>1
  <2>3. QED  BY <1>3, <2>2 DEF committed, b
<1>5. asked'[c][i] = asked[c][i]
  OBVIOUS
<1>6. QED  BY <1>4, <1>5 DEF answer

LEMMA AnsweredFinite ==
    ASSUME Typed, NEW c \in Conn
    PROVE  IsFiniteSet(answered(c)) /\ answered(c) \subseteq 1..done[c] /\ Cardinality(answered(c)) \in Nat
<1>1. answered(c) \subseteq 1..done[c] /\ done[c] \in Nat
  BY DEF answered, Typed
<1>2. IsFiniteSet(1..done[c])
  BY <1>1, FS_Interval
<1>3. IsFiniteSet(answered(c))
  BY <1>1, <1>2, FS_Subset
<1>4. QED  BY <1>1, <1>3, FS_CardinalityType

\* Where a reply is among the replies: the place is one of theirs.
LEMMA PlaceIs ==
    ASSUME NEW A, IsFiniteSet(A), NEW i \in A, i \in Nat, i > 0
    PROVE  Cardinality(A \cap 1..i) \in 1..Cardinality(A)
<1> DEFINE B == A \cap 1..i
<1>1. IsFiniteSet(B) /\ Cardinality(B) <= Cardinality(A)
  <2>1. B \in SUBSET A
    OBVIOUS
  <2>2. QED  BY <2>1, FS_Subset
<1>2. Cardinality(B) \in Nat /\ Cardinality(A) \in Nat
  BY <1>1, FS_CardinalityType
<1>3. Cardinality(B) # 0
  <2>1. B # {}
    OBVIOUS
  <2> HIDE DEF B
  <2>2. QED  BY <1>1, <2>1, FS_EmptySet
<1> HIDE DEF B
<1>4. Cardinality(B) \in 1..Cardinality(A)
  BY <1>1, <1>2, <1>3
<1>5. QED  BY <1>4 DEF B

\* A line that gets a reply
Replied(c, i) == \/ asked[c][i].cmd \in {"L", "C"}
                 \/ asked[c][i].cmd = "I" /\ ~(service = "auth" /\ asked[c][i].key = "other")

LEMMA AnsweredHandled ==
    ASSUME TypeInv, NEW c \in Conn, Answered(c), NEW out, NEW reply, Handled(c, out, reply),
           done[c] < Len(asked[c]),
           \/ ~Replied(c, done[c] + 1) /\ reply = <<>>
           \/ Replied(c, done[c] + 1) /\ reply = <<answer(c, done[c] + 1)>>
    PROVE  Answered(c)'
<1> DEFINE n == done[c]
           A == answered(c)
           new == answered(c)'
           r == answer(c, n + 1)
<1>1. /\ UNCHANGED <<service, asked>>
      /\ done'[c] = n + 1 /\ outcome'[c] = Append(outcome[c], out) /\ replies'[c] = replies[c] \o reply
  BY OwnHandled DEF TypeInv
<1>2. n \in Nat /\ outcome[c] \in Seq(Outcome) /\ Len(outcome[c]) = n /\ replies[c] \in Seq(Reply)
  BY DEF TypeInv, Typed, AtLine, Outcome, Reply
<1>3. IsFiniteSet(A) /\ A \subseteq 1..n /\ Cardinality(A) \in Nat
  BY AnsweredFinite DEF TypeInv
<1>4. Len(replies[c]) = Cardinality(A) /\ \A i \in A : replies[c][Cardinality(A \cap 1..i)] = answer(c, i)
  BY DEF Answered
<1>5. ASSUME NEW i \in 1..(n + 1) PROVE answer(c, i)' = answer(c, i)
  <2>1. \A j \in 1..(i - 1) : outcome'[c][j] = outcome[c][j]
    BY <1>1, <1>2, <1>5
  <2>2. QED  BY <1>1, <1>2, <1>5, <2>1, AnswerStays
<1>6. \A i \in 1..(n + 1) : i \in new <=> i \in A \/ (i = n + 1 /\ Replied(c, n + 1))
  BY <1>1, <1>2 DEF answered, Replied
<1>7. new \subseteq 1..(n + 1)
  BY <1>1 DEF answered
<1>8. Answered(c)' <=> /\ Len(replies'[c]) = Cardinality(new)
                       /\ \A i \in new : replies'[c][Cardinality(new \cap 1..i)] = answer(c, i)'
  BY DEF Answered
<1> HIDE DEF A, new
<1>9. CASE ~Replied(c, n + 1) /\ reply = <<>>
  <2>1. new = A
    <3>1. \A i \in 1..n : i \in 1..(n + 1) /\ (i \in new <=> i \in A)
      BY <1>2, <1>6, <1>9
    <3>2. \A i \in new : i \in 1..n
      BY <1>2, <1>3, <1>6, <1>7, <1>9
    <3>3. QED  BY <1>3, <3>1, <3>2
  <2>2. replies'[c] = replies[c]
    BY <1>1, <1>2, <1>9
  <2>3. QED  BY <1>2, <1>3, <1>4, <1>5, <1>8, <2>1, <2>2
<1>10. CASE Replied(c, n + 1) /\ reply = <<r>>
  <2>1. new = A \cup {n + 1} /\ n + 1 \notin A
    <3>1. n + 1 \in 1..(n + 1) /\ n + 1 \notin 1..n
      BY <1>2
    <3>2. \A i \in A : i \in 1..(n + 1)
      BY <1>2, <1>3
    <3>3. n + 1 \in new /\ \A i \in A : i \in new
      BY <1>6, <1>10, <3>1, <3>2
    <3>4. \A i \in new : i \in A \cup {n + 1}
      BY <1>6, <1>7
    <3>5. QED  BY <1>3, <3>1, <3>3, <3>4
  <2>2. Cardinality(new) = Cardinality(A) + 1
    BY <1>3, <2>1, FS_AddElement
  <2>3. replies'[c] = Append(replies[c], r)
    <3> HIDE DEF r
    <3>1. QED  BY <1>1, <1>2, <1>10
  <2>4. Len(replies'[c]) = Len(replies[c]) + 1 /\ replies'[c][Len(replies[c]) + 1] = r
        /\ \A k \in 1..Len(replies[c]) : replies'[c][k] = replies[c][k]
    <3> HIDE DEF r
    <3>1. QED  BY <1>2, <2>3
  <2>5. ASSUME NEW i \in new PROVE replies'[c][Cardinality(new \cap 1..i)] = answer(c, i)'
    <3>1. i \in 1..(n + 1) /\ answer(c, i)' = answer(c, i)
      BY <1>5, <1>7, <2>5
    <3>2. CASE i = n + 1
      <4>1. new \cap 1..i = new
        BY <1>7, <3>2
      <4>2. QED  BY <1>4, <2>2, <2>4, <3>1, <3>2, <4>1
    <3>3. CASE i # n + 1
      <4>1. i \in A /\ i \in Nat /\ i > 0
        BY <1>2, <2>1, <2>5, <3>1, <3>3
      <4>2. new \cap 1..i = A \cap 1..i
        BY <1>2, <1>3, <2>1, <4>1
      <4>3. Cardinality(A \cap 1..i) \in 1..Len(replies[c])
        BY <1>3, <1>4, <4>1, PlaceIs
      <4>4. QED  BY <1>4, <2>4, <3>1, <4>1, <4>2, <4>3
    <3>4. QED  BY <3>2, <3>3
  <2>6. QED  BY <1>4, <1>8, <2>2, <2>4, <2>5
<1>11. QED  BY <1>9, <1>10

\* The begin of an open transaction is the latest with its id.
LEMMA LatestBegin ==
    ASSUME TypeInv, NEW c \in Conn, NEW id \in Id, NEW t,
           Opened(asked[c], outcome[c], done[c], id, t), asked[c][done[c] + 1].id = id
    PROVE  LET l == latest(c, "B", done[c] + 1)
           IN  /\ l \in 1..done[c] /\ asked[c][l].addr = t.addr
               /\ t.res = "F" <=> \E k \in l..done[c] : asked[c][k].id = id /\ outcome[c][k] = "failed"
<1> DEFINE n == done[c]
           l == latest(c, "B", n + 1)
<1>1. n \in Nat
  BY DEF TypeInv, Typed
<1>2. PICK b \in 1..n :
         /\ asked[c][b].cmd = "B" /\ asked[c][b].id = id /\ asked[c][b].addr = t.addr
         /\ \A k \in (b + 1)..n : asked[c][k].id = id => asked[c][k].cmd \notin {"B", "C"}
         /\ t.res = "F" <=> \E k \in b..n : asked[c][k].id = id /\ outcome[c][k] = "failed"
  BY DEF Opened
<1>3. l = b
  <2>1. /\ l \in 0..n \cup {0}
        /\ l # 0 => asked[c][l].cmd = "B" /\ asked[c][l].id = id
        /\ \A j \in 1..n : asked[c][j].cmd = "B" /\ asked[c][j].id = id => j <= l
    <3>1. n + 1 \in Nat /\ (n + 1) - 1 = n
      BY <1>1
    <3>2. QED  BY <3>1, LatestIs
  <2> HIDE DEF n, l
  <2>2. b <= l
    BY <1>2, <2>1
  <2>3. l \notin (b + 1)..n
    BY <1>1, <1>2, <2>1, <2>2
  <2>4. QED  BY <1>1, <1>2, <2>1, <2>2, <2>3
<1>4. QED  BY <1>2, <1>3

\* What the transaction says is what the lines and the outcomes say.
LEMMA ResultIsTruthful ==
    ASSUME TypeInv, NEW c \in Conn, NEW id \in Id, transactions[c][id] # None,
           Opened(asked[c], outcome[c], done[c], id, transactions[c][id]),
           asked[c][done[c] + 1].id = id
    PROVE  committed(c, done[c] + 1) = transactions[c][id].res
<1> DEFINE n == done[c]
           t == transactions[c][id]
           l == latest(c, "B", n + 1)
<1>1. n \in Nat /\ t.res \in {"O", "F"}
  BY DEF TypeInv, Typed, Transaction
<1>2. l \in 1..n /\ (t.res = "F" <=> \E k \in l..n : asked[c][k].id = id /\ outcome[c][k] = "failed")
  BY LatestBegin
<1>3. committed(c, n + 1) = IF \E k \in l..n : k > 0 /\ asked[c][k].id = id /\ outcome[c][k] = "failed"
                            THEN "F" ELSE "O"
  BY <1>1 DEF committed
<1> HIDE DEF n, t, l
<1>4. committed(c, n + 1) = t.res
  BY <1>1, <1>2, <1>3
<1>5. QED  BY <1>4 DEF n, t

LEMMA AnsweredNext ==
    ASSUME TypeInv, NEW c \in Conn, OpenTransactions(c), Answered(c), Step(c) PROVE Answered(c)'
<1>1. Typed /\ AtLine(c)
  BY DEF TypeInv
<1>2. CASE Connect(c) \/ Hangup(c) \/ CallSet(c)
  <2>1. UNCHANGED <<service, asked, done, outcome, replies>>
    BY <1>2 DEF Connect, Hangup, CallSet
  <2>2. answered(c)' = answered(c)
    BY <2>1 DEF answered
  <2>3. \A i : answer(c, i)' = answer(c, i)
    BY <2>1 DEF answer, committed, latest
  <2>4. QED  BY <2>1, <2>2, <2>3 DEF Answered
<1>3. CASE \E line \in Line : Send(c, line)
  <2>1. PICK line \in Line : Send(c, line)
    BY <1>3
  <2>2. /\ asked[c] \in Seq(Line) /\ asked'[c] = Append(asked[c], line) /\ done[c] \in 0..Len(asked[c])
        /\ UNCHANGED <<service, done, outcome, replies>>
    BY <1>1, <2>1 DEF Typed, AtLine, Send
  <2>3. \A i \in 1..done[c] : i \in Nat /\ i > 0 /\ \A j \in 1..i : asked'[c][j] = asked[c][j]
    BY <2>2
  <2>4. \A i \in 1..done[c] : answer(c, i)' = answer(c, i)
    BY <2>2, <2>3, AnswerStays
  <2>5. answered(c)' = answered(c) /\ answered(c) \subseteq 1..done[c]
    <3>1. \A i \in 1..done[c] : asked'[c][i] = asked[c][i]
      BY <2>2
    <3>2. QED  BY <2>2, <3>1 DEF answered
  <2>6. QED  BY <2>2, <2>4, <2>5 DEF Answered
<1>4. CASE Lookup(c)
  <2>1. Handled(c, "none", <<"lookup">>) /\ done[c] < Len(asked[c]) /\ asked[c][done[c] + 1].cmd = "L"
    BY <1>4 DEF Lookup, reads, current
  <2>2. QED  BY <2>1, AnsweredHandled DEF Replied, answer
<1>5. CASE Iterate(c)
  <2>1. done[c] < Len(asked[c]) /\ asked[c][done[c] + 1].cmd = "I" /\ current(c) = asked[c][done[c] + 1]
    BY <1>5 DEF Iterate, reads, current
  <2>2. CASE "reply" \in handle_iterate(current(c).key) /\ Handled(c, "none", <<"iterate">>)
    BY <2>1, <2>2, AnsweredHandled DEF Replied, answer, handle_iterate
  <2>3. CASE "silent" \in handle_iterate(current(c).key) /\ Handled(c, "none", <<>>)
    <3>1. current(c).key \in Key
      BY <1>1, <2>1, CurrentIs, LineIs
    <3>2. service = "auth" /\ current(c).key = "other"
      BY <2>3, <3>1 DEF handle_iterate, Key
    <3>3. QED  BY <2>1, <2>3, <3>2, AnsweredHandled DEF Replied
  <2>4. QED  BY <1>5, <2>2, <2>3 DEF Iterate
<1>6. CASE Ignore(c) \/ handle_begin_transaction(c) \/ SetDone(c) \/ SetFailed(c)
  <2>1. \E out : Handled(c, out, <<>>)
    BY <1>6 DEF Ignore, handle_begin_transaction, SetDone, SetFailed
  <2>2. done[c] < Len(asked[c]) /\ asked[c][done[c] + 1].cmd \in {"H", "R", "B", "S"}
    BY <1>1, <1>6 DEF Ignore, handle_begin_transaction, SetDone, SetFailed, reads, AtLine, current
  <2>3. QED  BY <2>1, <2>2, AnsweredHandled DEF Replied
<1>7. CASE handle_commit_transaction(c)
  <2>1. /\ Handled(c, "none", <<transactions[c][current(c).id].res>>)
        /\ done[c] < Len(asked[c]) /\ asked[c][done[c] + 1].cmd = "C"
        /\ current(c) = asked[c][done[c] + 1] /\ current(c).id \in Id /\ transactions[c][current(c).id] # None
    BY <1>1, <1>7, CurrentIs, LineIs DEF handle_commit_transaction, reads, current
  <2>2. committed(c, done[c] + 1) = transactions[c][current(c).id].res
    BY <2>1, ResultIsTruthful DEF OpenTransactions
  <2>3. QED  BY <2>1, <2>2, AnsweredHandled DEF Replied, answer
<1>8. CASE Raise(c) \/ EndOfStream(c)
  <2>1. replies'[c] = <<>> /\ done'[c] = 0
    BY <1>1, <1>8, OwnClose
  <2>2. answered(c)' = {}
    BY <2>1 DEF answered
  <2>3. QED  BY <2>1, <2>2, FS_EmptySet DEF Answered
<1>9. QED  BY <1>2, <1>3, <1>4, <1>5, <1>6, <1>7, <1>8 DEF Step, Serve

-----------------------------------------------------------------------------
LEMMA InvInit == Init => Inv
<1> SUFFICES ASSUME Init, NEW c \in Conn PROVE OpenTransactions(c) /\ CommitsBegun(c) /\ Answered(c)
  BY TypeInit DEF Inv
<1>1. answered(c) = {}
  BY DEF Init, answered
<1>2. QED  BY <1>1, FS_EmptySet DEF Init, OpenTransactions, CommitsBegun, Answered, NoTransactions

LEMMA InvNext == Inv /\ [Next]_vars => Inv'
<1> SUFFICES ASSUME Inv, [Next]_vars, NEW d \in Conn
             PROVE  (OpenTransactions(d) /\ CommitsBegun(d) /\ Answered(d))'
  BY TypeNext DEF Inv
<1>1. TypeInv /\ OpenTransactions(d) /\ CommitsBegun(d) /\ Answered(d)
  BY DEF Inv
<1>2. CASE UNCHANGED <<service, conn(d)>>
  <2>1. UNCHANGED <<service, asked[d], done[d], transactions[d], outcome[d], replies[d]>>
    BY <1>2 DEF conn
  <2>2. answered(d)' = answered(d)
    BY <2>1 DEF answered
  <2>3. \A i : answer(d, i)' = answer(d, i)
    BY <2>1 DEF answer, committed, latest
  <2>4. Answered(d)'
    BY <1>1, <2>1, <2>2, <2>3 DEF Answered
  <2>5. QED  BY <1>1, <2>1, <2>4 DEF OpenTransactions, CommitsBegun
<1>3. ASSUME NEW c \in Conn, Step(c) PROVE (OpenTransactions(d) /\ CommitsBegun(d) /\ Answered(d))'
  <2>1. CASE c = d
    BY <1>1, <1>3, <2>1, OpenNext, CommitsNext, AnsweredNext
  <2>2. CASE c # d
    BY <1>1, <1>2, <1>3, <2>2, OtherConnection DEF TypeInv
  <2>3. QED  BY <2>1, <2>2
<1>4. CASE UNCHANGED vars
  BY <1>2, <1>4 DEF vars, conn
<1>5. QED  BY <1>3, <1>4 DEF Next, Step

LEMMA Invariant == Spec => []Inv
BY InvInit, InvNext, PTL DEF Spec

-----------------------------------------------------------------------------
(* The theorems                                                              *)

\* Every state of the server is well formed, for any number of connections and
\* lines: the thread is never past what was sent, and a call is one of a line.
THEOREM DictProxyTypes == Spec => []TypeOK
<1>1. Inv => TypeOK
  BY DEF Inv, TypeInv, Typed, AtLine, TypeOK
<1>2. QED  BY <1>1, Invariant, PTL

\* handle_set gets the address that its own connection named in the last begin
\* with this id, whatever the other connections do with the same id.
THEOREM SetsRightAddress == Spec => []RightAddress
<1>1. Inv => RightAddress
  <2> SUFFICES ASSUME Inv, NEW c \in Conn, call[c] # None
               PROVE  latest(c, "B", done[c] + 1) > 0
                      /\ asked[c][latest(c, "B", done[c] + 1)].addr = call[c]
    BY DEF RightAddress
  <2>1. TypeInv /\ AtLine(c) /\ OpenTransactions(c) /\ done[c] \in Nat
    BY DEF Inv, TypeInv, Typed
  <2> DEFINE id == asked[c][done[c] + 1].id
  <2>2. id \in Id /\ transactions[c][id] # None /\ transactions[c][id].addr = call[c]
    <3>1. done[c] < Len(asked[c]) /\ current(c).cmd = "S" /\ current(c).id = id
      BY <2>1 DEF AtLine, current
    <3>2. current(c).id \in Id
      BY <2>1, <3>1, CurrentIs, LineIs DEF TypeInv
    <3>3. QED  BY <2>1, <3>1, <3>2 DEF AtLine
  <2>3. Opened(asked[c], outcome[c], done[c], id, transactions[c][id])
    BY <2>1, <2>2 DEF OpenTransactions
  <2> HIDE DEF id
  <2>4. /\ latest(c, "B", done[c] + 1) \in 1..done[c]
        /\ asked[c][latest(c, "B", done[c] + 1)].addr = transactions[c][id].addr
    BY <2>1, <2>2, <2>3, LatestBegin DEF id
  <2>5. QED  BY <2>1, <2>2, <2>4
<1>2. QED  BY <1>1, Invariant, PTL

\* Dovecot gets the replies it waits for, in order, and a commit is answered with
\* O only if handle_set has succeeded for every line of its transaction.
THEOREM RepliesAreTruthful == Spec => []RepliesTruthful
<1>1. Inv => RepliesTruthful
  BY DEF Inv, Answered, RepliesTruthful
<1>2. QED  BY <1>1, Invariant, PTL

\* A begin is committed once at most.
THEOREM BeginsCommittedOnce == Spec => []CommittedOnce
<1>1. Inv => CommittedOnce
  <2> SUFFICES ASSUME Inv, NEW c \in Conn, NEW i \in 1..done[c], asked[c][i].cmd = "C"
               PROVE  latest(c, "B", i) > latest(c, "C", i)
    BY DEF CommittedOnce
  <2>1. i \in Nat /\ i > 0 /\ Begun(asked[c], i)
    BY DEF Inv, TypeInv, Typed, CommitsBegun
  <2>2. PICK b \in 1..(i - 1) :
           /\ asked[c][b].cmd = "B" /\ asked[c][b].id = asked[c][i].id
           /\ \A k \in (b + 1)..(i - 1) : asked[c][k].id = asked[c][i].id => asked[c][k].cmd \notin {"B", "C"}
    BY <2>1 DEF Begun
  <2> DEFINE lb == latest(c, "B", i)
             lc == latest(c, "C", i)
  <2>3. lb \in Nat /\ b <= lb
    BY <2>1, <2>2, LatestIs
  <2>4. lc \in 0..(i - 1) \cup {0} /\ (lc # 0 => asked[c][lc].cmd = "C" /\ asked[c][lc].id = asked[c][i].id)
    BY <2>1, LatestIs
  <2> HIDE DEF lb, lc
  <2>5. lc # b /\ lc \notin (b + 1)..(i - 1)
    BY <2>1, <2>2, <2>4
  <2>6. lc < b
    BY <2>1, <2>2, <2>4, <2>5
  <2>7. lb > lc
    BY <2>1, <2>2, <2>3, <2>4, <2>6
  <2>8. QED  BY <2>7 DEF lb, lc
<1>2. QED  BY <1>1, Invariant, PTL

-----------------------------------------------------------------------------
(* Progress of a thread                                                       *)

\* A thread has something to do: a line that was sent, or the end of the stream.
Waiting(c) == stream[c] = "eof" \/ (stream[c] = "open" /\ done[c] < Len(asked[c]))

\* Fairness of the thread of c, with the guard of its steps in the place of ENABLED
Scheduled(c) == []<>~Waiting(c) \/ []<><<Serve(c)>>_vars

\* A step of the thread closes the connection, is done with a line, or calls
\* handle_set.
LEMMA ServeAdvances ==
    ASSUME TypeInv, NEW c \in Conn, Serve(c)
    PROVE  \/ stream'[c] = "closed"
           \/ /\ UNCHANGED <<stream, asked>> /\ stream[c] # "closed" /\ done[c] < Len(asked[c])
              /\ \/ done'[c] = done[c] + 1 /\ call'[c] = None
                 \/ done'[c] = done[c] /\ call[c] = None /\ call'[c] # None
<1>1. Typed /\ AtLine(c)
  BY DEF TypeInv
<1>2. CASE Lookup(c) \/ Iterate(c) \/ Ignore(c) \/ handle_begin_transaction(c) \/ handle_commit_transaction(c)
  <2>1. reads(c, {"L", "I", "H", "R", "B", "C"}) /\ UNCHANGED call /\ \E out, reply : Handled(c, out, reply)
    BY <1>2 DEF Lookup, Iterate, Ignore, handle_begin_transaction, handle_commit_transaction, reads
  <2>2. call'[c] = None /\ stream[c] # "closed" /\ done[c] < Len(asked[c])
    BY <2>1 DEF reads
  <2>3. QED  BY <1>1, <2>1, <2>2, OwnHandled
<1>3. CASE SetDone(c) \/ SetFailed(c)
  <2>1. call[c] # None /\ call'[c] = None /\ \E out : Handled(c, out, <<>>)
    BY <1>1, <1>3 DEF SetDone, SetFailed, Typed
  <2>2. stream[c] # "closed" /\ done[c] < Len(asked[c])
    <3>1. done[c] < Len(asked[c]) /\ done[c] \in Nat
      BY <1>1, <2>1 DEF AtLine, Typed
    <3>2. asked[c] # <<>>
      BY <3>1
    <3>3. QED  BY <1>1, <3>1, <3>2 DEF AtLine
  <2>3. QED  BY <1>1, <2>1, <2>2, OwnHandled
<1>4. CASE CallSet(c)
  <2>1. reads(c, {"S"}) /\ current(c).id \in Id /\ transactions[c][current(c).id] # None
    BY <1>1, <1>4, CurrentIs, LineIs DEF CallSet, reads
  <2>2. transactions[c][current(c).id].addr # None
    BY <1>1, <2>1, LineAssumption DEF Typed, Transaction
  <2>3. QED  BY <1>1, <1>4, <2>1, <2>2 DEF CallSet, reads, Typed
<1>5. CASE Raise(c) \/ EndOfStream(c)
  BY <1>1, <1>5, OwnClose
<1>6. QED  BY <1>2, <1>3, <1>4, <1>5 DEF Serve

\* No other step takes anything away from it, and after Dovecot has hung up
\* nothing is added.
LEMMA ThreadLeft ==
    ASSUME TypeInv, NEW c \in Conn, [Next]_vars, ~Serve(c), stream[c] # "closed"
    PROVE  /\ stream'[c] # "closed" /\ done'[c] = done[c] /\ call'[c] = call[c]
           /\ stream[c] = "eof" => stream'[c] = "eof" /\ asked'[c] = asked[c]
           /\ Len(asked'[c]) >= Len(asked[c])
<1>1. Typed /\ asked[c] \in Seq(Line)
  BY DEF TypeInv, Typed
<1>2. CASE UNCHANGED conn(c)
  BY <1>1, <1>2 DEF conn
<1>3. ASSUME NEW d \in Conn, d # c, Step(d) PROVE UNCHANGED conn(c)
  BY <1>1, <1>3, OtherConnection
<1>4. CASE Connect(c) \/ Hangup(c)
  BY <1>1, <1>4 DEF Connect, Hangup, Typed
<1>5. ASSUME NEW line \in Line, Send(c, line)
      PROVE  /\ stream[c] = "open" /\ UNCHANGED <<stream, done, call>>
             /\ Len(asked'[c]) >= Len(asked[c])
  <2>1. asked'[c] = Append(asked[c], line) /\ stream[c] = "open" /\ UNCHANGED <<stream, done, call>>
    BY <1>1, <1>5 DEF Send, Typed
  <2>2. QED  BY <1>1, <2>1
<1>6. CASE UNCHANGED vars
  BY <1>6, <1>2 DEF vars, conn
<1>7. QED
  <2>1. CASE Step(c)
    <3>1. CASE \E line \in Line : Send(c, line)
      BY <1>5, <3>1
    <3>2. QED  BY <1>4, <2>1, <3>1 DEF Step
  <2>2. QED  BY <1>2, <1>3, <1>6, <2>1 DEF Next, Step

\* Whatever the other connections do, a line that was sent is dealt with, or the
\* connection closed, if the thread is scheduled.
THEOREM LinesHandled ==
    ASSUME NEW c \in Conn, NEW n \in Nat
    PROVE  Spec /\ Scheduled(c) =>
             (stream[c] # "closed" /\ done[c] = n /\ n < Len(asked[c])
                ~> stream[c] = "closed" \/ done[c] > n)
<1> DEFINE At == stream[c] # "closed" /\ done[c] = n /\ n < Len(asked[c])
           Idle == At /\ call[c] = None
           Busy == At /\ call[c] # None
           Gone == stream[c] = "closed" \/ done[c] > n
           Work == Serve(c)
           Awaited == Waiting(c)
<1>1. Spec => []TypeInv
  BY Invariant, PTL DEF Inv
<1>2. At => Idle \/ Busy
  OBVIOUS
<1>3. TypeInv /\ (Idle \/ Busy) => Awaited
  BY DEF Waiting, TypeInv, Typed
<1>4. TypeInv /\ Idle /\ [Next]_vars => Idle' \/ Busy' \/ Gone'
  <2> SUFFICES ASSUME TypeInv, Idle, [Next]_vars PROVE At' \/ Gone'
    OBVIOUS
  <2>1. Len(asked[c]) \in Nat /\ Len(asked'[c]) \in Nat
    BY TypeNext DEF TypeInv, Typed
  <2>2. QED  BY <2>1, ServeAdvances, ThreadLeft
<1>5. TypeInv /\ Idle /\ <<Work>>_vars => Busy' \/ Gone'
  BY ServeAdvances
<1>6. TypeInv /\ Busy /\ [Next]_vars => Busy' \/ Gone'
  <2> SUFFICES ASSUME TypeInv, Busy, [Next]_vars PROVE Busy' \/ Gone'
    OBVIOUS
  <2>1. Len(asked[c]) \in Nat /\ Len(asked'[c]) \in Nat
    BY TypeNext DEF TypeInv, Typed
  <2>2. QED  BY <2>1, ServeAdvances, ThreadLeft
<1>7. TypeInv /\ Busy /\ <<Work>>_vars => Gone'
  BY ServeAdvances
<1> HIDE DEF At, Idle, Busy, Gone, Work, Awaited
<1>8. Spec /\ ([]<>~Awaited \/ []<><<Work>>_vars) => (At ~> Gone)
  BY <1>1, <1>2, <1>3, <1>4, <1>5, <1>6, <1>7, PTL DEF Spec
<1>9. QED  BY <1>8 DEF At, Gone, Work, Awaited, Scheduled

\* What is left for a thread to do: two steps for each line at most, and one for
\* the end of the stream.
left(c) == 2 * (Len(asked[c]) - done[c]) + (IF call[c] = None THEN 1 ELSE 0)

\* After Dovecot has hung up, what is left becomes less and less until the thread
\* ends: it does not stay forever at any n, and n is a natural number.
THEOREM ThreadsEnd ==
    ASSUME NEW c \in Conn, NEW n \in Nat
    PROVE  /\ Spec => [](left(c) \in Nat)
           /\ Spec /\ Scheduled(c) =>
                (stream[c] = "eof" /\ left(c) = n
                   ~> stream[c] = "closed" \/ (stream[c] = "eof" /\ left(c) < n))
<1> DEFINE Idle == stream[c] = "eof" /\ left(c) = n
           Gone == stream[c] = "closed" \/ (stream[c] = "eof" /\ left(c) < n)
           Work == Serve(c)
           Awaited == Waiting(c)
<1>1. Spec => []TypeInv
  BY Invariant, PTL DEF Inv
<1>2. TypeInv => left(c) \in Nat
  BY DEF TypeInv, Typed, AtLine, left
<1>3. Idle => Awaited
  BY DEF Waiting
<1>4. ASSUME TypeInv, Idle, Serve(c) PROVE Gone'
  <2>1. Len(asked[c]) \in Nat /\ done[c] \in Nat
    BY <1>4 DEF TypeInv, Typed
  <2>2. QED  BY <1>4, <2>1, ServeAdvances DEF left
<1>5. TypeInv /\ Idle /\ [Next]_vars => Idle' \/ Gone'
  BY <1>4, ThreadLeft DEF left
<1>6. TypeInv /\ Idle /\ <<Work>>_vars => Gone'
  BY <1>4
<1> HIDE DEF Idle, Gone, Work, Awaited
<1>7. Spec /\ ([]<>~Awaited \/ []<><<Work>>_vars) => (Idle ~> Gone)
  BY <1>1, <1>3, <1>5, <1>6, PTL DEF Spec
<1>8. Spec => [](left(c) \in Nat)
  BY <1>1, <1>2, PTL
<1>9. QED  BY <1>7, <1>8 DEF Idle, Gone, Work, Awaited, Scheduled
=============================================================================
