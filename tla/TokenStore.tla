----------------------------- MODULE TokenStore -----------------------------
(***************************************************************************)
(* What chatmaild/metadata.py promises of the device tokens of one address: *)
(* adding a token, removing one and purging the expired ones each happen at *)
(* one instant between call and return, a lookup answers from the tokens of *)
(* one instant, and a call that is cut short has either happened or not.    *)
(* Module Metadata is shown to implement this module.                       *)
(***************************************************************************)
EXTENDS Integers

CONSTANTS
    Token,
    Proc,       \* threads: connections of the proxy and NotifyThreads
    None,       \* no token
    Absent,     \* the timestamp of a token that is not registered
    MAX_AGE,    \* how long a token stays valid (90 days)
    MAX_AHEAD,  \* how far in the future a timestamp may be (60 seconds)
    MaxTime     \* bound: the last second

VARIABLES
    now,
    dated,      \* dated[t]: when token t was registered, or Absent
    undated,    \* tokens stored in the old list format, without timestamps
    op,         \* op[p]: what thread p is doing
    arg,        \* arg[p]: the token it adds or removes
    since,      \* since[p]: when it began
    seen,       \* seen[p]: the tokens its lookup read
    reply       \* reply[p]: what its last lookup returned

vars == <<now, dated, undated, op, arg, since, seen, reply>>

Timestamp == Nat \cup {Absent}
Dated == [Token -> Timestamp]
NoTokens == [t \in Token |-> Absent]

\* _is_valid_token_timestamp
valid(ts, n) == ts \in Nat /\ ts > n - MAX_AGE /\ ts < n + MAX_AHEAD

\* The tokens once undated ones are dated and expired ones are purged.
purged(d, u, n) ==
    [t \in Token |-> IF t \in u THEN n ELSE IF valid(d[t], n) THEN d[t] ELSE Absent]

modified(o, t, d, n) ==
    CASE o = "add"    -> [d EXCEPT ![t] = n]
      [] o = "remove" -> [d EXCEPT ![t] = Absent]
      [] OTHER        -> d

Init ==
    /\ now = 0
    /\ dated \in Dated
    /\ undated \in SUBSET Token
    /\ op = [p \in Proc |-> "none"]
    /\ arg = [p \in Proc |-> None]
    /\ since = [p \in Proc |-> 0]
    /\ seen = [p \in Proc |-> NoTokens]
    /\ reply = [p \in Proc |-> {}]

Begin(p, o, t) ==
    /\ op[p] = "none"
    /\ op' = [op EXCEPT ![p] = o]
    /\ arg' = [arg EXCEPT ![p] = t]
    /\ since' = [since EXCEPT ![p] = now]
    /\ UNCHANGED <<now, dated, undated, seen, reply>>

\* The instant at which a modification happens; it is dated between its
\* beginning and now.
Modify(p) ==
    /\ op[p] \in {"add", "remove", "purge"}
    /\ \E n \in since[p]..now :
         dated' = modified(op[p], arg[p], purged(dated, undated, n), n)
    /\ undated' = {}
    /\ op' = [op EXCEPT ![p] = "return"]
    /\ UNCHANGED <<now, arg, since, seen, reply>>

Look(p) ==
    /\ op[p] = "look"
    /\ seen' = [seen EXCEPT ![p] = dated]
    /\ op' = [op EXCEPT ![p] = "answer"]
    /\ UNCHANGED <<now, dated, undated, arg, since, reply>>

\* A lookup returns the tokens it saw that are still valid; if it saw expired
\* ones it purges them first.
Answer(p) ==
    /\ op[p] = "answer"
    /\ reply' = [reply EXCEPT ![p] = {t \in Token : valid(seen[p][t], now)}]
    /\ \/ /\ \A t \in Token : seen[p][t] # Absent => valid(seen[p][t], now)
          /\ op' = [op EXCEPT ![p] = "return"]
          /\ UNCHANGED since
       \/ /\ \E t \in Token : seen[p][t] # Absent /\ ~valid(seen[p][t], now)
          /\ op' = [op EXCEPT ![p] = "purge"]
          /\ since' = [since EXCEPT ![p] = now]
    /\ seen' = [seen EXCEPT ![p] = NoTokens]
    /\ UNCHANGED <<now, dated, undated, arg>>

\* The call ends, with its result or, at any moment, with an exception.
End(p) ==
    /\ op[p] # "none"
    /\ op' = [op EXCEPT ![p] = "none"]
    /\ arg' = [arg EXCEPT ![p] = None]
    /\ since' = [since EXCEPT ![p] = 0]
    /\ seen' = [seen EXCEPT ![p] = NoTokens]
    /\ reply' = [reply EXCEPT ![p] = {}]
    /\ UNCHANGED <<now, dated, undated>>

Crash ==
    /\ op' = [p \in Proc |-> "none"]
    /\ arg' = [p \in Proc |-> None]
    /\ since' = [p \in Proc |-> 0]
    /\ seen' = [p \in Proc |-> NoTokens]
    /\ reply' = [p \in Proc |-> {}]
    /\ UNCHANGED <<now, dated, undated>>

Tick ==
    /\ now < MaxTime
    /\ now' = now + 1
    /\ UNCHANGED <<dated, undated, op, arg, since, seen, reply>>

Next ==
    \/ \E p \in Proc : \/ \E t \in Token : Begin(p, "add", t) \/ Begin(p, "remove", t)
                       \/ Begin(p, "look", None)
                       \/ Modify(p) \/ Look(p) \/ Answer(p) \/ End(p)
    \/ Crash
    \/ Tick

Spec == Init /\ [][Next]_vars
=============================================================================
