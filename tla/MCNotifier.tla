----------------------------- MODULE MCNotifier -----------------------------
(* Small instances of Notifier for TLC. *)
EXTENDS Notifier, TLC

CONSTANTS w0, v0, w1

\* two lanes: two threads for first attempts, one for the retry
TwoLanes == (w0 :> 0) @@ (v0 :> 0) @@ (w1 :> 1)

\* two lanes, one thread for each
OneEach == (w0 :> 0) @@ (w1 :> 1)

\* threads of the same lane are alike
Symmetry == Permutations(Item) \cup Permutations(Token) \cup Permutations({w0, v0})

\* the real constants satisfy what DelayAssumption says: 8, 5 * 60 * 60, 5 lanes
ASSUME RealDelays == 8^4 <= 5 * 60 * 60 /\ 5 * 60 * 60 < 8^5
=============================================================================
