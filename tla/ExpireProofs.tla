---------------------------- MODULE ExpireProofs ----------------------------
(* Proofs about Expire for any finite number of messages and any number of    *)
(* processes, runs and events.                                                *)
EXTENDS Expire, FiniteSetTheorems, TLAPS

-----------------------------------------------------------------------------
(* Induction over a finite set: of the subsets of S for which a claim is wrong *)
(* one has none below it.                                                     *)

LEMMA SmallestSubset ==
    ASSUME NEW S, IsFiniteSet(S), NEW Bad \in SUBSET SUBSET S, Bad # {}
    PROVE  \E T \in Bad : IsFiniteSet(T) /\ \A U \in Bad : ~(U \subseteq T /\ U # T)
<1> DEFINE R == StrictSubsetOrdering(S)
           F == FiniteSubsetsOf(S)
<1>1. IsWellFoundedOn(R, F)
  BY FS_StrictSubsetOrderingWellFounded
<1>2. F = SUBSET S
  BY FS_FiniteSubsetsOfFinite
<1>3. \E T \in Bad : \A U \in Bad : ~(<<U, T>> \in R)
  <2> HIDE DEF R, F
  <2>1. Bad \subseteq F
    BY <1>2
  <2>2. QED  BY <1>1, <2>1, WFMin
<1>4. PICK T \in Bad : \A U \in Bad : ~(<<U, T>> \in R)
  BY <1>3
<1>5. \A U \in Bad : U \subseteq T /\ U # T => <<U, T>> \in R
  BY DEF StrictSubsetOrdering
<1>6. IsFiniteSet(T)
  <2>1. T \in SUBSET S
    OBVIOUS
  <2>2. QED  BY <2>1, FS_Subset
<1> HIDE DEF R, F
<1>7. \A U \in Bad : ~(U \subseteq T /\ U # T)
  BY <1>4, <1>5
<1>8. QED  BY <1>6, <1>7

-----------------------------------------------------------------------------
(* Sizes of sets of files: SizeOf is a fold, whose recursive function has to be *)
(* shown to exist.                                                            *)

pick(s) == CHOOSE x \in s : TRUE
Summed(g, S) ==
    g = [s \in SUBSET S |-> IF s = {} THEN 0 ELSE pick(s).file.size + g[s \ {pick(s)}]]
Sum(S) == CHOOSE g : Summed(g, S)

LEMMA SizeOfIsSum == \A S : SizeOf(S) = Sum(S)[S]
BY DEF SizeOf, MapThenSumSet, MapThenFoldSet, Sum, Summed, pick

LEMMA PickIn == ASSUME NEW s, s # {} PROVE pick(s) \in s
BY DEF pick

LEMMA SummedBelow ==
    ASSUME NEW g, NEW S, Summed(g, S), NEW T \in SUBSET S
    PROVE  Summed([s \in SUBSET T |-> g[s]], T)
<1> DEFINE h == [s \in SUBSET T |-> g[s]]
<1>1. \A s \in SUBSET T : g[s] = IF s = {} THEN 0 ELSE pick(s).file.size + g[s \ {pick(s)}]
  BY DEF Summed
<1>2. \A s \in SUBSET T : h[s] = g[s] /\ h[s \ {pick(s)}] = g[s \ {pick(s)}]
  OBVIOUS
<1>3. h = [s \in SUBSET T |-> IF s = {} THEN 0 ELSE pick(s).file.size + h[s \ {pick(s)}]]
  BY <1>1, <1>2
<1>4. QED  BY <1>3 DEF Summed

LEMMA SummedUnique ==
    ASSUME NEW S, IsFiniteSet(S), NEW g, Summed(g, S), NEW h, Summed(h, S)
    PROVE  g = h
<1> DEFINE Bad == {s \in SUBSET S : g[s] # h[s]}
<1>1. /\ g = [s \in SUBSET S |-> g[s]] /\ h = [s \in SUBSET S |-> h[s]]
      /\ \A s \in SUBSET S : /\ g[s] = IF s = {} THEN 0 ELSE pick(s).file.size + g[s \ {pick(s)}]
                             /\ h[s] = IF s = {} THEN 0 ELSE pick(s).file.size + h[s \ {pick(s)}]
  BY DEF Summed
<1>2. Bad = {}
  <2>1. SUFFICES ASSUME Bad # {} PROVE FALSE
    OBVIOUS
  <2>2. PICK T \in Bad : \A U \in Bad : ~(U \subseteq T /\ U # T)
    <3>1. Bad \in SUBSET SUBSET S
      OBVIOUS
    <3> HIDE DEF Bad
    <3>2. QED  BY <2>1, <3>1, SmallestSubset
  <2>3. T # {}
    BY <1>1
  <2>4. T \ {pick(T)} \notin Bad
    BY <2>2, <2>3, PickIn
  <2>5. QED  BY <1>1, <2>3, <2>4
<1>3. \A s \in SUBSET S : g[s] = h[s]
  BY <1>2
<1>4. QED  BY <1>1, <1>3

LEMMA SummedExists ==
    ASSUME NEW S, IsFiniteSet(S)
    PROVE  \E g : Summed(g, S)
<1> DEFINE Bad == {T \in SUBSET S : ~ \E g : Summed(g, T)}
<1>1. SUFFICES ASSUME Bad # {} PROVE FALSE
  <2>1. S \in SUBSET S
    OBVIOUS
  <2>2. QED  BY <2>1
<1>2. PICK T \in Bad : IsFiniteSet(T) /\ \A U \in Bad : ~(U \subseteq T /\ U # T)
  <2>1. Bad \in SUBSET SUBSET S
    OBVIOUS
  <2> HIDE DEF Bad
  <2>2. QED  BY <1>1, <2>1, SmallestSubset
<1>3. \A s \in SUBSET T : s # T => Summed(Sum(s), s)
  <2>1. SUFFICES ASSUME NEW s \in SUBSET T, s # T PROVE \E g : Summed(g, s)
    BY DEF Sum
  <2>2. s \in SUBSET S /\ s \notin Bad
    BY <1>2, <2>1
  <2>3. QED  BY <2>2
<1> DEFINE h == [s \in SUBSET T |->
                   IF s = T /\ T # {} THEN pick(T).file.size + Sum(T \ {pick(T)})[T \ {pick(T)}]
                   ELSE IF s = {} THEN 0 ELSE Sum(s)[s]]
<1>4. ASSUME NEW s \in SUBSET T, s # T, s # {}
      PROVE  Sum(s)[s] = pick(s).file.size + Sum(s \ {pick(s)})[s \ {pick(s)}]
  <2> DEFINE u == s \ {pick(s)}
  <2>1. u \in SUBSET s /\ u \in SUBSET T /\ u # T /\ s \in SUBSET s
    BY <1>4
  <2>2. Sum(s)[s] = pick(s).file.size + Sum(s)[u]
    BY <1>3, <1>4 DEF Summed
  <2>3. Summed([v \in SUBSET u |-> Sum(s)[v]], u) /\ Summed(Sum(u), u) /\ IsFiniteSet(u)
    <3>1. IsFiniteSet(u)
      BY <1>2, <2>1, FS_Subset
    <3>2. QED  BY <1>3, <1>4, <2>1, <3>1, SummedBelow
  <2>4. [v \in SUBSET u |-> Sum(s)[v]] = Sum(u)
    BY <2>3, SummedUnique
  <2>5. Sum(s)[u] = Sum(u)[u]
    <3>1. u \in SUBSET u
      OBVIOUS
    <3>2. QED  BY <2>4, <3>1
  <2>6. QED  BY <2>2, <2>5
<1>5. \A s \in SUBSET T : s # T /\ s # {} => h[s] = Sum(s)[s]
  OBVIOUS
<1>6. {} # T => Sum({})[{}] = 0
  BY <1>3 DEF Summed
<1>7. \A s \in SUBSET T : s # T => h[s] = Sum(s)[s]
  BY <1>5, <1>6
<1>8. ASSUME NEW s \in SUBSET T
      PROVE  h[s] = IF s = {} THEN 0 ELSE pick(s).file.size + h[s \ {pick(s)}]
  <2>1. CASE s = {}
    BY <2>1
  <2>2. CASE s # {}
    <3> DEFINE u == s \ {pick(s)}
    <3>1. u \in SUBSET T /\ u # T
      BY <2>2, PickIn
    <3>2. h[u] = Sum(u)[u]
      BY <1>7, <3>1
    <3>3. h[s] = pick(s).file.size + Sum(u)[u]
      BY <1>4, <1>8, <2>2
    <3>4. QED  BY <2>2, <3>2, <3>3
  <2>3. QED  BY <2>1, <2>2
<1>9. h = [s \in SUBSET T |-> IF s = {} THEN 0 ELSE pick(s).file.size + h[s \ {pick(s)}]]
  BY <1>8
<1>10. Summed(h, T)
  BY <1>9 DEF Summed
<1>11. QED  BY <1>2, <1>10

LEMMA SizeEmpty == SizeOf({}) = 0
<1>1. PICK g : Summed(g, {})
  BY SummedExists, FS_EmptySet
<1>2. Summed(Sum({}), {})
  BY <1>1 DEF Sum
<1>3. QED  BY <1>2, SizeOfIsSum DEF Summed

LEMMA SizePick ==
    ASSUME NEW S, IsFiniteSet(S), S # {}
    PROVE  SizeOf(S) = pick(S).file.size + SizeOf(S \ {pick(S)})
<1> DEFINE u == S \ {pick(S)}
<1>1. u \in SUBSET S /\ S \in SUBSET S /\ u \in SUBSET u
  OBVIOUS
<1>2. IsFiniteSet(u)
  BY <1>1, FS_Subset
<1>3. Summed(Sum(S), S) /\ Summed(Sum(u), u)
  BY <1>2, SummedExists DEF Sum
<1>4. Sum(S)[S] = pick(S).file.size + Sum(S)[u]
  BY <1>1, <1>3 DEF Summed
<1>5. Summed([v \in SUBSET u |-> Sum(S)[v]], u)
  BY <1>1, <1>3, SummedBelow
<1>6. [v \in SUBSET u |-> Sum(S)[v]] = Sum(u)
  BY <1>2, <1>3, <1>5, SummedUnique
<1>7. Sum(S)[u] = Sum(u)[u]
  BY <1>1, <1>6
<1>8. QED  BY <1>4, <1>7, SizeOfIsSum

Sized(S) == IsFiniteSet(S) /\ \A e \in S : e.file.size \in Nat

LEMMA SizedSubset == ASSUME NEW S, Sized(S), NEW T \in SUBSET S PROVE Sized(T)
BY FS_Subset DEF Sized

LEMMA SizeType == ASSUME NEW S, Sized(S) PROVE SizeOf(S) \in Nat
<1> DEFINE Bad == {T \in SUBSET S : SizeOf(T) \notin Nat}
<1>1. SUFFICES ASSUME Bad # {} PROVE FALSE
  <2>1. S \in SUBSET S
    OBVIOUS
  <2>2. QED  BY <2>1
<1>2. PICK T \in Bad : IsFiniteSet(T) /\ \A U \in Bad : ~(U \subseteq T /\ U # T)
  <2>1. Bad \in SUBSET SUBSET S
    OBVIOUS
  <2> HIDE DEF Bad
  <2>2. QED  BY <1>1, <2>1, SmallestSubset DEF Sized
<1>3. T # {}
  <2>1. SUFFICES ASSUME T = {} PROVE FALSE
    OBVIOUS
  <2>2. SizeOf(T) = 0
    BY <2>1, SizeEmpty
  <2>3. QED  BY <1>2, <2>2
<1>4. T \ {pick(T)} \notin Bad /\ pick(T) \in T
  BY <1>2, <1>3, PickIn
<1>5. SizeOf(T \ {pick(T)}) \in Nat /\ pick(T).file.size \in Nat
  BY <1>2, <1>4 DEF Sized
<1>6. SizeOf(T) = pick(T).file.size + SizeOf(T \ {pick(T)})
  BY <1>2, <1>3, SizePick
<1>7. SizeOf(T) \in Nat
  BY <1>5, <1>6
<1>8. QED  BY <1>2, <1>7

\* It does not matter which file is taken out first.
LEMMA SizeRemove ==
    ASSUME NEW S, Sized(S), NEW e \in S
    PROVE  SizeOf(S) = e.file.size + SizeOf(S \ {e})
<1> DEFINE Wrong(T) == \E x \in T : SizeOf(T) # x.file.size + SizeOf(T \ {x})
           Bad == {T \in SUBSET S : Wrong(T)}
<1>1. SUFFICES ASSUME Bad # {} PROVE FALSE
  <2>1. S \in SUBSET S
    OBVIOUS
  <2>2. QED  BY <2>1
<1>2. PICK T \in Bad : IsFiniteSet(T) /\ \A U \in Bad : ~(U \subseteq T /\ U # T)
  <2>1. Bad \in SUBSET SUBSET S
    OBVIOUS
  <2> HIDE DEF Bad
  <2>2. QED  BY <1>1, <2>1, SmallestSubset DEF Sized
<1>3. PICK x \in T : SizeOf(T) # x.file.size + SizeOf(T \ {x})
  BY <1>2
<1> DEFINE y == pick(T)
<1>4. y \in T /\ SizeOf(T) = y.file.size + SizeOf(T \ {y})
  BY <1>2, <1>3, PickIn, SizePick
<1>5. x # y
  BY <1>3, <1>4
<1> HIDE DEF y
<1> DEFINE U == (T \ {y}) \ {x}
<1>6. SizeOf(T \ {y}) = x.file.size + SizeOf(U)
  <2>1. ~Wrong(T \ {y}) /\ x \in T \ {y}
    BY <1>2, <1>4, <1>5
  <2>2. QED  BY <2>1
<1>7. SizeOf(T \ {x}) = y.file.size + SizeOf(U)
  <2>1. ~Wrong(T \ {x}) /\ y \in T \ {x}
    BY <1>2, <1>3, <1>4, <1>5
  <2>2. (T \ {x}) \ {y} = U
    OBVIOUS
  <2>3. QED  BY <2>1, <2>2
<1>8. x.file.size \in Nat /\ y.file.size \in Nat /\ SizeOf(U) \in Nat
  <2>1. U \in SUBSET S /\ x \in S /\ y \in S
    BY <1>2, <1>3, <1>4
  <2>2. Sized(U)
    BY <2>1, SizedSubset
  <2>3. QED  BY <2>1, <2>2, SizeType DEF Sized
<1> HIDE DEF U
<1>9. QED  BY <1>3, <1>4, <1>6, <1>7, <1>8

LEMMA SizeAdd ==
    ASSUME NEW S, Sized(S), NEW e, e \notin S, e.file.size \in Nat
    PROVE  SizeOf(S \cup {e}) = SizeOf(S) + e.file.size /\ Sized(S \cup {e})
<1>1. Sized(S \cup {e})
  BY FS_AddElement DEF Sized
<1>2. (S \cup {e}) \ {e} = S
  OBVIOUS
<1>3. SizeOf(S \cup {e}) = e.file.size + SizeOf(S)
  <2>1. e \in S \cup {e}
    OBVIOUS
  <2>2. QED  BY <1>1, <1>2, <2>1, SizeRemove
<1>4. QED  BY <1>1, <1>3, SizeType

\* A part of a listing is no larger than the whole.
LEMMA SizeMonotone ==
    ASSUME NEW S, Sized(S), NEW T \in SUBSET S
    PROVE  SizeOf(T) <= SizeOf(S)
<1> DEFINE Bad == {U \in SUBSET S : T \subseteq U /\ ~(SizeOf(T) <= SizeOf(U))}
<1>1. SUFFICES ASSUME Bad # {} PROVE FALSE
  <2>1. S \in SUBSET S
    OBVIOUS
  <2>2. QED  BY <2>1
<1>2. PICK U \in Bad : IsFiniteSet(U) /\ \A V \in Bad : ~(V \subseteq U /\ V # U)
  <2>1. Bad \in SUBSET SUBSET S
    OBVIOUS
  <2> HIDE DEF Bad
  <2>2. QED  BY <1>1, <2>1, SmallestSubset DEF Sized
<1>3. SizeOf(T) \in Nat /\ Sized(U)
  BY <1>2, SizedSubset, SizeType
<1>4. PICK e \in U : e \notin T
  <2>1. SUFFICES ASSUME U \subseteq T PROVE FALSE
    OBVIOUS
  <2>2. U = T
    BY <1>2, <2>1
  <2>3. ~(SizeOf(T) <= SizeOf(T))
    BY <1>2, <2>2
  <2>4. QED  BY <1>3, <2>3
<1>5. U \ {e} \notin Bad
  BY <1>2
<1>6. SizeOf(T) <= SizeOf(U \ {e})
  BY <1>2, <1>4, <1>5
<1>7. SizeOf(U) = e.file.size + SizeOf(U \ {e}) /\ e.file.size \in Nat
  BY <1>3, SizeRemove DEF Sized
<1>8. SizeOf(U \ {e}) \in Nat
  <2>1. U \ {e} \in SUBSET S
    BY <1>2
  <2>2. Sized(U \ {e})
    BY <2>1, SizedSubset
  <2>3. QED  BY <2>2, SizeType
<1>9. QED  BY <1>2, <1>3, <1>6, <1>7, <1>8


-----------------------------------------------------------------------------
(* The files of the mailbox *)

held(b) == {[msg |-> m, file |-> b[m]] : m \in {k \in Msg : b[k] # None}}

Box == [Msg -> File \cup {None}]

LEMMA FileFields ==
    ASSUME NEW f \in File
    PROVE  /\ f.at \in Nat /\ f.at \in 0..MaxTime /\ f.size \in Nat /\ f.size > 0
           /\ f.size \in Sizes /\ f.dir \in {"new", "cur"} /\ f.flags \in {0, 1}
           /\ f # None
<1>1. MaxTime \in Nat /\ Sizes \subseteq Nat \ {0}
  BY ExpireAssumption
<1>2. f # None
  BY NoFileAssumption
<1>3. /\ f.at \in 0..MaxTime /\ f.size \in Sizes
      /\ f.dir \in {"new", "cur"} /\ f.flags \in {0, 1}
  BY DEF File
<1>4. f.size \in Nat /\ f.size > 0
  <2>1. f.size \in Nat \ {0}
    BY <1>1, <1>3, Zenon
  <2>2. QED  BY <2>1
<1>5. QED  BY <1>1, <1>2, <1>3, <1>4

LEMMA HeldEntries ==
    ASSUME NEW b \in Box
    PROVE  /\ held(b) \subseteq Entry /\ Sized(held(b))
           /\ \A e : e \in held(b) <=> /\ e \in [msg : Msg, file : File]
                                       /\ b[e.msg] = e.file
<1>1. IsFiniteSet(held(b))
  <2>1. {k \in Msg : b[k] # None} \in SUBSET Msg /\ IsFiniteSet(Msg)
    BY ExpireAssumption
  <2>2. IsFiniteSet({k \in Msg : b[k] # None})
    BY <2>1, FS_Subset
  <2>3. [k \in {n \in Msg : b[n] # None} |-> [msg |-> k, file |-> b[k]]]
          \in Surjection({n \in Msg : b[n] # None}, held(b))
    BY DEF held, Surjection
  <2>4. QED  BY <2>2, <2>3, FS_Surjection
<1>2. \A m \in Msg : b[m] # None => b[m] \in File
  BY DEF Box
<1>3. \A e : e \in held(b) <=> /\ e \in [msg : Msg, file : File]
                               /\ b[e.msg] = e.file
  <2>1. SUFFICES ASSUME NEW e
                 PROVE  e \in held(b) <=> e \in [msg : Msg, file : File] /\ b[e.msg] = e.file
    OBVIOUS
  <2>2. e \in held(b) => e \in [msg : Msg, file : File] /\ b[e.msg] = e.file
    BY <1>2 DEF held
  <2>3. ASSUME e \in [msg : Msg, file : File], b[e.msg] = e.file
        PROVE  e \in held(b)
    <3>1. e = [msg |-> e.msg, file |-> b[e.msg]] /\ e.msg \in Msg /\ b[e.msg] # None
      BY <2>3, FileFields
    <3>2. QED  BY <3>1 DEF held
  <2>4. QED  BY <2>2, <2>3
<1>4. \A e \in Entry : e.file.size \in Nat
  BY FileFields DEF Entry
<1>5. held(b) \subseteq Entry
  BY <1>3 DEF Entry
<1>6. QED  BY <1>1, <1>3, <1>4, <1>5 DEF Sized

listing(b, dirs) == {e \in [msg : Msg, file : {b[m] : m \in Msg} \ {None}] :
                       b[e.msg] = e.file /\ e.file.dir \in dirs}

LEMMA ListingHeld ==
    ASSUME NEW b \in Box
    PROVE  /\ listing(b, {"new", "cur"}) = held(b)
           /\ listing(b, {"cur"}) \cup listing(b, {"new"}) = held(b)
           /\ \A dir \in {"new", "cur"} : listing(b, {dir}) \in SUBSET held(b)
<1>1. \A m \in Msg : b[m] # None => b[m] \in File
  BY DEF Box
<1>2. \A dirs : listing(b, dirs) = {e \in held(b) : e.file.dir \in dirs}
  <2>1. SUFFICES ASSUME NEW dirs, NEW e
                 PROVE  e \in listing(b, dirs) <=> e \in held(b) /\ e.file.dir \in dirs
    BY Zenon
  <2>2. e \in listing(b, dirs) =>
          e \in [msg : Msg, file : File] /\ b[e.msg] = e.file /\ e.file.dir \in dirs
    BY <1>1 DEF listing
  <2>3. e \in [msg : Msg, file : File] /\ b[e.msg] = e.file /\ e.file.dir \in dirs =>
          e \in listing(b, dirs)
    BY FileFields DEF listing
  <2>4. QED  BY <2>2, <2>3, HeldEntries
<1>3. \A e \in held(b) : e.file.dir \in {"new", "cur"}
  BY HeldEntries, FileFields
<1>4. listing(b, {"new", "cur"}) = held(b)
  BY <1>2, <1>3
<1>5. /\ listing(b, {"cur"}) = {e \in held(b) : e.file.dir \in {"cur"}}
      /\ listing(b, {"new"}) = {e \in held(b) : e.file.dir \in {"new"}}
  BY <1>2
<1>6. listing(b, {"cur"}) \cup listing(b, {"new"}) = held(b)
  BY <1>3, <1>5
<1>7. QED  BY <1>4, <1>5, <1>6

LEMMA Entries ==
    /\ \A dirs : entries(dirs) = listing(box, dirs)
    /\ box \in Box => used = SizeOf(held(box)) /\ used \in Nat
    /\ box' \in Box => used' = SizeOf(held(box')) /\ used' \in Nat
<1>1. \A b \in Box : SizeOf(held(b)) \in Nat
  BY HeldEntries, SizeType
<1>2. \A dirs : entries(dirs) = listing(box, dirs)
  BY DEF entries, listing
<1>3. used = SizeOf(listing(box, {"new", "cur"})) /\ used' = SizeOf(listing(box', {"new", "cur"}))
  BY DEF used, entries, listing
<1>4. QED  BY <1>1, <1>2, <1>3, ListingHeld

\* A message comes: its file is one more.
LEMMA HeldAdd ==
    ASSUME NEW b \in Box, NEW m \in Msg, b[m] = None, NEW f \in File
    PROVE  /\ [b EXCEPT ![m] = f] \in Box
           /\ SizeOf(held([b EXCEPT ![m] = f])) = SizeOf(held(b)) + f.size
<1> DEFINE c == [b EXCEPT ![m] = f]
           n == [msg |-> m, file |-> f]
<1>1. c \in Box
  BY DEF Box
<1>2. held(c) = held(b) \cup {n}
  <2>1. c[m] = f /\ \A k \in Msg : k # m => c[k] = b[k]
    BY DEF Box
  <2>2. ASSUME NEW e \in [msg : Msg, file : File]
        PROVE  c[e.msg] = e.file <=> b[e.msg] = e.file \/ e = n
    <3>1. CASE e.msg = m
      BY <2>1, <2>2, <3>1, FileFields
    <3>2. CASE e.msg # m
      BY <2>1, <2>2, <3>2
    <3>3. QED  BY <3>1, <3>2
  <2>3. n \in [msg : Msg, file : File]
    OBVIOUS
  <2> HIDE DEF c, n
  <2>4. QED  BY <1>1, <2>2, <2>3, HeldEntries
<1>3. n \notin held(b) /\ n.file.size = f.size /\ f.size \in Nat
  BY HeldEntries, FileFields
<1> HIDE DEF c
<1>4. Sized(held(b))
  BY HeldEntries
<1> HIDE DEF n
<1>5. SizeOf(held(b) \cup {n}) = SizeOf(held(b)) + n.file.size
  BY <1>3, <1>4, SizeAdd
<1>6. SizeOf(held(c)) = SizeOf(held(b)) + f.size
  BY <1>2, <1>3, <1>5
<1>7. QED  BY <1>1, <1>6 DEF c

\* A message goes: its file is one less.
LEMMA HeldRemove ==
    ASSUME NEW b \in Box, NEW m \in Msg, b[m] # None
    PROVE  /\ [b EXCEPT ![m] = None] \in Box
           /\ [msg |-> m, file |-> b[m]] \in held(b)
           /\ held([b EXCEPT ![m] = None]) = held(b) \ {[msg |-> m, file |-> b[m]]}
           /\ SizeOf(held(b)) = b[m].size + SizeOf(held([b EXCEPT ![m] = None]))
<1> DEFINE c == [b EXCEPT ![m] = None]
           o == [msg |-> m, file |-> b[m]]
<1>1. c \in Box
  BY DEF Box
<1>2. o \in held(b) /\ b[m] \in File
  BY DEF held, Box
<1>3. held(c) = held(b) \ {o}
  <2>1. c[m] = None /\ \A k \in Msg : k # m => c[k] = b[k]
    BY DEF Box
  <2>2. ASSUME NEW e \in [msg : Msg, file : File]
        PROVE  c[e.msg] = e.file <=> b[e.msg] = e.file /\ e # o
    <3>1. CASE e.msg = m
      BY <2>1, <2>2, <3>1, FileFields
    <3>2. CASE e.msg # m
      BY <2>1, <2>2, <3>2
    <3>3. QED  BY <3>1, <3>2
  <2> HIDE DEF c, o
  <2>4. QED  BY <1>1, <2>2, HeldEntries
<1>4. Sized(held(b)) /\ o.file.size = b[m].size
  BY HeldEntries
<1> HIDE DEF c
<1>5. SizeOf(held(b)) = b[m].size + SizeOf(held(c))
  <2> HIDE DEF o
  <2>1. QED  BY <1>2, <1>3, <1>4, SizeRemove
<1>6. QED  BY <1>1, <1>2, <1>3, <1>5 DEF c

\* A message is renamed: its file has the size it had.
LEMMA HeldRename ==
    ASSUME NEW b \in Box, NEW m \in Msg, b[m] # None, NEW f \in File, f.size = b[m].size
    PROVE  /\ [b EXCEPT ![m] = f] \in Box
           /\ SizeOf(held([b EXCEPT ![m] = f])) = SizeOf(held(b))
<1> DEFINE c == [b EXCEPT ![m] = None]
<1>1. /\ c \in Box /\ SizeOf(held(b)) = b[m].size + SizeOf(held(c))
  BY HeldRemove
<1>2. [c EXCEPT ![m] = f] = [b EXCEPT ![m] = f] /\ c[m] = None
  BY DEF Box
<1> HIDE DEF c
<1>3. /\ [c EXCEPT ![m] = f] \in Box
      /\ SizeOf(held([c EXCEPT ![m] = f])) = SizeOf(held(c)) + f.size
  BY <1>1, <1>2, HeldAdd
<1>4. SizeOf(held(c)) \in Nat /\ f.size \in Nat
  BY <1>1, HeldEntries, SizeType, FileFields
<1>5. QED  BY <1>1, <1>2, <1>3, <1>4

-----------------------------------------------------------------------------
(* Types.  That the totals stay natural numbers takes that they are the sizes  *)
(* of what is left, and that Dovecot has no less on record than there is.     *)

Finite == \A p \in Proc : IsFiniteSet(todo[p]) /\ IsFiniteSet(listed[p])
Covered == maildirsize # None => maildirsize >= used
Counted == \A p \in Proc :
             pc[p] = "shrink" => todo[p] \subseteq listed[p] /\ total[p] = SizeOf(todo[p])
TypeInv == TypeOK /\ Finite /\ Covered /\ Counted

\* What Dovecot does leaves the difference between record and content as it is.
LEMMA EventEffect ==
    ASSUME TypeInv, NEW m \in Msg,
           (\E s \in Sizes : Deliver(m, s)) \/ Notice(m) \/ Flag(m) \/ Expunge(m)
    PROVE  /\ box' \in Box /\ UNCHANGED <<now, work, runs>>
           /\ calm' = {} /\ events' = events + 1 /\ events' \in 0..MaxEvents
           /\ maildirsize = None => maildirsize' = None
           /\ maildirsize # None => maildirsize' = maildirsize + (used' - used)
<1>1. box \in Box /\ used = SizeOf(held(box)) /\ used \in Nat
  BY Entries DEF TypeInv, TypeOK, Box
<1>2. now \in 0..MaxTime /\ events \in 0..MaxEvents /\ MaxEvents \in Nat
  BY ExpireAssumption DEF TypeInv, TypeOK
<1>3. Event
  BY DEF Deliver, Notice, Flag, Expunge
<1>4. /\ UNCHANGED <<now, work, runs>>
      /\ calm' = {} /\ events' = events + 1 /\ events' \in 0..MaxEvents
  BY <1>2, <1>3 DEF Event
<1>5. ASSUME NEW s \in Sizes, Deliver(m, s)
      PROVE  /\ box' \in Box
             /\ maildirsize = None => maildirsize' = None
             /\ maildirsize # None => maildirsize' = maildirsize + (used' - used)
  <2> DEFINE f == [at |-> now, size |-> s, dir |-> "new", flags |-> 0]
  <2>1. f \in File /\ f.size = s
    BY <1>2 DEF File
  <2>2. box[m] = None /\ box' = [box EXCEPT ![m] = f] /\ Account(s)
    BY <1>5 DEF Deliver
  <2> HIDE DEF f
  <2>3. box' \in Box /\ SizeOf(held(box')) = SizeOf(held(box)) + s
    BY <1>1, <2>1, <2>2, HeldAdd
  <2>4. used' = used + s
    BY <1>1, <2>3, Entries
  <2>5. s \in Nat
    BY ExpireAssumption
  <2>6. QED  BY <1>1, <2>2, <2>3, <2>4, <2>5 DEF Account
<1>6. ASSUME NEW f \in File, box[m] # None, f.size = box[m].size,
             box' = [box EXCEPT ![m] = f], maildirsize' = maildirsize
      PROVE  /\ box' \in Box
             /\ maildirsize # None => maildirsize' = maildirsize + (used' - used)
  <2>1. box' \in Box /\ SizeOf(held(box')) = SizeOf(held(box))
    BY <1>1, <1>6, HeldRename
  <2>2. used' = used
    BY <1>1, <2>1, Entries
  <2>3. maildirsize # None => maildirsize \in Nat
    BY DEF TypeInv, TypeOK
  <2>4. QED  BY <1>1, <1>6, <2>1, <2>2, <2>3
<1>7. box[m] # None => box[m] \in File
  BY <1>1 DEF Box
<1>8. ASSUME Notice(m)
      PROVE  \E f \in File : /\ box[m] # None /\ f.size = box[m].size
                             /\ box' = [box EXCEPT ![m] = f] /\ maildirsize' = maildirsize
  <2>1. [box[m] EXCEPT !.dir = "cur"] \in File
        /\ [box[m] EXCEPT !.dir = "cur"].size = box[m].size
    BY <1>7, <1>8 DEF Notice, File
  <2>2. box' = [box EXCEPT ![m] = [box[m] EXCEPT !.dir = "cur"]]
    BY <1>1, <1>8 DEF Notice, Box
  <2>3. QED  BY <1>8, <2>1, <2>2 DEF Notice
<1>9. ASSUME Flag(m)
      PROVE  \E f \in File : /\ box[m] # None /\ f.size = box[m].size
                             /\ box' = [box EXCEPT ![m] = f] /\ maildirsize' = maildirsize
  <2>1. [box[m] EXCEPT !.flags = 1 - @] \in File
        /\ [box[m] EXCEPT !.flags = 1 - @].size = box[m].size
    BY <1>7, <1>9 DEF Flag, File
  <2>2. box' = [box EXCEPT ![m] = [box[m] EXCEPT !.flags = 1 - @]]
    BY <1>1, <1>9 DEF Flag, Box
  <2>3. QED  BY <1>9, <2>1, <2>2 DEF Flag
<1>10. ASSUME Expunge(m)
       PROVE  /\ box' \in Box
              /\ maildirsize = None => maildirsize' = None
              /\ maildirsize # None => maildirsize' = maildirsize + (used' - used)
  <2>1. box[m] # None /\ box' = [box EXCEPT ![m] = None] /\ Account(-box[m].size)
    BY <1>10 DEF Expunge
  <2>2. box' \in Box /\ SizeOf(held(box)) = box[m].size + SizeOf(held(box'))
    BY <1>1, <2>1, HeldRemove
  <2>3. box[m].size \in Nat
    BY <1>7, <2>1, FileFields
  <2>4. used' \in Nat /\ used = box[m].size + used'
    BY <1>1, <2>2, Entries
  <2>5. -box[m].size = used' - used
    BY <1>1, <2>3, <2>4
  <2>6. QED  BY <2>1, <2>2, <2>5 DEF Account
<1>11. /\ box' \in Box
       /\ maildirsize = None => maildirsize' = None
       /\ maildirsize # None => maildirsize' = maildirsize + (used' - used)
  BY <1>5, <1>6, <1>8, <1>9, <1>10
<1>12. QED  BY <1>4, <1>11

\* Whoever unlinks a file takes that one away, or none.
LEMMA UnlinkEffect ==
    ASSUME box \in Box, NEW e \in Entry, Unlink(e) \/ box' = box
    PROVE  /\ box' \in Box
           /\ Unlink(e) => held(box') = held(box) \ {e}
           /\ used' <= used
           /\ \A k \in Msg : box[k] # None /\ box'[k] = None => box[k] = e.file
<1>1. CASE Unlink(e) /\ box[e.msg] = e.file
  <2>1. e.msg \in Msg /\ e.file \in File /\ e = [msg |-> e.msg, file |-> box[e.msg]]
    BY <1>1 DEF Entry
  <2>2. box[e.msg] # None
    BY <1>1, <2>1, FileFields
  <2>3. box' = [box EXCEPT ![e.msg] = None]
    BY <1>1 DEF Unlink
  <2>4. box' \in Box /\ held(box') = held(box) \ {e}
    <3>1. /\ [box EXCEPT ![e.msg] = None] \in Box
          /\ held([box EXCEPT ![e.msg] = None]) = held(box) \ {[msg |-> e.msg, file |-> box[e.msg]]}
      BY <2>1, <2>2, HeldRemove
    <3>2. QED  BY <2>1, <2>3, <3>1, Zenon
  <2>5. SizeOf(held(box')) <= SizeOf(held(box))
    <3>1. held(box') \in SUBSET held(box) /\ Sized(held(box))
      BY <2>4, HeldEntries
    <3>2. QED  BY <3>1, SizeMonotone
  <2>6. \A k \in Msg : box[k] # None /\ box'[k] = None => box[k] = e.file
    BY <1>1, <2>3 DEF Box
  <2>7. QED  BY <2>4, <2>5, <2>6, Entries
<1>2. CASE Unlink(e) /\ box[e.msg] # e.file
  <2>1. box' = box /\ e \notin held(box)
    BY <1>2, HeldEntries DEF Unlink
  <2>2. used' = used /\ used \in Nat
    BY <2>1, Entries
  <2>3. QED  BY <2>1, <2>2
<1>3. CASE ~Unlink(e) /\ box' = box
  <2>1. used' = used /\ used \in Nat
    BY <1>3, Entries
  <2>2. QED  BY <1>3, <2>1
<1>4. QED  BY <1>1, <1>2, <1>3

\* What is listed is an Entry, and finite.
LEMMA ListedTypes ==
    ASSUME TypeInv
    PROVE  /\ box \in Box /\ used \in Nat
           /\ \A dir \in {"new", "cur"} : /\ entries({dir}) \subseteq held(box)
                                         /\ entries({dir}) \subseteq Entry
                                         /\ IsFiniteSet(entries({dir}))
           /\ \A S \in SUBSET Entry : IsFiniteSet(S) => Sized(S)
<1>1. box \in Box
  BY DEF TypeInv, TypeOK, Box
<1>2. \A dir \in {"new", "cur"} : entries({dir}) \in SUBSET held(box)
  BY <1>1, Entries, ListingHeld
<1>3. IsFiniteSet(held(box)) /\ held(box) \subseteq Entry
  BY <1>1, HeldEntries DEF Sized
<1>4. \A dir \in {"new", "cur"} : IsFiniteSet(entries({dir}))
  BY <1>2, <1>3, FS_Subset
<1>5. \A S \in SUBSET Entry : IsFiniteSet(S) => Sized(S)
  BY FileFields DEF Sized, Entry
<1>6. QED  BY <1>1, <1>2, <1>3, <1>4, <1>5, Entries

LEMMA TypeInit == Init => TypeInv
<1> SUFFICES ASSUME Init PROVE TypeInv
  OBVIOUS
<1>1. /\ Start \in Nat /\ MaxTime \in Nat /\ Start <= MaxTime /\ Ages \subseteq 0..Start
      /\ MaxRuns \in Nat /\ MaxEvents \in Nat
  BY ExpireAssumption
<1>2. box \in [Msg -> File \cup {None}]
  <2>1. Ages \subseteq 0..MaxTime
    BY <1>1
  <2>2. [at : Ages, size : Sizes, dir : {"new", "cur"}, flags : {0}] \subseteq File
    BY <2>1 DEF File
  <2>3. QED  BY <2>2 DEF Init
<1>3. used \in Nat /\ maildirsize = used
  BY <1>2, Entries DEF Init, Box
<1>4. TypeOK
  BY <1>1, <1>2, <1>3 DEF Init, TypeOK
<1>5. Finite
  BY FS_EmptySet DEF Init, Finite
<1>6. Covered /\ Counted
  BY <1>3 DEF Init, Covered, Counted
<1>7. QED  BY <1>4, <1>5, <1>6 DEF TypeInv

\* Steps in which p unlinks a file, or does not even do that.
LEMMA RemovalEffect ==
    ASSUME TypeInv, NEW p \in Proc, NEW e \in todo[p], RemoveExpired(p, e) \/ Shrink(p, e)
    PROVE  /\ box' \in Box /\ used' <= used /\ used' \in Nat
           /\ e \in Entry /\ (box' # box => calm' = calm \cap {p}) /\ (box' = box => calm' = calm)
           /\ Shrink(p, e) => held(box') = held(box) \ {e}
           /\ \A k \in Msg : box[k] # None /\ box'[k] = None => box[k] = e.file
           /\ UNCHANGED <<now, maildirsize, pc, since, dry, listed, runs, events>>
           /\ todo' = [todo EXCEPT ![p] = @ \ {e}]
<1>1. e \in Entry
  BY DEF TypeInv, TypeOK
<1>2. Unlink(e) \/ box' = box
  BY DEF RemoveExpired, Shrink
<1>3. Shrink(p, e) => Unlink(e)
  BY DEF Shrink
<1>4. box \in Box
  BY ListedTypes
<1>5. /\ box' \in Box /\ used' <= used
      /\ Unlink(e) => held(box') = held(box) \ {e}
      /\ \A k \in Msg : box[k] # None /\ box'[k] = None => box[k] = e.file
  BY <1>1, <1>2, <1>4, UnlinkEffect
<1>6. used' \in Nat
  BY <1>5, Entries
<1>7. QED  BY <1>1, <1>3, <1>5, <1>6 DEF RemoveExpired, Shrink, Disturb

LEMMA TypeStep == TypeInv /\ [Next]_vars => TypeInv'
<1> SUFFICES ASSUME TypeInv, [Next]_vars PROVE TypeInv'
  OBVIOUS
<1>1. TypeOK /\ Finite /\ Covered /\ Counted /\ now \in Nat /\ now <= MaxTime /\ MaxTime \in Nat
  BY ExpireAssumption DEF TypeInv, TypeOK
<1>2. box \in Box /\ used \in Nat
  BY ListedTypes
<1>3. ASSUME UNCHANGED work PROVE Finite' /\ Counted'
  BY <1>1, <1>3 DEF Finite, Counted, work
<1>4. ASSUME NEW m \in Msg,
             (\E s \in Sizes : Deliver(m, s)) \/ Notice(m) \/ Flag(m) \/ Expunge(m)
      PROVE  TypeInv'
  <2>1. /\ box' \in Box /\ UNCHANGED <<now, work, runs>>
        /\ calm' = {} /\ events' \in 0..MaxEvents
        /\ maildirsize = None => maildirsize' = None
        /\ maildirsize # None => maildirsize' = maildirsize + (used' - used)
    BY <1>4, EventEffect
  <2>2. used' \in Nat
    BY <2>1, Entries
  <2>3. maildirsize' \in Nat \cup {None} /\ Covered'
    BY <1>1, <1>2, <2>1, <2>2 DEF TypeOK, Covered
  <2>4. TypeOK'
    BY <1>1, <2>1, <2>3 DEF TypeOK, work, Box
  <2>5. QED  BY <1>3, <2>1, <2>3, <2>4 DEF TypeInv
<1>5. CASE Recount
  <2>1. UNCHANGED <<now, box, work, calm, runs, events>> /\ maildirsize' = used
    BY <1>5 DEF Recount
  <2>2. used' = used
    BY <1>2, <2>1, Entries
  <2>3. Covered'
    BY <1>2, <2>1, <2>2 DEF Covered
  <2>4. TypeOK'
    BY <1>1, <1>2, <2>1 DEF TypeOK, work
  <2>5. QED  BY <1>3, <2>1, <2>3, <2>4 DEF TypeInv
<1>6. ASSUME box' = box, maildirsize' = maildirsize PROVE Covered'
  <2>1. used' = used
    BY <1>2, <1>6, Entries
  <2>2. QED  BY <1>1, <1>6, <2>1 DEF Covered
<1>7. CASE Tick
  <2>1. /\ now < MaxTime /\ now' = now + 1
        /\ UNCHANGED <<box, maildirsize, work, calm, runs, events>>
    BY <1>7 DEF Tick
  <2>2. now' \in Start..MaxTime /\ 0..now \subseteq 0..now'
    BY <1>1, <2>1, ExpireAssumption DEF TypeOK
  <2>3. TypeOK'
    BY <1>1, <2>1, <2>2 DEF TypeOK, work
  <2>4. QED  BY <1>3, <1>6, <2>1, <2>3 DEF TypeInv
<1>8. ASSUME NEW p \in Proc, NEW d \in Dry, StartDaily(p, d) PROVE TypeInv'
  <2>1. now \in 0..now /\ d \in BOOLEAN /\ runs' \in 0..MaxRuns
    BY <1>1, <1>8, ExpireAssumption DEF StartDaily, TypeOK
  <2>2. TypeOK'
    BY <1>1, <1>8, <2>1 DEF StartDaily, TypeOK, Goto
  <2>3. Finite' /\ Counted'
    BY <1>1, <1>8 DEF StartDaily, Finite, Counted, Goto, TypeOK
  <2>4. QED  BY <1>6, <1>8, <2>2, <2>3 DEF TypeInv, StartDaily
<1>9. ASSUME NEW p \in Proc, NEW dir \in {"cur", "new"}, StatDir(p, dir) PROVE TypeInv'
  <2> DEFINE More == {e \in entries({dir}) : expired(e.file, since[p])}
             Spared == \E e \in entries({dir}) : spared(e.file, since[p])
  <2>1. More \subseteq Entry /\ IsFiniteSet(More)
    BY ListedTypes, FS_Subset
  <2>2. /\ todo' = [todo EXCEPT ![p] = @ \cup More]
        /\ \E at \in {"stat_cur", "stat_new", "age"} : pc' = [pc EXCEPT ![p] = at]
        /\ changed' = [changed EXCEPT ![p] = @ \/ Spared]
        /\ UNCHANGED <<now, box, maildirsize, since, dry, total, removed, listed, calm, runs,
                        events>>
    BY <1>9 DEF StatDir, Goto
  <2>3. (changed[p] \/ Spared) \in BOOLEAN
    OBVIOUS
  <2> HIDE DEF More, Spared
  <2>4. changed' \in [Proc -> BOOLEAN]
    BY <1>1, <2>2, <2>3 DEF TypeOK
  <2>5. TypeOK'
    BY <1>1, <2>1, <2>2, <2>4 DEF TypeOK
  <2>6. Finite'
    <3>1. IsFiniteSet(todo[p] \cup More)
      BY <1>1, <2>1, FS_Union DEF Finite
    <3>2. QED  BY <1>1, <2>2, <3>1 DEF Finite, TypeOK
  <2>7. Counted'
    BY <1>1, <2>2 DEF Counted, TypeOK
  <2>8. QED  BY <1>6, <2>2, <2>5, <2>6, <2>7 DEF TypeInv
<1>10. ASSUME NEW p \in Proc, NEW e \in todo[p], RemoveExpired(p, e) \/ Shrink(p, e)
       PROVE  TypeInv'
  <2>1. /\ box' \in Box /\ used' <= used /\ used' \in Nat /\ e \in Entry
        /\ UNCHANGED <<now, maildirsize, pc, since, dry, listed, runs, events>>
        /\ todo' = [todo EXCEPT ![p] = @ \ {e}] /\ calm' \subseteq calm
    BY <1>10, RemovalEffect
  <2>2. Covered'
    BY <1>1, <1>2, <2>1 DEF Covered, TypeOK
  <2>3. Finite'
    <3>1. todo[p] \ {e} \in SUBSET todo[p] /\ IsFiniteSet(todo[p])
      BY <1>1 DEF Finite
    <3>2. IsFiniteSet(todo[p] \ {e})
      BY <3>1, FS_Subset
    <3>3. QED  BY <1>1, <2>1, <3>2 DEF Finite, TypeOK
  <2>4. CASE RemoveExpired(p, e)
    <3>1. pc[p] = "age" /\ changed' = [changed EXCEPT ![p] = TRUE] /\ UNCHANGED <<total, removed>>
      BY <2>4 DEF RemoveExpired
    <3>2. changed' \in [Proc -> BOOLEAN]
      BY <1>1, <3>1, Zenon DEF TypeOK
    <3>3. TypeOK'
      BY <1>1, <2>1, <3>1, <3>2 DEF TypeOK, Box
    <3>4. Counted'
      BY <1>1, <2>1, <3>1 DEF Counted, TypeOK
    <3>5. QED  BY <2>2, <2>3, <3>3, <3>4 DEF TypeInv
  <2>5. CASE Shrink(p, e)
    <3>1. /\ pc[p] = "shrink" /\ total' = [total EXCEPT ![p] = @ - e.file.size]
          /\ removed' = [removed EXCEPT ![p] = TRUE] /\ UNCHANGED changed
      BY <2>5 DEF Shrink
    <3>2. removed' \in [Proc -> BOOLEAN]
      BY <1>1, <3>1, Zenon DEF TypeOK
    <3>3. Sized(todo[p])
      BY <1>1, ListedTypes DEF Finite, TypeOK
    <3>4. /\ SizeOf(todo[p]) = e.file.size + SizeOf(todo[p] \ {e})
          /\ SizeOf(todo[p] \ {e}) \in Nat /\ e.file.size \in Nat
      <4>1. todo[p] \ {e} \in SUBSET todo[p]
        OBVIOUS
      <4>2. Sized(todo[p] \ {e})
        BY <3>3, <4>1, SizedSubset
      <4>3. QED  BY <3>3, <4>2, SizeRemove, SizeType DEF Sized
    <3>5. total[p] - e.file.size = SizeOf(todo[p] \ {e})
      BY <1>1, <3>1, <3>4 DEF Counted
    <3>6. total' = [total EXCEPT ![p] = SizeOf(todo[p] \ {e})]
      BY <3>1, <3>5
    <3>7. TypeOK'
      BY <1>1, <2>1, <3>1, <3>2, <3>4, <3>6 DEF TypeOK, Box
    <3>8. Counted'
      BY <1>1, <2>1, <3>6 DEF Counted, TypeOK
    <3>9. QED  BY <2>2, <2>3, <3>7, <3>8 DEF TypeInv
  <2>6. QED  BY <1>10, <2>4, <2>5
<1>11. ASSUME NEW p \in Proc, StartQuota(p) PROVE TypeInv'
  <2>1. runs' \in 0..MaxRuns
    BY <1>1, <1>11, ExpireAssumption DEF StartQuota, TypeOK
  <2>2. TypeOK'
    BY <1>1, <1>11, <2>1 DEF StartQuota, TypeOK, Goto
  <2>3. Finite' /\ Counted'
    BY <1>1, <1>11 DEF StartQuota, Finite, Counted, Goto, TypeOK
  <2>4. QED  BY <1>6, <1>11, <2>2, <2>3 DEF TypeInv, StartQuota
<1>12. ASSUME NEW p \in Proc, ScanCur(p) PROVE TypeInv'
  <2>1. entries({"cur"}) \subseteq Entry /\ IsFiniteSet(entries({"cur"}))
    BY ListedTypes
  <2>2. /\ todo' = [todo EXCEPT ![p] = entries({"cur"})] /\ calm' = calm \cup {p}
        /\ pc' = [pc EXCEPT ![p] = "new"]
        /\ UNCHANGED <<now, box, maildirsize, since, dry, total, removed, changed, listed, runs,
                        events>>
    BY <1>12 DEF ScanCur, Goto
  <2>3. TypeOK'
    BY <1>1, <2>1, <2>2 DEF TypeOK
  <2>4. Finite' /\ Counted'
    BY <1>1, <2>1, <2>2 DEF Finite, Counted, TypeOK
  <2>5. QED  BY <1>6, <2>2, <2>3, <2>4 DEF TypeInv
<1>13. ASSUME NEW p \in Proc, ScanNew(p) PROVE TypeInv'
  <2> DEFINE All == todo[p] \cup entries({"new"})
  <2>1. All \subseteq Entry /\ IsFiniteSet(All)
    <3>1. entries({"new"}) \subseteq Entry /\ IsFiniteSet(entries({"new"}))
      BY ListedTypes
    <3>2. todo[p] \subseteq Entry /\ IsFiniteSet(todo[p])
      BY <1>1 DEF Finite, TypeOK
    <3>3. QED  BY <3>1, <3>2, FS_Union
  <2>2. /\ todo' = [todo EXCEPT ![p] = All] /\ todo'[p] = All
        /\ total' = [total EXCEPT ![p] = SizeOf(All)]
        /\ listed' = [listed EXCEPT ![p] = All]
        /\ since' = [since EXCEPT ![p] = now] /\ pc' = [pc EXCEPT ![p] = "shrink"]
        /\ UNCHANGED <<now, box, maildirsize, dry, removed, changed, calm, runs, events>>
    BY <1>1, <1>13 DEF ScanNew, Goto, TypeOK
  <2> HIDE DEF All
  <2>3. SizeOf(All) \in Nat
    BY <2>1, ListedTypes, SizeType
  <2>4. TypeOK'
    BY <1>1, <2>1, <2>2, <2>3 DEF TypeOK
  <2>5. Finite' /\ Counted'
    BY <1>1, <2>1, <2>2 DEF Finite, Counted, TypeOK
  <2>6. QED  BY <1>6, <2>2, <2>4, <2>5 DEF TypeInv
<1>14. ASSUME NEW p \in Proc, Report(p) PROVE TypeInv'
  <2>1. /\ maildirsize' \in {None, maildirsize} /\ box' = box
        /\ pc' = [pc EXCEPT ![p] = "idle"] /\ since' = [since EXCEPT ![p] = 0]
        /\ todo' = [todo EXCEPT ![p] = {}] /\ listed' = [listed EXCEPT ![p] = {}]
        /\ total' = [total EXCEPT ![p] = 0] /\ calm' \subseteq calm
        /\ UNCHANGED <<now, runs, events>>
    BY <1>14 DEF Report, Goto
  <2>2. dry' \in [Proc -> BOOLEAN] /\ removed' \in [Proc -> BOOLEAN] /\ changed' \in [Proc -> BOOLEAN]
    BY <1>1, <1>14, Zenon DEF Report, TypeOK
  <2>3. TypeOK'
    <3>1. /\ pc' \in [Proc -> {"idle", "stat", "stat_cur", "stat_new", "age", "cur", "new", "shrink"}]
          /\ since' \in [Proc -> 0..now']
          /\ total' \in [Proc -> Nat]
      BY <1>1, <2>1 DEF TypeOK
    <3>2. todo' \in [Proc -> SUBSET Entry] /\ listed' \in [Proc -> SUBSET Entry]
      BY <1>1, <2>1 DEF TypeOK
    <3>3. /\ now' \in Start..MaxTime /\ box' \in [Msg -> File \cup {None}]
          /\ maildirsize' \in Nat \cup {None} /\ calm' \in SUBSET Proc
          /\ runs' \in 0..MaxRuns /\ events' \in 0..MaxEvents
      BY <1>1, <2>1 DEF TypeOK
    <3>4. QED  BY <2>2, <3>1, <3>2, <3>3 DEF TypeOK
  <2>4. Finite' /\ Counted'
    BY <1>1, <2>1, FS_EmptySet DEF Finite, Counted, TypeOK
  <2>5. Covered'
    <3>1. used' = used
      BY <1>2, <2>1, Entries
    <3>2. QED  BY <1>1, <2>1, <3>1 DEF Covered
  <2>6. QED  BY <2>3, <2>4, <2>5 DEF TypeInv
<1>15. CASE UNCHANGED vars
  <2>1. TypeOK'
    BY <1>1, <1>15 DEF TypeOK, vars, work
  <2>2. QED  BY <1>3, <1>6, <1>15, <2>1 DEF TypeInv, vars
<1>16. QED
  BY <1>4, <1>5, <1>7, <1>8, <1>9, <1>10, <1>11, <1>12, <1>13, <1>14, <1>15 DEF Next

\* TypeOK: everything has its type.  The totals of the running programs and the
\* size Dovecot has on record never fall below zero: nothing is counted out
\* that was not counted in (expire_to_target, expire.py).
THEOREM ExpireTypes == Spec => []TypeOK
<1>1. Init => TypeInv
  BY TypeInit
<1>2. TypeInv /\ [Next]_vars => TypeInv'
  BY TypeStep
<1>3. TypeInv => TypeOK
  BY DEF TypeInv
<1>4. QED  BY <1>1, <1>2, <1>3, PTL DEF Spec

-----------------------------------------------------------------------------
(* Why a message is removed: what a daily run has still to remove by age was   *)
(* expired at the time by which it goes, and that time is past.               *)

ReasonInv == \A p \in Proc :
    /\ pc[p] \in {"idle", "stat"} => todo[p] = {}
    /\ pc[p] \in {"stat_cur", "stat_new", "age"} => \A e \in todo[p] : expired(e.file, since[p])

LEMMA ReasonStep == TypeInv /\ ReasonInv /\ [Next]_vars => ReasonInv'
<1> SUFFICES ASSUME TypeInv, ReasonInv, [Next]_vars PROVE ReasonInv'
  OBVIOUS
<1>1. /\ pc = [p \in Proc |-> pc[p]] /\ todo = [p \in Proc |-> todo[p]]
      /\ since = [p \in Proc |-> since[p]]
  BY DEF TypeInv, TypeOK
<1>2. ASSUME UNCHANGED work PROVE ReasonInv'
  BY <1>2 DEF ReasonInv, work, expired
<1>3. ASSUME NEW p \in Proc, NEW d \in Dry, StartDaily(p, d) PROVE ReasonInv'
  BY <1>1, <1>3 DEF StartDaily, Goto, ReasonInv, expired
<1>4. ASSUME NEW p \in Proc, NEW dir \in {"cur", "new"}, StatDir(p, dir) PROVE ReasonInv'
  <2> DEFINE More == {e \in entries({dir}) : expired(e.file, since[p])}
  <2>1. /\ pc[p] \in {"stat", "stat_cur", "stat_new"} /\ UNCHANGED since
        /\ \E at \in {"stat_cur", "stat_new", "age"} : pc' = [pc EXCEPT ![p] = at]
        /\ todo' = [todo EXCEPT ![p] = @ \cup More]
    BY <1>4 DEF StatDir, Goto
  <2>2. \A e \in todo[p] \cup More : expired(e.file, since[p])
    BY <2>1 DEF ReasonInv
  <2> HIDE DEF More
  <2>3. QED  BY <1>1, <2>1, <2>2 DEF ReasonInv, expired
<1>5. ASSUME NEW p \in Proc, NEW e \in todo[p], RemoveExpired(p, e) \/ Shrink(p, e)
      PROVE  ReasonInv'
  <2>1. /\ UNCHANGED <<pc, since>> /\ todo' = [todo EXCEPT ![p] = @ \ {e}]
    BY <1>5, RemovalEffect
  <2>2. QED  BY <1>1, <2>1 DEF ReasonInv, expired
<1>6. ASSUME NEW p \in Proc, StartQuota(p) PROVE ReasonInv'
  BY <1>1, <1>6 DEF StartQuota, Goto, ReasonInv, expired
<1>7. ASSUME NEW p \in Proc, ScanCur(p) PROVE ReasonInv'
  BY <1>1, <1>7 DEF ScanCur, Goto, ReasonInv, expired
<1>8. ASSUME NEW p \in Proc, ScanNew(p) PROVE ReasonInv'
  BY <1>1, <1>8 DEF ScanNew, Goto, ReasonInv, expired
<1>9. ASSUME NEW p \in Proc, Report(p) PROVE ReasonInv'
  BY <1>1, <1>9 DEF Report, Goto, ReasonInv, expired
<1>10. QED
  BY <1>2, <1>3, <1>4, <1>5, <1>6, <1>7, <1>8, <1>9, EventEffect
     DEF Next, Recount, Tick, vars

LEMMA Reason ==
    TypeInv /\ ReasonInv /\ [Next]_vars =>
      \A m \in Msg : Lost(m) =>
         \/ box[m].at < now - MAILS_AFTER * DAY
         \/ box[m].size > LARGE /\ box[m].dir = "cur" /\ box[m].at < now - LARGE_AFTER * DAY
         \/ /\ box[m].at <= now - DAY
            /\ \E p \in Proc : pc[p] = "shrink" /\ SizeOf(listed[p]) > TARGET
<1> DEFINE Old(m) == box[m].at < now - MAILS_AFTER * DAY
           Large(m) == /\ box[m].size > LARGE /\ box[m].dir = "cur"
                       /\ box[m].at < now - LARGE_AFTER * DAY
           Full(m) == /\ box[m].at <= now - DAY
                      /\ \E p \in Proc : pc[p] = "shrink" /\ SizeOf(listed[p]) > TARGET
<1> SUFFICES ASSUME TypeInv, ReasonInv, [Next]_vars, NEW m \in Msg, Lost(m)
             PROVE  Old(m) \/ Large(m) \/ Full(m)
  OBVIOUS
<1>1. box[m] \in File /\ box' # box /\ events' = events /\ events \in Nat
  BY DEF Lost, TypeInv, TypeOK
<1>2. /\ MAILS_AFTER * DAY \in Nat /\ LARGE_AFTER * DAY \in Nat /\ DAY \in Nat
      /\ LARGE \in Nat /\ TARGET \in Nat /\ now \in Nat
  <2>1. /\ MAILS_AFTER \in Nat /\ LARGE_AFTER \in Nat /\ DAY \in Nat
        /\ LARGE \in Nat /\ TARGET \in Nat /\ Start \in Nat
    BY ExpireAssumption
  <2>2. QED  BY <2>1 DEF TypeInv, TypeOK
<1>3. \A p \in Proc : since[p] \in Nat /\ since[p] <= now
  BY <1>2 DEF TypeInv, TypeOK
<1>4. \E p \in Proc : \E e \in todo[p] : RemoveExpired(p, e) \/ Shrink(p, e)
  <2>1. ~ \E k \in Msg : (\E s \in Sizes : Deliver(k, s)) \/ Notice(k) \/ Flag(k) \/ Expunge(k)
    BY <1>1, EventEffect
  <2>2. QED
    BY <1>1, <2>1
       DEF Next, Recount, Tick, StartDaily, StatDir, StartQuota, ScanCur, ScanNew, Report, vars
<1>5. PICK p \in Proc : \E e \in todo[p] : RemoveExpired(p, e) \/ Shrink(p, e)
  BY <1>4
<1>6. PICK e \in todo[p] : RemoveExpired(p, e) \/ Shrink(p, e)
  BY <1>5
<1>7. box[m] = e.file
  BY <1>6, RemovalEffect DEF Lost
<1>8. box[m].at \in Nat /\ box[m].size \in Nat
  BY <1>1, FileFields
<1>9. CASE RemoveExpired(p, e)
  <2>1. expired(box[m], since[p])
    BY <1>7, <1>9 DEF RemoveExpired, ReasonInv
  <2>2. QED  BY <1>2, <1>3, <1>8, <2>1 DEF expired
<1>10. CASE Shrink(p, e)
  <2>1. pc[p] = "shrink" /\ total[p] > TARGET /\ ~protected(box[m], since[p])
    BY <1>7, <1>10 DEF Shrink
  <2>2. box[m].at <= now - DAY
    BY <1>2, <1>3, <1>8, <2>1 DEF protected
  <2>3. todo[p] \in SUBSET listed[p] /\ total[p] = SizeOf(todo[p])
    BY <2>1 DEF TypeInv, Counted
  <2>4. Sized(listed[p])
    <3>1. listed[p] \in SUBSET Entry /\ IsFiniteSet(listed[p])
      BY DEF TypeInv, TypeOK, Finite
    <3>2. QED  BY <3>1, ListedTypes
  <2>5. SizeOf(todo[p]) <= SizeOf(listed[p]) /\ SizeOf(listed[p]) \in Nat /\ SizeOf(todo[p]) \in Nat
    <3>1. Sized(todo[p])
      BY <2>3, <2>4, SizedSubset
    <3>2. QED  BY <2>3, <2>4, <3>1, SizeMonotone, SizeType
  <2>6. SizeOf(listed[p]) > TARGET
    BY <1>2, <2>1, <2>3, <2>5
  <2>7. QED  BY <2>1, <2>2, <2>6
<1>11. QED  BY <1>6, <1>9, <1>10

\* RemovedForReason: no message is removed but one past its age, a large one
\* that was noticed and is past the age of those, or one at least a day old
\* in a mailbox above the target (process_mailbox_stat, expire_to_target).
THEOREM ReasonsToRemove == Spec => RemovedForReason
<1>1. Init => TypeInv /\ ReasonInv
  BY TypeInit DEF Init, ReasonInv
<1>2. TypeInv /\ ReasonInv /\ [Next]_vars => TypeInv' /\ ReasonInv'
  BY TypeStep, ReasonStep
<1>3. QED  BY <1>1, <1>2, Reason, PTL DEF Spec, RemovedForReason

-----------------------------------------------------------------------------
(* The size on record: it is out of date only as long as a run is on that will *)
(* remove it.  A run without --remove may not, so there must be none.          *)

DueForRecount(p) == pc[p] # "idle" /\ (changed[p] \/ removed[p])

RecordInv ==
    /\ \A p \in Proc : ~dry[p]
    /\ \/ maildirsize \in {None, used}
       \/ \E p \in Proc : DueForRecount(p)

LEMMA RecordStep ==
    ASSUME Dry \subseteq {FALSE}
    PROVE  TypeInv /\ RecordInv /\ [Next]_vars => RecordInv'
<1> SUFFICES ASSUME TypeInv, RecordInv, [Next]_vars PROVE RecordInv'
  OBVIOUS
<1>1. /\ pc = [p \in Proc |-> pc[p]] /\ dry = [p \in Proc |-> dry[p]]
      /\ changed = [p \in Proc |-> changed[p]] /\ removed = [p \in Proc |-> removed[p]]
  BY DEF TypeInv, TypeOK
<1>2. box \in Box /\ used \in Nat
  BY ListedTypes
<1>3. box' = box => used' = used
  BY <1>2, Entries
<1>4. ASSUME UNCHANGED dry \/ \E p \in Proc : dry' = [dry EXCEPT ![p] = FALSE]
      PROVE  \A p \in Proc : ~dry'[p]
  BY <1>1, <1>4 DEF RecordInv
<1>5. ASSUME UNCHANGED <<box, maildirsize>>, \A p \in Proc : DueForRecount(p) => DueForRecount(p)',
             UNCHANGED dry \/ \E p \in Proc : dry' = [dry EXCEPT ![p] = FALSE]
      PROVE  RecordInv'
  BY <1>3, <1>4, <1>5 DEF RecordInv
<1>6. ASSUME NEW m \in Msg,
             (\E s \in Sizes : Deliver(m, s)) \/ Notice(m) \/ Flag(m) \/ Expunge(m)
      PROVE  RecordInv'
  <2>1. /\ box' \in Box /\ UNCHANGED work
        /\ maildirsize = None => maildirsize' = None
        /\ maildirsize # None => maildirsize' = maildirsize + (used' - used)
    BY <1>6, EventEffect
  <2>2. used' \in Nat
    BY <2>1, Entries
  <2>3. maildirsize \in {None, used} => maildirsize' \in {None, used'}
    BY <1>2, <2>1, <2>2
  <2>4. QED  BY <2>1, <2>3 DEF RecordInv, DueForRecount, work
<1>7. CASE Recount
  <2>1. maildirsize' = used' /\ UNCHANGED work
    BY <1>3, <1>7 DEF Recount
  <2>2. QED  BY <2>1 DEF RecordInv, work
<1>8. CASE Tick
  BY <1>5, <1>8 DEF Tick, DueForRecount, work
<1>9. ASSUME NEW p \in Proc, NEW d \in Dry, StartDaily(p, d) PROVE RecordInv'
  <2>1. dry' = [dry EXCEPT ![p] = FALSE]
    BY <1>9 DEF StartDaily
  <2>2. \A q \in Proc : DueForRecount(q) => DueForRecount(q)'
    BY <1>1, <1>9 DEF StartDaily, Goto, DueForRecount
  <2>3. QED  BY <1>5, <1>9, <2>1, <2>2 DEF StartDaily
<1>10. ASSUME NEW p \in Proc, NEW dir \in {"cur", "new"}, StatDir(p, dir) PROVE RecordInv'
  <2>1. \A q \in Proc : DueForRecount(q) => DueForRecount(q)'
    BY <1>1, <1>10 DEF StatDir, Goto, DueForRecount
  <2>2. QED  BY <1>5, <1>10, <2>1 DEF StatDir
<1>11. ASSUME NEW p \in Proc, NEW e \in todo[p], RemoveExpired(p, e) \/ Shrink(p, e)
       PROVE  RecordInv'
  <2>1. DueForRecount(p)'
    BY <1>1, <1>11 DEF RemoveExpired, Shrink, DueForRecount
  <2>2. UNCHANGED dry
    BY <1>11 DEF RemoveExpired, Shrink
  <2>3. QED  BY <1>4, <2>1, <2>2 DEF RecordInv
<1>12. ASSUME NEW p \in Proc, StartQuota(p) \/ ScanCur(p) \/ ScanNew(p) PROVE RecordInv'
  <2>1. \A q \in Proc : DueForRecount(q) => DueForRecount(q)'
    BY <1>1, <1>12 DEF StartQuota, ScanCur, ScanNew, Goto, DueForRecount
  <2>2. QED  BY <1>5, <1>12, <2>1 DEF StartQuota, ScanCur, ScanNew
<1>13. ASSUME NEW p \in Proc, Report(p) PROVE RecordInv'
  <2>1. \A q \in Proc : ~dry'[q]
    BY <1>4, <1>13 DEF Report
  <2>2. CASE changed[p] \/ removed[p]
    <3>1. maildirsize' = None
      BY <1>13, <2>2 DEF Report, obsolete, RecordInv
    <3>2. QED  BY <2>1, <3>1 DEF RecordInv
  <2>3. CASE ~(changed[p] \/ removed[p])
    <3>1. UNCHANGED <<box, maildirsize>>
      BY <1>13, <2>3 DEF Report, obsolete
    <3>2. \A q \in Proc : DueForRecount(q) => DueForRecount(q)'
      BY <1>1, <1>13, <2>3 DEF Report, Goto, DueForRecount
    <3>3. QED  BY <1>3, <2>1, <3>1, <3>2 DEF RecordInv
  <2>4. QED  BY <2>2, <2>3
<1>14. CASE UNCHANGED vars
  BY <1>5, <1>14 DEF vars, work, DueForRecount
<1>15. QED
  BY <1>6, <1>7, <1>8, <1>9, <1>10, <1>11, <1>12, <1>13, <1>14 DEF Next

\* SizeOnRecord: as long as every run of chatmail-expire is one with --remove,
\* maildirsize is gone or right once no run is on, however many ran at once
\* and whatever Dovecot did meanwhile (the report of process_mailbox_stat and
\* of quota_expire_main, expire.py).  A run without --remove that removes for
\* the quota leaves it wrong.
THEOREM SizeRecorded == Dry \subseteq {FALSE} => (Spec => []SizeOnRecord)
<1> SUFFICES ASSUME Dry \subseteq {FALSE} PROVE Spec => []SizeOnRecord
  OBVIOUS
<1>1. Init => TypeInv /\ RecordInv
  BY TypeInit DEF Init, RecordInv
<1>2. TypeInv /\ RecordInv /\ [Next]_vars => TypeInv' /\ RecordInv'
  BY TypeStep, RecordStep
<1>3. RecordInv => SizeOnRecord
  BY DEF RecordInv, SizeOnRecord, DueForRecount
<1>4. QED  BY <1>1, <1>2, <1>3, PTL DEF Spec

-----------------------------------------------------------------------------
(* What the quota leaves.  Of what p has listed, todo[p] is what it has not    *)
(* removed; as long as nobody else works on the files that is the mailbox.     *)

gone(p) == listed[p] \ todo[p]

OnTarget(p) ==
    /\ p \in calm => pc[p] \in {"new", "shrink"}
    /\ p \in calm /\ pc[p] = "new" => todo[p] = entries({"cur"})
    /\ p \in calm /\ pc[p] = "shrink" => todo[p] = held(box)
    /\ pc[p] = "shrink" => \A e \in gone(p) :
         /\ \A f \in todo[p] : sooner(e.file, f.file)
         /\ (\A f \in gone(p) : sooner(f.file, e.file)) =>
              SizeOf(todo[p]) + e.file.size > TARGET
TargetInv == \A p \in Proc : OnTarget(p)

\* A step in which nothing happens to the files and to p.
LEMMA TargetSame ==
    ASSUME TypeInv, TargetInv, NEW p \in Proc,
           UNCHANGED <<pc[p], todo[p], listed[p]>>, p \in calm' => p \in calm /\ box' = box
    PROVE  OnTarget(p)'
<1>1. gone(p)' = gone(p) /\ (box' = box => entries({"cur"})' = entries({"cur"}))
  BY DEF gone, entries
<1>2. QED  BY <1>1 DEF TargetInv, OnTarget

\* The step that takes e, the oldest that is left.
LEMMA TargetShrink ==
    ASSUME TypeInv, TargetInv, NEW p \in Proc, NEW e \in todo[p], Shrink(p, e)
    PROVE  OnTarget(p)'
<1>1. /\ pc[p] = "shrink" /\ total[p] > TARGET
      /\ e \in next(p) /\ UNCHANGED <<pc, listed>>
      /\ todo' = [todo EXCEPT ![p] = @ \ {e}]
  BY DEF Shrink
<1>2. /\ held(box') = held(box) \ {e} /\ calm' \subseteq calm /\ e \in Entry
  BY RemovalEffect
<1>3. todo'[p] = todo[p] \ {e} /\ todo[p] \subseteq listed[p] /\ total[p] = SizeOf(todo[p])
      /\ todo[p] \subseteq Entry /\ listed[p] \subseteq Entry
  BY <1>1 DEF TypeInv, TypeOK, Counted
<1>4. gone(p)' = gone(p) \cup {e}
  BY <1>1, <1>3 DEF gone
<1>5. \A f \in todo[p] : sooner(e.file, f.file)
  BY <1>1 DEF next
<1>6. ASSUME NEW x \in gone(p), NEW f \in todo'[p] PROVE sooner(x.file, f.file)
  BY <1>1, <1>3, <1>6 DEF TargetInv, OnTarget
<1>7. /\ SizeOf(todo[p]) = e.file.size + SizeOf(todo'[p])
      /\ SizeOf(todo[p]) \in Nat /\ SizeOf(todo'[p]) \in Nat /\ e.file.size \in Nat /\ TARGET \in Nat
  <2>1. Sized(todo[p])
    BY <1>3, ListedTypes DEF TypeInv, Finite
  <2>2. Sized(todo[p] \ {e})
    <3>1. todo[p] \ {e} \in SUBSET todo[p]
      OBVIOUS
    <3>2. QED  BY <2>1, <3>1, SizedSubset
  <2>3. QED  BY <1>3, <2>1, <2>2, SizeRemove, SizeType, ExpireAssumption DEF Sized
<1>8. SizeOf(todo'[p]) + e.file.size > TARGET
  <2>1. SizeOf(todo[p]) > TARGET
    BY <1>1, <1>3
  <2>2. QED  BY <1>7, <2>1
<1>9. ASSUME NEW x \in gone(p), \A f \in gone(p)' : sooner(f.file, x.file)
      PROVE  SizeOf(todo'[p]) + x.file.size > TARGET
  <2>1. sooner(x.file, e.file) /\ sooner(e.file, x.file)
    BY <1>1, <1>4, <1>9 DEF TargetInv, OnTarget
  <2>2. x.file \in File /\ e.file \in File
    BY <1>2, <1>3 DEF gone, Entry
  <2>3. x.file.size = e.file.size
    BY <2>1, <2>2, FileFields DEF sooner
  <2>4. QED  BY <1>8, <2>3
<1>10. \A x \in gone(p)' :
         /\ \A f \in todo'[p] : sooner(x.file, f.file)
         /\ (\A f \in gone(p)' : sooner(f.file, x.file)) =>
              SizeOf(todo'[p]) + x.file.size > TARGET
  BY <1>3, <1>4, <1>5, <1>6, <1>8, <1>9
<1>11. p \in calm' => todo'[p] = held(box')
  BY <1>1, <1>2, <1>3 DEF TargetInv, OnTarget
<1>12. QED  BY <1>1, <1>10, <1>11 DEF OnTarget

LEMMA TargetStep == TypeInv /\ TargetInv /\ [Next]_vars => TargetInv'
<1> SUFFICES ASSUME TypeInv, TargetInv, [Next]_vars, NEW q \in Proc PROVE OnTarget(q)'
  BY DEF TargetInv
<1>1. /\ pc = [p \in Proc |-> pc[p]] /\ todo = [p \in Proc |-> todo[p]]
      /\ listed = [p \in Proc |-> listed[p]]
  BY DEF TypeInv, TypeOK
<1>2. /\ q \in calm => pc[q] \in {"new", "shrink"}
      /\ q \in calm /\ pc[q] = "new" => todo[q] = entries({"cur"})
  BY DEF TargetInv, OnTarget
<1>3. ASSUME NEW m \in Msg,
             (\E s \in Sizes : Deliver(m, s)) \/ Notice(m) \/ Flag(m) \/ Expunge(m)
      PROVE  OnTarget(q)'
  <2>1. UNCHANGED work /\ calm' = {}
    BY <1>3, EventEffect
  <2>2. QED  BY <2>1, TargetSame DEF work
<1>4. CASE Recount \/ Tick \/ UNCHANGED vars
  <2>1. UNCHANGED <<box, calm, pc, todo, listed>>
    BY <1>4 DEF Recount, Tick, vars, work
  <2>2. QED  BY <2>1, TargetSame
<1>5. ASSUME NEW p \in Proc,
             (\E d \in Dry : StartDaily(p, d)) \/ (\E dir \in {"cur", "new"} : StatDir(p, dir))
               \/ StartQuota(p)
      PROVE  OnTarget(q)'
  <2>1. /\ UNCHANGED <<box, calm, listed>> /\ pc[p] \notin {"new", "shrink"}
        /\ \E at \in {"stat", "stat_cur", "stat_new", "age", "cur"} : pc' = [pc EXCEPT ![p] = at]
        /\ \E t : todo' = [todo EXCEPT ![p] = t]
    BY <1>1, <1>5 DEF StartDaily, StatDir, StartQuota, Goto
  <2>2. CASE q = p
    BY <1>1, <1>2, <2>1, <2>2 DEF OnTarget
  <2>3. CASE q # p
    BY <1>1, <2>1, <2>3, TargetSame
  <2>4. QED  BY <2>2, <2>3
<1>6. ASSUME NEW p \in Proc, NEW e \in todo[p], RemoveExpired(p, e) \/ Shrink(p, e)
      PROVE  OnTarget(q)'
  <2>1. /\ UNCHANGED <<pc, listed>> /\ todo' = [todo EXCEPT ![p] = @ \ {e}]
        /\ (box' # box => calm' = calm \cap {p}) /\ (box' = box => calm' = calm)
    BY <1>6, RemovalEffect
  <2>2. CASE q # p
    <3>1. q \in calm' => q \in calm /\ box' = box
      BY <2>1, <2>2
    <3>2. QED  BY <1>1, <2>1, <2>2, <3>1, TargetSame
  <2>3. CASE q = p /\ RemoveExpired(p, e)
    <3>1. pc[p] = "age"
      BY <2>3 DEF RemoveExpired
    <3>2. q \notin calm' /\ pc'[q] = "age"
      BY <1>2, <2>1, <2>3, <3>1
    <3>3. QED  BY <3>2 DEF OnTarget
  <2>4. CASE q = p /\ Shrink(p, e)
    BY <2>4, TargetShrink
  <2>5. QED  BY <1>6, <2>2, <2>3, <2>4
<1>7. ASSUME NEW p \in Proc, ScanCur(p) PROVE OnTarget(q)'
  <2>1. /\ UNCHANGED <<box, listed>> /\ pc' = [pc EXCEPT ![p] = "new"] /\ calm' = calm \cup {p}
        /\ todo' = [todo EXCEPT ![p] = entries({"cur"})]
    BY <1>7 DEF ScanCur, Goto
  <2>2. entries({"cur"})' = entries({"cur"})
    BY <2>1 DEF entries
  <2>3. CASE q = p
    BY <1>1, <2>1, <2>2, <2>3 DEF OnTarget
  <2>4. CASE q # p
    BY <1>1, <2>1, <2>4, TargetSame
  <2>5. QED  BY <2>3, <2>4
<1>8. ASSUME NEW p \in Proc, ScanNew(p) PROVE OnTarget(q)'
  <2>1. /\ UNCHANGED <<box, calm>> /\ pc[p] = "new" /\ pc' = [pc EXCEPT ![p] = "shrink"]
        /\ todo' = [todo EXCEPT ![p] = @ \cup entries({"new"})]
        /\ listed' = [listed EXCEPT ![p] = todo'[p]]
    BY <1>8 DEF ScanNew, Goto
  <2>2. CASE q = p
    <3>1. gone(q)' = {} /\ pc'[q] = "shrink"
      BY <1>1, <2>1, <2>2 DEF gone
    <3>2. q \in calm' => todo'[q] = held(box')
      <4>1. entries({"cur"}) \cup entries({"new"}) = held(box)
        BY ListedTypes, Entries, ListingHeld
      <4>2. QED  BY <1>1, <1>2, <2>1, <2>2, <4>1
    <3>3. QED  BY <3>1, <3>2 DEF OnTarget
  <2>3. CASE q # p
    BY <1>1, <2>1, <2>3, TargetSame
  <2>4. QED  BY <2>2, <2>3
<1>9. ASSUME NEW p \in Proc, Report(p) PROVE OnTarget(q)'
  <2>1. /\ UNCHANGED box /\ pc' = [pc EXCEPT ![p] = "idle"] /\ calm' = calm \ {p}
        /\ todo' = [todo EXCEPT ![p] = {}] /\ listed' = [listed EXCEPT ![p] = {}]
    BY <1>9 DEF Report, Goto
  <2>2. CASE q = p
    BY <1>1, <2>1, <2>2 DEF OnTarget
  <2>3. CASE q # p
    BY <1>1, <2>1, <2>3, TargetSame
  <2>4. QED  BY <2>2, <2>3
<1>10. QED
  BY <1>3, <1>4, <1>5, <1>6, <1>7, <1>8, <1>9 DEF Next

\* Among finitely many files there is an oldest one.
LEMMA OldestExists ==
    ASSUME NEW S \in SUBSET Entry, IsFiniteSet(S), S # {}
    PROVE  \E e \in S : \A f \in S : sooner(e.file, f.file)
<1> DEFINE Oldest(T) == \E e \in T : \A f \in T : sooner(e.file, f.file)
           Bad == {T \in SUBSET S : T # {} /\ ~Oldest(T)}
<1>1. SUFFICES ASSUME Bad # {} PROVE FALSE
  <2>1. S \in SUBSET S
    OBVIOUS
  <2>2. QED  BY <2>1
<1>2. PICK T \in Bad : \A U \in Bad : ~(U \subseteq T /\ U # T)
  <2>1. Bad \in SUBSET SUBSET S
    OBVIOUS
  <2> HIDE DEF Bad
  <2>2. QED  BY <1>1, <2>1, SmallestSubset
<1>3. PICK x \in T : TRUE
  BY <1>2
<1>4. \A e, f \in S : /\ sooner(e.file, f.file) \/ sooner(f.file, e.file)
                      /\ sooner(e.file, e.file)
                      /\ \A g \in S : sooner(e.file, f.file) /\ sooner(f.file, g.file)
                                     => sooner(e.file, g.file)
  <2>1. \A e \in S : e.file.at \in Nat /\ e.file.size \in Nat
    BY FileFields DEF Entry
  <2>2. QED  BY <2>1 DEF sooner
<1>5. T \ {x} \in SUBSET S /\ T \ {x} \notin Bad /\ T \subseteq S /\ x \in S
  BY <1>2, <1>3
<1>6. CASE T \ {x} = {}
  <2>1. T = {x}
    BY <1>3, <1>6
  <2>2. Oldest(T)
    BY <1>4, <1>5, <2>1
  <2>3. QED  BY <1>2, <2>2
<1>7. CASE T \ {x} # {}
  <2>1. PICK e \in T \ {x} : \A f \in T \ {x} : sooner(e.file, f.file)
    BY <1>5, <1>7
  <2>2. CASE sooner(e.file, x.file)
    <3>1. Oldest(T)
      BY <2>1, <2>2
    <3>2. QED  BY <1>2, <3>1
  <2>3. CASE sooner(x.file, e.file)
    <3>1. \A f \in T : sooner(x.file, f.file)
      BY <1>4, <1>5, <2>1, <2>3
    <3>2. Oldest(T)
      BY <1>3, <3>1
    <3>3. QED  BY <1>2, <3>2
  <2>4. QED  BY <1>4, <1>5, <2>1, <2>2, <2>3
<1>8. QED  BY <1>6, <1>7

LEMMA TargetHolds == TypeInv /\ TargetInv => TargetReached
<1> SUFFICES ASSUME TypeInv, TargetInv, NEW p \in calm, satisfied(p)
             PROVE  /\ \/ SizeOf(entries({"new", "cur"})) <= TARGET
                       \/ \A e \in entries({"new", "cur"}) : protected(e.file, since[p])
                    /\ \A e \in listed[p] \ entries({"new", "cur"}) :
                         /\ \A f \in entries({"new", "cur"}) : sooner(e.file, f.file)
                         /\ (\A f \in listed[p] \ entries({"new", "cur"}) : sooner(f.file, e.file)) =>
                              SizeOf(entries({"new", "cur"})) + e.file.size > TARGET
  BY DEF TargetReached
<1>1. p \in Proc /\ pc[p] = "shrink"
  BY DEF satisfied, TypeInv, TypeOK
<1>2. OnTarget(p)
  BY <1>1 DEF TargetInv
<1>3. entries({"new", "cur"}) = todo[p]
  <2>1. entries({"new", "cur"}) = held(box)
    BY ListedTypes, Entries, ListingHeld
  <2>2. QED  BY <1>1, <1>2, <2>1 DEF OnTarget
<1>4. total[p] = SizeOf(todo[p]) /\ todo[p] \in SUBSET Entry /\ IsFiniteSet(todo[p])
  BY <1>1 DEF TypeInv, TypeOK, Counted, Finite
<1>5. ASSUME ~(total[p] <= TARGET), NEW e \in todo[p]
      PROVE  protected(e.file, since[p])
  <2>1. PICK o \in todo[p] : \A f \in todo[p] : sooner(o.file, f.file)
    BY <1>4, <1>5, OldestExists
  <2>2. o \in next(p)
    BY <2>1 DEF next
  <2>3. protected(o.file, since[p])
    BY <1>5, <2>2 DEF satisfied
  <2>4. o.file.at \in Nat /\ e.file.at \in Nat /\ since[p] \in Nat /\ DAY \in Nat
    <3>1. o.file \in File /\ e.file \in File
      BY <1>4 DEF Entry
    <3>2. now \in Nat
      BY ExpireAssumption DEF TypeInv, TypeOK
    <3>3. since[p] \in Nat
      BY <1>1, <3>2 DEF TypeInv, TypeOK
    <3>4. QED  BY <3>1, <3>3, FileFields, ExpireAssumption
  <2>5. o.file.at <= e.file.at
    BY <2>1, <2>4 DEF sooner
  <2>6. QED  BY <2>3, <2>4, <2>5 DEF protected
<1>6. \/ SizeOf(todo[p]) <= TARGET
      \/ \A e \in todo[p] : protected(e.file, since[p])
  BY <1>4, <1>5
<1>7. \A e \in listed[p] \ todo[p] :
        /\ \A f \in todo[p] : sooner(e.file, f.file)
        /\ (\A f \in listed[p] \ todo[p] : sooner(f.file, e.file)) =>
             SizeOf(todo[p]) + e.file.size > TARGET
  BY <1>1, <1>2 DEF OnTarget, gone
<1>8. QED  BY <1>3, <1>6, <1>7

\* TargetReached: when nobody else works on the files, the quota takes the
\* oldest messages away, none more than needed, and stops only when the mailbox
\* is at the target or has nothing left but messages of the last 24 hours
\* (scan_mailbox_messages, expire_to_target).
THEOREM TargetIsReached == Spec => []TargetReached
<1>1. Init => TypeInv /\ TargetInv
  BY TypeInit DEF Init, TargetInv, OnTarget
<1>2. TypeInv /\ TargetInv /\ [Next]_vars => TypeInv' /\ TargetInv'
  BY TypeStep, TargetStep
<1>3. QED  BY <1>1, <1>2, TargetHolds, PTL DEF Spec
=============================================================================
