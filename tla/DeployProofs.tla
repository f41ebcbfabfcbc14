---------------------------- MODULE DeployProofs ----------------------------
(* Proofs about Deploy for any number of runs, edits, cuts and reboots.        *)
EXTENDS Deploy, SequenceTheorems, FiniteSetTheorems, WellFoundedInduction, TLAPS

-----------------------------------------------------------------------------
(* What may be said of the operations that are left, whichever are done: each  *)
(* of A is followed by one of B, none of A comes before one of B, each of A is *)
(* one of B or has one before it.                                             *)

Has(q, B) == \E j \in DOMAIN q : q[j] \in B
Leads(q, A, B) == \A i \in DOMAIN q : q[i] \in A => \E j \in DOMAIN q : i < j /\ q[j] \in B
Apart(q, A, B) == \A i, j \in DOMAIN q : i < j /\ q[i] \in A => q[j] \notin B
Preceded(q, A, B) == \A j \in DOMAIN q : q[j] \in A => \E i \in DOMAIN q : i <= j /\ q[i] \in B

-----------------------------------------------------------------------------
(* The operations                                                            *)

Mail == {"dovecot", "postfix"}
Mark == {"filtermail", "journald", "unbound", "iroh", "redirector", "reconcile", "timer", "tls",
         "opendkim", "dovecot", "dovecot.config", "dovecot.daemon_reload", "fail2ban", "postfix",
         "postfix.daemon_reload", "nginx", "mtail", "always"}

\* The marks that lead to a restart of s when it is activated
again(s) ==
    CASE s \in {"turnserver", "chatmaild", "doveauth"} -> Always
      [] s \in {"fcgiwrap", "acmetool-reconcile.timer"} -> {}
      [] s = "iroh-relay" -> {"iroh"}
      [] s = "acmetool-redirector" -> {"redirector"}
      [] s = "tls-cert-reload.path" -> {"tls"}
      [] OTHER -> {s}

\* A change of f, marked so, leads to a restart of the services that read it, if
\* it can change while they run.
Marked(f, ms) ==
    \A s \in Service : f \in Reads[s] /\ <<s, f>> \notin Overlooked /\ f \notin Kept =>
      again(s) = Always \/ (again(s) # {} /\ again(s) \subseteq ms)

\* Services of which nothing but the package has to be there
Packaged == {s \in Service \cap Program : Reads[s] \cap (Program \cup (Unit \ DropIn)) = {s}}

Plain == {other, block, unblock}
Change(kind, fs) ==
    {o \in [do : {kind}, file : fs, marks : SUBSET Mark] :
       Marked(o.file, o.marks) /\ \A s \in Mail : o.file = Conf[s] <=> config_mark[s] \in o.marks}
Puts == Change("put", File \ Mail)
Packages == Change("package", Packaged)
ValidationsOf(s) == {validate(s, {config_mark[s]})}
Validations == UNION {ValidationsOf(s) : s \in Mail}
Stales == {[do |-> "stale", service |-> "dovecot"]}
Services(c) ==
    {o \in [do : {"service"}, service : Service \cup {"mta-sts-daemon", "acmetool-reconcile"},
            running : BOOLEAN, enabled : BOOLEAN, restarted : SUBSET Mark,
            daemon_reload : SUBSET Mark] :
       /\ o.service \notin Service => ~o.running /\ ~o.enabled
       /\ o.service \in Service => o.restarted = again(o.service) \/ (~o.running /\ o.restarted = {})
       /\ o.service \in Mail => o.running = ~c.disable_mail /\ o.enabled = ~c.disable_mail
                                /\ (~o.running => o.restarted = {})}

\* What the methods of a deployer do, with files of fs
Configurations == {"dovecot.conf", "postfix.conf"}
InstallOp(fs) == Plain \cup {o \in Puts : o.file \in fs \ (Unit \cup Configurations)}
                       \cup {o \in Packages : o.file \in fs}
ConfigureOp(fs) == {other} \cup {o \in Puts : o.file \in fs} \cup Validations
ActivateOp(c) == {other} \cup Stales \cup Services(c)
\* Only the first deployer upgrades.
InstallsOp(fs) == InstallOp(fs) \cup {upgrade}
Operation(c) == InstallsOp(File) \cup ConfigureOp(File) \cup ActivateOp(c)

PutsOf(f) == {o \in Puts : o.file = f}
UnitPuts == {o \in Puts : o.file \in Unit}
ConfigPuts == {o \in Puts : o.file \in Configurations}
\* What may start a service with the configuration there is
Arrivals == Packages \cup {upgrade}
ChangesOf(s) == {o \in Puts \cup Packages : o.file \in Reads[s]}
ServicesOf(c, s) == {o \in Services(c) : o.service = s}
Reloads(c) == {o \in Services(c) : o.daemon_reload = Always}

-----------------------------------------------------------------------------
(* The invariants                                                            *)

TypeInv == TypeOK /\ todo \in Seq(Operation(config))

in_run(c, sts, stage) == stage \in ToSet(sts) /\ ~c.website_only
performs(stage) == in_run(config, stages, stage)

\* What is left of a run
Plan(q, c, sts) ==
    /\ c.website_only => q \in Seq({other})
    /\ Leads(q, {block}, {unblock})
    /\ Apart(q, Services(c) \cup Stales, Puts \cup Packages \cup Validations)
    /\ Apart(q, UnitPuts \cup ConfigPuts, Arrivals)
    /\ Apart(q, {block}, {upgrade})
    /\ \A s \in Mail : Leads(q, PutsOf(Conf[s]), ValidationsOf(s))
    /\ Leads(q, Stales, ServicesOf(c, "dovecot"))
    /\ in_run(c, sts, "activate") =>
         \A s \in Service : Leads(q, ChangesOf(s), ServicesOf(c, s))
    /\ in_run(c, sts, "activate") /\ ~c.disable_mail => Leads(q, Puts \cup Packages, Stales)
Planned == Plan(todo, config, stages)

PolicyInv == performs("install") /\ outcome \in {"running", "complete"} /\ blocked => Has(todo, {unblock})

DisabledInv ==
    performs("activate") /\ config.disable_mail /\ outcome \in {"running", "complete"} =>
      \A s \in Mail : Has(todo, ServicesOf(config, s)) \/ s \notin running \cup enabled

binary_current == "dovecot" \in running => saw["dovecot"]["dovecot"] = disk["dovecot"]

BinaryInv ==
    performs("activate") /\ outcome \in {"running", "complete"} =>
      \/ binary_current
      \/ Has(todo, ServicesOf(config, "dovecot")) /\ (config.disable_mail \/ "dovecot" \in marks)
      \/ Has(todo, Stales)

\* Whatever was cut short: what runs is installed.
Installed == \A s \in running : startable(s)

units_loaded == \A f \in Unit : loaded[f] = disk[f]
key_missing == disk["opendkim.private"] = Absent
sees(s, f) == saw[s][f] = disk[f] \/ <<s, f>> \in Overlooked

Settled ==
    /\ units_loaded /\ ~blocked
    /\ key_missing => disk["opendkim.conf"] = Absent
    /\ \A s \in running : \A f \in Reads[s] : sees(s, f)

\* s will be restarted: for a mark, or because it has no configuration yet
unmarked == disk["opendkim.conf"] = Absent /\ Has(todo, PutsOf("opendkim.conf"))
due(s) == Has(todo, ServicesOf(config, s)) /\ (needed(again(s)) \/ (s = "opendkim" /\ unmarked))

\* systemd gets to know every unit before a service of the run starts with it.
units_due ==
    \/ units_loaded /\ ~Has(todo, UnitPuts)
    \/ Has(todo, Reloads(config)) /\ Preceded(todo, Services(config), Reloads(config))
units_first == Has(todo, Arrivals) => units_loaded
\* Nothing keeps an upgrade from restarting services.
policy_first == Has(todo, {upgrade}) => ~blocked
\* A key is made for nobody who runs with a configuration.
key_due ==
    /\ key_missing => Has(todo, PutsOf("opendkim.private")) /\ (unmarked \/ "opendkim" \in marks)
    /\ disk["opendkim.conf"] = Absent => unmarked
Under_way ==
    /\ units_due /\ units_first /\ policy_first /\ key_due
    /\ \A s \in running : \A f \in Reads[s] : sees(s, f) \/ due(s)

full == stages = <<"install", "configure", "activate">> /\ ~config.website_only
CurrentInv ==
    whole =>
      /\ idle \/ config.website_only => Settled
      /\ ~idle /\ full => Under_way

\* A configuration that does not pass is one of this run, with its validation
\* still to come and nothing that starts its service before; after a cut it may
\* be older.
ConfiguredInv ==
    \A s \in Mail :
      /\ config_mark[s] \in marks => ~Has(todo, Arrivals)
      /\ config_mark[s] \in marks /\ broken(s) => Has(todo, ValidationsOf(s))
      /\ cuts = 0 /\ broken(s) => config_mark[s] \in marks

-----------------------------------------------------------------------------
(* Concatenations: FlattenSeq is a recursive function, which has to be shown to *)
(* exist.  Each of its elements has a place, and they are in order.           *)

LEMMA LeastNumber ==
    ASSUME NEW S \in SUBSET Nat, S # {}
    PROVE  \E n \in S : \A m \in S : n <= m
<1> DEFINE R == OpToRel(<, Nat)
<1>1. \E n \in S : \A m \in S : ~(<<m, n>> \in R)
  <2>1. IsWellFoundedOn(R, Nat)
    BY NatLessThanWellFounded
  <2> HIDE DEF R
  <2>2. QED  BY <2>1, WFMin
<1>2. PICK n \in S : \A m \in S : ~(<<m, n>> \in R)
  BY <1>1
<1>3. \A m \in S : <<m, n>> \in R <=> m < n
  BY DEF OpToRel
<1> HIDE DEF R
<1>4. \A m \in S : ~(m < n)
  BY <1>2, <1>3
<1>5. QED  BY <1>4

Flattened(f, ss, m) == f = [i \in 1..m |-> IF i = 1 THEN ss[i] ELSE f[i - 1] \o ss[i]]

LEMMA FlattenExists ==
    ASSUME NEW ss, NEW n \in Nat
    PROVE  \E f : Flattened(f, ss, n)
<1> DEFINE Bad == {m \in 0..n : ~\E f : Flattened(f, ss, m)}
<1>1. SUFFICES ASSUME Bad # {} PROVE FALSE
  OBVIOUS
<1>2. PICK m \in Bad : \A k \in Bad : m <= k
  <2>1. Bad \in SUBSET Nat
    OBVIOUS
  <2> HIDE DEF Bad
  <2>2. QED  BY <1>1, <2>1, LeastNumber
<1>3. m # 0
  <2>1. Flattened([i \in 1..0 |-> 0], ss, 0)
    BY DEF Flattened
  <2>2. QED  BY <2>1
<1>4. PICK g : Flattened(g, ss, m - 1)
  <2>1. m - 1 \in 0..n /\ m - 1 \notin Bad
    BY <1>2, <1>3
  <2>2. QED  BY <2>1
<1> DEFINE h == [i \in 1..m |-> IF i = m THEN IF i = 1 THEN ss[i] ELSE g[i - 1] \o ss[i] ELSE g[i]]
<1>5. Flattened(h, ss, m)
  <2>1. m \in Nat
    BY <1>2
  <2>2. \A i \in 1..m : i # m => i \in 1..(m - 1)
    BY <2>1
  <2>3. \A i \in 1..(m - 1) : g[i] = IF i = 1 THEN ss[i] ELSE g[i - 1] \o ss[i]
    BY <1>4 DEF Flattened
  <2>4. \A i \in 1..m : i # 1 => i - 1 \in 1..m /\ i - 1 # m
    BY <2>1
  <2>5. ASSUME NEW i \in 1..m
        PROVE  h[i] = IF i = 1 THEN ss[i] ELSE h[i - 1] \o ss[i]
    <3>1. i # 1 => h[i - 1] = g[i - 1]
      BY <2>4
    <3>2. h[i] = IF i = m THEN IF i = 1 THEN ss[i] ELSE g[i - 1] \o ss[i] ELSE g[i]
      OBVIOUS
    <3> HIDE DEF h
    <3>3. QED  BY <2>2, <2>3, <3>1, <3>2
  <2>6. h = [i \in 1..m |-> h[i]]
    OBVIOUS
  <2> HIDE DEF h
  <2>7. QED  BY <2>5, <2>6 DEF Flattened
<1>6. QED  BY <1>2, <1>5

\* a and b say of which sequence, and where in it, each element of q is.
Places(q, ss, m, a, b) ==
    /\ \A j \in DOMAIN q : a[j] \in 1..m /\ b[j] \in DOMAIN ss[a[j]] /\ q[j] = ss[a[j]][b[j]]
    /\ \A i, j \in DOMAIN q : i < j => a[i] < a[j] \/ (a[i] = a[j] /\ b[i] < b[j])
    /\ \A k \in 1..m : \A l \in DOMAIN ss[k] : \E j \in DOMAIN q : a[j] = k /\ b[j] = l

LEMMA PlacesOfOne ==
    ASSUME NEW S, NEW n \in Nat, NEW ss \in [1..n -> Seq(S)], 1 <= n
    PROVE  \E a, b : Places(ss[1], ss, 1, a, b)
<1>1. ss[1] \in Seq(S)
  OBVIOUS
<1>2. DOMAIN ss[1] = 1..Len(ss[1]) /\ Len(ss[1]) \in Nat
  BY <1>1
<1> DEFINE a == [j \in DOMAIN ss[1] |-> 1]
           b == [j \in DOMAIN ss[1] |-> j]
<1>3. \A j \in DOMAIN ss[1] : a[j] = 1 /\ b[j] = j
  OBVIOUS
<1> HIDE DEF a, b
<1>4. \A k \in 1..1 : k = 1
  OBVIOUS
<1>5. \A k \in 1..1 : \A l \in DOMAIN ss[k] : \E j \in DOMAIN ss[1] : a[j] = k /\ b[j] = l
  BY <1>3, <1>4
<1>6. \A i, j \in DOMAIN ss[1] : i < j => a[i] < a[j] \/ (a[i] = a[j] /\ b[i] < b[j])
  BY <1>3
<1>7. \A j \in DOMAIN ss[1] : a[j] \in 1..1 /\ b[j] \in DOMAIN ss[a[j]] /\ ss[1][j] = ss[a[j]][b[j]]
  BY <1>3
<1>8. Places(ss[1], ss, 1, a, b)
  BY <1>5, <1>6, <1>7 DEF Places
<1>9. QED  BY <1>8

LEMMA PlacesOfMore ==
    ASSUME NEW S, NEW n \in Nat, NEW ss \in [1..n -> Seq(S)], NEW m \in Nat, 1 <= m, m < n,
           NEW q \in Seq(S), NEW a, NEW b, Places(q, ss, m, a, b)
    PROVE  \E c, d : Places(q \o ss[m + 1], ss, m + 1, c, d)
<1> DEFINE r == q \o ss[m + 1]
           k == Len(q)
           c == [j \in DOMAIN r |-> IF j <= k THEN a[j] ELSE m + 1]
           d == [j \in DOMAIN r |-> IF j <= k THEN b[j] ELSE j - k]
<1>1. m + 1 \in 1..n /\ ss[m + 1] \in Seq(S) /\ k \in Nat /\ Len(ss[m + 1]) \in Nat
  OBVIOUS
<1>2. /\ DOMAIN r = 1..(k + Len(ss[m + 1]))
      /\ DOMAIN q = 1..k
      /\ DOMAIN ss[m + 1] = 1..Len(ss[m + 1])
      /\ \A j \in 1..(k + Len(ss[m + 1])) : r[j] = IF j <= k THEN q[j] ELSE ss[m + 1][j - k]
  BY <1>1
<1>3. \A j \in DOMAIN r : c[j] = (IF j <= k THEN a[j] ELSE m + 1)
                          /\ d[j] = (IF j <= k THEN b[j] ELSE j - k)
  OBVIOUS
<1> HIDE DEF c, d, r, k
<1>4. ASSUME NEW j \in DOMAIN r
      PROVE  c[j] \in 1..(m + 1) /\ d[j] \in DOMAIN ss[c[j]] /\ r[j] = ss[c[j]][d[j]]
  <2>1. CASE j <= k
    <3>1. j \in DOMAIN q /\ c[j] = a[j] /\ d[j] = b[j] /\ r[j] = q[j]
      BY <1>1, <1>2, <1>3, <2>1
    <3>2. QED  BY <3>1 DEF Places
  <2>2. CASE ~(j <= k)
    <3>1. j - k \in 1..Len(ss[m + 1]) /\ c[j] = m + 1 /\ d[j] = j - k /\ r[j] = ss[m + 1][j - k]
      BY <1>1, <1>2, <1>3, <2>2
    <3>2. QED  BY <1>2, <3>1
  <2>3. QED  BY <2>1, <2>2
<1>5. ASSUME NEW i \in DOMAIN r, NEW j \in DOMAIN r, i < j
      PROVE  c[i] < c[j] \/ (c[i] = c[j] /\ d[i] < d[j])
  <2>1. CASE j <= k
    <3>1. i \in DOMAIN q /\ j \in DOMAIN q /\ i <= k
      BY <1>1, <1>2, <1>5, <2>1
    <3>2. QED  BY <1>3, <1>5, <2>1, <3>1 DEF Places
  <2>2. CASE i <= k /\ ~(j <= k)
    <3>1. i \in DOMAIN q /\ c[i] = a[i] /\ c[j] = m + 1
      BY <1>1, <1>2, <1>3, <2>2
    <3>2. a[i] \in 1..m
      BY <3>1 DEF Places
    <3>3. QED  BY <3>1, <3>2
  <2>3. CASE ~(i <= k) /\ ~(j <= k)
    BY <1>1, <1>2, <1>3, <1>5, <2>3
  <2>4. QED  BY <1>1, <1>2, <1>5, <2>1, <2>2, <2>3
<1>6. ASSUME NEW x \in 1..(m + 1), NEW l \in DOMAIN ss[x]
      PROVE  \E j \in DOMAIN r : c[j] = x /\ d[j] = l
  <2>1. CASE x \in 1..m
    <3>1. PICK j \in DOMAIN q : a[j] = x /\ b[j] = l
      BY <2>1 DEF Places
    <3>2. j \in DOMAIN r /\ j <= k
      BY <1>1, <1>2
    <3>3. QED  BY <1>3, <3>1, <3>2
  <2>2. CASE x = m + 1
    <3>1. l \in 1..Len(ss[m + 1])
      BY <1>2, <2>2
    <3>2. k + l \in DOMAIN r /\ ~(k + l <= k) /\ (k + l) - k = l
      BY <1>1, <1>2, <3>1
    <3>3. QED  BY <1>3, <2>2, <3>2
  <2>3. QED  BY <2>1, <2>2
<1>7. Places(r, ss, m + 1, c, d)
  BY <1>4, <1>5, <1>6 DEF Places
<1>8. QED  BY <1>7 DEF r

LEMMA FlattenPlaces ==
    ASSUME NEW S, NEW n \in Nat, NEW ss \in [1..n -> Seq(S)]
    PROVE  FlattenSeq(ss) \in Seq(S) /\ \E a, b : Places(FlattenSeq(ss), ss, n, a, b)
<1>1. ss \in Seq(Seq(S)) /\ Len(ss) = n
  OBVIOUS
<1>2. CASE n = 0
  <2>1. FlattenSeq(ss) = ss /\ ss = <<>>
    BY <1>1, <1>2 DEF FlattenSeq
  <2>2. Places(<<>>, ss, 0, <<>>, <<>>)
    BY DEF Places
  <2>3. QED  BY <1>2, <2>1, <2>2
<1>3. CASE n # 0
  <2> DEFINE f == CHOOSE g : Flattened(g, ss, n)
  <2>1. Flattened(f, ss, n)
    BY FlattenExists
  <2>2. FlattenSeq(ss) = f[n]
    BY <1>1, <1>3 DEF FlattenSeq, Flattened
  <2> HIDE DEF f
  <2>3. \A i \in 1..n : f[i] = IF i = 1 THEN ss[i] ELSE f[i - 1] \o ss[i]
    BY <2>1 DEF Flattened
  <2> DEFINE Good(m) == f[m] \in Seq(S) /\ \E a, b : Places(f[m], ss, m, a, b)
             Bad == {m \in 1..n : ~Good(m)}
  <2>4. SUFFICES ASSUME Bad # {} PROVE FALSE
    <3> HIDE DEF Good
    <3>1. Bad = {} => \A m \in 1..n : Good(m)
      OBVIOUS
    <3>2. n \in 1..n
      BY <1>3
    <3>3. Bad = {} => Good(n)
      BY <3>1, <3>2
    <3> USE DEF Good
    <3>4. QED  BY <2>2, <3>3
  <2>5. PICK m \in Bad : \A k \in Bad : m <= k
    <3>1. Bad \in SUBSET Nat
      OBVIOUS
    <3> HIDE DEF Bad
    <3>2. QED  BY <2>4, <3>1, LeastNumber
  <2>6. Good(1)
    <3>1. 1 \in 1..n /\ f[1] = ss[1]
      BY <1>3, <2>3
    <3>2. QED  BY <3>1, PlacesOfOne
  <2>7. m # 1
    BY <2>5, <2>6
  <2>8. Good(m - 1)
    <3>1. m - 1 \in 1..n /\ ~(m <= m - 1)
      BY <2>5, <2>7
    <3>2. m - 1 \notin Bad
      BY <2>5, <3>1
    <3>3. QED  BY <3>1, <3>2
  <2>9. Good(m)
    <3>1. m \in 1..n
      BY <2>5
    <3>2. /\ m - 1 \in Nat /\ 1 <= m - 1 /\ m - 1 < n /\ (m - 1) + 1 = m
          /\ f[m] = f[m - 1] \o ss[m]
      <4>1. m - 1 \in Nat /\ 1 <= m - 1 /\ m - 1 < n /\ (m - 1) + 1 = m
        BY <2>7, <3>1
      <4>2. f[m] = f[m - 1] \o ss[m]
        BY <2>3, <2>7, <3>1
      <4>3. QED  BY <4>1, <4>2
    <3>3. PICK a, b : Places(f[m - 1], ss, m - 1, a, b)
      BY <2>8
    <3>4. f[m - 1] \in Seq(S) /\ ss[m] \in Seq(S)
      BY <2>8, <3>1
    <3>5. \E c, d : Places(f[m - 1] \o ss[(m - 1) + 1], ss, (m - 1) + 1, c, d)
      BY <3>2, <3>3, <3>4, PlacesOfMore
    <3>6. f[m] \in Seq(S)
      BY <3>2, <3>4, ConcatProperties
    <3>7. QED  BY <3>2, <3>5, <3>6
  <2>10. QED  BY <2>5, <2>9
<1>4. QED  BY <1>2, <1>3

-----------------------------------------------------------------------------
(* What is said of sequences, of one without its first element and of          *)
(* concatenations                                                            *)

LEMMA TailOf ==
    ASSUME NEW S, NEW q \in Seq(S), q # <<>>
    PROVE  /\ Head(q) = q[1] /\ Head(q) \in S /\ Tail(q) \in Seq(S)
           /\ 1 \in DOMAIN q
           /\ \A j \in DOMAIN Tail(q) : j + 1 \in DOMAIN q /\ 1 < j + 1 /\ Tail(q)[j] = q[j + 1]
           /\ \A i \in DOMAIN q : i # 1 => i - 1 \in DOMAIN Tail(q) /\ Tail(q)[i - 1] = q[i]
<1>1. Len(q) \in Nat \ {0} /\ DOMAIN q = 1..Len(q)
  OBVIOUS
<1>2. Tail(q) \in Seq(S) /\ Len(Tail(q)) = Len(q) - 1 /\ Head(q) = q[1]
      /\ \A j \in 1..Len(Tail(q)) : Tail(q)[j] = q[j + 1]
  OBVIOUS
<1>3. DOMAIN Tail(q) = 1..(Len(q) - 1)
  BY <1>2
<1>4. QED  BY <1>1, <1>2, <1>3

LEMMA HasTail ==
    ASSUME NEW S, NEW q \in Seq(S), q # <<>>, NEW B
    PROVE  Has(q, B) <=> Head(q) \in B \/ Has(Tail(q), B)
BY TailOf DEF Has

LEMMA LeadsTail ==
    ASSUME NEW S, NEW q \in Seq(S), q # <<>>, NEW A, NEW B, Leads(q, A, B)
    PROVE  Leads(Tail(q), A, B) /\ (Head(q) \in A => Has(Tail(q), B))
<1>1. ASSUME NEW i \in DOMAIN Tail(q), Tail(q)[i] \in A
      PROVE  \E j \in DOMAIN Tail(q) : i < j /\ Tail(q)[j] \in B
  <2>1. i + 1 \in DOMAIN q /\ q[i + 1] \in A /\ i \in Nat
    BY <1>1, TailOf
  <2>2. PICK j \in DOMAIN q : i + 1 < j /\ q[j] \in B
    BY <2>1 DEF Leads
  <2>3. j \in Nat
    OBVIOUS
  <2>4. j # 1 /\ i < j - 1
    BY <2>1, <2>2, <2>3
  <2>5. QED  BY <2>2, <2>4, TailOf
<1>2. ASSUME Head(q) \in A
      PROVE  Has(Tail(q), B)
  <2>1. PICK j \in DOMAIN q : 1 < j /\ q[j] \in B
    BY <1>2, TailOf DEF Leads
  <2>2. j # 1
    BY <2>1
  <2>3. QED  BY <2>1, <2>2, TailOf DEF Has
<1>3. QED  BY <1>1, <1>2 DEF Leads

LEMMA ApartTail ==
    ASSUME NEW S, NEW q \in Seq(S), q # <<>>, NEW A, NEW B, Apart(q, A, B)
    PROVE  Apart(Tail(q), A, B) /\ (Head(q) \in A => ~Has(Tail(q), B))
<1>1. ASSUME NEW i \in DOMAIN Tail(q), NEW j \in DOMAIN Tail(q), i < j, Tail(q)[i] \in A
      PROVE  Tail(q)[j] \notin B
  <2>1. i + 1 \in DOMAIN q /\ j + 1 \in DOMAIN q /\ i \in Nat /\ j \in Nat
    BY TailOf
  <2>2. i + 1 < j + 1 /\ q[i + 1] \in A /\ q[j + 1] = Tail(q)[j]
    BY <1>1, <2>1, TailOf
  <2>3. QED  BY <2>1, <2>2 DEF Apart
<1>2. ASSUME Head(q) \in A, NEW j \in DOMAIN Tail(q)
      PROVE  Tail(q)[j] \notin B
  BY <1>2, TailOf DEF Apart
<1>3. QED  BY <1>1, <1>2 DEF Apart, Has

LEMMA PrecededTail ==
    ASSUME NEW S, NEW q \in Seq(S), q # <<>>, NEW A, NEW B, Preceded(q, A, B), B \subseteq A
    PROVE  /\ Head(q) \in A => Head(q) \in B
           /\ Head(q) \notin A => Preceded(Tail(q), A, B)
<1>1. ASSUME Head(q) \in A
      PROVE  Head(q) \in B
  <2>1. PICK i \in DOMAIN q : i <= 1 /\ q[i] \in B
    BY <1>1, TailOf DEF Preceded
  <2>2. i \in Nat /\ 1 <= i
    OBVIOUS
  <2>3. i = 1
    BY <2>1, <2>2
  <2>4. QED  BY <2>1, <2>3, TailOf
<1>2. ASSUME Head(q) \notin A, NEW j \in DOMAIN Tail(q), Tail(q)[j] \in A
      PROVE  \E i \in DOMAIN Tail(q) : i <= j /\ Tail(q)[i] \in B
  <2>1. j + 1 \in DOMAIN q /\ q[j + 1] \in A /\ j \in Nat
    BY <1>2, TailOf
  <2>2. PICK i \in DOMAIN q : i <= j + 1 /\ q[i] \in B
    BY <2>1 DEF Preceded
  <2>3. i # 1 /\ i \in Nat
    BY <1>2, <2>2, TailOf
  <2>4. i - 1 <= j
    BY <2>1, <2>2, <2>3
  <2>5. QED  BY <2>2, <2>3, <2>4, TailOf
<1>3. QED  BY <1>1, <1>2 DEF Preceded

\* The same of the concatenation of all ss
LEMMA FlattenHas ==
    ASSUME NEW S, NEW n \in Nat, NEW ss \in [1..n -> Seq(S)], NEW B,
           NEW i \in 1..n, Has(ss[i], B)
    PROVE  Has(FlattenSeq(ss), B)
<1> DEFINE q == FlattenSeq(ss)
<1>1. PICK a, b : Places(q, ss, n, a, b)
  BY FlattenPlaces
<1> HIDE DEF q
<1>2. PICK l \in DOMAIN ss[i] : ss[i][l] \in B
  BY DEF Has
<1>3. PICK j \in DOMAIN q : a[j] = i /\ b[j] = l
  BY <1>1 DEF Places
<1>4. q[j] = ss[i][l]
  BY <1>1, <1>3 DEF Places
<1>5. Has(q, B)
  BY <1>2, <1>4 DEF Has
<1>6. QED  BY <1>5 DEF q

\* Each of A is followed by one of B if it is in its own sequence,
LEMMA FlattenLeads ==
    ASSUME NEW S, NEW n \in Nat, NEW ss \in [1..n -> Seq(S)], NEW A, NEW B,
           \A i \in 1..n : Leads(ss[i], A, B)
    PROVE  Leads(FlattenSeq(ss), A, B)
<1> DEFINE q == FlattenSeq(ss)
<1>1. PICK a, b : Places(q, ss, n, a, b)
  BY FlattenPlaces
<1>2. q \in Seq(S)
  BY FlattenPlaces
<1> HIDE DEF q
<1>3. ASSUME NEW i \in DOMAIN q, q[i] \in A
      PROVE  \E j \in DOMAIN q : i < j /\ q[j] \in B
  <2>1. a[i] \in 1..n /\ b[i] \in DOMAIN ss[a[i]] /\ ss[a[i]][b[i]] \in A
    BY <1>1, <1>3 DEF Places
  <2>2. PICK l \in DOMAIN ss[a[i]] : b[i] < l /\ ss[a[i]][l] \in B
    BY <2>1 DEF Leads
  <2>3. PICK j \in DOMAIN q : a[j] = a[i] /\ b[j] = l
    BY <1>1, <2>1 DEF Places
  <2>4. q[j] \in B
    BY <1>1, <2>2, <2>3 DEF Places
  <2>5. i \in Nat /\ j \in Nat /\ l \in Nat /\ b[i] \in Nat /\ a[i] \in Nat
    <3>1. ss[a[i]] \in Seq(S)
      BY <2>1
    <3>2. QED  BY <1>2, <2>1, <3>1
  <2>6. ~(j < i) /\ j # i
    <3>1. j < i => a[j] < a[i] \/ (a[j] = a[i] /\ b[j] < b[i])
      BY <1>1 DEF Places
    <3>2. QED  BY <2>2, <2>3, <2>5, <3>1
  <2>7. QED  BY <2>4, <2>5, <2>6
<1>4. Leads(q, A, B)
  BY <1>3 DEF Leads
<1>5. QED  BY <1>4 DEF q

\* or if there is one of B in a sequence that none of A is in, nor after it.
LEMMA FlattenLater ==
    ASSUME NEW S, NEW n \in Nat, NEW ss \in [1..n -> Seq(S)], NEW A, NEW B,
           NEW k \in 1..n, Has(ss[k], B), \A i \in k..n : ~Has(ss[i], A)
    PROVE  Leads(FlattenSeq(ss), A, B)
<1> DEFINE q == FlattenSeq(ss)
<1>1. PICK a, b : Places(q, ss, n, a, b)
  BY FlattenPlaces
<1>2. q \in Seq(S)
  BY FlattenPlaces
<1> HIDE DEF q
<1>3. PICK l \in DOMAIN ss[k] : ss[k][l] \in B
  BY DEF Has
<1>4. PICK j \in DOMAIN q : a[j] = k /\ b[j] = l
  BY <1>1 DEF Places
<1>5. q[j] \in B
  BY <1>1, <1>3, <1>4 DEF Places
<1>6. ASSUME NEW i \in DOMAIN q, q[i] \in A
      PROVE  i < j
  <2>1. a[i] \in 1..n /\ b[i] \in DOMAIN ss[a[i]] /\ ss[a[i]][b[i]] \in A
    BY <1>1, <1>6 DEF Places
  <2>2. a[i] \notin k..n
    BY <2>1 DEF Has
  <2>3. a[i] < k /\ i \in Nat /\ j \in Nat
    BY <1>2, <2>1, <2>2
  <2>4. j < i => a[j] < a[i] \/ a[j] = a[i]
    BY <1>1 DEF Places
  <2>5. QED  BY <1>4, <2>1, <2>3, <2>4
<1>7. Leads(q, A, B)
  BY <1>5, <1>6 DEF Leads
<1>8. QED  BY <1>7 DEF q

LEMMA ApartNone ==
    ASSUME NEW q, NEW A, NEW B, ~Has(q, A) \/ ~Has(q, B)
    PROVE  Apart(q, A, B)
BY DEF Apart, Has

LEMMA FlattenApart ==
    ASSUME NEW S, NEW n \in Nat, NEW ss \in [1..n -> Seq(S)], NEW A, NEW B,
           \A i \in 1..n : Apart(ss[i], A, B),
           \A i, j \in 1..n : i < j => ~Has(ss[i], A) \/ ~Has(ss[j], B)
    PROVE  Apart(FlattenSeq(ss), A, B)
<1> DEFINE q == FlattenSeq(ss)
<1>1. PICK a, b : Places(q, ss, n, a, b)
  BY FlattenPlaces
<1> HIDE DEF q
<1>2. ASSUME NEW i \in DOMAIN q, NEW j \in DOMAIN q, i < j, q[i] \in A, q[j] \in B
      PROVE  FALSE
  <2>1. /\ a[i] \in 1..n /\ b[i] \in DOMAIN ss[a[i]] /\ ss[a[i]][b[i]] \in A
        /\ a[j] \in 1..n /\ b[j] \in DOMAIN ss[a[j]] /\ ss[a[j]][b[j]] \in B
    BY <1>1, <1>2 DEF Places
  <2>2. a[i] < a[j] \/ (a[i] = a[j] /\ b[i] < b[j])
    BY <1>1, <1>2 DEF Places
  <2>3. CASE a[i] < a[j]
    BY <2>1, <2>3 DEF Has
  <2>4. CASE a[i] = a[j] /\ b[i] < b[j]
    BY <2>1, <2>4 DEF Apart
  <2>5. QED  BY <2>2, <2>3, <2>4
<1>3. Apart(q, A, B)
  BY <1>2 DEF Apart
<1>4. QED  BY <1>3 DEF q

\* If the k-th sequence has no A without a B before it, and those before it
\* have no A at all
LEMMA FlattenPreceded ==
    ASSUME NEW S, NEW n \in Nat, NEW ss \in [1..n -> Seq(S)], NEW A, NEW B,
           NEW k \in 1..n, Has(ss[k], B), Preceded(ss[k], A, B),
           \A i \in 1..(k - 1) : ~Has(ss[i], A)
    PROVE  Preceded(FlattenSeq(ss), A, B)
<1> DEFINE q == FlattenSeq(ss)
<1>1. PICK a, b : Places(q, ss, n, a, b)
  BY FlattenPlaces
<1>2. q \in Seq(S)
  BY FlattenPlaces
<1> HIDE DEF q
<1>3. ASSUME NEW j \in DOMAIN q, q[j] \in A
      PROVE  \E i \in DOMAIN q : i <= j /\ q[i] \in B
  <2>1. a[j] \in 1..n /\ b[j] \in DOMAIN ss[a[j]] /\ ss[a[j]][b[j]] \in A
    BY <1>1, <1>3 DEF Places
  <2>2. a[j] \notin 1..(k - 1)
    BY <2>1 DEF Has
  <2>3. k <= a[j] /\ j \in Nat
    BY <1>2, <2>1, <2>2
  <2>4. PICK l \in DOMAIN ss[k] : ss[k][l] \in B /\ (a[j] = k => l <= b[j])
    BY <2>1 DEF Has, Preceded
  <2>5. PICK i \in DOMAIN q : a[i] = k /\ b[i] = l
    BY <1>1 DEF Places
  <2>6. q[i] \in B
    BY <1>1, <2>4, <2>5 DEF Places
  <2>7. ~(j < i)
    <3>1. j < i => a[j] < a[i] \/ (a[j] = a[i] /\ b[j] < b[i])
      BY <1>1 DEF Places
    <3>2. l \in Nat /\ b[j] \in Nat
      <4>1. ss[k] \in Seq(S) /\ ss[a[j]] \in Seq(S)
        BY <2>1
      <4>2. QED  BY <2>1, <4>1
    <3>3. QED  BY <2>1, <2>3, <2>4, <2>5, <3>1, <3>2
  <2>8. i <= j
    BY <1>2, <2>3, <2>7
  <2>9. QED  BY <2>6, <2>8
<1>4. Preceded(q, A, B)
  BY <1>3 DEF Preceded
<1>5. QED  BY <1>4 DEF q

-----------------------------------------------------------------------------
(* The operations of each deployer                                           *)

LEMMA FilesAre ==
    /\ {"filtermail", "filtermail.service", "journald.conf", "unbound.conf", "turnserver",
        "turnserver.service", "iroh-relay", "iroh-relay.service", "iroh-relay.toml", "acmetool",
        "acmetool-redirector.service", "acmetool-reconcile.service", "acmetool-reconcile.timer",
        "tls-cert-reload.path", "tls-cert-reload.service", "chatmaild", "chatmail.ini",
        "chatmaild.service", "opendkim.conf", "opendkim.private", "opendkim.service.d",
        "doveauth.service", "dovecot.conf", "dovecot.service.d", "fail2ban.conf", "postfix.conf",
        "postfix@.service.d", "nginx.conf", "mtail", "mtail.service", "delivered_mail.mtail"}
         \subseteq File
    /\ {"unbound", "opendkim", "dovecot", "fail2ban", "postfix", "fcgiwrap", "nginx"}
         \subseteq Packaged
    /\ Program \cup {Conf[s] : s \in Mail} \subseteq File
    /\ Unit \subseteq File
<1>1. \A s \in Service : Reads[s] \subseteq File
  BY DEF File
<1>2. /\ {"filtermail", "chatmail.ini"} \subseteq Reads["filtermail"]
      /\ "journald.conf" \in Reads["journald"]
      /\ {"unbound", "unbound.conf"} \subseteq Reads["unbound"]
      /\ "turnserver" \in Reads["turnserver"]
      /\ {"iroh-relay", "iroh-relay.toml"} \subseteq Reads["iroh-relay"]
      /\ "acmetool" \in Reads["acmetool-redirector"]
      /\ "chatmaild" \in Reads["chatmaild"]
      /\ {"opendkim", "opendkim.conf", "opendkim.private"} \subseteq Reads["opendkim"]
      /\ {"dovecot", "dovecot.conf"} \subseteq Reads["dovecot"]
      /\ {"fail2ban", "fail2ban.conf"} \subseteq Reads["fail2ban"]
      /\ {"postfix", "postfix.conf"} \subseteq Reads["postfix"]
      /\ "fcgiwrap" \in Reads["fcgiwrap"]
      /\ {"nginx", "nginx.conf"} \subseteq Reads["nginx"]
      /\ {"mtail", "delivered_mail.mtail"} \subseteq Reads["mtail"]
  BY DEF Reads, Service, Conf
<1>3. {Conf[s] : s \in Mail} = {"dovecot.conf", "postfix.conf"}
  BY DEF Conf, Mail
<1>4. Unit \subseteq File
  BY DEF File
<1>5. Program \subseteq File
  BY <1>1, <1>2 DEF Program, Service
<1>6. {"unbound", "opendkim", "dovecot", "fail2ban", "postfix", "fcgiwrap", "nginx"} \subseteq Packaged
  BY DEF Packaged, Reads, Conf, Service, Program, Unit, DropIn
<1>7. QED  BY <1>1, <1>2, <1>3, <1>4, <1>5, <1>6 DEF Unit, DropIn, Service, Program

LEMMA MarkedInstalls ==
    /\ Marked("filtermail", {"filtermail"})
    /\ Marked("turnserver", {})
    /\ Marked("iroh-relay", {"iroh"})
    /\ Marked("chatmaild", {})
    /\ Marked("mtail", {})
    /\ Marked("dovecot", {"dovecot"})
    /\ \A f \in Kept : Marked(f, {})
BY DEF Marked, again, Reads, Service, Conf, Overlooked, Always, Kept, Debian

LEMMA MarkedConfigurations ==
    /\ Marked("filtermail.service", {"filtermail"})
    /\ Marked("journald.conf", {"journald"})
    /\ Marked("unbound.conf", {"unbound"})
    /\ Marked("turnserver.service", {})
    /\ Marked("iroh-relay.service", {"iroh"})
    /\ Marked("iroh-relay.toml", {"iroh"})
    /\ Marked("acmetool-redirector.service", {"redirector"})
    /\ Marked("acmetool-reconcile.service", {"reconcile"})
    /\ Marked("acmetool-reconcile.timer", {"timer"})
    /\ Marked("tls-cert-reload.path", {"tls"})
    /\ Marked("tls-cert-reload.service", {"tls"})
    /\ Marked("chatmail.ini", {})
    /\ Marked("chatmaild.service", {})
    /\ Marked("opendkim.conf", {"opendkim"})
    /\ Marked("opendkim.service.d", {"opendkim"})
    /\ Marked("doveauth.service", {})
    /\ Marked("dovecot.conf", {"dovecot", "dovecot.config"})
    /\ Marked("dovecot.service.d", {"dovecot.daemon_reload"})
    /\ Marked("fail2ban.conf", {"fail2ban"})
    /\ Marked("postfix.conf", {"postfix"})
    /\ Marked("postfix@.service.d", {"postfix.daemon_reload"})
    /\ Marked("nginx.conf", {"nginx"})
    /\ Marked("mtail.service", {})
    /\ Marked("delivered_mail.mtail", {"mtail"})
BY DEF Marked, again, Reads, Service, Conf, Overlooked, Always, Kept, Debian

\* What is true of each deployer, whatever the others do
SoundInstall(q, fs) == q \in Seq(InstallOp(fs)) /\ Leads(q, {block}, {unblock})
SoundConfigure(q, fs) ==
    q \in Seq(ConfigureOp(fs)) /\ \A s \in Mail : Leads(q, PutsOf(Conf[s]), ValidationsOf(s))
SoundActivate(q, c) ==
    q \in Seq(ActivateOp(c)) /\ Leads(q, Stales, ServicesOf(c, "dovecot"))
PlainInstallOp(fs) == InstallOp(fs) \ {block}
PlainConfigureOp(fs) == {o \in ConfigureOp(fs) : o.do = "put" => o.file \notin Configurations}
PlainActivateOp(c) == {other} \cup Services(c)
Sound(D, c, fs) ==
    SoundInstall(D.install, fs) /\ SoundConfigure(D.configure, fs) /\ SoundActivate(D.activate, c)

LEMMA LeadsNone ==
    ASSUME NEW T, NEW q \in Seq(T), NEW A, NEW B, T \cap A = {}
    PROVE  Leads(q, A, B) /\ ~Has(q, A)
BY DEF Leads, Has

LEMMA PlainInstall ==
    ASSUME NEW fs, NEW q \in Seq(PlainInstallOp(fs))
    PROVE  SoundInstall(q, fs)
<1>1. q \in Seq(InstallOp(fs))
  BY DEF PlainInstallOp
<1>2. Leads(q, {block}, {unblock})
  <2>1. PlainInstallOp(fs) \cap {block} = {}
    BY DEF PlainInstallOp
  <2>2. QED  BY <2>1, LeadsNone
<1>3. QED  BY <1>1, <1>2 DEF SoundInstall

LEMMA PlainConfigure ==
    ASSUME NEW fs, NEW q \in Seq(PlainConfigureOp(fs))
    PROVE  SoundConfigure(q, fs)
<1>1. q \in Seq(ConfigureOp(fs))
  BY DEF PlainConfigureOp
<1>2. ASSUME NEW s \in Mail PROVE Leads(q, PutsOf(Conf[s]), ValidationsOf(s))
  <2>1. PlainConfigureOp(fs) \cap PutsOf(Conf[s]) = {}
    BY DEF PlainConfigureOp, PutsOf, Puts, Change, Configurations, Mail, Conf
  <2>2. QED  BY <2>1, LeadsNone
<1>3. QED  BY <1>1, <1>2 DEF SoundConfigure

LEMMA PlainActivate ==
    ASSUME NEW c, NEW q \in Seq(PlainActivateOp(c))
    PROVE  SoundActivate(q, c)
<1>1. q \in Seq(ActivateOp(c))
  BY DEF PlainActivateOp, ActivateOp
<1>2. PlainActivateOp(c) \cap Stales = {}
  BY DEF PlainActivateOp, Stales, Services, other
<1>3. QED  BY <1>1, <1>2, LeadsNone DEF SoundActivate

\* blocked_service_startup
LEMMA BlockedStartup ==
    ASSUME NEW fs, NEW o \in Packages, o.file \in fs
    PROVE  SoundInstall(<<block, o, unblock>>, fs) /\ Has(<<block, o, unblock>>, {unblock})
<1>1. o.do = "package"
  BY DEF Packages, Change
<1>2. o # block /\ block # unblock
  BY <1>1 DEF block, unblock
<1>3. <<block, o, unblock>> \in Seq(InstallOp(fs))
  BY DEF InstallOp, Plain
<1>4. QED  BY <1>2, <1>3 DEF SoundInstall, Leads, Has

LEMMA HasConcat ==
    ASSUME NEW S, NEW q \in Seq(S), NEW r \in Seq(S), NEW B
    PROVE  Has(q \o r, B) <=> Has(q, B) \/ Has(r, B)
<1>1. /\ q \o r \in Seq(S) /\ Len(q) \in Nat /\ Len(r) \in Nat
      /\ DOMAIN (q \o r) = 1..(Len(q) + Len(r)) /\ DOMAIN q = 1..Len(q) /\ DOMAIN r = 1..Len(r)
      /\ \A j \in 1..(Len(q) + Len(r)) : (q \o r)[j] = IF j <= Len(q) THEN q[j] ELSE r[j - Len(q)]
  OBVIOUS
<1> DEFINE t == q \o r
<1>2. /\ DOMAIN t = 1..(Len(q) + Len(r))
      /\ \A j \in 1..(Len(q) + Len(r)) : t[j] = IF j <= Len(q) THEN q[j] ELSE r[j - Len(q)]
  BY <1>1
<1> HIDE DEF t
<1>3. ASSUME NEW j \in DOMAIN t, t[j] \in B PROVE Has(q, B) \/ Has(r, B)
  <2>1. CASE j <= Len(q)
    BY <1>1, <1>2, <1>3, <2>1 DEF Has
  <2>2. CASE ~(j <= Len(q))
    <3>1. j - Len(q) \in DOMAIN r /\ r[j - Len(q)] = t[j]
      BY <1>1, <1>2, <2>2
    <3>2. QED  BY <1>3, <3>1 DEF Has
  <2>3. QED  BY <2>1, <2>2
<1>4. ASSUME NEW j \in DOMAIN q, q[j] \in B PROVE Has(t, B)
  <2>1. j \in DOMAIN t /\ t[j] = q[j]
    BY <1>1, <1>2
  <2>2. QED  BY <1>4, <2>1 DEF Has
<1>5. ASSUME NEW j \in DOMAIN r, r[j] \in B PROVE Has(t, B)
  <2>1. Len(q) + j \in DOMAIN t /\ t[Len(q) + j] = r[j]
    BY <1>1, <1>2
  <2>2. QED  BY <1>5, <2>1 DEF Has
<1>6. Has(t, B) <=> Has(q, B) \/ Has(r, B)
  BY <1>3, <1>4, <1>5 DEF Has
<1>7. QED  BY <1>6 DEF t

LEMMA LeadsConcat ==
    ASSUME NEW S, NEW q \in Seq(S), NEW r \in Seq(S), NEW A, NEW B,
           Leads(r, A, B), Leads(q, A, B) \/ Has(r, B)
    PROVE  Leads(q \o r, A, B)
<1>1. /\ q \o r \in Seq(S) /\ Len(q) \in Nat /\ Len(r) \in Nat
      /\ DOMAIN (q \o r) = 1..(Len(q) + Len(r)) /\ DOMAIN q = 1..Len(q) /\ DOMAIN r = 1..Len(r)
      /\ \A j \in 1..(Len(q) + Len(r)) : (q \o r)[j] = IF j <= Len(q) THEN q[j] ELSE r[j - Len(q)]
  OBVIOUS
<1> DEFINE t == q \o r
<1>2. /\ DOMAIN t = 1..(Len(q) + Len(r))
      /\ \A j \in 1..(Len(q) + Len(r)) : t[j] = IF j <= Len(q) THEN q[j] ELSE r[j - Len(q)]
  BY <1>1
<1> HIDE DEF t
<1>3. \A j \in DOMAIN r : Len(q) + j \in DOMAIN t /\ t[Len(q) + j] = r[j]
  BY <1>1, <1>2
<1>4. ASSUME NEW i \in DOMAIN t, t[i] \in A PROVE \E j \in DOMAIN t : i < j /\ t[j] \in B
  <2>1. CASE i <= Len(q)
    <3>1. i \in DOMAIN q /\ q[i] \in A
      BY <1>1, <1>2, <1>4, <2>1
    <3>2. CASE Leads(q, A, B)
      <4>1. PICK j \in DOMAIN q : i < j /\ q[j] \in B
        BY <3>1, <3>2 DEF Leads
      <4>2. j \in DOMAIN t /\ t[j] = q[j]
        BY <1>1, <1>2
      <4>3. QED  BY <4>1, <4>2
    <3>3. CASE Has(r, B)
      <4>1. PICK j \in DOMAIN r : r[j] \in B
        BY <3>3 DEF Has
      <4>2. i < Len(q) + j
        BY <1>1, <1>2, <2>1
      <4>3. QED  BY <1>3, <4>1, <4>2
    <3>4. QED  BY <3>2, <3>3
  <2>2. CASE ~(i <= Len(q))
    <3>1. i - Len(q) \in DOMAIN r /\ r[i - Len(q)] \in A
      BY <1>1, <1>2, <1>4, <2>2
    <3>2. PICK j \in DOMAIN r : i - Len(q) < j /\ r[j] \in B
      BY <3>1 DEF Leads
    <3>3. i < Len(q) + j
      BY <1>1, <1>2, <3>2
    <3>4. QED  BY <1>3, <3>2, <3>3
  <2>3. QED  BY <2>1, <2>2
<1>5. Leads(t, A, B)
  BY <1>4 DEF Leads
<1>6. QED  BY <1>5 DEF t

LEMMA InstallConcat ==
    ASSUME NEW fs, NEW q, NEW r, SoundInstall(q, fs), SoundInstall(r, fs)
    PROVE  SoundInstall(q \o r, fs)
BY LeadsConcat, ConcatProperties DEF SoundInstall

LEMMA ConfigureConcat ==
    ASSUME NEW fs, NEW q, NEW r, SoundConfigure(q, fs), SoundConfigure(r, fs)
    PROVE  SoundConfigure(q \o r, fs)
BY LeadsConcat, ConcatProperties DEF SoundConfigure

LEMMA HasAny ==
    ASSUME NEW B, NEW x, NEW y, NEW z, NEW u
    PROVE  /\ x \in B => Has(<<x>>, B)
           /\ x \in B \/ y \in B => Has(<<x, y>>, B)
           /\ x \in B \/ y \in B \/ z \in B => Has(<<x, y, z>>, B)
           /\ x \in B \/ y \in B \/ z \in B \/ u \in B => Has(<<x, y, z, u>>, B)
BY DEF Has

LEMMA ShortSeqs ==
    ASSUME NEW T, NEW x \in T
    PROVE  /\ <<>> \in Seq(T) /\ <<x>> \in Seq(T)
           /\ \A y \in T : <<x, y>> \in Seq(T)
           /\ \A y, z \in T : <<x, y, z>> \in Seq(T)
           /\ \A y, z, u \in T : <<x, y, z, u>> \in Seq(T)
OBVIOUS

-----------------------------------------------------------------------------
(* The deployers one by one                                                  *)

\* Files that only some kinds of certificates need, those of a relay with this
\* kind, and all others
TlsFiles == {"acmetool", "acmetool-redirector.service", "tls-cert-reload.path"}
TlsFilesOf(mode) ==
    CASE mode = "acme" -> {"acmetool", "acmetool-redirector.service"}
      [] mode = "external" -> {"tls-cert-reload.path"}
      [] OTHER -> {}
Usual == File \ TlsFiles
FilesOf(mode) == Usual \cup TlsFilesOf(mode)

Options(c) == {c.disable_mail, c.mtail, c.iroh} \subseteq BOOLEAN

LEMMA OtherIs ==
    ASSUME NEW fs, NEW c
    PROVE  other \in PlainInstallOp(fs) /\ other \in PlainConfigureOp(fs) /\ other \in PlainActivateOp(c)
BY DEF PlainInstallOp, PlainConfigureOp, PlainActivateOp, InstallOp, ConfigureOp, Plain, other, block

LEMMA PlainDeployer ==
    ASSUME NEW D, NEW c, NEW fs, D.install \in Seq(PlainInstallOp(fs)),
           D.configure \in Seq(PlainConfigureOp(fs)), D.activate \in Seq(PlainActivateOp(c))
    PROVE  Sound(D, c, fs)
BY PlainInstall, PlainConfigure, PlainActivate DEF Sound

\* Marks that have no configuration validated
Unconfiguring(ms) == "dovecot.config" \notin ms /\ "postfix" \notin ms

LEMMA InstallPut ==
    ASSUME NEW fs \in SUBSET File, NEW f \in fs \ (Unit \cup Configurations \cup Mail), NEW ms \in SUBSET Mark,
           Marked(f, ms), Unconfiguring(ms)
    PROVE  put(f, ms) \in PlainInstallOp(fs)
BY DEF PlainInstallOp, InstallOp, Puts, Change, put, block, Configurations, Mail, Conf, config_mark,
  Unconfiguring

LEMMA ConfigurePut ==
    ASSUME NEW fs \in SUBSET File, NEW f \in fs \ (Configurations \cup Mail), NEW ms \in SUBSET Mark,
           Marked(f, ms), Unconfiguring(ms)
    PROVE  put(f, ms) \in PlainConfigureOp(fs)
BY DEF PlainConfigureOp, ConfigureOp, Puts, Change, put, Configurations, Mail, Conf, config_mark,
  Unconfiguring

LEMMA PutIs ==
    ASSUME NEW f \in File \ (Configurations \cup Mail), NEW ms \in SUBSET Mark, Marked(f, ms),
           Unconfiguring(ms)
    PROVE  put(f, ms) \in PutsOf(f)
BY DEF PutsOf, Puts, Change, put, Configurations, Mail, Conf, config_mark, Unconfiguring

LEMMA PackageIs ==
    ASSUME NEW f \in Packaged, NEW ms \in SUBSET Mark, Marked(f, ms), Unconfiguring(ms)
    PROVE  package(f, ms) \in Packages /\ package(f, ms).file = f
BY DEF package, Packages, Change, Conf, Mail, Service, Packaged, config_mark, Unconfiguring

LEMMA InstallPackage ==
    ASSUME NEW fs, NEW o \in Packages, o.file \in fs
    PROVE  o \in PlainInstallOp(fs)
BY DEF PlainInstallOp, InstallOp, Packages, Change, block

LEMMA SystemdIs ==
    ASSUME NEW c, NEW s \in Service \ Mail, NEW on \in BOOLEAN, NEW boot \in BOOLEAN,
           NEW ms \in SUBSET Mark, ms = again(s), NEW reload \in SUBSET Mark
    PROVE  systemd(s, on, boot, ms, reload) \in ServicesOf(c, s)
BY DEF systemd, ServicesOf, Services

LEMMA ServiceIs ==
    ASSUME NEW c, NEW s, NEW o \in ServicesOf(c, s)
    PROVE  o \in PlainActivateOp(c)
BY DEF ServicesOf, PlainActivateOp

LEMMA NamesAre ==
    /\ {"filtermail", "turnserver", "iroh-relay", "chatmaild", "mtail", "opendkim.private"}
         \subseteq Usual \ (Unit \cup Configurations \cup Mail)
    /\ {"filtermail.service", "journald.conf", "unbound.conf", "turnserver.service",
        "iroh-relay.service", "iroh-relay.toml", "chatmail.ini", "chatmaild.service",
        "opendkim.conf", "opendkim.private", "opendkim.service.d", "doveauth.service",
        "dovecot.service.d", "fail2ban.conf", "postfix@.service.d", "nginx.conf", "mtail.service",
        "delivered_mail.mtail"} \subseteq Usual \ (Configurations \cup Mail)
    /\ {"unbound", "opendkim", "dovecot", "fail2ban", "postfix", "fcgiwrap", "nginx"} \subseteq Usual
    /\ {"unbound", "opendkim", "dovecot", "fail2ban", "postfix", "fcgiwrap", "nginx"}
         \subseteq Packaged
    /\ {"filtermail", "journald", "unbound", "turnserver", "iroh-relay", "chatmaild", "opendkim",
        "doveauth", "fail2ban", "fcgiwrap", "nginx", "mtail", "acmetool-redirector",
        "acmetool-reconcile.timer", "tls-cert-reload.path"} \subseteq Service \ Mail
    /\ Usual \in SUBSET File
<1>1. {"unbound", "opendkim", "dovecot", "fail2ban", "postfix", "fcgiwrap", "nginx"} \subseteq File
  BY FilesAre DEF Program
<1>2. QED
  BY <1>1, FilesAre DEF Usual, TlsFiles, Unit, DropIn, Configurations, Service, Mail

LEMMA SimpleDeployers ==
    ASSUME NEW c, NEW fs
    PROVE  /\ Sound(LegacyRemoveDeployer, c, fs) /\ Sound(WebsiteDeployer, c, fs)
           /\ Sound(GithashDeployer, c, fs) /\ Sound(SelfSignedTlsDeployer, c, fs)
<1>1. /\ <<>> \in Seq(PlainInstallOp(fs)) /\ <<other>> \in Seq(PlainInstallOp(fs))
      /\ <<>> \in Seq(PlainConfigureOp(fs)) /\ <<other>> \in Seq(PlainConfigureOp(fs))
      /\ <<>> \in Seq(PlainActivateOp(c)) /\ <<other>> \in Seq(PlainActivateOp(c))
  BY OtherIs, ShortSeqs
<1>2. \A D \in {LegacyRemoveDeployer, WebsiteDeployer, GithashDeployer, SelfSignedTlsDeployer} :
        {D.install, D.configure, D.activate} \subseteq {<<>>, <<other>>}
  BY DEF LegacyRemoveDeployer, WebsiteDeployer, GithashDeployer, SelfSignedTlsDeployer, deployer
<1>3. QED  BY <1>1, <1>2, PlainDeployer

LEMMA ChatmailSound ==
    ASSUME NEW c, NEW fs
    PROVE  /\ ChatmailDeployer.install \in Seq({upgrade, other})
           /\ SoundConfigure(ChatmailDeployer.configure, fs)
           /\ SoundActivate(ChatmailDeployer.activate, c)
<1>1. /\ ChatmailDeployer.install = <<upgrade, other>>
      /\ ChatmailDeployer.configure = <<other>> /\ ChatmailDeployer.activate = <<>>
  BY DEF ChatmailDeployer, deployer
<1>2. <<other>> \in Seq(PlainConfigureOp(fs)) /\ <<>> \in Seq(PlainActivateOp(c))
  BY OtherIs, ShortSeqs
<1>3. <<upgrade, other>> \in Seq({upgrade, other})
  OBVIOUS
<1>4. QED  BY <1>1, <1>2, <1>3, PlainConfigure, PlainActivate

LEMMA FiltermailSound ==
    ASSUME NEW c
    PROVE  /\ Sound(FiltermailDeployer, c, Usual)
           /\ Has(FiltermailDeployer.activate, ServicesOf(c, "filtermail"))
           /\ Has(FiltermailDeployer.activate, Reloads(c))
           /\ Preceded(FiltermailDeployer.activate, Services(c), Reloads(c))
<1>1. put("filtermail", {"filtermail"}) \in PlainInstallOp(Usual)
  BY InstallPut, NamesAre, MarkedInstalls DEF Mark, Unconfiguring
<1>2. put("filtermail.service", {"filtermail"}) \in PlainConfigureOp(Usual)
  BY ConfigurePut, NamesAre, MarkedConfigurations DEF Mark, Unconfiguring
<1>3. systemd("filtermail", TRUE, TRUE, {"filtermail"}, Always) \in ServicesOf(c, "filtermail")
  BY SystemdIs, NamesAre DEF again, Mark, Always
<1>4. /\ FiltermailDeployer.install = <<put("filtermail", {"filtermail"})>>
      /\ FiltermailDeployer.configure = <<put("filtermail.service", {"filtermail"})>>
      /\ FiltermailDeployer.activate = <<systemd("filtermail", TRUE, TRUE, {"filtermail"}, Always)>>
  BY DEF FiltermailDeployer, deployer
<1>5. /\ FiltermailDeployer.install \in Seq(PlainInstallOp(Usual))
      /\ FiltermailDeployer.configure \in Seq(PlainConfigureOp(Usual))
      /\ FiltermailDeployer.activate \in Seq(PlainActivateOp(c))
  BY <1>1, <1>2, <1>3, <1>4, ServiceIs, ShortSeqs
<1> DEFINE o == systemd("filtermail", TRUE, TRUE, {"filtermail"}, Always)
<1>6. o \in Reloads(c)
  <2>1. o.daemon_reload = Always
    BY DEF systemd
  <2>2. QED  BY <1>3, <2>1 DEF Reloads, ServicesOf
<1>7. Preceded(FiltermailDeployer.activate, Services(c), Reloads(c))
  <2>1. FiltermailDeployer.activate = <<o>>
    BY <1>4
  <2> HIDE DEF o
  <2>2. QED  BY <1>6, <2>1 DEF Preceded
<1>8. QED  BY <1>3, <1>4, <1>5, <1>6, <1>7, PlainDeployer, HasAny

LEMMA JournaldSound ==
    ASSUME NEW c
    PROVE  /\ Sound(JournaldDeployer, c, Usual)
           /\ Has(JournaldDeployer.activate, ServicesOf(c, "journald"))
<1>1. put("journald.conf", {"journald"}) \in PlainConfigureOp(Usual)
  BY ConfigurePut, NamesAre, MarkedInstalls, MarkedConfigurations DEF Mark, Kept, Debian, Unconfiguring
<1>2. systemd("journald", TRUE, TRUE, {"journald"}, {}) \in ServicesOf(c, "journald")
  BY SystemdIs, NamesAre DEF again, Mark, Always
<1>3. /\ JournaldDeployer.install = <<>>
      /\ JournaldDeployer.configure = <<put("journald.conf", {"journald"})>>
      /\ JournaldDeployer.activate = <<systemd("journald", TRUE, TRUE, {"journald"}, {})>>
  BY DEF JournaldDeployer, deployer
<1>4. /\ JournaldDeployer.install \in Seq(PlainInstallOp(Usual))
      /\ JournaldDeployer.configure \in Seq(PlainConfigureOp(Usual))
      /\ JournaldDeployer.activate \in Seq(PlainActivateOp(c))
  BY <1>1, <1>2, <1>3, ServiceIs, ShortSeqs, OtherIs
<1>5. QED  BY <1>2, <1>3, <1>4, PlainDeployer, HasAny

LEMMA TurnSound ==
    ASSUME NEW c
    PROVE  /\ Sound(TurnDeployer, c, Usual)
           /\ Has(TurnDeployer.activate, ServicesOf(c, "turnserver"))
<1>1. put("turnserver", {}) \in PlainInstallOp(Usual)
  BY InstallPut, NamesAre, MarkedInstalls DEF Mark, Kept, Debian, Unconfiguring
<1>2. put("turnserver.service", {}) \in PlainConfigureOp(Usual)
  BY ConfigurePut, NamesAre, MarkedInstalls, MarkedConfigurations DEF Mark, Kept, Debian, Unconfiguring
<1>3. remote_units("turnserver") \in ServicesOf(c, "turnserver")
  BY SystemdIs, NamesAre DEF again, Mark, Always, remote_units
<1>4. /\ TurnDeployer.install = <<put("turnserver", {})>>
      /\ TurnDeployer.configure = <<put("turnserver.service", {})>>
      /\ TurnDeployer.activate = <<remote_units("turnserver")>>
  BY DEF TurnDeployer, deployer
<1>5. /\ TurnDeployer.install \in Seq(PlainInstallOp(Usual))
      /\ TurnDeployer.configure \in Seq(PlainConfigureOp(Usual))
      /\ TurnDeployer.activate \in Seq(PlainActivateOp(c))
  BY <1>1, <1>2, <1>3, <1>4, ServiceIs, ShortSeqs, OtherIs
<1>6. QED  BY <1>3, <1>4, <1>5, PlainDeployer, HasAny

LEMMA IrohSound ==
    ASSUME NEW c, Options(c)
    PROVE  /\ Sound(IrohDeployer(c), c, Usual)
           /\ Has(IrohDeployer(c).activate, ServicesOf(c, "iroh-relay"))
<1>1. put("iroh-relay", {"iroh"}) \in PlainInstallOp(Usual)
  BY InstallPut, NamesAre, MarkedInstalls DEF Mark, Kept, Debian, Unconfiguring
<1>2. /\ put("iroh-relay.service", {"iroh"}) \in PlainConfigureOp(Usual)
      /\ put("iroh-relay.toml", {"iroh"}) \in PlainConfigureOp(Usual)
  BY ConfigurePut, NamesAre, MarkedInstalls, MarkedConfigurations DEF Mark, Kept, Debian, Unconfiguring
<1>3. systemd("iroh-relay", TRUE, c.iroh, {"iroh"}, {}) \in ServicesOf(c, "iroh-relay")
  BY SystemdIs, NamesAre DEF again, Mark, Always, Options
<1>4. /\ IrohDeployer(c).install = <<put("iroh-relay", {"iroh"})>>
      /\ IrohDeployer(c).configure =
           <<put("iroh-relay.service", {"iroh"}), put("iroh-relay.toml", {"iroh"})>>
      /\ IrohDeployer(c).activate = <<systemd("iroh-relay", TRUE, c.iroh, {"iroh"}, {})>>
  BY DEF IrohDeployer, deployer
<1>5. /\ IrohDeployer(c).install \in Seq(PlainInstallOp(Usual))
      /\ IrohDeployer(c).configure \in Seq(PlainConfigureOp(Usual))
      /\ IrohDeployer(c).activate \in Seq(PlainActivateOp(c))
  BY <1>1, <1>2, <1>3, <1>4, ServiceIs, ShortSeqs, OtherIs
<1>6. QED  BY <1>3, <1>4, <1>5, PlainDeployer, HasAny

LEMMA MtastsSound ==
    ASSUME NEW c
    PROVE  Sound(MtastsDeployer, c, Usual)
<1>1. systemd("mta-sts-daemon", FALSE, FALSE, {}, Always) \in PlainActivateOp(c)
  BY DEF systemd, Services, PlainActivateOp, Always, Mark, Service, Mail
<1>2. /\ MtastsDeployer.install = <<>>
      /\ MtastsDeployer.configure = <<other>>
      /\ MtastsDeployer.activate = <<systemd("mta-sts-daemon", FALSE, FALSE, {}, Always)>>
  BY DEF MtastsDeployer, deployer
<1>3. /\ MtastsDeployer.install \in Seq(PlainInstallOp(Usual))
      /\ MtastsDeployer.configure \in Seq(PlainConfigureOp(Usual))
      /\ MtastsDeployer.activate \in Seq(PlainActivateOp(c))
  BY <1>1, <1>2, ServiceIs, ShortSeqs, OtherIs
<1>4. QED  BY <1>2, <1>3, PlainDeployer

LEMMA OpendkimSound ==
    ASSUME NEW c
    PROVE  /\ Sound(OpendkimDeployer, c, Usual)
           /\ Has(OpendkimDeployer.configure, PutsOf("opendkim.private"))
           /\ Has(OpendkimDeployer.configure, PutsOf("opendkim.conf"))
           /\ Has(OpendkimDeployer.activate, ServicesOf(c, "opendkim"))
<1>1. package("opendkim", {}) \in PlainInstallOp(Usual)
  BY PackageIs, InstallPackage, NamesAre, MarkedInstalls DEF Kept, Debian, Mark, Unconfiguring
<1>2. /\ put("opendkim.conf", {"opendkim"}) \in PlainConfigureOp(Usual)
      /\ put("opendkim.private", {}) \in PlainConfigureOp(Usual)
      /\ put("opendkim.service.d", {"opendkim"}) \in PlainConfigureOp(Usual)
  BY ConfigurePut, NamesAre, MarkedInstalls, MarkedConfigurations DEF Mark, Kept, Debian, Unconfiguring
<1>3. systemd("opendkim", TRUE, TRUE, {"opendkim"}, {"opendkim"}) \in ServicesOf(c, "opendkim")
  BY SystemdIs, NamesAre DEF again, Mark, Always
<1>4. /\ OpendkimDeployer.install = <<package("opendkim", {})>>
      /\ OpendkimDeployer.configure =
           <<put("opendkim.conf", {"opendkim"}), put("opendkim.private", {}),
             put("opendkim.service.d", {"opendkim"}), other>>
      /\ OpendkimDeployer.activate = <<systemd("opendkim", TRUE, TRUE, {"opendkim"}, {"opendkim"})>>
  BY DEF OpendkimDeployer, deployer
<1>5. /\ OpendkimDeployer.install \in Seq(PlainInstallOp(Usual))
      /\ OpendkimDeployer.configure \in Seq(PlainConfigureOp(Usual))
      /\ OpendkimDeployer.activate \in Seq(PlainActivateOp(c))
  BY <1>1, <1>2, <1>3, <1>4, ServiceIs, ShortSeqs, OtherIs
<1>6. /\ put("opendkim.private", {}) \in PutsOf("opendkim.private")
      /\ put("opendkim.conf", {"opendkim"}) \in PutsOf("opendkim.conf")
  BY PutIs, NamesAre, MarkedInstalls, MarkedConfigurations DEF Mark, Kept, Debian, Unconfiguring
<1>7. Has(OpendkimDeployer.configure, PutsOf("opendkim.private"))
  BY <1>4, <1>6, HasAny
<1>8. Has(OpendkimDeployer.configure, PutsOf("opendkim.conf"))
  BY <1>4, <1>6, HasAny
<1>9. Has(OpendkimDeployer.activate, ServicesOf(c, "opendkim"))
  BY <1>3, <1>4, HasAny
<1>10. Sound(OpendkimDeployer, c, Usual)
  BY <1>4, <1>5, PlainDeployer
<1>11. QED  BY <1>7, <1>8, <1>9, <1>10

LEMMA Fail2BanSound ==
    ASSUME NEW c
    PROVE  /\ Sound(Fail2BanDeployer, c, Usual)
           /\ Has(Fail2BanDeployer.activate, ServicesOf(c, "fail2ban"))
<1>1. package("fail2ban", {}) \in PlainInstallOp(Usual)
  BY PackageIs, InstallPackage, NamesAre, MarkedInstalls DEF Kept, Debian, Mark, Unconfiguring
<1>2. put("fail2ban.conf", {"fail2ban"}) \in PlainConfigureOp(Usual)
  BY ConfigurePut, NamesAre, MarkedInstalls, MarkedConfigurations DEF Mark, Kept, Debian, Unconfiguring
<1>3. systemd("fail2ban", TRUE, TRUE, {"fail2ban"}, {}) \in ServicesOf(c, "fail2ban")
  BY SystemdIs, NamesAre DEF again, Mark, Always
<1>4. /\ Fail2BanDeployer.install = <<package("fail2ban", {})>>
      /\ Fail2BanDeployer.configure = <<put("fail2ban.conf", {"fail2ban"})>>
      /\ Fail2BanDeployer.activate = <<systemd("fail2ban", TRUE, TRUE, {"fail2ban"}, {})>>
  BY DEF Fail2BanDeployer, deployer
<1>5. /\ Fail2BanDeployer.install \in Seq(PlainInstallOp(Usual))
      /\ Fail2BanDeployer.configure \in Seq(PlainConfigureOp(Usual))
      /\ Fail2BanDeployer.activate \in Seq(PlainActivateOp(c))
  BY <1>1, <1>2, <1>3, <1>4, ServiceIs, ShortSeqs, OtherIs
<1>6. QED  BY <1>3, <1>4, <1>5, PlainDeployer, HasAny

LEMMA FcgiwrapSound ==
    ASSUME NEW c
    PROVE  /\ Sound(FcgiwrapDeployer, c, Usual)
           /\ Has(FcgiwrapDeployer.activate, ServicesOf(c, "fcgiwrap"))
<1>1. package("fcgiwrap", {}) \in PlainInstallOp(Usual)
  BY PackageIs, InstallPackage, NamesAre, MarkedInstalls DEF Kept, Debian, Mark, Unconfiguring
<1>2. systemd("fcgiwrap", TRUE, TRUE, {}, {}) \in ServicesOf(c, "fcgiwrap")
  BY SystemdIs, NamesAre DEF again, Mark, Always
<1>3. /\ FcgiwrapDeployer.install = <<package("fcgiwrap", {})>>
      /\ FcgiwrapDeployer.configure = <<>>
      /\ FcgiwrapDeployer.activate = <<systemd("fcgiwrap", TRUE, TRUE, {}, {})>>
  BY DEF FcgiwrapDeployer, deployer
<1>4. /\ FcgiwrapDeployer.install \in Seq(PlainInstallOp(Usual))
      /\ FcgiwrapDeployer.configure \in Seq(PlainConfigureOp(Usual))
      /\ FcgiwrapDeployer.activate \in Seq(PlainActivateOp(c))
  BY <1>1, <1>2, <1>3, ServiceIs, ShortSeqs, OtherIs
<1>5. QED  BY <1>2, <1>3, <1>4, PlainDeployer, HasAny

LEMMA MtailSound ==
    ASSUME NEW c, Options(c)
    PROVE  /\ Sound(MtailDeployer(c), c, Usual)
           /\ Has(MtailDeployer(c).activate, ServicesOf(c, "mtail"))
<1>1. put("mtail", {}) \in PlainInstallOp(Usual)
  BY InstallPut, NamesAre, MarkedInstalls DEF Mark, Kept, Debian, Unconfiguring
<1>2. /\ put("mtail.service", {}) \in PlainConfigureOp(Usual)
      /\ put("delivered_mail.mtail", {"mtail"}) \in PlainConfigureOp(Usual)
  BY ConfigurePut, NamesAre, MarkedInstalls, MarkedConfigurations DEF Mark, Kept, Debian, Unconfiguring
<1>3. systemd("mtail", c.mtail, c.mtail, {"mtail"}, {}) \in ServicesOf(c, "mtail")
  BY SystemdIs, NamesAre DEF again, Mark, Always, Options
<1>4. /\ MtailDeployer(c).install = <<other, put("mtail", {})>>
      /\ MtailDeployer(c).configure = <<put("mtail.service", {}), put("delivered_mail.mtail", {"mtail"})>>
      /\ MtailDeployer(c).activate = <<systemd("mtail", c.mtail, c.mtail, {"mtail"}, {})>>
  BY DEF MtailDeployer, deployer
<1>5. /\ MtailDeployer(c).install \in Seq(PlainInstallOp(Usual))
      /\ MtailDeployer(c).configure \in Seq(PlainConfigureOp(Usual))
      /\ MtailDeployer(c).activate \in Seq(PlainActivateOp(c))
  BY <1>1, <1>2, <1>3, <1>4, ServiceIs, ShortSeqs, OtherIs
<1>6. QED  BY <1>3, <1>4, <1>5, PlainDeployer, HasAny

LEMMA UnboundSound ==
    ASSUME NEW c
    PROVE  /\ Sound(UnboundDeployer, c, Usual)
           /\ Has(UnboundDeployer.activate, ServicesOf(c, "unbound"))
<1>1. package("unbound", {}) \in Packages /\ package("unbound", {}).file \in Usual
  BY PackageIs, NamesAre, MarkedInstalls DEF Kept, Debian, Mark, Unconfiguring
<1>2. put("unbound.conf", {"unbound"}) \in PlainConfigureOp(Usual)
  BY ConfigurePut, NamesAre, MarkedConfigurations DEF Mark, Unconfiguring
<1>3. systemd("unbound", TRUE, TRUE, {"unbound"}, {}) \in ServicesOf(c, "unbound")
  BY SystemdIs, NamesAre DEF again, Mark
<1>4. /\ UnboundDeployer.install = <<block, package("unbound", {}), unblock>>
      /\ UnboundDeployer.configure = <<other, put("unbound.conf", {"unbound"})>>
      /\ UnboundDeployer.activate = <<other, systemd("unbound", TRUE, TRUE, {"unbound"}, {})>>
  BY DEF UnboundDeployer, deployer, blocked_service_startup
<1>5. /\ UnboundDeployer.configure \in Seq(PlainConfigureOp(Usual))
      /\ UnboundDeployer.activate \in Seq(PlainActivateOp(c))
  BY <1>2, <1>3, <1>4, ServiceIs, ShortSeqs, OtherIs
<1>6. SoundInstall(UnboundDeployer.install, Usual)
  BY <1>1, <1>4, BlockedStartup
<1>7. QED  BY <1>3, <1>4, <1>5, <1>6, PlainConfigure, PlainActivate, HasAny DEF Sound

LEMMA NginxSound ==
    ASSUME NEW c
    PROVE  /\ Sound(NginxDeployer, c, Usual)
           /\ Has(NginxDeployer.install, {unblock})
           /\ Has(NginxDeployer.activate, ServicesOf(c, "nginx"))
<1>1. package("nginx", {}) \in Packages /\ package("nginx", {}).file \in Usual
  BY PackageIs, NamesAre, MarkedInstalls DEF Kept, Debian, Mark, Unconfiguring
<1>2. put("nginx.conf", {"nginx"}) \in PlainConfigureOp(Usual)
  BY ConfigurePut, NamesAre, MarkedConfigurations DEF Mark, Unconfiguring
<1>3. systemd("nginx", TRUE, TRUE, {"nginx"}, {}) \in ServicesOf(c, "nginx")
  BY SystemdIs, NamesAre DEF again, Mark
<1>4. /\ NginxDeployer.install = <<block, package("nginx", {}), unblock>>
      /\ NginxDeployer.configure = <<put("nginx.conf", {"nginx"}), other>>
      /\ NginxDeployer.activate = <<systemd("nginx", TRUE, TRUE, {"nginx"}, {})>>
  BY DEF NginxDeployer, deployer
<1>5. /\ NginxDeployer.configure \in Seq(PlainConfigureOp(Usual))
      /\ NginxDeployer.activate \in Seq(PlainActivateOp(c))
  BY <1>2, <1>3, <1>4, ServiceIs, ShortSeqs, OtherIs
<1>6. SoundInstall(NginxDeployer.install, Usual) /\ Has(NginxDeployer.install, {unblock})
  BY <1>1, <1>4, BlockedStartup
<1>7. QED  BY <1>3, <1>4, <1>5, <1>6, PlainConfigure, PlainActivate, HasAny DEF Sound

LEMMA ChatmailVenvSound ==
    ASSUME NEW c
    PROVE  /\ Sound(ChatmailVenvDeployer, c, Usual)
           /\ Has(ChatmailVenvDeployer.activate, ServicesOf(c, "chatmaild"))
<1>1. put("chatmaild", {}) \in PlainInstallOp(Usual)
  BY InstallPut, NamesAre, MarkedInstalls DEF Mark, Unconfiguring
<1>2. /\ put("chatmail.ini", {}) \in PlainConfigureOp(Usual)
      /\ put("chatmaild.service", {}) \in PlainConfigureOp(Usual)
  BY ConfigurePut, NamesAre, MarkedConfigurations DEF Mark, Unconfiguring
<1>3. remote_units("chatmaild") \in ServicesOf(c, "chatmaild")
  BY SystemdIs, NamesAre DEF again, Mark, Always, remote_units
<1>4. /\ ChatmailVenvDeployer.install = <<other, put("chatmaild", {})>>
      /\ ChatmailVenvDeployer.configure =
           <<put("chatmail.ini", {}), other>> \o <<put("chatmaild.service", {})>>
      /\ ChatmailVenvDeployer.activate = <<remote_units("chatmaild")>>
  BY DEF ChatmailVenvDeployer, deployer, install_remote_venv_with_chatmaild,
    configure_remote_venv_with_chatmaild
<1>5. /\ ChatmailVenvDeployer.install \in Seq(PlainInstallOp(Usual))
      /\ <<put("chatmail.ini", {}), other>> \in Seq(PlainConfigureOp(Usual))
      /\ <<put("chatmaild.service", {})>> \in Seq(PlainConfigureOp(Usual))
      /\ ChatmailVenvDeployer.activate \in Seq(PlainActivateOp(c))
  BY <1>1, <1>2, <1>3, <1>4, ServiceIs, ShortSeqs, OtherIs
<1>6. ChatmailVenvDeployer.configure \in Seq(PlainConfigureOp(Usual))
  BY <1>4, <1>5, ConcatProperties
<1>7. QED  BY <1>3, <1>4, <1>5, <1>6, PlainDeployer, HasAny

LEMMA AcmetoolSound ==
    ASSUME NEW c
    PROVE  /\ Sound(AcmetoolDeployer, c, FilesOf("acme"))
           /\ Has(AcmetoolDeployer.activate, ServicesOf(c, "acmetool-redirector"))
<1> DEFINE fs == FilesOf("acme")
<1>1. /\ fs \in SUBSET File /\ "acmetool" \in fs \ (Unit \cup Configurations \cup Mail)
      /\ {"acmetool-redirector.service", "acmetool-reconcile.service", "acmetool-reconcile.timer"}
           \subseteq fs \ (Configurations \cup Mail)
  BY FilesAre DEF FilesOf, TlsFilesOf, TlsFiles, Usual, Unit, DropIn, Configurations, Mail
<1>2. put("acmetool", {}) \in PlainInstallOp(fs)
  BY <1>1, InstallPut, MarkedInstalls DEF Mark, Kept, Debian, Unconfiguring
<1>3. /\ put("acmetool-redirector.service", {"redirector"}) \in PlainConfigureOp(fs)
      /\ put("acmetool-reconcile.service", {"reconcile"}) \in PlainConfigureOp(fs)
      /\ put("acmetool-reconcile.timer", {"timer"}) \in PlainConfigureOp(fs)
  BY <1>1, ConfigurePut, MarkedConfigurations DEF Mark, Unconfiguring
<1>4. systemd("acmetool-redirector", TRUE, TRUE, {"redirector"}, {})
        \in ServicesOf(c, "acmetool-redirector")
  BY SystemdIs, NamesAre DEF again, Mark
<1>5. systemd("acmetool-reconcile", FALSE, FALSE, {}, {"reconcile"}) \in PlainActivateOp(c)
  BY DEF systemd, Services, PlainActivateOp, Mark, Service, Mail
<1>6. systemd("acmetool-reconcile.timer", TRUE, TRUE, {}, {"timer"})
        \in ServicesOf(c, "acmetool-reconcile.timer")
  BY SystemdIs, NamesAre DEF again, Mark
<1>7. /\ AcmetoolDeployer.install = <<put("acmetool", {}), other>>
      /\ AcmetoolDeployer.configure =
           <<other, put("acmetool-redirector.service", {"redirector"}),
             put("acmetool-reconcile.service", {"reconcile"}),
             put("acmetool-reconcile.timer", {"timer"})>>
      /\ AcmetoolDeployer.activate =
           <<systemd("acmetool-redirector", TRUE, TRUE, {"redirector"}, {}),
             systemd("acmetool-reconcile", FALSE, FALSE, {}, {"reconcile"}),
             systemd("acmetool-reconcile.timer", TRUE, TRUE, {}, {"timer"}), other>>
  BY DEF AcmetoolDeployer, deployer
<1>8. /\ AcmetoolDeployer.install \in Seq(PlainInstallOp(fs))
      /\ AcmetoolDeployer.configure \in Seq(PlainConfigureOp(fs))
  BY <1>2, <1>3, <1>7, ShortSeqs, OtherIs
<1>9. AcmetoolDeployer.activate \in Seq(PlainActivateOp(c))
  BY <1>4, <1>5, <1>6, <1>7, ServiceIs, ShortSeqs, OtherIs
<1>10. Has(AcmetoolDeployer.activate, ServicesOf(c, "acmetool-redirector"))
  BY <1>4, <1>7, HasAny
<1>11. QED  BY <1>8, <1>9, <1>10, PlainDeployer

LEMMA ExternalTlsSound ==
    ASSUME NEW c
    PROVE  /\ Sound(ExternalTlsDeployer, c, FilesOf("external"))
           /\ Has(ExternalTlsDeployer.activate, ServicesOf(c, "tls-cert-reload.path"))
<1> DEFINE fs == FilesOf("external")
<1>1. /\ fs \in SUBSET File
      /\ {"tls-cert-reload.path", "tls-cert-reload.service"} \subseteq fs \ (Configurations \cup Mail)
  BY FilesAre DEF FilesOf, TlsFilesOf, TlsFiles, Usual, Configurations, Mail
<1>2. /\ put("tls-cert-reload.path", {"tls"}) \in PlainConfigureOp(fs)
      /\ put("tls-cert-reload.service", {"tls"}) \in PlainConfigureOp(fs)
  BY <1>1, ConfigurePut, MarkedConfigurations DEF Mark, Unconfiguring
<1>3. systemd("tls-cert-reload.path", TRUE, TRUE, {"tls"}, {"tls"})
        \in ServicesOf(c, "tls-cert-reload.path")
  BY SystemdIs, NamesAre DEF again, Mark
<1>4. /\ ExternalTlsDeployer.install = <<>>
      /\ ExternalTlsDeployer.configure =
           <<other, put("tls-cert-reload.path", {"tls"}), put("tls-cert-reload.service", {"tls"})>>
      /\ ExternalTlsDeployer.activate =
           <<systemd("tls-cert-reload.path", TRUE, TRUE, {"tls"}, {"tls"})>>
  BY DEF ExternalTlsDeployer, deployer
<1>5. /\ ExternalTlsDeployer.install \in Seq(PlainInstallOp(fs))
      /\ ExternalTlsDeployer.configure \in Seq(PlainConfigureOp(fs))
      /\ ExternalTlsDeployer.activate \in Seq(PlainActivateOp(c))
  BY <1>2, <1>3, <1>4, ServiceIs, ShortSeqs, OtherIs
<1>6. QED  BY <1>3, <1>4, <1>5, PlainDeployer, HasAny

LEMMA MailServiceIs ==
    ASSUME NEW c, Options(c), NEW s \in Mail, NEW reload \in SUBSET Mark
    PROVE  systemd(s, ~c.disable_mail, ~c.disable_mail, IF c.disable_mail THEN {} ELSE {s}, reload)
             \in ServicesOf(c, s)
<1>1. again(s) = {s} /\ {s} \in SUBSET Mark /\ s \in Service
  BY DEF again, Mail, Mark, Service
<1>2. c.disable_mail \in BOOLEAN
  BY DEF Options
<1>3. CASE c.disable_mail = TRUE
  <2>1. systemd(s, FALSE, FALSE, {}, reload) \in ServicesOf(c, s)
    BY <1>1, <1>3 DEF systemd, ServicesOf, Services
  <2>2. QED  BY <1>3, <2>1
<1>4. CASE c.disable_mail = FALSE
  <2>1. systemd(s, TRUE, TRUE, {s}, reload) \in ServicesOf(c, s)
    BY <1>1, <1>4 DEF systemd, ServicesOf, Services
  <2>2. QED  BY <1>4, <2>1
<1>5. QED  BY <1>2, <1>3, <1>4

LEMMA PostfixSound ==
    ASSUME NEW c, Options(c)
    PROVE  /\ Sound(PostfixDeployer(c), c, Usual)
           /\ Has(PostfixDeployer(c).configure, PutsOf(Conf["postfix"]))
           /\ Has(PostfixDeployer(c).activate, ServicesOf(c, "postfix"))
<1> DEFINE p == put("postfix.conf", {"postfix"})
           u == put("postfix@.service.d", {"postfix.daemon_reload"})
           v == validate("postfix", {"postfix"})
<1>1. package("postfix", {}) \in PlainInstallOp(Usual)
  BY PackageIs, InstallPackage, NamesAre, MarkedInstalls DEF Kept, Debian, Mark, Unconfiguring
<1>2. u \in PlainConfigureOp(Usual)
  BY ConfigurePut, NamesAre, MarkedConfigurations DEF Mark, Unconfiguring
<1>3. p \in Puts /\ p.file = "postfix.conf" /\ "postfix.conf" \in Usual
  <2>1. "postfix.conf" \in File /\ "postfix.conf" \in Usual
    BY FilesAre DEF Usual, TlsFiles
  <2>2. \A s \in Mail : "postfix.conf" = Conf[s] <=> config_mark[s] \in {"postfix"}
    BY DEF Conf, Mail, config_mark
  <2>3. Marked("postfix.conf", {"postfix"})
    BY MarkedConfigurations
  <2>4. QED  BY <2>1, <2>2, <2>3 DEF put, Puts, Change, Mark, Mail
<1>4. v \in ValidationsOf("postfix") /\ v.do = "validate"
  BY DEF ValidationsOf, config_mark, validate
<1>5. {p, u, v} \subseteq ConfigureOp(Usual)
  BY <1>2, <1>3, <1>4 DEF ConfigureOp, PlainConfigureOp, Validations, Mail
<1>6. u.file = "postfix@.service.d"
  BY DEF put
<1> HIDE DEF p, u, v
<1>7. SoundConfigure(<<p, u, v>>, Usual)
  <2>1. ASSUME NEW s \in Mail PROVE Leads(<<p, u, v>>, PutsOf(Conf[s]), ValidationsOf(s))
    <3>1. u \notin PutsOf(Conf[s]) /\ v \notin PutsOf(Conf[s])
      BY <1>4, <1>6 DEF PutsOf, Puts, Change, Conf, Mail
    <3>2. p \in PutsOf(Conf[s]) => s = "postfix"
      BY <1>3 DEF PutsOf, Conf, Mail
    <3>3. QED  BY <1>4, <3>1, <3>2 DEF Leads
  <2>2. <<p, u, v>> \in Seq(ConfigureOp(Usual))
    BY <1>5, ShortSeqs
  <2>3. QED  BY <2>1, <2>2 DEF SoundConfigure
<1>8. /\ PostfixDeployer(c).install = <<package("postfix", {})>>
      /\ PostfixDeployer(c).configure = <<p, u, v>>
  BY DEF PostfixDeployer, deployer, p, u, v
<1>9. \E o \in ServicesOf(c, "postfix") : PostfixDeployer(c).activate = <<o>>
  <2>1. systemd("postfix", ~c.disable_mail, ~c.disable_mail,
                IF c.disable_mail THEN {} ELSE {"postfix"}, {"postfix.daemon_reload"})
          \in ServicesOf(c, "postfix")
    BY MailServiceIs DEF Mail, Mark
  <2>2. QED  BY <2>1 DEF PostfixDeployer, deployer
<1>10. PICK o \in ServicesOf(c, "postfix") : PostfixDeployer(c).activate = <<o>>
  BY <1>9
<1>11. SoundActivate(<<o>>, c) /\ Has(<<o>>, ServicesOf(c, "postfix"))
  BY ServiceIs, ShortSeqs, PlainActivate, HasAny
<1>12. SoundInstall(PostfixDeployer(c).install, Usual)
  BY <1>1, <1>8, ShortSeqs, PlainInstall
<1>13. Has(<<p, u, v>>, PutsOf(Conf["postfix"]))
  BY <1>3, HasAny DEF PutsOf, Conf
<1>14. QED  BY <1>7, <1>8, <1>10, <1>11, <1>12, <1>13 DEF Sound

LEMMA DovecotSound ==
    ASSUME NEW c, Options(c)
    PROVE  /\ Sound(DovecotDeployer(c), c, Usual)
           /\ Has(DovecotDeployer(c).configure, PutsOf(Conf["dovecot"]))
           /\ Has(DovecotDeployer(c).activate, ServicesOf(c, "doveauth"))
           /\ Has(DovecotDeployer(c).activate, ServicesOf(c, "dovecot"))
           /\ ~c.disable_mail => Has(DovecotDeployer(c).activate, Stales)
<1> DEFINE k == package("dovecot", {"dovecot"})
           w == put("doveauth.service", {})
           p == put("dovecot.conf", {"dovecot", "dovecot.config"})
           u == put("dovecot.service.d", {"dovecot.daemon_reload"})
           v == validate("dovecot", {"dovecot.config"})
           r == remote_units("doveauth")
           a == [do |-> "stale", service |-> "dovecot"]
           s == systemd("dovecot", ~c.disable_mail, ~c.disable_mail,
                        IF c.disable_mail THEN {} ELSE {"dovecot"}, {"dovecot.daemon_reload"})
           D == DovecotDeployer(c)
<1>1. k \in Packages /\ k.file \in Usual
  BY PackageIs, NamesAre, MarkedInstalls DEF Mark, Unconfiguring
<1>2. w \in PlainConfigureOp(Usual) /\ u \in PlainConfigureOp(Usual)
  BY ConfigurePut, NamesAre, MarkedConfigurations DEF Mark, Unconfiguring
<1>3. p \in Puts /\ p.file = "dovecot.conf" /\ "dovecot.conf" \in Usual
  <2>1. "dovecot.conf" \in File /\ "dovecot.conf" \in Usual
    BY FilesAre DEF Usual, TlsFiles
  <2>2. \A m \in Mail :
          "dovecot.conf" = Conf[m] <=> config_mark[m] \in {"dovecot", "dovecot.config"}
    BY DEF Conf, Mail, config_mark
  <2>3. Marked("dovecot.conf", {"dovecot", "dovecot.config"})
    BY MarkedConfigurations
  <2>4. QED  BY <2>1, <2>2, <2>3 DEF put, Puts, Change, Mark, Mail
<1>4. v \in ValidationsOf("dovecot") /\ v.do = "validate"
  BY DEF ValidationsOf, config_mark, validate
<1>5. u.file = "dovecot.service.d"
  BY DEF put
<1>6. r \in ServicesOf(c, "doveauth")
  BY SystemdIs, NamesAre DEF again, Mark, Always, remote_units
<1>7. s \in ServicesOf(c, "dovecot")
  BY MailServiceIs DEF Mail, Mark
<1>8. a \in Stales /\ \A o \in Services(c) \cup {other} : o \notin Stales
  BY DEF Stales, Services, other
<1>9. /\ D.install = <<block, k, unblock>> \o <<other>>
      /\ D.configure = <<w>> \o <<p, other, u, v>>
      /\ D.activate = ((<<r>> \o (IF c.disable_mail THEN <<>> ELSE <<a, other>>)) \o <<s>>)
                      \o (IF c.disable_mail THEN <<>> ELSE <<other>>)
  BY DEF DovecotDeployer, configure_dovecot, deployer, blocked_service_startup
<1> HIDE DEF k, w, p, u, v, r, a, s, D
<1>10. SoundInstall(D.install, Usual)
  <2>1. SoundInstall(<<block, k, unblock>>, Usual)
    BY <1>1, BlockedStartup
  <2>2. SoundInstall(<<other>>, Usual)
    BY OtherIs, ShortSeqs, PlainInstall
  <2>3. QED  BY <1>9, <2>1, <2>2, InstallConcat
<1>11. SoundConfigure(<<p, other, u, v>>, Usual)
  <2>1. {p, other, u, v} \subseteq ConfigureOp(Usual)
    BY <1>2, <1>3, <1>4 DEF ConfigureOp, PlainConfigureOp, Validations, Mail
  <2>2. ASSUME NEW m \in Mail
        PROVE  Leads(<<p, other, u, v>>, PutsOf(Conf[m]), ValidationsOf(m))
    <3>1. u \notin PutsOf(Conf[m]) /\ v \notin PutsOf(Conf[m]) /\ other \notin PutsOf(Conf[m])
      BY <1>4, <1>5 DEF PutsOf, Puts, Change, Conf, Mail, other
    <3>2. p \in PutsOf(Conf[m]) => m = "dovecot"
      BY <1>3 DEF PutsOf, Conf, Mail
    <3> DEFINE x == other
    <3> HIDE DEF x
    <3>3. Leads(<<p, x, u, v>>, PutsOf(Conf[m]), ValidationsOf(m))
      <4>1. x \notin PutsOf(Conf[m])
        BY <3>1 DEF x
      <4>2. QED  BY <1>4, <3>1, <3>2, <4>1 DEF Leads
    <3>4. QED  BY <3>3 DEF x
  <2>3. <<p, other, u, v>> \in Seq(ConfigureOp(Usual))
    BY <2>1, ShortSeqs
  <2>4. QED  BY <2>2, <2>3 DEF SoundConfigure
<1>12. SoundConfigure(D.configure, Usual) /\ Has(D.configure, PutsOf(Conf["dovecot"]))
  <2>1. SoundConfigure(<<w>>, Usual)
    BY <1>2, ShortSeqs, PlainConfigure
  <2>2. p \in PutsOf(Conf["dovecot"])
    BY <1>3 DEF PutsOf, Conf
  <2>3. Has(<<p, other, u, v>>, PutsOf(Conf["dovecot"]))
    BY <2>2, HasAny
  <2>4. /\ <<w>> \in Seq(ConfigureOp(Usual)) /\ <<p, other, u, v>> \in Seq(ConfigureOp(Usual))
    BY <1>11, <2>1 DEF SoundConfigure
  <2>5. Has(<<w>> \o <<p, other, u, v>>, PutsOf(Conf["dovecot"]))
    BY <2>3, <2>4, HasConcat
  <2>6. SoundConfigure(<<w>> \o <<p, other, u, v>>, Usual)
    BY <1>11, <2>1, ConfigureConcat
  <2>7. QED  BY <1>9, <2>5, <2>6
<1>13. {r, s, other} \subseteq PlainActivateOp(c) /\ {r, s, other, a} \subseteq ActivateOp(c)
  BY <1>6, <1>7, <1>8, ServiceIs DEF PlainActivateOp, ActivateOp
<1> DEFINE x == IF c.disable_mail THEN <<>> ELSE <<a, other>>
           y == IF c.disable_mail THEN <<>> ELSE <<other>>
           A == ActivateOp(c)
<1>14. /\ x \in Seq(A) /\ y \in Seq(PlainActivateOp(c)) /\ y \in Seq(A)
       /\ <<r>> \in Seq(A) /\ <<s>> \in Seq(PlainActivateOp(c)) /\ <<s>> \in Seq(A)
  BY <1>13, ShortSeqs
<1>15. /\ Has(<<r>>, ServicesOf(c, "doveauth")) /\ Has(<<s>>, ServicesOf(c, "dovecot"))
       /\ ~c.disable_mail => Has(x, Stales)
  BY <1>6, <1>7, <1>8, HasAny
<1>16. /\ Leads(<<s>>, Stales, ServicesOf(c, "dovecot"))
       /\ Leads(y, Stales, ServicesOf(c, "dovecot"))
  BY <1>14, PlainActivate DEF SoundActivate
<1>17. D.activate = ((<<r>> \o x) \o <<s>>) \o y
  BY <1>9
<1> HIDE DEF x, y, A
<1>18. <<r>> \o x \in Seq(A) /\ (<<r>> \o x) \o <<s>> \in Seq(A)
       /\ ((<<r>> \o x) \o <<s>>) \o y \in Seq(A)
  BY <1>14, ConcatProperties
<1>19. Leads((<<r>> \o x) \o <<s>>, Stales, ServicesOf(c, "dovecot"))
  BY <1>14, <1>15, <1>16, <1>18, LeadsConcat
<1>20. Leads(((<<r>> \o x) \o <<s>>) \o y, Stales, ServicesOf(c, "dovecot"))
  BY <1>14, <1>16, <1>18, <1>19, LeadsConcat
<1>21. SoundActivate(D.activate, c)
  BY <1>17, <1>18, <1>20 DEF SoundActivate, A
<1>22. \A B : Has(<<r>>, B) \/ Has(x, B) \/ Has(<<s>>, B) => Has(D.activate, B)
  <2>1. TAKE B
  <2>2. Has(<<r>>, B) \/ Has(x, B) => Has(<<r>> \o x, B)
    BY <1>14, HasConcat
  <2>3. Has(<<r>> \o x, B) \/ Has(<<s>>, B) => Has((<<r>> \o x) \o <<s>>, B)
    BY <1>14, <1>18, HasConcat
  <2>4. Has((<<r>> \o x) \o <<s>>, B) => Has(((<<r>> \o x) \o <<s>>) \o y, B)
    BY <1>14, <1>18, HasConcat
  <2>5. QED  BY <1>17, <2>2, <2>3, <2>4
<1>23. QED  BY <1>10, <1>12, <1>15, <1>21, <1>22 DEF Sound, D

-----------------------------------------------------------------------------
(* The stages                                                                *)

LEMMA OpsGrow ==
    ASSUME NEW mode
    PROVE  /\ InstallOp(Usual) \subseteq InstallOp(FilesOf(mode))
           /\ ConfigureOp(Usual) \subseteq ConfigureOp(FilesOf(mode))
BY DEF InstallOp, ConfigureOp, FilesOf

LEMMA SoundGrows ==
    ASSUME NEW D, NEW c, NEW mode, Sound(D, c, Usual)
    PROVE  Sound(D, c, FilesOf(mode))
<1>1. \A S, T : S \subseteq T => Seq(S) \subseteq Seq(T)
  OBVIOUS
<1>2. QED  BY <1>1, OpsGrow DEF Sound, SoundInstall, SoundConfigure

LEMMA TlsDeployerSound ==
    ASSUME NEW c, NEW mode \in {"acme", "self", "external"}
    PROVE  /\ Sound(get_tls_deployer(mode), c, FilesOf(mode))
           /\ mode = "acme" => Has(get_tls_deployer(mode).activate, ServicesOf(c, "acmetool-redirector"))
           /\ mode = "external" =>
                Has(get_tls_deployer(mode).activate, ServicesOf(c, "tls-cert-reload.path"))
BY AcmetoolSound, ExternalTlsSound, SimpleDeployers DEF get_tls_deployer

LEMMA DeployersAre ==
    ASSUME NEW mode, NEW c, ~c.website_only
    PROVE  LET ds == all_deployers(mode, c)
           IN  /\ DOMAIN ds = 1..19 /\ Len(ds) = 19
               /\ ds[1] = ChatmailDeployer /\ ds[2] = LegacyRemoveDeployer
               /\ ds[3] = FiltermailDeployer /\ ds[4] = JournaldDeployer
               /\ ds[5] = UnboundDeployer /\ ds[6] = TurnDeployer /\ ds[7] = IrohDeployer(c)
               /\ ds[8] = get_tls_deployer(mode) /\ ds[9] = WebsiteDeployer
               /\ ds[10] = ChatmailVenvDeployer /\ ds[11] = MtastsDeployer
               /\ ds[12] = OpendkimDeployer /\ ds[13] = DovecotDeployer(c)
               /\ ds[14] = Fail2BanDeployer /\ ds[15] = PostfixDeployer(c)
               /\ ds[16] = FcgiwrapDeployer /\ ds[17] = NginxDeployer
               /\ ds[18] = MtailDeployer(c) /\ ds[19] = GithashDeployer
BY DEF all_deployers

LEMMA DeployersSound ==
    ASSUME NEW mode \in {"acme", "self", "external"}, NEW c, Options(c), ~c.website_only
    PROVE  LET ds == all_deployers(mode, c)
           IN  /\ ds[1].install \in Seq({upgrade, other})
               /\ \A d \in 1..19 :
                    /\ d # 1 => SoundInstall(ds[d].install, FilesOf(mode))
                    /\ SoundConfigure(ds[d].configure, FilesOf(mode))
                    /\ SoundActivate(ds[d].activate, c)
<1> DEFINE ds == all_deployers(mode, c)
<1> HIDE DEF ds
<1>1. /\ Sound(ds[2], c, FilesOf(mode))
      /\ Sound(ds[3], c, FilesOf(mode)) /\ Sound(ds[4], c, FilesOf(mode))
      /\ Sound(ds[5], c, FilesOf(mode)) /\ Sound(ds[6], c, FilesOf(mode))
      /\ Sound(ds[7], c, FilesOf(mode)) /\ Sound(ds[8], c, FilesOf(mode))
      /\ Sound(ds[9], c, FilesOf(mode)) /\ Sound(ds[10], c, FilesOf(mode))
  BY DeployersAre, SoundGrows, SimpleDeployers, FiltermailSound, JournaldSound, UnboundSound,
     TurnSound, IrohSound, TlsDeployerSound, ChatmailVenvSound DEF ds
<1>2. /\ Sound(ds[11], c, FilesOf(mode)) /\ Sound(ds[12], c, FilesOf(mode))
      /\ Sound(ds[13], c, FilesOf(mode)) /\ Sound(ds[14], c, FilesOf(mode))
      /\ Sound(ds[15], c, FilesOf(mode)) /\ Sound(ds[16], c, FilesOf(mode))
      /\ Sound(ds[17], c, FilesOf(mode)) /\ Sound(ds[18], c, FilesOf(mode))
      /\ Sound(ds[19], c, FilesOf(mode))
  BY DeployersAre, SoundGrows, SimpleDeployers, MtastsSound, OpendkimSound, DovecotSound,
     Fail2BanSound, PostfixSound, FcgiwrapSound, NginxSound, MtailSound DEF ds
<1>3. /\ ds[1].install \in Seq({upgrade, other})
      /\ SoundConfigure(ds[1].configure, FilesOf(mode)) /\ SoundActivate(ds[1].activate, c)
  BY DeployersAre, ChatmailSound DEF ds
<1>4. \A d \in 1..19 : d # 1 => Sound(ds[d], c, FilesOf(mode))
  BY <1>1, <1>2
<1>5. QED  BY <1>3, <1>4 DEF Sound, ds

\* What a stage does, for all deployers
performed_by(ds, st) == FlattenSeq([d \in 1..Len(ds) |-> ds[d][st]])

SoundInstalls(q, fs) ==
    q \in Seq(InstallsOp(fs)) /\ Leads(q, {block}, {unblock}) /\ Apart(q, {block}, {upgrade})

LEMMA InstallStage ==
    ASSUME NEW mode \in {"acme", "self", "external"}, NEW c, Options(c), ~c.website_only
    PROVE  LET q == performed_by(all_deployers(mode, c), "install")
           IN  SoundInstalls(q, FilesOf(mode)) /\ Has(q, {unblock})
<1> DEFINE ds == all_deployers(mode, c)
           R == InstallOp(FilesOf(mode))
           S == InstallsOp(FilesOf(mode))
           ss == [d \in 1..19 |-> ds[d]["install"]]
<1>1. /\ {upgrade, other} \subseteq S /\ R \subseteq S /\ upgrade \notin R
      /\ block \notin {upgrade, other}
  BY DEF InstallsOp, InstallOp, Plain, upgrade, other, block, unblock, Puts, Packages, Change
<1> HIDE DEF ds, R, S
<1>2. ds[1].install \in Seq({upgrade, other})
  BY DeployersSound DEF ds
<1>3. \A d \in 1..19 : d # 1 => ds[d].install \in Seq(R) /\ Leads(ds[d].install, {block}, {unblock})
  BY DeployersSound DEF SoundInstall, ds, R
<1>4. \A T, U : T \subseteq U => Seq(T) \subseteq Seq(U)
  OBVIOUS
<1>5. ds[1].install \in Seq(S) /\ ~Has(ds[1].install, {block}) /\ Leads(ds[1].install, {block}, {unblock})
  BY <1>1, <1>2, <1>4, LeadsNone
<1>6. ASSUME NEW d \in 1..19, d # 1 PROVE ds[d].install \in Seq(S) /\ ~Has(ds[d].install, {upgrade})
  <2>1. ds[d].install \in Seq(R)
    BY <1>3, <1>6
  <2>2. R \cap {upgrade} = {}
    BY <1>1
  <2>3. ~Has(ds[d].install, {upgrade})
    BY <2>1, <2>2, LeadsNone
  <2>4. QED  BY <1>1, <1>4, <2>1, <2>3
<1>7. \A d \in 1..19 : ds[d].install \in Seq(S) /\ Leads(ds[d].install, {block}, {unblock})
  BY <1>3, <1>5, <1>6
<1>8. \A d \in 1..19 : ss[d] = ds[d].install
  OBVIOUS
<1>9. ss \in [1..19 -> Seq(S)]
  BY <1>7
<1>10. Has(ss[17], {unblock})
  BY <1>8, NginxSound, DeployersAre DEF ds
<1>11. performed_by(ds, "install") = FlattenSeq(ss)
  BY DeployersAre DEF performed_by, ds
<1> HIDE DEF ss
<1>12. FlattenSeq(ss) \in Seq(S)
  BY <1>9, FlattenPlaces
<1>13. Leads(FlattenSeq(ss), {block}, {unblock})
  BY <1>7, <1>8, <1>9, FlattenLeads
<1>14. Has(FlattenSeq(ss), {unblock})
  <2>1. 17 \in 1..19 /\ 19 \in Nat
    OBVIOUS
  <2>2. QED  BY <1>9, <1>10, <2>1, FlattenHas
<1>15. Apart(FlattenSeq(ss), {block}, {upgrade})
  <2>1. \A i \in 1..19 : Apart(ss[i], {block}, {upgrade})
    BY <1>8, <1>5, <1>6, ApartNone
  <2>2. \A i, j \in 1..19 : i < j => ~Has(ss[i], {block}) \/ ~Has(ss[j], {upgrade})
    <3>1. \A i, j \in 1..19 : i < j => j # 1
      OBVIOUS
    <3>2. QED  BY <1>8, <1>6, <3>1
  <2>3. 19 \in Nat
    OBVIOUS
  <2>4. QED  BY <1>9, <2>1, <2>2, <2>3, FlattenApart
<1>16. QED  BY <1>11, <1>12, <1>13, <1>14, <1>15 DEF SoundInstalls, ds, S

LEMMA ConfigureStage ==
    ASSUME NEW mode \in {"acme", "self", "external"}, NEW c, Options(c), ~c.website_only
    PROVE  LET q == performed_by(all_deployers(mode, c), "configure")
           IN  /\ SoundConfigure(q, FilesOf(mode))
               /\ \A s \in Mail : Has(q, PutsOf(Conf[s]))
               /\ Has(q, PutsOf("opendkim.private")) /\ Has(q, PutsOf("opendkim.conf"))
<1> DEFINE ds == all_deployers(mode, c)
           S == ConfigureOp(FilesOf(mode))
           ss == [d \in 1..19 |-> ds[d]["configure"]]
<1> HIDE DEF ds, S
<1>1. \A d \in 1..19 :
        /\ ds[d].configure \in Seq(S)
        /\ \A s \in Mail : Leads(ds[d].configure, PutsOf(Conf[s]), ValidationsOf(s))
  BY DeployersSound DEF SoundConfigure, ds, S
<1>2. \A d \in 1..19 : ss[d] = ds[d].configure
  OBVIOUS
<1>3. ss \in [1..19 -> Seq(S)]
  BY <1>1
<1>4. /\ Has(ss[12], PutsOf("opendkim.private")) /\ Has(ss[12], PutsOf("opendkim.conf"))
      /\ Has(ss[13], PutsOf(Conf["dovecot"])) /\ Has(ss[15], PutsOf(Conf["postfix"]))
  BY <1>2, OpendkimSound, DovecotSound, PostfixSound, DeployersAre DEF ds
<1>5. performed_by(ds, "configure") = FlattenSeq(ss)
  BY DeployersAre DEF performed_by, ds
<1> HIDE DEF ss
<1>6. FlattenSeq(ss) \in Seq(S)
  BY <1>3, FlattenPlaces
<1>7. \A s \in Mail : Leads(FlattenSeq(ss), PutsOf(Conf[s]), ValidationsOf(s))
  BY <1>1, <1>2, <1>3, FlattenLeads
<1>8. \A B : \A d \in 1..19 : Has(ss[d], B) => Has(FlattenSeq(ss), B)
  BY <1>3, FlattenHas
<1>9. {12, 13, 15} \subseteq 1..19
  OBVIOUS
<1>10. /\ \A s \in Mail : Has(FlattenSeq(ss), PutsOf(Conf[s]))
       /\ Has(FlattenSeq(ss), PutsOf("opendkim.private"))
       /\ Has(FlattenSeq(ss), PutsOf("opendkim.conf"))
  BY <1>4, <1>8, <1>9 DEF Mail
<1>11. QED  BY <1>5, <1>6, <1>7, <1>10 DEF SoundConfigure, ds, S

LEMMA ActivateStage ==
    ASSUME NEW mode \in {"acme", "self", "external"}, NEW c, Options(c), ~c.website_only
    PROVE  LET q == performed_by(all_deployers(mode, c), "activate")
           IN  /\ SoundActivate(q, c)
               /\ ~c.disable_mail => Has(q, Stales)
               /\ Has(q, Reloads(c)) /\ Preceded(q, Services(c), Reloads(c))
               /\ \A s \in Service : Has(q, ServicesOf(c, s)) \/ Reads[s] \cap FilesOf(mode) = {}
               /\ \A s \in Mail : Has(q, ServicesOf(c, s))
<1> DEFINE ds == all_deployers(mode, c)
           S == ActivateOp(c)
           ss == [d \in 1..19 |-> ds[d]["activate"]]
<1> HIDE DEF ds, S
<1>1. \A d \in 1..19 : ds[d].activate \in Seq(S)
                       /\ Leads(ds[d].activate, Stales, ServicesOf(c, "dovecot"))
  BY DeployersSound DEF SoundActivate, ds, S
<1>2. \A d \in 1..19 : ss[d] = ds[d].activate
  OBVIOUS
<1>3. ss \in [1..19 -> Seq(S)]
  BY <1>1
<1>4. /\ Has(ss[3], ServicesOf(c, "filtermail")) /\ Has(ss[4], ServicesOf(c, "journald"))
      /\ Has(ss[5], ServicesOf(c, "unbound")) /\ Has(ss[6], ServicesOf(c, "turnserver"))
      /\ Has(ss[7], ServicesOf(c, "iroh-relay")) /\ Has(ss[10], ServicesOf(c, "chatmaild"))
      /\ Has(ss[12], ServicesOf(c, "opendkim")) /\ Has(ss[13], ServicesOf(c, "doveauth"))
      /\ Has(ss[13], ServicesOf(c, "dovecot")) /\ (~c.disable_mail => Has(ss[13], Stales))
  BY <1>2, FiltermailSound, JournaldSound, UnboundSound, TurnSound, IrohSound, ChatmailVenvSound,
     OpendkimSound, DovecotSound, DeployersAre DEF ds
<1>5. /\ Has(ss[14], ServicesOf(c, "fail2ban")) /\ Has(ss[15], ServicesOf(c, "postfix"))
      /\ Has(ss[16], ServicesOf(c, "fcgiwrap")) /\ Has(ss[17], ServicesOf(c, "nginx"))
      /\ Has(ss[18], ServicesOf(c, "mtail"))
      /\ mode = "acme" => Has(ss[8], ServicesOf(c, "acmetool-redirector"))
      /\ mode = "external" => Has(ss[8], ServicesOf(c, "tls-cert-reload.path"))
  BY <1>2, Fail2BanSound, PostfixSound, FcgiwrapSound, NginxSound, MtailSound, TlsDeployerSound,
     DeployersAre DEF ds
<1>6. Has(ss[3], Reloads(c)) /\ Preceded(ss[3], Services(c), Reloads(c))
  BY <1>2, FiltermailSound, DeployersAre DEF ds
<1>7. ~Has(ss[1], Services(c)) /\ ~Has(ss[2], Services(c))
  <2>1. ss[1] = <<>> /\ ss[2] = <<>>
    BY <1>2, DeployersAre DEF ds, ChatmailDeployer, LegacyRemoveDeployer, deployer
  <2>2. QED  BY <2>1 DEF Has
<1>8. performed_by(ds, "activate") = FlattenSeq(ss)
  BY DeployersAre DEF performed_by, ds
<1> HIDE DEF ss
<1>9. FlattenSeq(ss) \in Seq(S)
  BY <1>3, FlattenPlaces
<1>10. Leads(FlattenSeq(ss), Stales, ServicesOf(c, "dovecot"))
  BY <1>1, <1>2, <1>3, FlattenLeads
<1>11. \A B : \A d \in 1..19 : Has(ss[d], B) => Has(FlattenSeq(ss), B)
  BY <1>3, FlattenHas
<1>12. {3, 4, 5, 6, 7, 8, 10, 12, 13, 14, 15, 16, 17, 18} \subseteq 1..19
  OBVIOUS
<1>13. Preceded(FlattenSeq(ss), Services(c), Reloads(c))
  <2>1. 3 \in 1..19 /\ \A i \in 1..(3 - 1) : i = 1 \/ i = 2
    OBVIOUS
  <2>2. \A i \in 1..(3 - 1) : ~Has(ss[i], Services(c))
    BY <1>7, <2>1
  <2>3. QED  BY <1>3, <1>6, <2>1, <2>2, FlattenPreceded
<1>14. Has(FlattenSeq(ss), Reloads(c)) /\ (~c.disable_mail => Has(FlattenSeq(ss), Stales))
  BY <1>4, <1>6, <1>11, <1>12
<1>15. \A s \in Mail : Has(FlattenSeq(ss), ServicesOf(c, s))
  BY <1>4, <1>5, <1>11, <1>12 DEF Mail
<1>16. ASSUME NEW s \in Service
       PROVE  Has(FlattenSeq(ss), ServicesOf(c, s)) \/ Reads[s] \cap FilesOf(mode) = {}
  <2>1. CASE s \in {"filtermail", "journald", "unbound", "turnserver", "iroh-relay", "chatmaild",
                    "opendkim", "doveauth"}
    BY <1>4, <1>11, <1>12, <2>1
  <2>2. CASE s \in {"dovecot", "fail2ban", "postfix", "fcgiwrap", "nginx", "mtail"}
    BY <1>4, <1>5, <1>11, <1>12, <2>2
  <2>3. CASE s = "acmetool-redirector"
    <3>1. mode # "acme" => Reads[s] \cap FilesOf(mode) = {}
      BY <2>3 DEF Reads, Service, Conf, FilesOf, TlsFilesOf, TlsFiles, Usual
    <3>2. QED  BY <1>5, <1>11, <1>12, <2>3, <3>1
  <2>4. CASE s = "tls-cert-reload.path"
    <3>1. mode # "external" => Reads[s] \cap FilesOf(mode) = {}
      BY <2>4 DEF Reads, Service, Conf, FilesOf, TlsFilesOf, TlsFiles, Usual
    <3>2. QED  BY <1>5, <1>11, <1>12, <2>4, <3>1
  <2>5. CASE s = "acmetool-reconcile.timer"
    BY <2>5 DEF Reads, Service, Conf
  <2>6. QED  BY <2>1, <2>2, <2>3, <2>4, <2>5 DEF Service
<1>17. QED
  BY <1>8, <1>9, <1>10, <1>13, <1>14, <1>15, <1>16 DEF SoundActivate, ds, S

-----------------------------------------------------------------------------
(* A run as a whole                                                          *)

LEMMA WhatStagesHaveNot ==
    ASSUME NEW c, NEW fs
    PROVE  /\ (InstallsOp(fs) \cup ConfigureOp(fs)) \cap (Services(c) \cup Stales) = {}
           /\ ActivateOp(c) \cap (Puts \cup Packages \cup Validations) = {}
           /\ (ConfigureOp(fs) \cup ActivateOp(c)) \cap Arrivals = {}
           /\ (ConfigureOp(fs) \cup ActivateOp(c)) \cap {block, upgrade} = {}
           /\ (InstallsOp(fs) \cup ActivateOp(c)) \cap (UnitPuts \cup ConfigPuts) = {}
           /\ \A s \in Mail : (InstallsOp(fs) \cup ActivateOp(c)) \cap PutsOf(Conf[s]) = {}
           /\ \A o \in InstallsOp(fs) \cup ConfigureOp(fs) : o \in Puts \cup Packages => o.file \in fs
<1>1. /\ \A o \in Puts : o.do = "put"
      /\ \A o \in Packages : o.do = "package"
      /\ \A o \in Validations : o.do = "validate"
      /\ \A o \in Stales : o.do = "stale"
      /\ \A o \in Services(c) : o.do = "service"
      /\ other.do = "other" /\ block.do = "block" /\ unblock.do = "unblock" /\ upgrade.do = "upgrade"
  BY DEF Puts, Packages, Change, Validations, ValidationsOf, validate, Stales, Services, other,
    block, unblock, upgrade
<1>2. \A o \in InstallsOp(fs) :
        /\ o.do \in {"put", "package", "other", "block", "unblock", "upgrade"}
        /\ o.do = "put" => o \in Puts /\ o.file \in fs \ (Unit \cup Configurations)
        /\ o.do = "package" => o.file \in fs
  BY <1>1 DEF InstallsOp, InstallOp, Plain
<1>3. \A o \in ConfigureOp(fs) :
        /\ o.do \in {"put", "validate", "other"}
        /\ o.do = "put" => o.file \in fs
  BY <1>1 DEF ConfigureOp
<1>4. \A o \in ActivateOp(c) : o.do \in {"other", "stale", "service"}
  BY <1>1 DEF ActivateOp
<1>5. \A s \in Mail : Conf[s] \in Configurations
  BY DEF Mail, Conf, Configurations
<1>6. QED
  BY <1>1, <1>2, <1>3, <1>4, <1>5 DEF UnitPuts, ConfigPuts, Arrivals, PutsOf

\* The stages of a run, in their order
Ordered(sts) ==
    sts \in Seq(Stage)
    /\ \A i, j \in DOMAIN sts : i < j => sts[i] # "activate" /\ sts[j] # "install"

LEMMA StagesAre ==
    ASSUME NEW mode \in {"acme", "self", "external"}, NEW c, Options(c), ~c.website_only,
           NEW sts, Ordered(sts)
    PROVE  LET fs == FilesOf(mode)
               n == Len(sts)
               ss == [i \in 1..n |-> performed_by(all_deployers(mode, c), sts[i])]
           IN  /\ n \in Nat /\ DOMAIN sts = 1..n
               /\ ss \in [1..n -> Seq(Operation(c))]
               /\ perform_stages(all_deployers(mode, c), sts) = FlattenSeq(ss)
               /\ \A i \in 1..n :
                    /\ ss[i] = performed_by(all_deployers(mode, c), sts[i])
                    /\ sts[i] = "install" => ss[i] \in Seq(InstallsOp(fs))
                    /\ sts[i] = "configure" => ss[i] \in Seq(ConfigureOp(fs))
                    /\ sts[i] = "activate" => ss[i] \in Seq(ActivateOp(c))
                    /\ sts[i] \in Stage
<1> DEFINE ds == all_deployers(mode, c)
           fs == FilesOf(mode)
           n == Len(sts)
           ss == [i \in 1..n |-> performed_by(ds, sts[i])]
<1>1. n \in Nat /\ DOMAIN sts = 1..n /\ \A i \in 1..n : sts[i] \in Stage
  BY DEF Ordered
<1>2. /\ performed_by(ds, "install") \in Seq(InstallsOp(fs))
      /\ performed_by(ds, "configure") \in Seq(ConfigureOp(fs))
      /\ performed_by(ds, "activate") \in Seq(ActivateOp(c))
  BY InstallStage, ConfigureStage, ActivateStage DEF SoundInstalls, SoundConfigure, SoundActivate
<1>3. perform_stages(ds, sts) = FlattenSeq(ss)
  BY DEF perform_stages, performed_by
<1> HIDE DEF ds, fs, n
<1>4. \A i \in 1..n :
        /\ ss[i] = performed_by(ds, sts[i])
        /\ sts[i] = "install" => ss[i] \in Seq(InstallsOp(fs))
        /\ sts[i] = "configure" => ss[i] \in Seq(ConfigureOp(fs))
        /\ sts[i] = "activate" => ss[i] \in Seq(ActivateOp(c))
        /\ sts[i] \in Stage
  BY <1>1, <1>2
<1>5. /\ InstallsOp(fs) \subseteq Operation(c) /\ ConfigureOp(fs) \subseteq Operation(c)
      /\ ActivateOp(c) \subseteq Operation(c)
  BY FilesAre DEF fs, FilesOf, Usual, TlsFilesOf, InstallsOp, InstallOp, ConfigureOp, Operation
<1>6. \A S, T : S \subseteq T => Seq(S) \subseteq Seq(T)
  OBVIOUS
<1>7. \A i \in 1..n : ss[i] \in Seq(Operation(c))
  <2>1. TAKE i \in 1..n
  <2>2. sts[i] = "install" \/ sts[i] = "configure" \/ sts[i] = "activate"
    BY <1>1 DEF Stage
  <2> HIDE DEF ss
  <2>3. QED  BY <1>4, <1>5, <1>6, <2>2
<1>8. ss \in [1..n -> Seq(Operation(c))]
  BY <1>7
<1>9. QED  BY <1>1, <1>3, <1>4, <1>8 DEF ds, fs, n

LEMMA NewPlan ==
    ASSUME NEW mode \in {"acme", "self", "external"}, NEW c, Options(c), ~c.website_only,
           NEW sts, Ordered(sts)
    PROVE  LET q == perform_stages(all_deployers(mode, c), sts)
           IN  /\ q \in Seq(Operation(c))
               /\ Plan(q, c, sts)
               /\ in_run(c, sts, "install") => Has(q, {unblock})
               /\ in_run(c, sts, "activate") =>
                    /\ \A s \in Mail : Has(q, ServicesOf(c, s))
                    /\ ~c.disable_mail => Has(q, Stales)
               /\ sts = <<"install", "configure", "activate">> =>
                    /\ Has(q, Reloads(c)) /\ Preceded(q, Services(c), Reloads(c))
                    /\ Has(q, PutsOf("opendkim.private")) /\ Has(q, PutsOf("opendkim.conf"))
<1> DEFINE q == perform_stages(all_deployers(mode, c), sts)
           fs == FilesOf(mode)
           n == Len(sts)
           S == Operation(c)
           Q(st) == performed_by(all_deployers(mode, c), st)
           ss == [i \in 1..n |-> Q(sts[i])]
<1>1. /\ n \in Nat /\ DOMAIN sts = 1..n /\ ss \in [1..n -> Seq(S)] /\ q = FlattenSeq(ss)
      /\ \A i \in 1..n :
           /\ ss[i] = Q(sts[i])
           /\ sts[i] = "install" => ss[i] \in Seq(InstallsOp(fs))
           /\ sts[i] = "configure" => ss[i] \in Seq(ConfigureOp(fs))
           /\ sts[i] = "activate" => ss[i] \in Seq(ActivateOp(c))
           /\ sts[i] \in Stage
  BY StagesAre
<1>2. /\ \A i \in 1..n : sts[i] = "activate" => i = n
      /\ \A i \in 1..n : sts[i] = "install" => i = 1
  <2>1. \A i, j \in 1..n : i < j => sts[i] # "activate" /\ sts[j] # "install"
    BY <1>1 DEF Ordered
  <2> HIDE DEF n
  <2>2. \A i \in 1..n : i = n \/ i < n
    BY <1>1
  <2>3. \A i \in 1..n : i = 1 \/ (1 < i /\ 1 \in 1..n)
    BY <1>1
  <2>4. \A i \in 1..n : n \in 1..n
    BY <1>1
  <2>5. QED  BY <2>1, <2>2, <2>3, <2>4
<1>3. /\ SoundInstalls(Q("install"), fs) /\ Has(Q("install"), {unblock})
      /\ SoundConfigure(Q("configure"), fs) /\ Has(Q("configure"), PutsOf("opendkim.private"))
      /\ Has(Q("configure"), PutsOf("opendkim.conf"))
      /\ \A s \in Mail : Has(Q("configure"), PutsOf(Conf[s]))
      /\ SoundActivate(Q("activate"), c)
      /\ ~c.disable_mail => Has(Q("activate"), Stales)
      /\ Has(Q("activate"), Reloads(c)) /\ Preceded(Q("activate"), Services(c), Reloads(c))
      /\ \A s \in Service : Has(Q("activate"), ServicesOf(c, s)) \/ Reads[s] \cap fs = {}
      /\ \A s \in Mail : Has(Q("activate"), ServicesOf(c, s))
  BY InstallStage, ConfigureStage, ActivateStage
<1> HIDE DEF q, fs, n, S, Q, ss
<1>4. \A T, B : \A r \in Seq(T) : T \cap B = {} => ~Has(r, B)
  BY LeadsNone
<1>5. \A i \in 1..n : sts[i] # "install" => ss[i] \in Seq(ConfigureOp(fs) \cup ActivateOp(c))
  BY <1>1 DEF Stage
<1>6. \A i \in 1..n : sts[i] # "configure" => ss[i] \in Seq(InstallsOp(fs) \cup ActivateOp(c))
  BY <1>1 DEF Stage
<1>7. \A i \in 1..n : sts[i] # "activate" => ss[i] \in Seq(InstallsOp(fs) \cup ConfigureOp(fs))
  BY <1>1 DEF Stage
<1>8. \A i \in 1..n : sts[i] # "activate" => ~Has(ss[i], Services(c) \cup Stales)
  BY <1>4, <1>7, WhatStagesHaveNot
<1>9. \A i \in 1..n : sts[i] = "activate" => ~Has(ss[i], Puts \cup Packages \cup Validations)
  BY <1>1, <1>4, WhatStagesHaveNot
<1>10. \A i \in 1..n : sts[i] # "install" => ~Has(ss[i], Arrivals) /\ ~Has(ss[i], {block, upgrade})
  <2>1. (ConfigureOp(fs) \cup ActivateOp(c)) \cap Arrivals = {}
    BY WhatStagesHaveNot
  <2>2. (ConfigureOp(fs) \cup ActivateOp(c)) \cap {block, upgrade} = {}
    BY WhatStagesHaveNot
  <2>3. \A r \in Seq(ConfigureOp(fs) \cup ActivateOp(c)) : ~Has(r, Arrivals) /\ ~Has(r, {block, upgrade})
    BY <1>4, <2>1, <2>2
  <2>4. QED  BY <1>5, <2>3
<1>11. \A i \in 1..n : sts[i] # "configure" =>
         ~Has(ss[i], UnitPuts \cup ConfigPuts) /\ \A s \in Mail : ~Has(ss[i], PutsOf(Conf[s]))
  BY <1>4, <1>6, WhatStagesHaveNot
<1>12. /\ \A B : \A i \in 1..n : Has(ss[i], B) => Has(q, B)
       /\ \A A, B : (\A i \in 1..n : Leads(ss[i], A, B)) => Leads(q, A, B)
       /\ \A A, B : \A k \in 1..n : Has(ss[k], B) /\ (\A i \in k..n : ~Has(ss[i], A)) => Leads(q, A, B)
  BY <1>1, FlattenHas, FlattenLeads, FlattenLater
<1>13. \A r, A, B : ~Has(r, A) => Leads(r, A, B)
  BY DEF Has, Leads
<1>14. q \in Seq(S)
  BY <1>1, FlattenPlaces
<1>15. Leads(q, {block}, {unblock})
  <2>1. ASSUME NEW i \in 1..n PROVE Leads(ss[i], {block}, {unblock})
    <3>1. CASE sts[i] = "install"
      BY <1>1, <1>3, <3>1 DEF SoundInstalls
    <3>2. CASE sts[i] # "install"
      <4>1. ~Has(ss[i], {block})
        BY <1>10, <3>2 DEF Has
      <4>2. QED  BY <1>13, <4>1
    <3>3. QED  BY <3>1, <3>2
  <2>2. QED  BY <1>12, <2>1
<1>16. Apart(q, Services(c) \cup Stales, Puts \cup Packages \cup Validations)
  <2> DEFINE A == Services(c) \cup Stales
             B == Puts \cup Packages \cup Validations
  <2> HIDE DEF A, B
  <2>1. \A i \in 1..n : ~Has(ss[i], A) \/ ~Has(ss[i], B)
    BY <1>8, <1>9 DEF A, B
  <2>2. \A i, j \in 1..n : i < j => ~Has(ss[i], A) \/ ~Has(ss[j], B)
    <3>1. \A i, j \in 1..n : i < j => i # n
      BY <1>1
    <3>2. QED  BY <1>2, <1>8, <3>1 DEF A
  <2>3. Apart(q, A, B)
    BY <1>1, <2>1, <2>2, ApartNone, FlattenApart
  <2>4. QED  BY <2>3 DEF A, B
<1>17. Apart(q, UnitPuts \cup ConfigPuts, Arrivals) /\ Apart(q, {block}, {upgrade})
  <2> DEFINE A == UnitPuts \cup ConfigPuts
             B == Arrivals
  <2> HIDE DEF A, B
  <2>1. \A i, j \in 1..n : i < j => sts[j] # "install"
    <3>1. \A i, j \in 1..n : i < j => j # 1
      BY <1>1
    <3>2. QED  BY <1>2, <3>1
  <2>2. \A i \in 1..n : ~Has(ss[i], A) \/ ~Has(ss[i], B)
    BY <1>10, <1>11 DEF A, B
  <2>3. \A i, j \in 1..n : i < j => ~Has(ss[i], A) \/ ~Has(ss[j], B)
    BY <1>10, <2>1 DEF B
  <2>4. Apart(q, A, B)
    BY <1>1, <2>2, <2>3, ApartNone, FlattenApart
  <2>5. \A i \in 1..n : sts[i] # "install" => ~Has(ss[i], {block}) /\ ~Has(ss[i], {upgrade})
    BY <1>10 DEF Has
  <2>6. ASSUME NEW i \in 1..n PROVE Apart(ss[i], {block}, {upgrade})
    <3>1. CASE sts[i] = "install"
      BY <1>1, <1>3, <3>1 DEF SoundInstalls
    <3>2. CASE sts[i] # "install"
      BY <2>5, <3>2, ApartNone
    <3>3. QED  BY <3>1, <3>2
  <2>7. \A i, j \in 1..n : i < j => ~Has(ss[i], {block}) \/ ~Has(ss[j], {upgrade})
    BY <2>1, <2>5
  <2>8. Apart(q, {block}, {upgrade})
    BY <1>1, <2>6, <2>7, FlattenApart
  <2>9. QED  BY <2>4, <2>8 DEF A, B
<1>18. \A s \in Mail : Leads(q, PutsOf(Conf[s]), ValidationsOf(s))
  <2>1. ASSUME NEW s \in Mail, NEW i \in 1..n
        PROVE  Leads(ss[i], PutsOf(Conf[s]), ValidationsOf(s))
    <3>1. CASE sts[i] = "configure"
      BY <1>1, <1>3, <3>1 DEF SoundConfigure
    <3>2. CASE sts[i] # "configure"
      BY <1>11, <1>13, <3>2
    <3>3. QED  BY <3>1, <3>2
  <2>2. QED  BY <1>12, <2>1
<1>19. ASSUME in_run(c, sts, "activate")
       PROVE  n \in 1..n /\ sts[n] = "activate" /\ ss[n] = Q("activate") /\ \A i \in n..n : i = n
  <2>1. PICK i \in 1..n : sts[i] = "activate"
    BY <1>1, <1>19 DEF in_run, ToSet
  <2>2. QED  BY <1>1, <1>2, <2>1
<1>20. ASSUME in_run(c, sts, "activate"), NEW s \in Service
       PROVE  Leads(q, ChangesOf(s), ServicesOf(c, s))
  <2>1. CASE Has(Q("activate"), ServicesOf(c, s))
    <3>1. ChangesOf(s) \subseteq Puts \cup Packages
      BY DEF ChangesOf
    <3>2. ~Has(ss[n], ChangesOf(s))
      BY <1>9, <1>19, <1>20, <3>1 DEF Has
    <3>3. QED  BY <1>12, <1>19, <1>20, <2>1, <3>2
  <2>2. CASE Reads[s] \cap fs = {}
    <3>1. (InstallsOp(fs) \cup ConfigureOp(fs)) \cap ChangesOf(s) = {}
      <4>1. \A o \in InstallsOp(fs) \cup ConfigureOp(fs) : o \in Puts \cup Packages => o.file \in fs
        BY WhatStagesHaveNot
      <4>2. QED  BY <2>2, <4>1 DEF ChangesOf
    <3>2. ActivateOp(c) \cap ChangesOf(s) = {}
      BY WhatStagesHaveNot DEF ChangesOf
    <3>3. \A i \in 1..n : ~Has(ss[i], ChangesOf(s))
      BY <1>1, <1>4, <1>7, <3>1, <3>2
    <3>4. QED  BY <1>12, <1>13, <3>3
  <2>3. QED  BY <1>3, <2>1, <2>2
<1>21. Leads(q, Stales, ServicesOf(c, "dovecot"))
  <2>1. ASSUME NEW i \in 1..n PROVE Leads(ss[i], Stales, ServicesOf(c, "dovecot"))
    <3>1. CASE sts[i] = "activate"
      BY <1>1, <1>3, <3>1 DEF SoundActivate
    <3>2. CASE sts[i] # "activate"
      <4>1. ~Has(ss[i], Stales)
        BY <1>8, <3>2 DEF Has
      <4>2. QED  BY <1>13, <4>1
    <3>3. QED  BY <3>1, <3>2
  <2>2. QED  BY <1>12, <2>1
<1>22. ASSUME in_run(c, sts, "activate"), ~c.disable_mail
       PROVE  Leads(q, Puts \cup Packages, Stales)
  <2>1. ~Has(ss[n], Puts \cup Packages) /\ Has(ss[n], Stales)
    BY <1>3, <1>9, <1>19, <1>22 DEF Has
  <2>2. QED  BY <1>12, <1>19, <1>22, <2>1
<1>23. Plan(q, c, sts)
  BY <1>15, <1>16, <1>17, <1>18, <1>20, <1>21, <1>22 DEF Plan
<1>24. in_run(c, sts, "install") => Has(q, {unblock})
  <2>1. SUFFICES ASSUME in_run(c, sts, "install") PROVE Has(q, {unblock})
    OBVIOUS
  <2>2. PICK i \in 1..n : sts[i] = "install"
    BY <1>1, <2>1 DEF in_run, ToSet
  <2>3. QED  BY <1>1, <1>3, <1>12, <2>2
<1>25. in_run(c, sts, "activate") =>
         /\ \A s \in Mail : Has(q, ServicesOf(c, s))
         /\ ~c.disable_mail => Has(q, Stales)
  BY <1>3, <1>12, <1>19
<1>26. ASSUME sts = <<"install", "configure", "activate">>
       PROVE  /\ Has(q, Reloads(c)) /\ Preceded(q, Services(c), Reloads(c))
              /\ Has(q, PutsOf("opendkim.private")) /\ Has(q, PutsOf("opendkim.conf"))
  <2>1. n = 3 /\ sts[1] = "install" /\ sts[2] = "configure" /\ sts[3] = "activate"
    BY <1>26 DEF n
  <2>2. {2, 3} \subseteq 1..n /\ ss[2] = Q("configure") /\ ss[3] = Q("activate")
    BY <1>1, <2>1
  <2>3. Has(q, Reloads(c)) /\ Has(q, PutsOf("opendkim.private")) /\ Has(q, PutsOf("opendkim.conf"))
    BY <1>3, <1>12, <2>2
  <2>4. \A i \in 1..(3 - 1) : ~Has(ss[i], Services(c))
    <3>1. \A i \in 1..(3 - 1) : i \in 1..n /\ (i = 1 \/ i = 2)
      BY <2>1
    <3>2. \A i \in 1..(3 - 1) : ~Has(ss[i], Services(c) \cup Stales)
      BY <1>8, <2>1, <3>1
    <3>3. QED  BY <3>2 DEF Has
  <2>5. 3 \in 1..n /\ Has(ss[3], Reloads(c)) /\ Preceded(ss[3], Services(c), Reloads(c))
    BY <1>3, <2>2
  <2>6. Preceded(q, Services(c), Reloads(c))
    BY <1>1, <2>4, <2>5, FlattenPreceded
  <2>7. QED  BY <2>3, <2>6
<1>27. QED  BY <1>14, <1>23, <1>24, <1>25, <1>26 DEF q, S

LEMMA WebsitePlan ==
    ASSUME NEW mode, NEW c, c.website_only, NEW sts, Ordered(sts)
    PROVE  LET q == perform_stages(all_deployers(mode, c), sts)
           IN  q \in Seq({other}) /\ Plan(q, c, sts) /\ q \in Seq(Operation(c))
<1> DEFINE ds == <<WebsiteDeployer>>
           n == Len(sts)
           ss == [i \in 1..n |-> performed_by(ds, sts[i])]
           q == FlattenSeq(ss)
<1>1. all_deployers(mode, c) = ds
  BY DEF all_deployers
<1>2. n \in Nat /\ \A i \in 1..n : sts[i] \in Stage
  BY DEF Ordered
<1>3. ASSUME NEW st \in Stage PROVE performed_by(ds, st) \in Seq({other})
  <2>1. WebsiteDeployer[st] \in Seq({other})
    <3>1. <<>> \in Seq({other}) /\ <<other>> \in Seq({other})
      BY ShortSeqs
    <3>2. WebsiteDeployer[st] \in {<<>>, <<other>>}
      BY DEF WebsiteDeployer, deployer, Stage
    <3>3. QED  BY <3>1, <3>2
  <2>2. Len(ds) = 1 /\ \A d \in 1..1 : ds[d] = WebsiteDeployer
    OBVIOUS
  <2> HIDE DEF ds
  <2>3. [d \in 1..1 |-> ds[d][st]] \in [1..1 -> Seq({other})]
    BY <2>1, <2>2
  <2>4. FlattenSeq([d \in 1..1 |-> ds[d][st]]) \in Seq({other})
    BY <2>3, FlattenPlaces
  <2>5. QED  BY <2>2, <2>4 DEF performed_by
<1>4. perform_stages(ds, sts) = q
  BY DEF perform_stages, performed_by
<1> HIDE DEF ds, n
<1>5. ss \in [1..n -> Seq({other})]
  BY <1>2, <1>3
<1> HIDE DEF ss
<1>6. q \in Seq({other})
  BY <1>2, <1>5, FlattenPlaces
<1> HIDE DEF q
<1>7. \A A, B : other \notin A => Leads(q, A, B) /\ Apart(q, A, B)
  <2>1. \A i \in DOMAIN q : q[i] = other
    BY <1>6
  <2>2. QED  BY <2>1 DEF Leads, Apart
<1>8. ~in_run(c, sts, "activate")
  BY DEF in_run
<1>9. /\ other \notin {block} /\ other \notin Services(c) \cup Stales /\ other \notin Stales
      /\ other \notin UnitPuts \cup ConfigPuts
      /\ \A s \in Mail : other \notin PutsOf(Conf[s])
  BY DEF other, block, Services, Stales, UnitPuts, ConfigPuts, PutsOf, Puts, Change
<1>10. Plan(q, c, sts)
  BY <1>6, <1>7, <1>8, <1>9 DEF Plan
<1>11. q \in Seq(Operation(c))
  <2>1. {other} \subseteq Operation(c)
    BY DEF Operation, ActivateOp
  <2>2. QED  BY <1>6, <2>1
<1>12. QED  BY <1>1, <1>4, <1>6, <1>10, <1>11

LEMMA ConstantsAre ==
    /\ \A c \in Configs : Options(c)
    /\ \A mode \in TlsModes : mode \in {"acme", "self", "external"}
    /\ \A sts \in StageLists : Ordered(sts)
BY DeployAssumption, StageAssumption DEF Options, Ordered

\* Every run begins with such operations.
LEMMA NewRun ==
    ASSUME NEW mode \in TlsModes, NEW c \in Configs, NEW sts \in StageLists
    PROVE  LET q == perform_stages(all_deployers(mode, c), sts)
           IN  /\ q \in Seq(Operation(c)) /\ Plan(q, c, sts)
               /\ in_run(c, sts, "install") => Has(q, {unblock})
               /\ in_run(c, sts, "activate") =>
                    /\ \A s \in Mail : Has(q, ServicesOf(c, s))
                    /\ ~c.disable_mail => Has(q, Stales)
               /\ sts = <<"install", "configure", "activate">> /\ ~c.website_only =>
                    /\ Has(q, Reloads(c)) /\ Preceded(q, Services(c), Reloads(c))
                    /\ Has(q, PutsOf("opendkim.private")) /\ Has(q, PutsOf("opendkim.conf"))
               /\ c.website_only => q \in Seq({other})
<1> DEFINE q == perform_stages(all_deployers(mode, c), sts)
<1>1. Options(c) /\ mode \in {"acme", "self", "external"} /\ Ordered(sts)
  BY ConstantsAre
<1>2. CASE c.website_only
  <2>1. q \in Seq({other}) /\ Plan(q, c, sts) /\ q \in Seq(Operation(c))
    BY <1>1, <1>2, WebsitePlan
  <2>2. QED  BY <1>2, <2>1 DEF in_run
<1>3. CASE ~c.website_only
  BY <1>1, <1>3, NewPlan
<1>4. QED  BY <1>2, <1>3

-----------------------------------------------------------------------------
(* Types                                                                     *)

LEMMA ReadsAre ==
    /\ \A s \in Service : Reads[s] \subseteq File
    /\ "dovecot" \in Service /\ "postfix" \in Service /\ Mail \subseteq Service
    /\ \A s \in Mail : Conf[s] \in Reads[s] /\ s \in Reads[s] /\ Conf[s] \in File /\ s \in File
    /\ \A s \in Packaged : s \in Service /\ s \in Reads[s] /\ s \in File
    /\ Unit \subseteq File
<1>1. \A s \in Service : Reads[s] \subseteq File
  BY DEF File
<1>2. \A s \in Mail : Conf[s] \in Reads[s] /\ s \in Reads[s] /\ s \in Service
  BY DEF Mail, Reads, Conf, Service
<1>3. \A s \in Packaged : s \in Service /\ s \in Reads[s]
  BY DEF Packaged
<1>4. QED  BY <1>1, <1>2, <1>3 DEF File, Mail

\* What the kind of an operation says of it
LEMMA KindsAre ==
    ASSUME NEW c, NEW o \in Operation(c)
    PROVE  /\ o.do = "other" => o = other
           /\ o.do = "put" => o \in Puts
           /\ o.do = "package" => o \in Packages
           /\ o.do = "block" => o = block
           /\ o.do = "unblock" => o = unblock
           /\ o.do = "upgrade" => o = upgrade
           /\ o.do = "validate" => o \in Validations
           /\ o.do = "stale" => o \in Stales
           /\ o.do = "service" => o \in Services(c)
<1>1. /\ \A p \in Puts : p.do = "put"
      /\ \A p \in Packages : p.do = "package"
      /\ \A p \in Validations : p.do = "validate"
      /\ \A p \in Stales : p.do = "stale"
      /\ \A p \in Services(c) : p.do = "service"
      /\ other.do = "other" /\ block.do = "block" /\ unblock.do = "unblock" /\ upgrade.do = "upgrade"
  BY DEF Puts, Packages, Change, Validations, ValidationsOf, validate, Stales, Services, other,
    block, unblock, upgrade
<1>2. o \in {other, block, unblock, upgrade} \cup Puts \cup Packages \cup Validations \cup Stales
            \cup Services(c)
  BY DEF Operation, InstallsOp, InstallOp, ConfigureOp, ActivateOp, Plain
<1>3. QED  BY <1>1, <1>2

LEMMA FieldsAre ==
    ASSUME NEW c
    PROVE  /\ \A o \in Puts : o.do = "put" /\ o.file \in File \ Mail /\ o.marks \subseteq Mark
                              /\ Marked(o.file, o.marks)
           /\ \A o \in Packages : o.do = "package" /\ o.file \in Packaged /\ o.file \in File
                                  /\ o.marks \subseteq Mark /\ Marked(o.file, o.marks)
           /\ \A o \in Puts \cup Packages : \A s \in Mail : o.file = Conf[s] <=> config_mark[s] \in o.marks
           /\ \A o \in Validations :
                o.do = "validate" /\ o.service \in Mail /\ o \in ValidationsOf(o.service)
                /\ o.marks = {config_mark[o.service]}
           /\ \A o \in Stales : o.do = "stale" /\ o.service = "dovecot"
           /\ \A o \in Services(c) :
                /\ o.do = "service" /\ o.running \in BOOLEAN /\ o.enabled \in BOOLEAN
                /\ o.service \notin Service => ~o.running /\ ~o.enabled
                /\ o.service \in Service =>
                     o.restarted = again(o.service) \/ (~o.running /\ o.restarted = {})
                /\ o.service \in Mail =>
                     /\ o.running = ~c.disable_mail /\ o.enabled = ~c.disable_mail
                     /\ ~o.running => o.restarted = {}
<1>1. \A o \in Puts : o.do = "put" /\ o.file \in File \ Mail /\ o.marks \subseteq Mark
                      /\ Marked(o.file, o.marks)
  BY DEF Puts, Change
<1>2. \A o \in Packages : o.do = "package" /\ o.file \in Packaged
                          /\ o.marks \subseteq Mark /\ Marked(o.file, o.marks)
  BY DEF Packages, Change
<1>3. \A o \in Puts \cup Packages : \A s \in Mail : o.file = Conf[s] <=> config_mark[s] \in o.marks
  BY DEF Puts, Packages, Change
<1>4. \A s \in Mail : \A o \in ValidationsOf(s) :
        o.do = "validate" /\ o.service = s /\ o.marks = {config_mark[s]}
  BY DEF ValidationsOf, validate
<1>5. \A o \in Stales : o.do = "stale" /\ o.service = "dovecot"
  BY DEF Stales
<1>6. \A o \in Services(c) :
                /\ o.do = "service" /\ o.running \in BOOLEAN /\ o.enabled \in BOOLEAN
                /\ o.service \notin Service => ~o.running /\ ~o.enabled
                /\ o.service \in Service =>
                     o.restarted = again(o.service) \/ (~o.running /\ o.restarted = {})
                /\ o.service \in Mail =>
                     /\ o.running = ~c.disable_mail /\ o.enabled = ~c.disable_mail
                     /\ ~o.running => o.restarted = {}
  BY DEF Services
<1>7. \A o \in Packages : o.file \in File
  BY <1>2, ReadsAre
<1>8. QED  BY <1>1, <1>2, <1>3, <1>4, <1>5, <1>6, <1>7 DEF Validations

LEMMA TypeInit ==
    ASSUME Init
    PROVE  TypeInv
<1>1. config \in Configs /\ stages \in StageLists
  BY DeployAssumption, StageAssumption DEF Init
<1>2. {"journald"} \subseteq Service
  BY DEF Service
<1>3. \A s \in Service : IF s \in running THEN saw[s] \in [Reads[s] -> Version \cup {Absent}]
                                          ELSE saw[s] = <<>>
  BY <1>2 DEF Init
<1>4. want \in [File -> Version] /\ disk \in [File -> Version \cup {Absent}]
      /\ loaded \in [Unit -> Version \cup {Absent}]
  BY DEF Init, Version
<1>5. todo \in Seq(Operation(config))
  BY DEF Init
<1>6. runs \in 0..MaxRuns /\ edits \in 0..MaxEdits /\ cuts \in 0..MaxCuts /\ reboots \in 0..MaxReboots
  BY DeployAssumption DEF Init
<1>7. QED  BY <1>1, <1>2, <1>3, <1>4, <1>5, <1>6 DEF Init, TypeInv, TypeOK

\* An operation is the first of those left.
LEMMA Performs ==
    ASSUME TypeInv, NEW kinds, Perform(kinds)
    PROVE  /\ outcome = "running" /\ outcome' = "running"
           /\ todo # <<>> /\ todo \in Seq(Operation(config))
           /\ op = Head(todo) /\ op \in Operation(config) /\ op.do \in kinds
           /\ todo' = Tail(todo) /\ todo' \in Seq(Operation(config))
           /\ UNCHANGED <<tls_cert_mode, config, stages, whole, want, runs, edits, cuts, reboots>>
BY TailOf DEF Perform, op, TypeInv

\* What Start leaves
LEMMA Starts ==
    ASSUME NEW ss, NEW units, Start(ss, units), TypeInv, ss \subseteq running', running' \subseteq Service,
           units \in [Unit -> Version \cup {Absent}], disk' \in [File -> Version \cup {Absent}],
           \A s \in running' \ ss : s \in running
    PROVE  /\ loaded' \in [Unit -> Version \cup {Absent}]
           /\ \A f \in Unit : loaded'[f] = units[f] \/ (units[f] = Absent /\ loaded'[f] = disk'[f])
           /\ \A f \in Unit : \A s \in ss :
                f \in Reads[s] => loaded'[f] = IF units[f] = Absent THEN disk'[f] ELSE units[f]
           /\ \A s \in ss : saw'[s] = [f \in Reads[s] |-> IF f \in Unit THEN loaded'[f] ELSE disk'[f]]
           /\ \A s \in ss : \A f \in Reads[s] : saw'[s][f] = IF f \in Unit THEN loaded'[f] ELSE disk'[f]
           /\ \A s \in Service \ ss : saw'[s] = IF s \in running' THEN saw[s] ELSE <<>>
           /\ \A s \in Service : IF s \in running'
                                   THEN saw'[s] \in [Reads[s] -> Version \cup {Absent}]
                                   ELSE saw'[s] = <<>>
<1>1. /\ loaded' = [f \in Unit |-> IF units[f] = Absent /\ \E s \in ss : f \in Reads[s]
                                     THEN disk'[f] ELSE units[f]]
      /\ saw' = [s \in Service |->
                   IF s \in ss
                     THEN [f \in Reads[s] |-> IF f \in Unit THEN loaded'[f] ELSE disk'[f]]
                   ELSE IF s \in running' THEN saw[s] ELSE <<>>]
  BY DEF Start
<1>2. loaded' \in [Unit -> Version \cup {Absent}]
  BY <1>1, ReadsAre
<1>3. \A f \in Unit : loaded'[f] = units[f] \/ (units[f] = Absent /\ loaded'[f] = disk'[f])
  BY <1>1
<1>4. \A f \in Unit : \A s \in ss :
        f \in Reads[s] => loaded'[f] = IF units[f] = Absent THEN disk'[f] ELSE units[f]
  BY <1>1
<1>5. \A s \in ss : saw'[s] = [f \in Reads[s] |-> IF f \in Unit THEN loaded'[f] ELSE disk'[f]]
  BY <1>1
<1>6. ASSUME NEW s \in ss
      PROVE  /\ saw'[s] \in [Reads[s] -> Version \cup {Absent}]
             /\ \A f \in Reads[s] : saw'[s][f] = IF f \in Unit THEN loaded'[f] ELSE disk'[f]
  <2>1. \A f \in Reads[s] : (IF f \in Unit THEN loaded'[f] ELSE disk'[f]) \in Version \cup {Absent}
    BY <1>2, ReadsAre
  <2>2. saw'[s] = [f \in Reads[s] |-> IF f \in Unit THEN loaded'[f] ELSE disk'[f]]
    BY <1>5
  <2>3. QED  BY <2>1, <2>2
<1>7. \A s \in Service \ ss : saw'[s] = IF s \in running' THEN saw[s] ELSE <<>>
  BY <1>1
<1>8. \A s \in Service : IF s \in running' THEN saw'[s] \in [Reads[s] -> Version \cup {Absent}]
                                           ELSE saw'[s] = <<>>
  <2>1. TAKE s \in Service
  <2>2. s \in running => saw[s] \in [Reads[s] -> Version \cup {Absent}]
    BY DEF TypeInv, TypeOK
  <2>3. QED  BY <1>6, <1>7, <2>2
<1>9. QED  BY <1>2, <1>3, <1>4, <1>5, <1>6, <1>7, <1>8

\* What PutFile and Install put is never nothing, nor another key or package.
LEMMA Sources ==
    ASSUME TypeInv, NEW f \in File
    PROVE  /\ source(f) \in Version /\ source(f) # Absent
           /\ f \in Kept /\ source(f) # disk[f] => disk[f] = Absent
BY DeployAssumption DEF source, TypeInv, TypeOK

\* What Upgrade does, with the packages of which there is a new version
upgraded(new, restarted) ==
    /\ \A f \in new : f \in Debian \cap File /\ disk[f] # Absent
    /\ restarted \subseteq Service
    /\ \A s \in Service : s \in restarted <=> s \in new /\ ~blocked /\ s \in running \cup enabled
    /\ disk' \in [File -> Version \cup {Absent}]
    /\ \A f \in File : disk'[f] = IF f \in new THEN want[f] ELSE disk[f]
    /\ running' = running \cup restarted
    /\ Start(restarted, loaded)

LEMMA DebianIs ==
    /\ Debian \subseteq File /\ Debian \cap Unit = {}
    /\ Debian \cap Service \subseteq Packaged
    /\ \A s \in Service : \A f \in Reads[s] \cap Debian : f = s \/ <<s, f>> \in Overlooked
    /\ \A s \in Mail : Conf[s] \notin Debian
    /\ Debian \cap {"opendkim.conf", "opendkim.private", "dovecot"} = {}
<1>1. Debian \cap Service \subseteq Packaged
  <2>1. Debian \cap Service \subseteq
          {"unbound", "opendkim", "dovecot", "fail2ban", "postfix", "fcgiwrap", "nginx"}
    BY DEF Debian, Service
  <2>2. QED  BY <2>1, FilesAre
<1>2. Debian \subseteq Program
  BY DEF Debian, Program
<1>3. \A s \in Service : \A f \in Reads[s] \cap Debian : f = s \/ <<s, f>> \in Overlooked
  BY DEF Debian, Service, Reads, Conf, Overlooked
<1>4. \A s \in Mail : Conf[s] \notin Debian
  BY DEF Mail, Conf, Debian
<1>5. Debian \cap Unit = {} /\ Debian \cap {"opendkim.conf", "opendkim.private", "dovecot"} = {}
  BY DEF Debian, Unit, DropIn
<1>6. QED  BY <1>1, <1>2, <1>3, <1>4, <1>5, FilesAre

LEMMA Upgrades ==
    ASSUME TypeInv, Upgrade
    PROVE  \E new, restarted : upgraded(new, restarted)
<1> DEFINE new == {f \in Debian : disk[f] \notin {Absent, want[f]}}
           restarted == {s \in new \cap Service : ~blocked /\ s \in running \cup enabled}
<1>1. /\ disk' = [f \in File |-> IF f \in new THEN want[f] ELSE disk[f]]
      /\ running' = running \cup restarted /\ Start(restarted, loaded)
  BY DEF Upgrade
<1>2. \A f \in new : f \in Debian \cap File /\ disk[f] # Absent
  BY DebianIs
<1>3. \A s \in Service : s \in restarted <=> s \in new /\ ~blocked /\ s \in running \cup enabled
  OBVIOUS
<1>4. restarted \subseteq Service
  OBVIOUS
<1> HIDE DEF new, restarted
<1>5. disk' \in [File -> Version \cup {Absent}]
  BY <1>1 DEF TypeInv, TypeOK
<1>6. \A f \in File : disk'[f] = IF f \in new THEN want[f] ELSE disk[f]
  BY <1>1
<1>7. upgraded(new, restarted)
  BY <1>1, <1>2, <1>3, <1>4, <1>5, <1>6 DEF upgraded
<1>8. QED  BY <1>7

LEMMA TypeStep ==
    ASSUME TypeInv, [Next]_vars
    PROVE  TypeInv'
<1> USE DEF TypeInv, TypeOK
<1>1. ASSUME NEW f \in Editable, Edit(f) PROVE TypeInv'
  <2>1. f \in File
    BY DeployAssumption
  <2>2. want' \in [File -> Version]
    BY <1>1, <2>1 DEF Edit, Version
  <2>3. edits' \in 0..MaxEdits
    BY <1>1, DeployAssumption DEF Edit
  <2>4. QED  BY <1>1, <2>2, <2>3 DEF Edit, server, run
<1>2. ASSUME NEW c \in Configs, NEW sts \in StageLists, deploy_chatmail(c, sts) PROVE TypeInv'
  <2>1. todo' \in Seq(Operation(config'))
    BY <1>2, NewRun DEF deploy_chatmail
  <2>2. runs' \in 0..MaxRuns
    BY <1>2, DeployAssumption DEF deploy_chatmail
  <2>3. QED  BY <1>2, <2>1, <2>2 DEF deploy_chatmail, server
<1>3. CASE Other
  BY <1>3, Performs DEF Other, server
<1>4. CASE PutFile
  <2>1. op.file \in File
    BY <1>4, Performs, KindsAre, FieldsAre DEF PutFile
  <2>2. disk' \in [File -> Version \cup {Absent}]
    BY <1>4, <2>1, Sources DEF PutFile
  <2>3. QED  BY <1>4, <2>2, Performs DEF PutFile
<1>5. CASE Install
  <2>1. op \in Packages /\ op.file \in File /\ op.file \in Service
    BY <1>5, Performs, KindsAre, FieldsAre, ReadsAre DEF Install
  <2>2. disk' \in [File -> Version \cup {Absent}] /\ enabled' \subseteq Service
    BY <1>5, <2>1, Sources DEF Install
  <2>3. CASE disk' = disk \/ blocked
    BY <1>5, <2>2, <2>3, Performs DEF Install
  <2>4. CASE ~(disk' = disk \/ blocked)
    <3>1. running' = running \cup {op.file} /\ Start({op.file}, loaded)
      BY <1>5, <2>4 DEF Install
    <3>2. /\ loaded' \in [Unit -> Version \cup {Absent}]
          /\ \A s \in Service : IF s \in running'
                                  THEN saw'[s] \in [Reads[s] -> Version \cup {Absent}]
                                  ELSE saw'[s] = <<>>
      BY <2>1, <2>2, <3>1, Starts
    <3>3. QED  BY <1>5, <2>1, <2>2, <3>1, <3>2, Performs DEF Install
  <2>5. QED  BY <2>3, <2>4
<1>6. CASE Policy
  BY <1>6, Performs DEF Policy
<1>7. CASE Validate
  BY <1>7, Performs DEF Validate, server
<1>8. CASE Stale
  BY <1>8, Performs DEF Stale, server
<1>9. CASE Systemd
  <2>1. op \in Services(config)
    BY <1>9, Performs, KindsAre DEF Systemd
  <2>2. running' \subseteq Service /\ running' \subseteq running \cup {op.service}
    BY <1>9, <2>1, FieldsAre DEF Systemd
  <2>3. enabled' \subseteq Service
    BY <1>9, <2>1, FieldsAre DEF Systemd
  <2> DEFINE a == needed(op.restarted) /\ op.service \in running
             ss == {s \in running' : s = op.service /\ (a \/ s \notin running)}
             units == IF needed(op.daemon_reload) THEN [f \in Unit |-> disk[f]] ELSE loaded
  <2>4. Start(ss, units) /\ disk' = disk
    BY <1>9 DEF Systemd
  <2>5. units \in [Unit -> Version \cup {Absent}]
    BY ReadsAre
  <2>6. ss \subseteq running' /\ \A s \in running' \ ss : s \in running
    BY <2>2
  <2> HIDE DEF ss, units
  <2>7. /\ loaded' \in [Unit -> Version \cup {Absent}]
        /\ \A s \in Service : IF s \in running'
                                THEN saw'[s] \in [Reads[s] -> Version \cup {Absent}]
                                ELSE saw'[s] = <<>>
    BY <2>2, <2>4, <2>5, <2>6, Starts
  <2>8. QED  BY <1>9, <2>2, <2>3, <2>4, <2>7, Performs DEF Systemd
<1>10. CASE Finish
  <2>1. todo' \in Seq(Operation(config')) /\ whole' \in BOOLEAN
    BY <1>10 DEF Finish, Stop
  <2>2. QED  BY <1>10, <2>1 DEF Finish, Stop, server
<1>11. CASE Cut
  <2>1. todo' \in Seq(Operation(config'))
    BY <1>11 DEF Cut, Stop
  <2>2. cuts' \in 0..MaxCuts
    BY <1>11, DeployAssumption DEF Cut
  <2>3. QED  BY <1>11, <2>1, <2>2 DEF Cut, Stop, server
<1>12. CASE Reboot
  <2>1. running' \subseteq Service
    BY <1>12 DEF Reboot
  <2>2. [f \in Unit |-> disk[f]] \in [Unit -> Version \cup {Absent}]
    BY ReadsAre
  <2>3. Start(running', [f \in Unit |-> disk[f]]) /\ disk' = disk
    BY <1>12 DEF Reboot
  <2>4. /\ loaded' \in [Unit -> Version \cup {Absent}]
        /\ \A s \in Service : IF s \in running'
                                THEN saw'[s] \in [Reads[s] -> Version \cup {Absent}]
                                ELSE saw'[s] = <<>>
    BY <2>1, <2>2, <2>3, Starts
  <2>5. reboots' \in 0..MaxReboots
    BY <1>12, DeployAssumption DEF Reboot
  <2>6. QED  BY <1>12, <2>1, <2>3, <2>4, <2>5 DEF Reboot, run
<1>13. CASE UNCHANGED vars
  BY <1>13 DEF vars, server, run
<1>14. CASE Upgrade
  <2>1. PICK new, restarted : upgraded(new, restarted)
    BY <1>14, Upgrades
  <2>2. disk' \in [File -> Version \cup {Absent}]
    BY <2>1 DEF upgraded
  <2>3. restarted \subseteq Service /\ running' = running \cup restarted /\ Start(restarted, loaded)
    BY <2>1 DEF upgraded
  <2>4. /\ loaded' \in [Unit -> Version \cup {Absent}]
        /\ \A s \in Service : IF s \in running'
                                THEN saw'[s] \in [Reads[s] -> Version \cup {Absent}]
                                ELSE saw'[s] = <<>>
    BY <2>2, <2>3, Starts
  <2>5. QED  BY <1>14, <2>2, <2>3, <2>4, Performs DEF Upgrade
<1>15. QED
  BY <1>1, <1>2, <1>3, <1>4, <1>5, <1>6, <1>7, <1>8, <1>9, <1>10, <1>11, <1>12, <1>13, <1>14 DEF Next

\* Every variable has its type, whatever the runs do to the server
\* (deployers.py:581-668, basedeploy.py:133-139).
THEOREM DeployTypes == Spec => []TypeOK
<1>1. Init => TypeInv
  BY TypeInit
<1>2. TypeInv /\ [Next]_vars => TypeInv'
  BY TypeStep
<1>3. TypeInv => TypeOK
  BY DEF TypeInv
<1>4. QED  BY <1>1, <1>2, <1>3, PTL DEF Spec

-----------------------------------------------------------------------------
(* What is left of a run remains in order                                    *)

LEMMA NothingLeft ==
    ASSUME NEW A, NEW B
    PROVE  Leads(<<>>, A, B) /\ Apart(<<>>, A, B) /\ Preceded(<<>>, A, B) /\ ~Has(<<>>, A)
BY DEF Leads, Apart, Preceded, Has

\* An operation is followed, and not followed, by those it should be.
LEMMA PlanTail ==
    ASSUME NEW S, NEW q \in Seq(S), q # <<>>, NEW c, NEW sts, Plan(q, c, sts)
    PROVE  /\ Plan(Tail(q), c, sts)
           /\ c.website_only => Head(q) = other
           /\ Head(q) = block => Has(Tail(q), {unblock})
           /\ Head(q) \in Services(c) \cup Stales =>
                ~Has(Tail(q), Puts \cup Packages \cup Validations)
           /\ Head(q) \in UnitPuts \cup ConfigPuts => ~Has(Tail(q), Arrivals)
           /\ Head(q) = block => ~Has(Tail(q), {upgrade})
           /\ \A s \in Mail : Head(q) \in PutsOf(Conf[s]) => Has(Tail(q), ValidationsOf(s))
           /\ in_run(c, sts, "activate") => \A s \in Service :
                Head(q) \in ChangesOf(s) => Has(Tail(q), ServicesOf(c, s))
           /\ Head(q) \in Stales => Has(Tail(q), ServicesOf(c, "dovecot"))
           /\ in_run(c, sts, "activate") /\ ~c.disable_mail =>
                (Head(q) \in Puts \cup Packages => Has(Tail(q), Stales))
<1>1. \A A, B : Leads(q, A, B) => Leads(Tail(q), A, B) /\ (Head(q) \in A => Has(Tail(q), B))
  BY LeadsTail
<1>2. \A A, B : Apart(q, A, B) => Apart(Tail(q), A, B) /\ (Head(q) \in A => ~Has(Tail(q), B))
  BY ApartTail
<1>3. q \in Seq({other}) => Tail(q) \in Seq({other}) /\ Head(q) = other
  BY TailOf
<1>4. QED  BY <1>1, <1>2, <1>3 DEF Plan

LEMMA PlannedInit ==
    ASSUME Init
    PROVE  Planned
<1>1. todo = <<>> /\ <<>> \in Seq({other})
  BY DEF Init
<1>2. QED  BY <1>1, NothingLeft DEF Planned, Plan

LEMMA PlannedStep ==
    ASSUME TypeInv, Planned, [Next]_vars
    PROVE  Planned'
<1>1. ASSUME NEW f \in Editable, Edit(f) PROVE Planned'
  BY <1>1 DEF Edit, Planned, run
<1>2. ASSUME NEW c \in Configs, NEW sts \in StageLists, deploy_chatmail(c, sts) PROVE Planned'
  <2>1. tls_cert_mode \in TlsModes
    BY DEF TypeInv, TypeOK
  <2>2. QED  BY <1>2, <2>1, NewRun DEF deploy_chatmail, Planned
<1>3. ASSUME NEW kinds, Perform(kinds) PROVE Planned'
  <2>1. Plan(Tail(todo), config, stages)
    BY <1>3, Performs, PlanTail DEF Planned
  <2>2. QED  BY <1>3, <2>1, Performs DEF Planned
<1>4. Other \/ PutFile \/ Install \/ Upgrade \/ Policy \/ Validate \/ Stale \/ Systemd
        => \E kinds : Perform(kinds)
  BY DEF Other, PutFile, Install, Upgrade, Policy, Validate, Stale, Systemd
<1>5. ASSUME Finish \/ Cut PROVE Planned'
  <2>1. todo' = <<>> /\ UNCHANGED <<config, stages>>
    BY <1>5 DEF Finish, Cut, Stop
  <2>2. <<>> \in Seq({other})
    OBVIOUS
  <2>3. Plan(<<>>, config, stages)
    BY <2>2, NothingLeft DEF Plan
  <2>4. QED  BY <2>1, <2>3 DEF Planned
<1>6. ASSUME Reboot \/ UNCHANGED vars PROVE Planned'
  BY <1>6 DEF Reboot, vars, run, Planned
<1>7. QED  BY <1>1, <1>2, <1>3, <1>4, <1>5, <1>6 DEF Next

LEMMA PlanFollows ==
    ASSUME TypeInv, Planned, NEW kinds, Perform(kinds)
    PROVE  /\ config.website_only => op = other
           /\ op = block => Has(todo', {unblock})
           /\ op \in Services(config) \cup Stales =>
                ~Has(todo', Puts \cup Packages \cup Validations)
           /\ op \in UnitPuts \cup ConfigPuts => ~Has(todo', Arrivals)
           /\ op = block => ~Has(todo', {upgrade})
           /\ \A s \in Mail : op \in PutsOf(Conf[s]) => Has(todo', ValidationsOf(s))
           /\ performs("activate") => \A s \in Service :
                op \in ChangesOf(s) => Has(todo', ServicesOf(config, s))
           /\ op \in Stales => Has(todo', ServicesOf(config, "dovecot"))
           /\ performs("activate") /\ ~config.disable_mail =>
                (op \in Puts \cup Packages => Has(todo', Stales))
<1>1. /\ todo \in Seq(Operation(config)) /\ todo # <<>>
      /\ Plan(todo, config, stages)
  BY Performs DEF Planned
<1>2. op = Head(todo) /\ todo' = Tail(todo)
  BY Performs
<1>3. performs("activate") <=> in_run(config, stages, "activate")
  BY DEF performs
<1> DEFINE t == Tail(todo)
           o == Head(todo)
<1>4. /\ config.website_only => o = other
      /\ o = block => Has(t, {unblock})
      /\ o \in Services(config) \cup Stales => ~Has(t, Puts \cup Packages \cup Validations)
      /\ o \in UnitPuts \cup ConfigPuts => ~Has(t, Arrivals)
      /\ o = block => ~Has(t, {upgrade})
      /\ \A s \in Mail : o \in PutsOf(Conf[s]) => Has(t, ValidationsOf(s))
      /\ in_run(config, stages, "activate") => \A s \in Service :
           o \in ChangesOf(s) => Has(t, ServicesOf(config, s))
      /\ o \in Stales => Has(t, ServicesOf(config, "dovecot"))
      /\ in_run(config, stages, "activate") /\ ~config.disable_mail =>
           (o \in Puts \cup Packages => Has(t, Stales))
  BY <1>1, PlanTail
<1> HIDE DEF t, o
<1>5. op = o /\ todo' = t
  BY <1>2 DEF t, o
<1>6. QED  BY <1>3, <1>4, <1>5

LEMMA Left ==
    ASSUME TypeInv, NEW kinds, Perform(kinds), NEW B
    PROVE  Has(todo, B) <=> op \in B \/ Has(todo', B)
BY Performs, HasTail

-----------------------------------------------------------------------------
(* policy-rc.d                                                               *)

LEMMA PolicyStep ==
    ASSUME TypeInv, Planned, PolicyInv, [Next]_vars
    PROVE  PolicyInv'
<1>1. ASSUME NEW f \in Editable, Edit(f) PROVE PolicyInv'
  BY <1>1 DEF Edit, PolicyInv, performs, in_run, run, server
<1>2. ASSUME NEW c \in Configs, NEW sts \in StageLists, deploy_chatmail(c, sts) PROVE PolicyInv'
  <2>1. tls_cert_mode \in TlsModes
    BY DEF TypeInv, TypeOK
  <2>2. QED  BY <1>2, <2>1, NewRun DEF deploy_chatmail, PolicyInv, performs
<1>3. CASE Policy
  <2>1. op = Head(todo) /\ (op.do = "block" => op = block) /\ op.do \in {"block", "unblock"}
    BY <1>3, Performs, KindsAre DEF Policy
  <2>2. op.do = "block" => Has(todo', {unblock})
    BY <1>3, <2>1, Performs, PlanTail DEF Policy, Planned
  <2>3. blocked' = (op.do = "block")
    BY <1>3 DEF Policy
  <2>4. QED  BY <2>2, <2>3 DEF PolicyInv
<1>4. CASE Other \/ PutFile \/ Install \/ Upgrade \/ Validate \/ Stale \/ Systemd
  <2>1. PICK kinds : Perform(kinds) /\ "unblock" \notin kinds
    BY <1>4 DEF Other, PutFile, Install, Upgrade, Validate, Stale, Systemd
  <2>2. op \notin {unblock}
    BY <2>1, Performs DEF unblock
  <2>3. blocked' = blocked
    BY <1>4 DEF Other, PutFile, Install, Upgrade, Validate, Stale, Systemd, server
  <2>4. QED  BY <2>1, <2>2, <2>3, Performs, Left DEF PolicyInv, performs, in_run
<1>5. CASE Finish
  <2>1. todo = <<>> /\ todo' = <<>> /\ outcome = "running" /\ UNCHANGED <<config, stages, blocked>>
    BY <1>5 DEF Finish, Stop, server
  <2>2. QED  BY <2>1 DEF PolicyInv, performs, in_run
<1>6. CASE Cut
  BY <1>6 DEF Cut, Stop, PolicyInv
<1>7. CASE Reboot \/ UNCHANGED vars
  BY <1>7 DEF Reboot, vars, run, server, PolicyInv, performs, in_run
<1>8. QED  BY <1>1, <1>2, <1>3, <1>4, <1>5, <1>6, <1>7 DEF Next

\* Whatever earlier runs left, a run that goes through the installation ends
\* with packages free to start their services again (basedeploy.py:27-46).
THEOREM PolicyIsRemoved == Spec => []PolicyRemoved
<1>1. Init => TypeInv /\ Planned /\ PolicyInv
  BY TypeInit, PlannedInit DEF Init, PolicyInv
<1>2. TypeInv /\ Planned /\ PolicyInv /\ [Next]_vars => (TypeInv /\ Planned /\ PolicyInv)'
  BY TypeStep, PlannedStep, PolicyStep
<1>3. TypeInv /\ Planned /\ PolicyInv => PolicyRemoved
  <2>1. ASSUME TypeInv, PolicyInv, performed("install") PROVE ~blocked
    <3>1. todo = <<>>
      BY <2>1 DEF TypeInv, TypeOK, performed
    <3>2. ~Has(todo, {unblock})
      BY <3>1, NothingLeft
    <3>3. QED  BY <2>1, <3>2 DEF PolicyInv, performed, performs, in_run
  <2>2. QED  BY <2>1 DEF PolicyRemoved
<1>4. QED  BY <1>1, <1>2, <1>3, PTL DEF Spec

-----------------------------------------------------------------------------
(* What starts services                                                      *)

restarts == needed(op.restarted) /\ op.service \in running

LEMMA SystemdDoes ==
    ASSUME TypeInv, Systemd
    PROVE  /\ op \in Services(config) /\ disk' = disk /\ marks' = marks
           /\ op.running => startable(op.service)
           /\ running' = (IF op.running THEN running \cup {op.service} ELSE running \ {op.service})
              \/ (~op.running /\ restarts /\ running' = running)
           /\ running' \subseteq Service
           /\ enabled' = IF op.enabled THEN enabled \cup {op.service} ELSE enabled \ {op.service}
           /\ loaded' \in [Unit -> Version \cup {Absent}]
           /\ needed(op.daemon_reload) => \A f \in Unit : loaded'[f] = disk[f]
           /\ ~needed(op.daemon_reload) => \A f \in Unit :
                loaded'[f] = loaded[f] \/ (loaded[f] = Absent /\ loaded'[f] = disk[f])
           /\ \A s \in running' : s # op.service => s \in running /\ saw'[s] = saw[s]
           /\ op.service \in running' /\ op.service \in running /\ ~restarts =>
                saw'[op.service] = saw[op.service]
           /\ op.service \in running' /\ (restarts \/ op.service \notin running) =>
                \A f \in Reads[op.service] : saw'[op.service][f] = IF f \in Unit THEN loaded'[f] ELSE disk[f]
<1> DEFINE ss == {s \in running' : s = op.service /\ (restarts \/ s \notin running)}
           units == IF needed(op.daemon_reload) THEN [f \in Unit |-> disk[f]] ELSE loaded
<1>1. op \in Services(config)
  BY Performs, KindsAre DEF Systemd
<1>2. running' \subseteq Service /\ running' \subseteq running \cup {op.service}
  BY <1>1, FieldsAre DEF Systemd, TypeInv, TypeOK
<1>3. Start(ss, units) /\ disk' = disk /\ marks' = marks
  BY DEF Systemd, restarts
<1>4. units \in [Unit -> Version \cup {Absent}]
  BY ReadsAre DEF TypeInv, TypeOK
<1>5. ss \subseteq running' /\ \A s \in running' \ ss : s \in running
  BY <1>2
<1>6. disk' \in [File -> Version \cup {Absent}]
  BY <1>3 DEF TypeInv, TypeOK
<1>7. /\ \A f \in Unit : units[f] = IF needed(op.daemon_reload) THEN disk[f] ELSE loaded[f]
      /\ \A s : s \in ss <=> s \in running' /\ s = op.service /\ (restarts \/ s \notin running)
  OBVIOUS
<1> HIDE DEF ss, units
<1>8. /\ loaded' \in [Unit -> Version \cup {Absent}]
      /\ \A f \in Unit : loaded'[f] = units[f] \/ (units[f] = Absent /\ loaded'[f] = disk'[f])
      /\ \A s \in ss : \A f \in Reads[s] : saw'[s][f] = IF f \in Unit THEN loaded'[f] ELSE disk'[f]
      /\ \A s \in Service \ ss : saw'[s] = IF s \in running' THEN saw[s] ELSE <<>>
  BY <1>2, <1>3, <1>4, <1>5, <1>6, Starts
<1>9. /\ needed(op.daemon_reload) => \A f \in Unit : loaded'[f] = disk[f]
      /\ ~needed(op.daemon_reload) => \A f \in Unit :
           loaded'[f] = loaded[f] \/ (loaded[f] = Absent /\ loaded'[f] = disk[f])
  BY <1>3, <1>7, <1>8
<1>10. \A s \in running' : s # op.service => s \in running /\ saw'[s] = saw[s]
  BY <1>2, <1>7, <1>8
<1>11. op.service \in running' /\ op.service \in running /\ ~restarts =>
         saw'[op.service] = saw[op.service]
  BY <1>2, <1>7, <1>8
<1>12. op.service \in running' /\ (restarts \/ op.service \notin running) =>
         \A f \in Reads[op.service] : saw'[op.service][f] = IF f \in Unit THEN loaded'[f] ELSE disk[f]
  BY <1>3, <1>7, <1>8
<1>13. running' = (IF op.running THEN running \cup {op.service} ELSE running \ {op.service})
       \/ (~op.running /\ restarts /\ running' = running)
  BY DEF Systemd, restarts
<1>14. /\ op.running => startable(op.service)
       /\ enabled' = IF op.enabled THEN enabled \cup {op.service} ELSE enabled \ {op.service}
  BY DEF Systemd
<1>15. QED  BY <1>1, <1>2, <1>3, <1>8, <1>9, <1>10, <1>11, <1>12, <1>13, <1>14

\* PutFile and Install change a file,
LEMMA Changes ==
    ASSUME TypeInv, PutFile \/ Install
    PROVE  /\ op \in Puts \cup Packages /\ op.file \in File
           /\ disk'[op.file] # Absent /\ \A f \in File : f # op.file => disk'[f] = disk[f]
           /\ op.file \in Kept /\ disk' # disk => disk[op.file] = Absent
           /\ disk' \in [File -> Version \cup {Absent}]
           /\ disk' # disk => disk'[op.file] # disk[op.file]
           /\ marks \subseteq marks' /\ marks' \subseteq marks \cup op.marks
           /\ (disk' # disk => op.marks \subseteq marks')
           /\ (PutFile => op \in Puts /\ UNCHANGED <<loaded, running, enabled, saw, blocked>>)
           /\ (Install => op \in Packages)
<1>1. op \in Operation(config) /\ op.do \in {"put", "package"}
      /\ (PutFile => op.do = "put") /\ (Install => op.do = "package")
  BY Performs DEF PutFile, Install
<1>2. op \in Puts \cup Packages /\ (PutFile => op \in Puts) /\ (Install => op \in Packages)
  BY <1>1, KindsAre
<1>3. op.file \in File
  BY <1>2, FieldsAre
<1>4. disk' = [disk EXCEPT ![op.file] = source(op.file)]
      /\ marks' = marks \cup (IF disk' # disk THEN op.marks ELSE {})
  BY DEF PutFile, Install
<1>5. source(op.file) \in Version /\ disk \in [File -> Version \cup {Absent}]
  BY <1>3, Sources DEF TypeInv, TypeOK
<1>6. source(op.file) # Absent
      /\ (op.file \in Kept /\ source(op.file) # disk[op.file] => disk[op.file] = Absent)
  BY <1>3, Sources
<1>7. disk' \in [File -> Version \cup {Absent}]
  BY <1>4, <1>5
<1>8. disk'[op.file] = source(op.file) /\ \A f \in File : f # op.file => disk'[f] = disk[f]
  BY <1>3, <1>4, <1>5
<1>9. disk' # disk => disk'[op.file] # disk[op.file]
  BY <1>5, <1>7, <1>8
<1>10. PutFile => UNCHANGED <<loaded, running, enabled, saw, blocked>>
  BY DEF PutFile
<1>11. marks \subseteq marks' /\ marks' \subseteq marks \cup op.marks
       /\ (disk' # disk => op.marks \subseteq marks')
  BY <1>4
<1>12. QED  BY <1>2, <1>3, <1>6, <1>7, <1>8, <1>9, <1>10, <1>11

\* Upgrade changes packages that are there, and restarts their services,
LEMMA UpgradeDoes ==
    ASSUME TypeInv, Upgrade
    PROVE  /\ op = upgrade /\ UNCHANGED <<marks, enabled, blocked>>
           /\ \A f \in File : disk[f] # Absent => disk'[f] # Absent
           /\ \A f \in File \ Debian : disk'[f] = disk[f]
           /\ running \subseteq running' /\ running' \subseteq Service
           /\ \A f \in Unit : loaded'[f] = loaded[f] \/ (loaded[f] = Absent /\ loaded'[f] = disk'[f])
           /\ \A s \in running' :
                \/ /\ s \in running /\ saw'[s] = saw[s]
                   /\ s \in Debian /\ ~blocked => disk'[s] = disk[s]
                \/ /\ s \in Debian /\ s \in running \cup enabled /\ disk[s] # Absent
                   /\ \A f \in Reads[s] : saw'[s][f] = IF f \in Unit THEN loaded'[f] ELSE disk'[f]
<1>1. PICK new, restarted : upgraded(new, restarted)
  BY Upgrades
<1>2. op = upgrade /\ UNCHANGED <<marks, enabled, blocked>>
  BY Performs, KindsAre DEF Upgrade
<1>3. /\ \A f \in new : f \in Debian \cap File /\ disk[f] # Absent
      /\ \A s \in Service : s \in restarted <=> s \in new /\ ~blocked /\ s \in running \cup enabled
      /\ disk' \in [File -> Version \cup {Absent}]
      /\ \A f \in File : disk'[f] = IF f \in new THEN want[f] ELSE disk[f]
      /\ running' = running \cup restarted /\ restarted \subseteq Service
      /\ Start(restarted, loaded)
  BY <1>1 DEF upgraded
<1>4. \A f \in File : want[f] # Absent
  BY DeployAssumption DEF TypeInv, TypeOK
<1>5. running' \subseteq Service /\ loaded \in [Unit -> Version \cup {Absent}] /\ running \subseteq Service
  BY <1>3 DEF TypeInv, TypeOK
<1>6. /\ \A f \in Unit : loaded'[f] = loaded[f] \/ (loaded[f] = Absent /\ loaded'[f] = disk'[f])
      /\ \A s \in restarted : \A f \in Reads[s] : saw'[s][f] = IF f \in Unit THEN loaded'[f] ELSE disk'[f]
      /\ \A s \in Service \ restarted : saw'[s] = IF s \in running' THEN saw[s] ELSE <<>>
  BY <1>3, <1>5, Starts
<1>7. ASSUME NEW s \in running', s \in restarted
      PROVE  /\ s \in Debian /\ s \in running \cup enabled /\ disk[s] # Absent
             /\ \A f \in Reads[s] : saw'[s][f] = IF f \in Unit THEN loaded'[f] ELSE disk'[f]
  BY <1>3, <1>6, <1>7
<1>8. ASSUME NEW s \in running', s \notin restarted
      PROVE  /\ s \in running /\ saw'[s] = saw[s]
             /\ s \in Debian /\ ~blocked => disk'[s] = disk[s]
  <2>1. s \in running /\ s \in Service
    BY <1>3, <1>5, <1>8
  <2>2. saw'[s] = saw[s]
    BY <1>6, <1>8, <2>1
  <2>3. ~blocked => s \notin new
    BY <1>3, <1>8, <2>1
  <2>4. s \in Debian => s \in File
    BY DebianIs
  <2>5. QED  BY <1>3, <2>1, <2>2, <2>3, <2>4
<1>9. /\ \A f \in File : disk[f] # Absent => disk'[f] # Absent
      /\ \A f \in File \ Debian : disk'[f] = disk[f]
  BY <1>3, <1>4
<1>10. QED  BY <1>2, <1>3, <1>5, <1>6, <1>7, <1>8, <1>9

\* and Install may start its service.
LEMMA InstallDoes ==
    ASSUME TypeInv, Install
    PROVE  /\ op.file \in Packaged /\ op.file \in Service /\ blocked' = blocked
           /\ enabled' \subseteq enabled \cup {op.file}
           /\ \A s \in running' : s # op.file => s \in running /\ saw'[s] = saw[s]
           /\ running \subseteq running'
           /\ \/ UNCHANGED <<running, saw, loaded>>
              \/ /\ running' = running \cup {op.file}
                 /\ \A f \in Reads[op.file] :
                      saw'[op.file][f] = IF f \in Unit THEN loaded'[f] ELSE disk'[f]
                 /\ \A f \in Unit : loaded'[f] = loaded[f] \/ (loaded[f] = Absent /\ loaded'[f] = disk'[f])
<1>1. op.file \in Packaged /\ op.file \in Service
  BY Changes, FieldsAre, ReadsAre
<1>2. CASE disk' = disk \/ blocked
  BY <1>1, <1>2 DEF Install
<1>3. CASE ~(disk' = disk \/ blocked)
  <2>1. running' = running \cup {op.file} /\ Start({op.file}, loaded)
    BY <1>3 DEF Install
  <2>2. disk' \in [File -> Version \cup {Absent}] /\ loaded \in [Unit -> Version \cup {Absent}]
        /\ running' \subseteq Service
    BY <1>1, <2>1, Changes DEF TypeInv, TypeOK
  <2>3. /\ \A f \in Unit : loaded'[f] = loaded[f] \/ (loaded[f] = Absent /\ loaded'[f] = disk'[f])
        /\ \A s \in {op.file} : \A f \in Reads[s] :
             saw'[s][f] = IF f \in Unit THEN loaded'[f] ELSE disk'[f]
        /\ \A s \in Service \ {op.file} : saw'[s] = IF s \in running' THEN saw[s] ELSE <<>>
    BY <2>1, <2>2, Starts
  <2>4. QED  BY <1>1, <2>1, <2>2, <2>3 DEF Install
<1>4. QED  BY <1>2, <1>3

LEMMA RebootDoes ==
    ASSUME TypeInv, Reboot
    PROVE  /\ running' = {s \in enabled : startable(s)} /\ running' \subseteq Service
           /\ UNCHANGED <<disk, enabled, blocked, run, want, runs, edits, cuts>>
           /\ \A f \in Unit : loaded'[f] = disk[f]
           /\ \A s \in running' : \A f \in Reads[s] : saw'[s][f] = disk[f]
<1> DEFINE units == [f \in Unit |-> disk[f]]
<1>1. running' \subseteq Service /\ running' = {s \in enabled : startable(s)}
  BY DEF Reboot, TypeInv, TypeOK
<1>2. Start(running', units) /\ disk' = disk
  BY DEF Reboot
<1>3. units \in [Unit -> Version \cup {Absent}] /\ disk' \in [File -> Version \cup {Absent}]
  BY <1>2, ReadsAre DEF TypeInv, TypeOK
<1>4. \A f \in Unit : units[f] = disk[f]
  OBVIOUS
<1> HIDE DEF units
<1>5. /\ \A f \in Unit : loaded'[f] = units[f] \/ (units[f] = Absent /\ loaded'[f] = disk'[f])
      /\ \A s \in running' : \A f \in Reads[s] : saw'[s][f] = IF f \in Unit THEN loaded'[f] ELSE disk'[f]
  BY <1>1, <1>2, <1>3, Starts
<1>6. /\ \A f \in Unit : loaded'[f] = disk[f]
      /\ \A s \in running' : \A f \in Reads[s] : saw'[s][f] = disk[f]
  BY <1>2, <1>4, <1>5
<1>7. QED  BY <1>1, <1>6 DEF Reboot

-----------------------------------------------------------------------------
(* --disable-mail                                                            *)

LEMMA ChangeOfPackage ==
    ASSUME NEW o \in Packages
    PROVE  o.file \in Service /\ o \in ChangesOf(o.file)
BY FieldsAre, ReadsAre DEF ChangesOf

LEMMA DisabledStep ==
    ASSUME TypeInv, Planned, DisabledInv, [Next]_vars
    PROVE  DisabledInv'
<1> DEFINE Off(s) == Has(todo, ServicesOf(config, s)) \/ s \notin running \cup enabled
<1>1. ASSUME NEW f \in Editable, Edit(f) PROVE DisabledInv'
  BY <1>1 DEF Edit, DisabledInv, performs, in_run, run, server
<1>2. ASSUME NEW c \in Configs, NEW sts \in StageLists, deploy_chatmail(c, sts) PROVE DisabledInv'
  <2>1. tls_cert_mode \in TlsModes
    BY DEF TypeInv, TypeOK
  <2>2. QED  BY <1>2, <2>1, NewRun DEF deploy_chatmail, DisabledInv, performs
<1>3. ASSUME NEW kinds, Perform(kinds),
             performs("activate"), config.disable_mail, NEW s \in Mail,
             op \in ServicesOf(config, s) => s \notin running' \cup enabled',
             s \in running' \cup enabled' => s \in running \cup enabled \/ Has(todo', ServicesOf(config, s)),
             DisabledInv
      PROVE  Off(s)'
  <2>1. Off(s)
    BY <1>3, Performs DEF DisabledInv
  <2>2. config' = config
    BY <1>3, Performs
  <2>3. Has(todo, ServicesOf(config, s)) => op \in ServicesOf(config, s) \/ Has(todo', ServicesOf(config, s))
    BY <1>3, Left
  <2>4. Has(todo', ServicesOf(config', s)) \/ s \notin running' \cup enabled'
    BY <1>3, <2>1, <2>2, <2>3
  <2>5. QED  BY <2>4
<1>4. ASSUME NEW kinds, Perform(kinds),
             \A s \in Mail : performs("activate") /\ config.disable_mail => Off(s)'
      PROVE  DisabledInv'
  BY <1>4, Performs DEF DisabledInv, performs, in_run
<1>5. \A s \in Mail : \A o \in ServicesOf(config, s) : o.do = "service" /\ o.service = s
                                                     /\ o \in Services(config)
  BY FieldsAre DEF ServicesOf
<1>6. CASE Other \/ PutFile \/ Policy \/ Validate \/ Stale
  <2>1. PICK kinds : Perform(kinds) /\ "service" \notin kinds
    BY <1>6 DEF Other, PutFile, Policy, Validate, Stale
  <2>2. running' = running /\ enabled' = enabled
    BY <1>6 DEF Other, PutFile, Policy, Validate, Stale, server
  <2>3. \A s \in Mail : op \notin ServicesOf(config, s)
    BY <1>5, <2>1, Performs
  <2>4. \A s \in Mail : performs("activate") /\ config.disable_mail => Off(s)'
    BY <1>3, <2>1, <2>2, <2>3
  <2>5. QED  BY <1>4, <2>1, <2>4
<1>7. CASE Install
  <2>1. Perform({"package"}) /\ op \in Packages
    BY <1>7, Changes DEF Install
  <2>2. \A s \in Mail : op \notin ServicesOf(config, s)
    BY <1>5, <2>1, FieldsAre
  <2>3. ASSUME performs("activate"), NEW s \in Mail
        PROVE  s \in running' \cup enabled' =>
                 s \in running \cup enabled \/ Has(todo', ServicesOf(config, s))
    <3>1. s = op.file => Has(todo', ServicesOf(config, s))
      BY <2>1, <2>3, PlanFollows, ChangeOfPackage
    <3>2. QED  BY <1>7, <3>1, InstallDoes
  <2>4. \A s \in Mail : performs("activate") /\ config.disable_mail => Off(s)'
    BY <1>3, <2>1, <2>2, <2>3
  <2>5. QED  BY <1>4, <2>1, <2>4
<1>8. CASE Systemd
  <2>1. Perform({"service"}) /\ op \in Services(config)
    BY <1>8, SystemdDoes DEF Systemd
  <2>2. ASSUME config.disable_mail, NEW s \in Mail, op \in ServicesOf(config, s)
        PROVE  s \notin running' \cup enabled'
    <3>1. op.service = s /\ op.running = FALSE /\ op.enabled = FALSE /\ op.restarted = {}
      BY <2>1, <2>2, FieldsAre DEF ServicesOf
    <3>2. ~restarts
      BY <3>1 DEF restarts, needed, Always
    <3>3. running' = running \ {s} /\ enabled' = enabled \ {s}
      BY <1>8, <3>1, <3>2, SystemdDoes
    <3>4. QED  BY <3>3
  <2>3. ASSUME NEW s \in Mail, s \in running' \cup enabled', config.disable_mail
        PROVE  s \in running \cup enabled
    <3>1. CASE op.service = s
      <4>1. op \in ServicesOf(config, s)
        BY <2>1, <3>1 DEF ServicesOf
      <4>2. QED  BY <2>2, <2>3, <4>1
    <3>2. CASE op.service # s
      BY <1>8, <2>3, <3>2, SystemdDoes
    <3>3. QED  BY <3>1, <3>2
  <2>4. \A s \in Mail : performs("activate") /\ config.disable_mail => Off(s)'
    BY <1>3, <2>1, <2>2, <2>3
  <2>5. QED  BY <1>4, <2>1, <2>4
<1>9. CASE Finish
  <2>1. todo = <<>> /\ outcome = "running" /\ UNCHANGED <<config, stages, running, enabled>>
    BY <1>9 DEF Finish, Stop, server
  <2>2. \A B : ~Has(todo, B)
    BY <2>1, NothingLeft
  <2>3. QED  BY <2>1, <2>2 DEF DisabledInv, performs, in_run
<1>10. CASE Cut
  BY <1>10 DEF Cut, Stop, DisabledInv
<1>11. CASE Reboot
  <2>1. running' \subseteq enabled /\ UNCHANGED <<enabled, todo, config, stages, outcome>>
    BY <1>11, RebootDoes DEF run
  <2>2. QED  BY <2>1 DEF DisabledInv, performs, in_run
<1>12. CASE UNCHANGED vars
  BY <1>12 DEF vars, run, server, DisabledInv, performs, in_run
<1>13. CASE Upgrade
  <2>1. Perform({"upgrade"}) /\ op = upgrade /\ running' \cup enabled' \subseteq running \cup enabled
    BY <1>13, UpgradeDoes DEF Upgrade
  <2>2. \A s \in Mail : op \notin ServicesOf(config, s)
    BY <1>5, <2>1 DEF upgrade
  <2>3. \A s \in Mail : performs("activate") /\ config.disable_mail => Off(s)'
    BY <1>3, <2>1, <2>2
  <2>4. QED  BY <1>4, <2>1, <2>3
<1>14. QED
  BY <1>1, <1>2, <1>6, <1>7, <1>8, <1>9, <1>10, <1>11, <1>12, <1>13 DEF Next

\* A run with --disable-mail leaves neither Dovecot nor Postfix running, nor
\* started by the next boot, whatever earlier runs started
\* (dovecot/deployer.py:95-112, postfix/deployer.py:106-119).
THEOREM MailIsDisabled == Spec => []MailDisabled
<1>1. Init => TypeInv /\ Planned /\ DisabledInv
  BY TypeInit, PlannedInit DEF Init, DisabledInv
<1>2. TypeInv /\ Planned /\ DisabledInv /\ [Next]_vars => (TypeInv /\ Planned /\ DisabledInv)'
  BY TypeStep, PlannedStep, DisabledStep
<1>3. TypeInv /\ Planned /\ DisabledInv => MailDisabled
  <2>1. ASSUME TypeInv, DisabledInv, performed("activate"), config.disable_mail
        PROVE  {"dovecot", "postfix"} \cap (running \cup enabled) = {}
    <3>1. todo = <<>>
      BY <2>1 DEF TypeInv, TypeOK, performed
    <3>2. \A B : ~Has(todo, B)
      BY <3>1, NothingLeft
    <3>3. QED  BY <2>1, <3>2 DEF DisabledInv, performed, performs, in_run, Mail
  <2>2. QED  BY <2>1 DEF MailDisabled
<1>4. QED  BY <1>1, <1>2, <1>3, PTL DEF Spec

-----------------------------------------------------------------------------
(* The binary of Dovecot                                                     *)

LEMMA DovecotIs ==
    /\ "dovecot" \in Service /\ "dovecot" \in Mail /\ "dovecot" \in Reads["dovecot"]
    /\ "dovecot" \notin Unit /\ "dovecot" \in File /\ again("dovecot") = {"dovecot"}
BY ReadsAre DEF Mail, Unit, DropIn, again

binary_due ==
    \/ binary_current
    \/ Has(todo, ServicesOf(config, "dovecot")) /\ (config.disable_mail \/ "dovecot" \in marks)
    \/ Has(todo, Stales)

LEMMA BinaryStep ==
    ASSUME TypeInv, Planned, BinaryInv, [Next]_vars
    PROVE  BinaryInv'
<1>1. ASSUME NEW f \in Editable, Edit(f) PROVE BinaryInv'
  BY <1>1 DEF Edit, BinaryInv, performs, in_run, binary_current, run, server
<1>2. ASSUME NEW c \in Configs, NEW sts \in StageLists, deploy_chatmail(c, sts) PROVE BinaryInv'
  <2>1. tls_cert_mode \in TlsModes /\ "dovecot" \in Mail /\ c.disable_mail \in BOOLEAN
    BY DovecotIs, ConstantsAre DEF TypeInv, TypeOK, Options
  <2>2. QED  BY <1>2, <2>1, NewRun DEF deploy_chatmail, BinaryInv, performs
<1>3. ASSUME NEW kinds, Perform(kinds), performs("activate") => binary_due'
      PROVE  BinaryInv'
  BY <1>3, Performs DEF BinaryInv, binary_due, performs, in_run
<1>4. ASSUME NEW kinds, Perform(kinds), performs("activate")
      PROVE  binary_due
  BY <1>4, Performs DEF BinaryInv, binary_due
<1>5. \A o \in ServicesOf(config, "dovecot") : o.do = "service" /\ o.service = "dovecot"
  BY FieldsAre DEF ServicesOf
<1>6. \A o \in Stales : o.do = "stale"
  BY FieldsAre
<1>7. ASSUME NEW kinds, Perform(kinds), performs("activate"),
             op \notin ServicesOf(config, "dovecot"), op \notin Stales, marks \subseteq marks',
             binary_current => binary_current'
      PROVE  BinaryInv'
  <2>1. config' = config
    BY <1>7, Performs
  <2>2. /\ Has(todo, ServicesOf(config, "dovecot")) => Has(todo', ServicesOf(config, "dovecot"))
        /\ Has(todo, Stales) => Has(todo', Stales)
    BY <1>7, Left
  <2>3. binary_due
    BY <1>4, <1>7
  <2>4. binary_due'
    BY <1>7, <2>1, <2>2, <2>3 DEF binary_due
  <2>5. QED  BY <1>3, <1>7, <2>4
<1>8. CASE Other \/ Policy \/ Validate
  <2>1. PICK kinds : Perform(kinds) /\ "service" \notin kinds /\ "stale" \notin kinds
    BY <1>8 DEF Other, Policy, Validate
  <2>2. op.do # "service" /\ op.do # "stale"
    BY <2>1, Performs
  <2>3. UNCHANGED <<running, saw, disk, marks>>
    BY <1>8 DEF Other, Policy, Validate, server
  <2>4. binary_current => binary_current'
    BY <2>3 DEF binary_current
  <2>5. QED  BY <1>3, <1>5, <1>6, <1>7, <2>1, <2>2, <2>3, <2>4
<1>9. CASE PutFile \/ Install
  <2>1. PICK kinds : Perform(kinds) /\ kinds \subseteq {"put", "package"}
    BY <1>9 DEF PutFile, Install
  <2>2. /\ op \in Puts \cup Packages /\ marks \subseteq marks'
        /\ \A f \in File : f # op.file => disk'[f] = disk[f]
    BY <1>9, Changes
  <2>3. op \notin ServicesOf(config, "dovecot") /\ op \notin Stales
    BY <1>5, <1>6, <2>1, Performs
  <2>4. SUFFICES ASSUME performs("activate") PROVE BinaryInv'
    BY <1>3, <2>1
  <2>5. CASE op.file = "dovecot"
    <3>1. config.disable_mail => Has(todo', ServicesOf(config, "dovecot"))
      <4>1. op \in ChangesOf("dovecot")
        BY <2>2, <2>5, DovecotIs DEF ChangesOf
      <4>2. QED  BY <2>1, <2>4, <4>1, PlanFollows, DovecotIs
    <3>2. ~config.disable_mail => Has(todo', Stales)
      BY <2>1, <2>2, <2>4, PlanFollows
    <3>3. config' = config
      BY <2>1, Performs
    <3>4. QED  BY <1>3, <2>1, <3>1, <3>2, <3>3 DEF binary_due
  <2>6. CASE op.file # "dovecot"
    <3>1. disk'["dovecot"] = disk["dovecot"]
      BY <2>2, <2>6, DovecotIs
    <3>2. "dovecot" \in running' => "dovecot" \in running /\ saw'["dovecot"] = saw["dovecot"]
      BY <1>9, <2>6, InstallDoes DEF PutFile
    <3>3. binary_current => binary_current'
      BY <3>1, <3>2 DEF binary_current
    <3>4. QED  BY <1>7, <2>1, <2>2, <2>3, <2>4, <3>3
  <2>7. QED  BY <2>5, <2>6
<1>10. CASE Stale
  <2>1. Perform({"stale"}) /\ op \in Stales /\ op.service = "dovecot" /\ UNCHANGED <<running, saw, disk>>
    BY <1>10, Performs, KindsAre, FieldsAre DEF Stale, server
  <2>2. SUFFICES ASSUME performs("activate") PROVE binary_due'
    BY <1>3, <2>1
  <2>3. CASE binary_current
    BY <2>1, <2>3 DEF binary_due, binary_current
  <2>4. CASE ~binary_current
    <3>1. "dovecot" \in marks'
      BY <1>10, <2>1, <2>4 DEF Stale, binary_current
    <3>2. Has(todo', ServicesOf(config, "dovecot")) /\ config' = config
      BY <2>1, Performs, PlanFollows
    <3>3. QED  BY <3>1, <3>2 DEF binary_due
  <2>5. QED  BY <2>3, <2>4
<1>11. CASE Systemd
  <2>1. Perform({"service"}) /\ op \in Services(config) /\ UNCHANGED <<disk, marks>>
    BY <1>11, SystemdDoes DEF Systemd
  <2>2. SUFFICES ASSUME performs("activate") PROVE BinaryInv'
    BY <1>3, <2>1
  <2>3. op \notin Stales
    BY <1>6, <2>1, FieldsAre
  <2>4. CASE op.service # "dovecot"
    <3>1. "dovecot" \in running' => "dovecot" \in running /\ saw'["dovecot"] = saw["dovecot"]
      BY <1>11, <2>4, SystemdDoes
    <3>2. binary_current => binary_current'
      BY <2>1, <3>1 DEF binary_current
    <3>3. QED  BY <1>5, <1>7, <2>1, <2>2, <2>3, <2>4, <3>2
  <2>5. CASE op.service = "dovecot"
    <3>1. op.running = ~config.disable_mail /\ (~op.running => op.restarted = {})
          /\ (op.running => op.restarted = {"dovecot"})
      BY <2>1, <2>5, FieldsAre, DovecotIs
    <3>2. CASE config.disable_mail
      <4>1. ~restarts
        BY <3>1, <3>2 DEF restarts, needed, Always
      <4>2. "dovecot" \notin running'
        BY <1>11, <2>5, <3>1, <3>2, <4>1, SystemdDoes
      <4>3. QED  BY <1>3, <2>1, <4>2 DEF binary_due, binary_current
    <3>3. CASE ~config.disable_mail
      <4>1. "dovecot" \in running'
        BY <1>11, <2>5, <3>1, <3>3, SystemdDoes
      <4>2. CASE restarts \/ "dovecot" \notin running
        <5>1. saw'["dovecot"]["dovecot"] = disk["dovecot"]
          BY <1>11, <2>5, <4>1, <4>2, SystemdDoes, DovecotIs
        <5>2. QED  BY <1>3, <2>1, <5>1 DEF binary_due, binary_current
      <4>3. CASE ~restarts /\ "dovecot" \in running
        <5>1. saw'["dovecot"] = saw["dovecot"]
          BY <1>11, <2>5, <4>1, <4>3, SystemdDoes
        <5>2. "dovecot" \notin marks
          BY <2>5, <3>1, <3>3, <4>3 DEF restarts, needed
        <5>3. binary_due /\ (Has(todo, Stales) => Has(todo', Stales))
          BY <1>4, <2>1, <2>2, <2>3, Left
        <5>4. binary_current \/ Has(todo', Stales)
          BY <3>3, <5>2, <5>3 DEF binary_due
        <5>5. binary_current => binary_current'
          BY <2>1, <4>3, <5>1 DEF binary_current
        <5>6. QED  BY <1>3, <2>1, <5>4, <5>5 DEF binary_due
      <4>4. QED  BY <4>2, <4>3
    <3>4. QED  BY <3>2, <3>3
  <2>6. QED  BY <2>4, <2>5
<1>12. CASE Finish
  <2>1. todo = <<>> /\ outcome = "running" /\ UNCHANGED <<config, stages, running, saw, disk>>
    BY <1>12 DEF Finish, Stop, server
  <2>2. \A B : ~Has(todo, B)
    BY <2>1, NothingLeft
  <2>3. QED  BY <2>1, <2>2 DEF BinaryInv, binary_current, performs, in_run
<1>13. CASE Cut
  BY <1>13 DEF Cut, Stop, BinaryInv
<1>14. CASE Reboot
  BY <1>14, RebootDoes, DovecotIs DEF BinaryInv, binary_current
<1>15. CASE UNCHANGED vars
  BY <1>15 DEF vars, run, server, BinaryInv, binary_current, performs, in_run
<1>16. CASE Upgrade
  <2>1. Perform({"upgrade"}) /\ op = upgrade /\ marks' = marks
    BY <1>16, UpgradeDoes DEF Upgrade
  <2>2. op \notin ServicesOf(config, "dovecot") /\ op \notin Stales
    BY <1>5, <1>6, <2>1 DEF upgrade
  <2>3. disk'["dovecot"] = disk["dovecot"]
        /\ ("dovecot" \in running' => "dovecot" \in running /\ saw'["dovecot"] = saw["dovecot"])
    BY <1>16, UpgradeDoes, DovecotIs, DebianIs
  <2>4. binary_current => binary_current'
    BY <2>3 DEF binary_current
  <2>5. SUFFICES ASSUME performs("activate") PROVE BinaryInv'
    BY <1>3, <2>1
  <2>6. QED  BY <1>7, <2>1, <2>2, <2>4, <2>5
<1>17. QED
  BY <1>1, <1>2, <1>8, <1>9, <1>10, <1>11, <1>12, <1>13, <1>14, <1>15, <1>16 DEF Next

\* Once a run has activated Dovecot, what runs is the binary on the disk, also if
\* a run that was cut short had replaced it and its mark was lost
\* (dovecot/deployer.py:84-93).
THEOREM BinaryIsCurrent == Spec => []BinaryCurrent
<1>1. Init => TypeInv /\ Planned /\ BinaryInv
  BY TypeInit, PlannedInit DEF Init, BinaryInv
<1>2. TypeInv /\ Planned /\ BinaryInv /\ [Next]_vars => (TypeInv /\ Planned /\ BinaryInv)'
  BY TypeStep, PlannedStep, BinaryStep
<1>3. TypeInv /\ Planned /\ BinaryInv => BinaryCurrent
  <2>1. ASSUME TypeInv, BinaryInv, performed("activate"), "dovecot" \in running
        PROVE  saw["dovecot"]["dovecot"] = disk["dovecot"]
    <3>1. todo = <<>>
      BY <2>1 DEF TypeInv, TypeOK, performed
    <3>2. \A B : ~Has(todo, B)
      BY <3>1, NothingLeft
    <3>3. QED  BY <2>1, <3>2 DEF BinaryInv, binary_current, performed, performs, in_run
  <2>2. QED  BY <2>1 DEF BinaryCurrent
<1>4. QED  BY <1>1, <1>2, <1>3, PTL DEF Spec

-----------------------------------------------------------------------------
(* Validated configurations                                                  *)

LEMMA MailFiles ==
    \A s \in Mail :
      /\ s \in Service /\ s \in File /\ Conf[s] \in File /\ Conf[s] \in Reads[s]
      /\ Conf[s] \notin Packaged \cup Debian \cup Unit
      /\ config_mark[s] \in {"dovecot.config", "postfix"}
<1>1. \A s \in Mail : s \in Service /\ s \in File /\ Conf[s] \in File /\ Conf[s] \in Reads[s]
  BY ReadsAre
<1>2. \A s \in Mail : Conf[s] \notin Service /\ Conf[s] \notin Unit /\ Conf[s] \notin Debian
  BY DEF Mail, Conf, Service, Unit, DropIn, Debian
<1>3. \A s \in Mail : config_mark[s] \in {"dovecot.config", "postfix"}
  BY DEF Mail, config_mark
<1>4. QED  BY <1>1, <1>2, <1>3, ReadsAre

configured(s) ==
    /\ config_mark[s] \in marks => ~Has(todo, Arrivals)
    /\ config_mark[s] \in marks /\ broken(s) => Has(todo, ValidationsOf(s))
    /\ cuts = 0 /\ broken(s) => config_mark[s] \in marks

LEMMA ConfiguredStep ==
    ASSUME TypeInv, Planned, ConfiguredInv, [Next]_vars
    PROVE  ConfiguredInv'
<1>1. SUFFICES ASSUME NEW s \in Mail PROVE configured(s)'
  BY DEF ConfiguredInv, configured
<1>2. configured(s)
  BY DEF ConfiguredInv, configured
<1>3. outcome # "running" => todo = <<>> /\ marks = {}
  BY DEF TypeInv, TypeOK
<1>4. ASSUME UNCHANGED <<disk, cuts, todo, marks>> PROVE configured(s)'
  BY <1>2, <1>4 DEF configured, broken
<1>5. ASSUME disk' = disk, cuts' = cuts, marks' = {}, cuts = 0 => ~broken(s) PROVE configured(s)'
  BY <1>5 DEF configured, broken
<1>6. ASSUME NEW f \in Editable, Edit(f) PROVE configured(s)'
  BY <1>4, <1>6 DEF Edit, run, server
<1>7. ASSUME NEW c \in Configs, NEW sts \in StageLists, deploy_chatmail(c, sts) PROVE configured(s)'
  <2>1. marks = {} /\ UNCHANGED <<disk, cuts>> /\ marks' = {}
    BY <1>3, <1>7 DEF deploy_chatmail, idle, server
  <2>2. QED  BY <1>2, <1>5, <2>1 DEF configured
<1>8. /\ \A o \in ValidationsOf(s) : o.do = "validate" /\ o.service = s
      /\ ValidationsOf(s) \subseteq Validations
  <2>1. ValidationsOf(s) \subseteq Validations
    BY DEF Validations
  <2>2. QED  BY <2>1, FieldsAre DEF ValidationsOf, validate
\* An operation that leaves the configuration and its mark
<1>9. ASSUME NEW kinds, Perform(kinds), disk'[Conf[s]] = disk[Conf[s]],
             config_mark[s] \in marks <=> config_mark[s] \in marks',
             op \notin ValidationsOf(s)
      PROVE  configured(s)'
  <2>1. cuts' = cuts /\ (broken(s)' <=> broken(s))
    BY <1>9, Performs DEF broken
  <2>2. Has(todo', Arrivals) => Has(todo, Arrivals)
    BY <1>9, Left
  <2>3. Has(todo, ValidationsOf(s)) => Has(todo', ValidationsOf(s))
    BY <1>9, Left
  <2>4. QED  BY <1>2, <1>9, <2>1, <2>2, <2>3 DEF configured
<1>10. CASE Other \/ Upgrade \/ Policy \/ Stale \/ Systemd
  <2>1. PICK kinds : Perform(kinds) /\ "validate" \notin kinds
    BY <1>10 DEF Other, Upgrade, Policy, Stale, Systemd
  <2>2. op \notin ValidationsOf(s)
    BY <1>8, <2>1, Performs
  <2>3. disk'[Conf[s]] = disk[Conf[s]]
    BY <1>10, UpgradeDoes, MailFiles DEF Other, Policy, Stale, Systemd, server
  <2>4. config_mark[s] \in marks <=> config_mark[s] \in marks'
    <3>1. CASE Stale
      <4>1. op.service = "dovecot"
        BY <3>1, Performs, KindsAre, FieldsAre DEF Stale
      <4>2. marks' = marks \/ marks' = marks \cup {"dovecot"}
        BY <3>1, <4>1 DEF Stale
      <4>3. QED  BY <4>2, MailFiles
    <3>2. CASE ~Stale
      BY <1>10, <3>2, UpgradeDoes DEF Other, Policy, Systemd
    <3>3. QED  BY <3>1, <3>2
  <2>5. QED  BY <1>9, <2>1, <2>2, <2>3, <2>4
<1>11. CASE Validate
  <2>1. /\ Perform({"validate"}) /\ op \in Validations /\ disk' = disk /\ marks' = marks
        /\ needed(op.marks) => ~broken(op.service)
    BY <1>11, Performs, KindsAre DEF Validate, server
  <2>2. CASE op.service = s
    <3>1. op.marks = {config_mark[s]}
      BY <2>1, <2>2, FieldsAre
    <3>2. config_mark[s] \in marks => ~broken(s)
      BY <2>1, <2>2, <3>1 DEF needed
    <3>3. Has(todo', Arrivals) => Has(todo, Arrivals)
      BY <2>1, Left
    <3>4. cuts' = cuts /\ (broken(s)' <=> broken(s))
      BY <2>1, Performs DEF broken
    <3>5. QED  BY <1>2, <2>1, <3>2, <3>3, <3>4 DEF configured
  <2>3. CASE op.service # s
    BY <1>8, <1>9, <2>1, <2>3
  <2>4. QED  BY <2>2, <2>3
<1>12. CASE PutFile \/ Install
  <2>1. PICK kinds : Perform(kinds) /\ kinds \subseteq {"put", "package"}
    BY <1>12 DEF PutFile, Install
  <2>2. /\ op \in Puts \cup Packages
        /\ \A f \in File : f # op.file => disk'[f] = disk[f]
        /\ marks \subseteq marks' /\ marks' \subseteq marks \cup op.marks
        /\ disk' # disk => op.marks \subseteq marks'
        /\ Install => op \in Packages
        /\ PutFile => op \in Puts
    BY <1>12, Changes
  <2>3. op \notin ValidationsOf(s)
    BY <1>8, <2>1, Performs
  <2>4. op.file = Conf[s] <=> config_mark[s] \in op.marks
    BY <2>2, FieldsAre
  <2>5. CASE op.file # Conf[s]
    <3>1. disk'[Conf[s]] = disk[Conf[s]]
      BY <2>2, <2>5, MailFiles
    <3>2. config_mark[s] \in marks <=> config_mark[s] \in marks'
      BY <2>2, <2>4, <2>5
    <3>3. QED  BY <1>9, <2>1, <2>3, <3>1, <3>2
  <2>6. CASE op.file = Conf[s]
    <3>1. op \in PutsOf(Conf[s]) /\ op \in ConfigPuts
      <4>1. op \notin Packages
        BY <2>6, FieldsAre, MailFiles
      <4>2. Conf[s] \in Configurations
        BY DEF Mail, Conf, Configurations
      <4>3. QED  BY <2>2, <2>6, <4>1, <4>2 DEF PutsOf, ConfigPuts
    <3>2. Has(todo', ValidationsOf(s)) /\ ~Has(todo', Arrivals)
      BY <2>1, <3>1, PlanFollows
    <3>3. cuts' = cuts
      BY <2>1, Performs
    <3>4. CASE disk' # disk
      <4>1. config_mark[s] \in marks'
        BY <2>2, <2>4, <2>6, <3>4
      <4>2. QED  BY <3>2, <4>1 DEF configured
    <3>5. CASE disk' = disk
      <4>1. broken(s)' <=> broken(s)
        BY <3>5 DEF broken
      <4>2. QED  BY <1>2, <2>2, <3>2, <3>3, <4>1 DEF configured
    <3>6. QED  BY <3>4, <3>5
  <2>7. QED  BY <2>5, <2>6
<1>13. CASE Finish
  <2>1. todo = <<>> /\ UNCHANGED <<disk, cuts>> /\ marks' = {}
    BY <1>13 DEF Finish, Stop, server
  <2>2. ~Has(todo, ValidationsOf(s))
    BY <2>1, NothingLeft
  <2>3. QED  BY <1>2, <1>5, <2>1, <2>2 DEF configured
<1>14. CASE Cut
  <2>1. marks' = {} /\ cuts' = cuts + 1 /\ cuts \in Nat
    BY <1>14, DeployAssumption DEF Cut, TypeInv, TypeOK
  <2>2. cuts' # 0
    BY <2>1
  <2>3. QED  BY <2>1, <2>2 DEF configured
<1>15. CASE Reboot \/ UNCHANGED vars
  BY <1>4, <1>15, RebootDoes DEF run, server, vars
<1>16. QED
  BY <1>6, <1>7, <1>10, <1>11, <1>12, <1>13, <1>14, <1>15 DEF Next

\* What starts Dovecot or Postfix comes before a new configuration of the run, or
\* after its validation.
LEMMA StartsValidated ==
    ASSUME TypeInv, Planned, ConfiguredInv, [Next]_vars, NEW s \in Mail,
           saw'[s] \notin {saw[s], <<>>}, cuts = 0 \/ config_mark[s] \in marks
    PROVE  <<Conf[s], saw'[s][Conf[s]]>> \notin Broken
<1>1. s \in Service /\ s \in running'
  <2>1. s \in Service
    BY ReadsAre
  <2>2. s \notin running' => saw'[s] = <<>>
    BY <2>1, TypeStep DEF TypeInv, TypeOK
  <2>3. QED  BY <2>1, <2>2
<1>2. configured(s)
  BY DEF ConfiguredInv, configured
<1>3. /\ Has(todo, Arrivals) => ~broken(s)
      /\ ~Has(todo, ValidationsOf(s)) => ~broken(s)
  BY <1>2 DEF configured
<1>4. ASSUME saw'[s][Conf[s]] = disk[Conf[s]], ~broken(s)
      PROVE  <<Conf[s], saw'[s][Conf[s]]>> \notin Broken
  BY <1>4 DEF broken
<1>5. Conf[s] \in Reads[s] /\ Conf[s] \notin Unit /\ Conf[s] \in File \ Debian /\ Conf[s] \notin Packaged
  BY MailFiles
<1>6. CASE Install
  <2>1. op \in Packages /\ Perform({"package"})
    BY <1>6, Changes DEF Install
  <2>2. Has(todo, Arrivals)
    BY <2>1, Left DEF Arrivals
  <2>3. s = op.file /\ saw'[s][Conf[s]] = disk'[Conf[s]]
    BY <1>1, <1>5, <1>6, InstallDoes
  <2>4. disk'[Conf[s]] = disk[Conf[s]]
    BY <1>5, <1>6, InstallDoes, Changes
  <2>5. QED  BY <1>3, <1>4, <2>2, <2>3, <2>4
<1>7. CASE Upgrade
  <2>1. op = upgrade /\ Perform({"upgrade"}) /\ disk'[Conf[s]] = disk[Conf[s]]
    BY <1>5, <1>7, UpgradeDoes DEF Upgrade
  <2>2. Has(todo, Arrivals)
    BY <2>1, Left DEF Arrivals
  <2>3. saw'[s][Conf[s]] = disk'[Conf[s]]
    BY <1>1, <1>5, <1>7, UpgradeDoes
  <2>4. QED  BY <1>3, <1>4, <2>1, <2>2, <2>3
<1>8. CASE Systemd
  <2>1. op \in Services(config) /\ Perform({"service"})
    BY <1>8, SystemdDoes DEF Systemd
  <2>2. saw'[s][Conf[s]] = disk[Conf[s]]
    BY <1>1, <1>5, <1>8, SystemdDoes
  <2>3. ~Has(todo, ValidationsOf(s))
    <3>1. ~Has(todo', Puts \cup Packages \cup Validations)
      BY <2>1, PlanFollows
    <3>2. ValidationsOf(s) \subseteq Validations
      BY DEF Validations
    <3>3. ~Has(todo', ValidationsOf(s)) /\ op \notin ValidationsOf(s)
      BY <2>1, <3>1, <3>2, FieldsAre DEF Has
    <3>4. QED  BY <2>1, <3>3, Left
  <2>4. QED  BY <1>3, <1>4, <2>2, <2>3
<1>9. CASE Reboot
  <2>1. todo = <<>> /\ \A f \in Reads[s] : saw'[s][f] = disk[f]
    BY <1>1, <1>9, RebootDoes DEF Reboot, idle, TypeInv, TypeOK
  <2>2. ~Has(todo, ValidationsOf(s))
    BY <2>1, NothingLeft
  <2>3. QED  BY <1>3, <1>4, <1>5, <2>1, <2>2
<1>10. saw' # saw
  OBVIOUS
<1>11. QED
  BY <1>6, <1>7, <1>8, <1>9, <1>10 DEF Next, Edit, deploy_chatmail, Other, PutFile, Policy, Validate,
    Stale, Finish, Cut, Stop, server, vars

\* Whatever starts Dovecot or Postfix, an operation, a package, an upgrade or the
\* boot, with or without --disable-mail, it starts with no configuration that
\* fails its validation: in the run that brought the configuration always, and
\* afterwards unless a run was cut short, by that validation or otherwise
\* (dovecot/deployer.py:159-235, postfix/deployer.py:14-104).
THEOREM ValidatedFirst == Spec => ValidatedBeforeStart
<1> DEFINE IInv == TypeInv /\ Planned /\ ConfiguredInv
<1>1. Init => IInv
  <2>1. SUFFICES ASSUME Init PROVE ConfiguredInv
    BY TypeInit, PlannedInit
  <2>2. \A s \in Mail : disk[Conf[s]] = Absent /\ Conf[s] \in {"dovecot.conf", "postfix.conf"}
    BY <2>1, MailFiles DEF Init, Mail, Conf
  <2>3. \A s \in Mail : ~broken(s)
    BY <2>2, DeployAssumption DEF broken
  <2>4. marks = {}
    BY <2>1 DEF Init
  <2>5. QED  BY <2>3, <2>4 DEF ConfiguredInv
<1>2. IInv /\ [Next]_vars => IInv'
  BY TypeStep, PlannedStep, ConfiguredStep
<1> DEFINE Passes ==
             \A s \in {"dovecot", "postfix"} :
               saw'[s] \notin {saw[s], <<>>} /\ (cuts = 0 \/ config_mark[s] \in marks)
               => <<Conf[s], saw'[s][Conf[s]]>> \notin Broken
<1>3. IInv /\ [Next]_vars => [Passes]_vars
  BY StartsValidated DEF Mail
<1>4. ValidatedBeforeStart <=> [][Passes]_vars
  BY DEF ValidatedBeforeStart
<1> HIDE DEF IInv, Passes
<1>5. QED  BY <1>1, <1>2, <1>3, <1>4, PTL DEF Spec

-----------------------------------------------------------------------------
(* What runs is installed                                                    *)

LEMMA KeptFiles ==
    /\ Kept \subseteq File
    /\ \A s \in Service : \A f \in Reads[s] \cap Kept :
         f \in Program \/ (s = "opendkim" /\ f = "opendkim.private")
<1>1. \A f \in Kept : f \in Program \/ f = "opendkim.private"
  BY DEF Kept, Debian, Program
<1>2. \A s \in Service : "opendkim.private" \in Reads[s] <=> s = "opendkim"
  BY DEF Reads, Conf, Service
<1>3. \A f \in Kept : \E s \in Service : f \in Reads[s]
  <2>1. "acmetool-redirector" \in Service /\ "acmetool" \in Reads["acmetool-redirector"]
    BY DEF Service, Reads, Conf
  <2>2. "opendkim" \in Service /\ "opendkim.private" \in Reads["opendkim"]
    BY DEF Service, Reads, Conf
  <2>3. \A f \in Kept \ {"acmetool", "opendkim.private"} : f \in Service /\ f \in Reads[f]
    BY DEF Kept, Debian, Service, Reads, Conf
  <2>4. QED  BY <2>1, <2>2, <2>3
<1>4. Kept \subseteq File
  BY <1>3 DEF File
<1>5. QED  BY <1>1, <1>2, <1>4

\* Nothing is ever removed from the server.
LEMMA StaysStartable ==
    ASSUME \A f \in File : disk[f] # Absent => disk'[f] # Absent, NEW s, startable(s)
    PROVE  startable(s)'
BY ReadsAre DEF startable

LEMMA InstalledInit ==
    ASSUME Init
    PROVE  Installed
<1>1. Reads["journald"] = {"journald.conf"} /\ "journald" \in Service
  BY DEF Reads, Service, Conf
<1>2. "journald.conf" \notin Program \cup (Unit \ DropIn)
  BY DEF Program, Unit, DropIn
<1>3. startable("journald")
  BY <1>1, <1>2 DEF startable
<1>4. running = {"journald"}
  BY DEF Init
<1>5. QED  BY <1>3, <1>4 DEF Installed

LEMMA InstalledStep ==
    ASSUME TypeInv, Installed, [Next]_vars
    PROVE  Installed'
<1>1. CASE PutFile \/ Install
  <2>1. /\ op \in Puts \cup Packages /\ op.file \in File /\ disk'[op.file] # Absent
        /\ \A f \in File : f # op.file => disk'[f] = disk[f]
    BY <1>1, Changes
  <2>2. \A s \in running : startable(s)'
    BY <2>1, StaysStartable DEF Installed
  <2>3. \A s \in running' : s \in running \/ (Install /\ s = op.file)
    BY <1>1, InstallDoes DEF PutFile
  <2>4. ASSUME Install, NEW s, s = op.file PROVE startable(s)'
    <3>1. s \in Packaged
      BY <2>4, InstallDoes
    <3>2. s \in Service /\ Reads[s] \cap (Program \cup (Unit \ DropIn)) = {s}
      BY <3>1 DEF Packaged
    <3>3. disk'[s] # Absent
      BY <2>1, <2>4
    <3>4. QED  BY <3>2, <3>3 DEF startable
  <2>5. \A s \in running' : startable(s)'
    BY <2>2, <2>3, <2>4
  <2>6. QED  BY <2>5 DEF Installed
<1>2. CASE Upgrade
  <2>1. /\ \A f \in File : disk[f] # Absent => disk'[f] # Absent
        /\ running' \subseteq Service
        /\ \A s \in running' : s \in running \/ (s \in Debian /\ disk[s] # Absent)
    BY <1>2, UpgradeDoes
  <2>2. ASSUME NEW s \in running' PROVE startable(s)
    <3>1. CASE s \in running
      BY <3>1 DEF Installed
    <3>2. CASE s \in Debian /\ disk[s] # Absent
      <4>1. s \in Packaged
        BY <2>1, <2>2, <3>2, DebianIs
      <4>2. QED  BY <3>2, <4>1 DEF Packaged, startable
    <3>3. QED  BY <2>1, <3>1, <3>2
  <2>3. \A s \in running' : startable(s)'
    BY <2>1, <2>2, StaysStartable
  <2>4. QED  BY <2>3 DEF Installed
<1>3. CASE Systemd
  <2>1. disk' = disk /\ running' \subseteq running \cup {op.service}
        /\ (op.running => startable(op.service))
        /\ (op.service \in running' => op.running \/ op.service \in running)
    BY <1>3, SystemdDoes
  <2>2. \A s \in running' : startable(s)
    BY <2>1 DEF Installed
  <2>3. QED  BY <2>1, <2>2 DEF Installed, startable
<1>4. CASE Reboot
  <2>1. running' = {s \in enabled : startable(s)} /\ UNCHANGED disk
    BY <1>4, RebootDoes
  <2>2. \A s \in running' : startable(s)
    BY <2>1
  <2>3. QED  BY <2>1, <2>2 DEF Installed, startable
<1>5. ASSUME UNCHANGED <<disk, running>> PROVE Installed'
  BY <1>5 DEF Installed, startable
<1>6. /\ \A f \in Editable : Edit(f) => UNCHANGED <<disk, running>>
      /\ \A c \in Configs, sts \in StageLists : deploy_chatmail(c, sts) => UNCHANGED <<disk, running>>
  BY DEF Edit, deploy_chatmail, server
<1>7. Other \/ Policy \/ Validate \/ Stale \/ Finish \/ Cut \/ UNCHANGED vars => UNCHANGED <<disk, running>>
  BY DEF Other, Policy, Validate, Stale, Finish, Cut, Stop, vars, server
<1>8. QED  BY <1>1, <1>2, <1>3, <1>4, <1>5, <1>6, <1>7 DEF Next

-----------------------------------------------------------------------------
(* What runs is up to date                                                   *)

LEMMA OpendkimIs ==
    /\ "opendkim" \in Service /\ again("opendkim") = {"opendkim"}
    /\ "opendkim.conf" \in File \ Kept /\ "opendkim.private" \in Kept
    /\ "opendkim.conf" \in Reads["opendkim"] /\ <<"opendkim", "opendkim.conf">> \notin Overlooked
<1>1. "opendkim" \in Service /\ "opendkim.conf" \in Reads["opendkim"]
  BY DEF Service, Reads, Conf
<1>2. "opendkim.conf" \notin Kept /\ "opendkim.private" \in Kept
  BY DEF Kept, Debian
<1>3. again("opendkim") = {"opendkim"} /\ <<"opendkim", "opendkim.conf">> \notin Overlooked
  BY DEF again, Overlooked
<1>4. QED  BY <1>1, <1>2, <1>3 DEF File

LEMMA PackagesAreNoUnits ==
    ASSUME NEW o \in Packages
    PROVE  o.file \notin Unit
<1>1. o.file \in Program
  BY FieldsAre DEF Packaged
<1>2. Program \cap Unit = {}
  BY DEF Program, Unit, DropIn
<1>3. QED  BY <1>1, <1>2

\* Which operations are left when one is done that is none of B
LEMMA StillLeft ==
    ASSUME TypeInv, NEW kinds, Perform(kinds)
    PROVE  /\ config' = config /\ stages' = stages /\ whole' = whole /\ ~idle /\ ~idle'
           /\ \A B : Has(todo', B) => Has(todo, B)
           /\ \A B : Has(todo, B) /\ op \notin B => Has(todo', B)
           /\ op \in Services(config) => \A B : Preceded(todo, Services(config), B) /\ B \subseteq Services(config)
                                                  => op \in B
           /\ op \notin Services(config) =>
                \A B : Preceded(todo, Services(config), B) /\ B \subseteq Services(config)
                         => Preceded(todo', Services(config), B)
<1>1. \A B : Has(todo, B) <=> op \in B \/ Has(todo', B)
  BY Left
<1>2. todo \in Seq(Operation(config)) /\ todo # <<>>
  BY Performs
<1>3. \A A, B : Preceded(todo, A, B) /\ B \subseteq A =>
        /\ Head(todo) \in A => Head(todo) \in B
        /\ Head(todo) \notin A => Preceded(Tail(todo), A, B)
  BY <1>2, PrecededTail
<1>4. op = Head(todo) /\ todo' = Tail(todo)
  BY Performs
<1>5. UNCHANGED <<config, stages, whole>> /\ ~idle /\ ~idle'
  BY Performs DEF idle
<1> HIDE DEF op
<1>6. QED  BY <1>1, <1>3, <1>4, <1>5

LEMMA FullRun ==
    ASSUME full
    PROVE  performs("install") /\ performs("activate")
<1>1. stages[1] = "install" /\ 1 \in DOMAIN stages /\ stages[3] = "activate" /\ 3 \in DOMAIN stages
  BY DEF full
<1>2. QED  BY <1>1 DEF full, performs, in_run, ToSet

LEMMA ReloadsAre ==
    /\ Reloads(config) \subseteq Services(config)
    /\ \A o \in Reloads(config) : needed(o.daemon_reload)
BY DEF Reloads, needed

\* The next mark of opendkim
LEMMA StaysMarked ==
    ASSUME TypeInv, PutFile \/ Install, unmarked \/ "opendkim" \in marks
    PROVE  (unmarked \/ "opendkim" \in marks)'
<1>1. PICK kinds : Perform(kinds)
  BY DEF PutFile, Install
<1>2. /\ op \in Puts \cup Packages /\ op.file \in File /\ marks \subseteq marks'
      /\ \A f \in File : f # op.file => disk'[f] = disk[f]
      /\ disk'[op.file] # Absent /\ (disk' # disk => op.marks \subseteq marks')
  BY Changes
<1>3. CASE "opendkim" \in marks
  BY <1>2, <1>3
<1>4. CASE unmarked /\ op.file = "opendkim.conf"
  <2>1. disk' # disk
    BY <1>2, <1>4 DEF unmarked
  <2>2. "opendkim" \in op.marks
    <3>1. Marked(op.file, op.marks)
      BY <1>2, FieldsAre
    <3>2. again("opendkim") = Always \/ again("opendkim") \subseteq op.marks
      BY <1>4, <3>1, OpendkimIs DEF Marked
    <3>3. QED  BY <3>2, OpendkimIs DEF Always
  <2>3. QED  BY <1>2, <2>1, <2>2
<1>5. CASE unmarked /\ op.file # "opendkim.conf"
  <2>1. op \notin PutsOf("opendkim.conf")
    BY <1>5 DEF PutsOf
  <2>2. Has(todo', PutsOf("opendkim.conf"))
    BY <1>1, <1>5, <2>1, StillLeft DEF unmarked
  <2>3. disk'["opendkim.conf"] = Absent
    BY <1>2, <1>5, OpendkimIs DEF unmarked
  <2>4. QED  BY <2>2, <2>3 DEF unmarked
<1>6. QED  BY <1>3, <1>4, <1>5

\* A changed file has the services that read it restarted,
LEMMA ChangeIsSeen ==
    ASSUME TypeInv, Planned, Installed, full, PutFile \/ Install, key_due,
           NEW s \in running, NEW f \in Reads[s], sees(s, f) \/ due(s), saw'[s] = saw[s]
    PROVE  sees(s, f)' \/ due(s)'
<1>1. PICK kinds : Perform(kinds) /\ kinds \subseteq {"put", "package"}
  BY DEF PutFile, Install
<1>2. /\ op \in Puts \cup Packages /\ op.file \in File /\ marks \subseteq marks'
      /\ \A g \in File : g # op.file => disk'[g] = disk[g]
      /\ (op.file \in Kept /\ disk' # disk => disk[op.file] = Absent)
      /\ (disk' # disk => op.marks \subseteq marks')
  BY Changes
<1>3. s \in Service /\ f \in File /\ config' = config
  BY <1>1, StillLeft, ReadsAre DEF TypeInv, TypeOK
<1>4. op \notin ServicesOf(config, s)
  <2>1. op.do # "service"
    BY <1>1, Performs
  <2>2. QED  BY <2>1, FieldsAre DEF ServicesOf
<1>5. due(s) => due(s)'
  <2>1. SUFFICES ASSUME due(s) PROVE due(s)'
    OBVIOUS
  <2>2. Has(todo', ServicesOf(config', s))
    BY <1>1, <1>3, <1>4, <2>1, StillLeft DEF due
  <2>3. CASE needed(again(s))
    BY <1>2, <2>2, <2>3 DEF due, needed
  <2>4. CASE s = "opendkim" /\ unmarked
    <3>1. (unmarked \/ "opendkim" \in marks)'
      BY <2>4, StaysMarked
    <3>2. QED  BY <2>2, <2>4, <3>1, OpendkimIs DEF due, needed
  <2>5. QED  BY <2>1, <2>3, <2>4 DEF due
<1>6. CASE disk'[f] = disk[f] \/ <<s, f>> \in Overlooked
  <2>1. sees(s, f) => sees(s, f)'
    BY <1>6 DEF sees
  <2>2. QED  BY <1>5, <2>1
<1>7. CASE disk'[f] # disk[f] /\ <<s, f>> \notin Overlooked
  <2>1. f = op.file /\ op.marks \subseteq marks'
    BY <1>2, <1>3, <1>7
  <2>2. Has(todo', ServicesOf(config', s))
    <3>1. op \in ChangesOf(s)
      BY <1>2, <2>1 DEF ChangesOf
    <3>2. QED  BY <1>1, <1>3, <3>1, FullRun, PlanFollows
  <2>3. CASE f \notin Kept
    <3>1. Marked(f, op.marks)
      BY <1>2, <2>1, FieldsAre
    <3>2. again(s) = Always \/ (again(s) # {} /\ again(s) \subseteq op.marks)
      BY <1>3, <1>7, <2>3, <3>1 DEF Marked
    <3>3. again(s) = Always \/ again(s) \cap marks' # {}
      BY <2>1, <3>2
    <3>4. QED  BY <2>2, <3>3 DEF due, needed
  <2>4. CASE f \in Kept
    <3>1. disk[f] = Absent
      BY <1>2, <1>7, <2>1, <2>4
    <3>2. f \notin Program
      BY <3>1 DEF Installed, startable
    <3>3. s = "opendkim" /\ f = "opendkim.private"
      BY <1>3, <2>4, <3>2, KeptFiles
    <3>4. unmarked \/ "opendkim" \in marks
      BY <3>1, <3>3 DEF key_due, key_missing
    <3>5. (unmarked \/ "opendkim" \in marks)'
      BY <3>4, StaysMarked
    <3>6. QED  BY <2>2, <3>3, <3>5, OpendkimIs DEF due, needed
  <2>5. QED  BY <2>3, <2>4
<1>8. QED  BY <1>6, <1>7

\* with the unit as it is now, which systemd is told of if it knows another,
LEMMA ChangeOfUnits ==
    ASSUME TypeInv, Planned, PutFile \/ Install, units_due, units_first
    PROVE  units_due' /\ units_first' /\ (Install => units_loaded')
<1>1. PICK kinds : Perform(kinds) /\ kinds \subseteq {"put", "package"}
  BY DEF PutFile, Install
<1>2. /\ op \in Puts \cup Packages /\ config' = config
      /\ \A g \in File : g # op.file => disk'[g] = disk[g]
      /\ (PutFile => op \in Puts /\ loaded' = loaded) /\ (Install => op \in Packages)
  BY <1>1, Changes, StillLeft
<1>3. op \notin Services(config)
  <2>1. op.do # "service"
    BY <1>1, Performs
  <2>2. QED  BY <2>1, FieldsAre
<1>4. op.file \notin Unit => \A f \in Unit : disk'[f] = disk[f]
  BY <1>2, ReadsAre
<1>5. ASSUME units_loaded, op.file \notin Unit PROVE units_loaded'
  <2>1. \A f \in Unit : loaded'[f] = loaded[f] \/ loaded'[f] = disk'[f]
    BY <1>2, InstallDoes
  <2>2. QED  BY <1>4, <1>5, <2>1 DEF units_loaded
<1>6. Install => units_loaded'
  <2>1. SUFFICES ASSUME Install PROVE units_loaded'
    OBVIOUS
  <2>2. Has(todo, Arrivals)
    BY <1>1, <1>2, <2>1, Left DEF Arrivals
  <2>3. QED  BY <1>2, <1>5, <2>1, <2>2, PackagesAreNoUnits DEF units_first
<1>7. op \in UnitPuts <=> op \in Puts /\ op.file \in Unit
  BY DEF UnitPuts
<1>8. units_first'
  <2>1. CASE Install
    BY <1>6, <2>1 DEF units_first
  <2>2. CASE PutFile /\ op.file \in Unit
    BY <1>1, <1>2, <1>7, <2>2, PlanFollows DEF units_first
  <2>3. CASE PutFile /\ op.file \notin Unit
    BY <1>1, <1>5, <2>3, StillLeft DEF units_first
  <2>4. QED  BY <2>1, <2>2, <2>3
<1>9. units_due'
  <2>1. CASE units_loaded /\ ~Has(todo, UnitPuts)
    <3>1. ~Has(todo', UnitPuts) /\ op \notin UnitPuts
      BY <1>1, <2>1, Left
    <3>2. op.file \notin Unit
      BY <1>2, <1>7, <3>1, PackagesAreNoUnits
    <3>3. QED  BY <1>5, <2>1, <3>1, <3>2 DEF units_due
  <2>2. CASE Has(todo, Reloads(config)) /\ Preceded(todo, Services(config), Reloads(config))
    <3>1. op \notin Reloads(config)
      BY <1>3, ReloadsAre
    <3>2. QED  BY <1>1, <1>2, <1>3, <2>2, <3>1, StillLeft, ReloadsAre DEF units_due
  <2>3. QED  BY <2>1, <2>2 DEF units_due
<1>10. QED  BY <1>6, <1>8, <1>9

LEMMA UnderWayChange ==
    ASSUME TypeInv, Planned, Installed, full, Under_way, PutFile \/ Install
    PROVE  Under_way'
<1>1. PICK kinds : Perform(kinds)
  BY DEF PutFile, Install
<1>2. /\ op.file \in File /\ disk'[op.file] # Absent
      /\ \A g \in File : g # op.file => disk'[g] = disk[g]
  BY Changes
<1>3. units_due' /\ units_first' /\ (Install => units_loaded')
  BY ChangeOfUnits DEF Under_way
<1>4. policy_first'
  <2>1. blocked' = blocked
    BY InstallDoes DEF PutFile
  <2>2. QED  BY <1>1, <2>1, StillLeft DEF Under_way, policy_first
<1>5. key_due'
  <2>1. \A f : disk[f] # Absent /\ f \in File => disk'[f] # Absent
    BY <1>2
  <2>2. \A f : op \in PutsOf(f) => disk'[f] # Absent
    BY <1>2 DEF PutsOf
  <2>3. "opendkim.conf" \in File /\ "opendkim.private" \in File
    BY OpendkimIs, KeptFiles
  <2>4. ASSUME key_missing'
        PROVE  (Has(todo, PutsOf("opendkim.private")) /\ (unmarked \/ "opendkim" \in marks))'
    <3>1. key_missing /\ op \notin PutsOf("opendkim.private")
      BY <2>1, <2>2, <2>3, <2>4 DEF key_missing
    <3>2. Has(todo', PutsOf("opendkim.private"))
      BY <1>1, <3>1, StillLeft DEF Under_way, key_due
    <3>3. (unmarked \/ "opendkim" \in marks)'
      BY <3>1, StaysMarked DEF Under_way, key_due
    <3>4. QED  BY <3>2, <3>3
  <2>5. ASSUME disk'["opendkim.conf"] = Absent PROVE unmarked'
    <3>1. disk["opendkim.conf"] = Absent /\ op \notin PutsOf("opendkim.conf")
      BY <2>1, <2>2, <2>3, <2>5
    <3>2. Has(todo', PutsOf("opendkim.conf"))
      BY <1>1, <3>1, StillLeft DEF Under_way, key_due, unmarked
    <3>3. QED  BY <2>5, <3>2 DEF unmarked
  <2>6. QED  BY <2>4, <2>5 DEF key_due
<1>6. ASSUME NEW s \in running', NEW f \in Reads[s] PROVE sees(s, f)' \/ due(s)'
  <2>1. CASE s \in running /\ saw'[s] = saw[s]
    <3>1. sees(s, f) \/ due(s)
      BY <2>1, <1>6 DEF Under_way
    <3>2. QED  BY <1>6, <2>1, <3>1, ChangeIsSeen DEF Under_way
  <2>2. CASE ~(s \in running /\ saw'[s] = saw[s])
    <3>1. Install
      BY <1>6, <2>2 DEF PutFile
    <3>2. s = op.file /\ \A g \in Reads[s] : saw'[s][g] = IF g \in Unit THEN loaded'[g] ELSE disk'[g]
      BY <1>6, <2>2, <3>1, InstallDoes
    <3>3. saw'[s][f] = disk'[f]
      BY <1>3, <1>6, <3>1, <3>2 DEF units_loaded
    <3>4. QED  BY <3>3 DEF sees
  <2>3. QED  BY <2>1, <2>2
<1>7. QED  BY <1>3, <1>4, <1>5, <1>6 DEF Under_way

\* and so does a new version of a package,
LEMMA UnderWayUpgrade ==
    ASSUME TypeInv, Planned, full, Under_way, Upgrade
    PROVE  Under_way'
<1>1. Perform({"upgrade"})
  BY DEF Upgrade
<1>2. /\ op = upgrade /\ marks' = marks /\ blocked' = blocked
      /\ \A f \in File \ Debian : disk'[f] = disk[f]
      /\ running' \subseteq Service
      /\ \A f \in Unit : loaded'[f] = loaded[f] \/ (loaded[f] = Absent /\ loaded'[f] = disk'[f])
  BY UpgradeDoes
<1>3. units_loaded /\ ~blocked
  <2>1. Has(todo, Arrivals) /\ Has(todo, {upgrade})
    BY <1>1, <1>2, Left DEF Arrivals
  <2>2. QED  BY <2>1 DEF Under_way, units_first, policy_first
<1>4. op.do = "upgrade" /\ config' = config
  BY <1>1, Performs DEF upgrade
<1>5. op \notin Puts /\ op \notin Services(config)
  BY <1>4, FieldsAre
<1>6. /\ \A f : op \notin PutsOf(f)
      /\ \A s : op \notin ServicesOf(config, s)
      /\ op \notin Reloads(config) /\ op \notin UnitPuts
  BY <1>5 DEF PutsOf, ServicesOf, Reloads, UnitPuts
<1>7. units_loaded'
  <2>1. \A f \in Unit : disk'[f] = disk[f]
    BY <1>2, ReadsAre, DebianIs
  <2>2. QED  BY <1>2, <1>3, <2>1 DEF units_loaded
<1>8. units_due' /\ units_first'
  <2>1. CASE ~Has(todo, UnitPuts)
    BY <1>1, <1>7, <2>1, StillLeft DEF units_due, units_first
  <2>2. CASE Has(todo, Reloads(config)) /\ Preceded(todo, Services(config), Reloads(config))
    BY <1>1, <1>4, <1>5, <1>6, <1>7, <2>2, StillLeft, ReloadsAre DEF units_due, units_first
  <2>3. QED  BY <2>1, <2>2 DEF Under_way, units_due
<1>9. policy_first'
  BY <1>2, <1>3 DEF policy_first
<1>10. /\ disk'["opendkim.conf"] = disk["opendkim.conf"]
       /\ disk'["opendkim.private"] = disk["opendkim.private"]
  BY <1>2, OpendkimIs, KeptFiles, DebianIs
<1>11. unmarked => unmarked'
  BY <1>1, <1>6, <1>10, StillLeft DEF unmarked
<1>12. key_due'
  <2>1. key_missing' => Has(todo', PutsOf("opendkim.private"))
    BY <1>1, <1>6, <1>10, StillLeft DEF Under_way, key_due, key_missing
  <2>2. key_missing' => (unmarked \/ "opendkim" \in marks)'
    BY <1>2, <1>10, <1>11 DEF Under_way, key_due, key_missing
  <2>3. disk'["opendkim.conf"] = Absent => unmarked'
    BY <1>10, <1>11 DEF Under_way, key_due
  <2>4. QED  BY <2>1, <2>2, <2>3 DEF key_due
<1>13. ASSUME NEW s \in running', NEW f \in Reads[s] PROVE sees(s, f)' \/ due(s)'
  <2>1. CASE \A g \in Reads[s] : saw'[s][g] = IF g \in Unit THEN loaded'[g] ELSE disk'[g]
    <3>1. saw'[s][f] = disk'[f]
      BY <1>7, <1>13, <2>1 DEF units_loaded
    <3>2. QED  BY <3>1 DEF sees
  <2>2. CASE s \in running /\ saw'[s] = saw[s] /\ (s \in Debian /\ ~blocked => disk'[s] = disk[s])
    <3>1. due(s) => due(s)'
      BY <1>1, <1>2, <1>4, <1>6, <1>11, StillLeft DEF due, needed
    <3>2. disk'[f] = disk[f] \/ <<s, f>> \in Overlooked
      <4>1. f \in File /\ s \in Service
        BY <1>2, <1>13, ReadsAre
      <4>2. CASE f \notin Debian
        BY <1>2, <4>1, <4>2
      <4>3. CASE f \in Debian
        BY <1>3, <1>13, <2>2, <4>1, <4>3, DebianIs
      <4>4. QED  BY <4>2, <4>3
    <3>3. sees(s, f) => sees(s, f)'
      BY <2>2, <3>2 DEF sees
    <3>4. QED  BY <1>13, <2>2, <3>1, <3>3 DEF Under_way
  <2>3. QED  BY <1>13, <2>1, <2>2, UpgradeDoes
<1>14. QED  BY <1>8, <1>9, <1>12, <1>13 DEF Under_way

\* before the first service of the run starts or goes on.
LEMMA UnderWaySystemd ==
    ASSUME TypeInv, Planned, full, Under_way, Systemd
    PROVE  Under_way'
<1>1. Perform({"service"}) /\ op \in Services(config) /\ disk' = disk /\ marks' = marks
  BY SystemdDoes DEF Systemd
<1>2. config' = config /\ ~Has(todo', Puts \cup Packages \cup Validations)
  BY <1>1, StillLeft, PlanFollows
<1>3. op \notin Puts \cup Packages
  BY <1>1, FieldsAre
<1>4. \A B : B \subseteq Puts \cup Packages => ~Has(todo, B) /\ ~Has(todo', B)
  <2>1. \A B : B \subseteq Puts \cup Packages => ~Has(todo', B) /\ op \notin B
    BY <1>2, <1>3 DEF Has
  <2>2. QED  BY <1>1, <2>1, Left
<1>5. /\ UnitPuts \subseteq Puts \cup Packages /\ PutsOf("opendkim.conf") \subseteq Puts \cup Packages
      /\ PutsOf("opendkim.private") \subseteq Puts \cup Packages
  BY DEF UnitPuts, PutsOf
<1>6. units_loaded'
  <2>1. CASE units_loaded
    BY <1>1, <2>1, SystemdDoes DEF units_loaded
  <2>2. CASE ~units_loaded
    <3>1. op \in Reloads(config)
      BY <1>1, <2>2, StillLeft, ReloadsAre DEF Under_way, units_due
    <3>2. needed(op.daemon_reload)
      BY <3>1, ReloadsAre
    <3>3. QED  BY <1>1, <3>2, SystemdDoes DEF units_loaded
  <2>3. QED  BY <2>1, <2>2
<1>7. units_due' /\ units_first'
  BY <1>4, <1>5, <1>6 DEF units_due, units_first
<1>8. ~unmarked /\ ~key_missing /\ disk["opendkim.conf"] # Absent
  BY <1>4, <1>5 DEF Under_way, key_due, unmarked
<1>9. key_due'
  BY <1>1, <1>8 DEF key_due, key_missing
<1>10. ASSUME NEW s \in running', NEW f \in Reads[s] PROVE sees(s, f)' \/ due(s)'
  <2>1. s \in Service
    BY <1>10, SystemdDoes
  <2>2. CASE s # op.service
    <3>1. s \in running /\ saw'[s] = saw[s]
      BY <1>10, <2>2, SystemdDoes
    <3>2. op \notin ServicesOf(config, s)
      BY <2>2 DEF ServicesOf
    <3>3. due(s) => due(s)'
      BY <1>1, <1>2, <1>8, <3>2, StillLeft DEF due, needed
    <3>4. sees(s, f) => sees(s, f)'
      BY <1>1, <3>1 DEF sees
    <3>5. QED  BY <1>10, <3>1, <3>3, <3>4 DEF Under_way
  <2>3. CASE s = op.service /\ (restarts \/ s \notin running)
    <3>1. saw'[s][f] = IF f \in Unit THEN loaded'[f] ELSE disk[f]
      BY <1>10, <2>3, SystemdDoes
    <3>2. saw'[s][f] = disk'[f]
      BY <1>1, <1>6, <3>1 DEF units_loaded
    <3>3. QED  BY <3>2 DEF sees
  <2>4. CASE s = op.service /\ ~restarts /\ s \in running
    <3>1. saw'[s] = saw[s]
      BY <1>10, <2>4, SystemdDoes
    <3>2. op.running
      BY <1>10, <2>4, SystemdDoes
    <3>3. op.restarted = again(s)
      BY <1>1, <2>1, <2>4, <3>2, FieldsAre
    <3>4. ~due(s)
      BY <1>8, <2>4, <3>3 DEF due, restarts
    <3>5. sees(s, f) => sees(s, f)'
      BY <1>1, <3>1 DEF sees
    <3>6. QED  BY <1>10, <2>4, <3>4, <3>5 DEF Under_way
  <2>5. QED  BY <2>2, <2>3, <2>4
<1>11. policy_first'
  <2>1. blocked' = blocked
    BY DEF Systemd
  <2>2. QED  BY <1>1, <2>1, StillLeft DEF Under_way, policy_first
<1>12. QED  BY <1>7, <1>9, <1>10, <1>11 DEF Under_way

LEMMA UnderWayOther ==
    ASSUME TypeInv, Planned, full, Under_way, Other \/ Policy \/ Validate \/ Stale
    PROVE  Under_way'
<1>1. PICK kinds : Perform(kinds) /\ kinds \cap {"put", "package", "service"} = {}
  BY DEF Other, Policy, Validate, Stale
<1>2. UNCHANGED <<disk, loaded, running, saw>> /\ marks \subseteq marks'
  BY DEF Other, Policy, Validate, Stale, server
<1>3. op.do \notin {"put", "package", "service"} /\ config' = config
  BY <1>1, Performs
<1>4. op \notin Puts /\ op \notin Packages /\ op \notin Services(config)
  BY <1>3, FieldsAre
<1>5. /\ \A f : op \notin PutsOf(f)
      /\ \A s : op \notin ServicesOf(config, s)
      /\ op \notin Reloads(config)
  BY <1>4 DEF PutsOf, ServicesOf, Reloads
<1>6. units_due'
  BY <1>1, <1>2, <1>3, <1>4, <1>5, StillLeft, ReloadsAre DEF Under_way, units_due, units_loaded
<1>7. units_first'
  BY <1>1, <1>2, StillLeft DEF Under_way, units_first, units_loaded
<1>8. unmarked => unmarked'
  BY <1>1, <1>2, <1>5, StillLeft DEF unmarked
<1>9. key_due'
  <2>1. key_missing' => Has(todo', PutsOf("opendkim.private"))
    BY <1>1, <1>2, <1>5, StillLeft DEF Under_way, key_due, key_missing
  <2>2. key_missing' => (unmarked \/ "opendkim" \in marks)'
    BY <1>2, <1>8 DEF Under_way, key_due, key_missing
  <2>3. disk'["opendkim.conf"] = Absent => unmarked'
    BY <1>2, <1>8 DEF Under_way, key_due
  <2>4. QED  BY <2>1, <2>2, <2>3 DEF key_due
<1>10. ASSUME NEW s \in running', NEW f \in Reads[s] PROVE sees(s, f)' \/ due(s)'
  <2>1. due(s) => due(s)'
    BY <1>1, <1>2, <1>3, <1>5, <1>8, StillLeft DEF due, needed
  <2>2. sees(s, f) => sees(s, f)'
    BY <1>2 DEF sees
  <2>3. QED  BY <1>2, <1>10, <2>1, <2>2 DEF Under_way
<1>11. policy_first'
  <2>1. CASE Policy
    <3>1. (op.do = "block" => op = block) /\ blocked' = (op.do = "block")
      BY <1>1, <2>1, Performs, KindsAre DEF Policy
    <3>2. blocked' => ~Has(todo', {upgrade})
      BY <1>1, <3>1, PlanFollows
    <3>3. QED  BY <3>2 DEF policy_first
  <2>2. CASE ~Policy
    <3>1. blocked' = blocked
      BY <2>2 DEF Other, Validate, Stale, server
    <3>2. QED  BY <1>1, <3>1, StillLeft DEF Under_way, policy_first
  <2>3. QED  BY <2>1, <2>2
<1>12. QED  BY <1>6, <1>7, <1>9, <1>10, <1>11 DEF Under_way

LEMMA CurrentInit ==
    ASSUME Init
    PROVE  CurrentInv
<1>1. "opendkim.private" \in File /\ "opendkim.conf" \in File
  BY OpendkimIs, KeptFiles
<1>2. \A f \in File : disk[f] = Absent
  BY DEF Init
<1>3. \A f \in Unit : loaded[f] = Absent
  BY DEF Init
<1>4. units_loaded
  BY <1>2, <1>3, ReadsAre DEF units_loaded
<1>5. \A s \in running : \A f \in Reads[s] : sees(s, f)
  <2>1. running = {"journald"} /\ "journald" \in Service
    BY DEF Init, Service
  <2>2. saw["journald"] = [f \in Reads["journald"] |-> Absent]
    BY <2>1 DEF Init
  <2>3. QED  BY <1>2, <2>1, <2>2, ReadsAre DEF sees
<1>6. idle
  BY DEF Init, idle
<1>7. ~blocked
  BY DEF Init
<1>8. QED  BY <1>1, <1>2, <1>4, <1>5, <1>6, <1>7 DEF CurrentInv, Settled

\* Every run begins with all it needs.
LEMMA UnderWayNew ==
    ASSUME TypeInv, Settled, NEW c \in Configs, NEW sts \in StageLists, deploy_chatmail(c, sts), full'
    PROVE  Under_way'
<1>1. tls_cert_mode \in TlsModes /\ UNCHANGED <<disk, loaded, running, saw, blocked>> /\ config' = c /\ stages' = sts
  BY DEF deploy_chatmail, server, TypeInv, TypeOK
<1>2. /\ Has(todo', Reloads(c)) /\ Preceded(todo', Services(c), Reloads(c))
      /\ Has(todo', PutsOf("opendkim.private")) /\ Has(todo', PutsOf("opendkim.conf"))
  BY <1>1, NewRun DEF deploy_chatmail, full
<1>3. units_due' /\ units_first' /\ policy_first'
  BY <1>1, <1>2 DEF Settled, units_due, units_first, policy_first, units_loaded
<1>4. key_due'
  BY <1>1, <1>2 DEF Settled, key_due, key_missing, unmarked
<1>5. \A s \in running' : \A f \in Reads[s] : sees(s, f)'
  BY <1>1 DEF Settled, sees
<1>6. QED  BY <1>3, <1>4, <1>5 DEF Under_way

LEMMA CurrentStep ==
    ASSUME TypeInv, Planned, PolicyInv, Installed, CurrentInv, [Next]_vars
    PROVE  CurrentInv'
<1>1. ASSUME UNCHANGED server, Settled PROVE Settled'
  BY <1>1 DEF server, Settled, units_loaded, key_missing, sees
<1>2. ASSUME NEW f \in Editable, Edit(f) PROVE CurrentInv'
  BY <1>1, <1>2 DEF Edit, CurrentInv, idle, run
<1>3. ASSUME NEW c \in Configs, NEW sts \in StageLists, deploy_chatmail(c, sts) PROVE CurrentInv'
  <2>1. idle /\ ~idle' /\ whole' = whole /\ UNCHANGED server
    BY <1>3 DEF deploy_chatmail, idle
  <2>2. whole => Settled
    BY <2>1 DEF CurrentInv
  <2>3. QED  BY <1>1, <1>3, <2>1, <2>2, UnderWayNew DEF CurrentInv
<1>4. ASSUME NEW kinds, Perform(kinds), full /\ Under_way => Under_way',
             config.website_only /\ Settled => Settled'
      PROVE  CurrentInv'
  <2>1. config' = config /\ stages' = stages /\ whole' = whole /\ ~idle /\ ~idle'
    BY <1>4, StillLeft
  <2>2. full' <=> full
    BY <2>1 DEF full
  <2>3. QED  BY <1>4, <2>1, <2>2 DEF CurrentInv
<1>5. ASSUME NEW kinds, Perform(kinds), config.website_only, "other" \notin kinds PROVE FALSE
  <2>1. op = other /\ op.do \in kinds
    BY <1>5, Performs, PlanFollows
  <2>2. QED  BY <1>5, <2>1 DEF other
<1>6. CASE Other \/ Policy \/ Validate \/ Stale
  <2>1. full /\ Under_way => Under_way'
    BY <1>6, UnderWayOther
  <2>2. config.website_only => UNCHANGED server
    <3>1. config.website_only => ~Policy /\ ~Validate /\ ~Stale
      BY <1>5 DEF Policy, Validate, Stale
    <3>2. QED  BY <1>6, <3>1 DEF Other
  <2>3. \E kinds : Perform(kinds)
    BY <1>6 DEF Other, Policy, Validate, Stale
  <2>4. QED  BY <1>1, <1>4, <2>1, <2>2, <2>3
<1>7. CASE PutFile \/ Install \/ Upgrade \/ Systemd
  <2>1. full /\ Under_way => Under_way'
    BY <1>7, UnderWayChange, UnderWayUpgrade, UnderWaySystemd
  <2>2. PICK kinds : Perform(kinds) /\ "other" \notin kinds
    BY <1>7 DEF PutFile, Install, Upgrade, Systemd
  <2>3. QED  BY <1>4, <1>5, <2>1, <2>2
<1>8. CASE Finish
  <2>1. /\ todo = <<>> /\ ~idle /\ idle' /\ UNCHANGED server /\ config' = config
        /\ whole' = (whole /\ (config.website_only \/ stages = <<"install", "configure", "activate">>))
    BY <1>8 DEF Finish, Stop, idle
  <2>2. \A B : ~Has(todo, B)
    BY <2>1, NothingLeft
  <2>3. ASSUME whole' PROVE Settled
    <3>1. CASE config.website_only
      BY <2>1, <2>3, <3>1 DEF CurrentInv
    <3>2. CASE ~config.website_only
      <4>1. Under_way /\ full
        BY <2>1, <2>3, <3>2 DEF CurrentInv, full
      <4>2. ~blocked
        BY <2>1, <2>2, <4>1, FullRun DEF PolicyInv, idle
      <4>3. QED
        BY <2>2, <4>1, <4>2 DEF Under_way, units_due, key_due, due, unmarked, Settled
    <3>3. QED  BY <3>1, <3>2
  <2>4. QED  BY <1>1, <2>1, <2>3 DEF CurrentInv
<1>9. CASE Cut
  BY <1>9 DEF Cut, CurrentInv
<1>10. CASE Reboot
  <2>1. /\ UNCHANGED <<disk, blocked, run>> /\ \A f \in Unit : loaded'[f] = disk[f]
        /\ \A s \in running' : \A f \in Reads[s] : saw'[s][f] = disk[f]
    BY <1>10, RebootDoes
  <2>2. idle /\ idle' /\ whole' = whole
    BY <1>10, <2>1 DEF Reboot, run, idle
  <2>3. Settled => Settled'
    BY <2>1 DEF Settled, units_loaded, key_missing, sees
  <2>4. QED  BY <2>2, <2>3 DEF CurrentInv
<1>11. CASE UNCHANGED vars
  <2>1. UNCHANGED <<server, run>>
    BY <1>11 DEF vars
  <2>2. Under_way => Under_way'
    BY <2>1 DEF server, run, Under_way, units_due, units_first, policy_first, units_loaded, key_due,
      key_missing, unmarked, sees, due, needed
  <2>3. QED  BY <1>1, <2>1, <2>2 DEF run, CurrentInv, idle, full
<1>12. QED  BY <1>2, <1>3, <1>6, <1>7, <1>8, <1>9, <1>10, <1>11 DEF Next

\* Between runs, none of which was cut short or limited to some stages, each
\* service runs with the files and the unit that are on the server: every
\* change of a file has led to a restart of what reads it, by a mark or because
\* the service had not been installed, and systemd knows the unit by then; and
\* every upgrade of a Debian package has restarted its service, because nothing
\* blocks that when a run begins (deployers.py:499-500 and 581-668,
\* basedeploy.py:27-46 and 81-139).
THEOREM RunsAreCurrent == Spec => []RunsCurrent
<1> DEFINE IInv == TypeInv /\ Planned /\ PolicyInv /\ Installed /\ CurrentInv
<1>1. Init => IInv
  BY TypeInit, PlannedInit, InstalledInit, CurrentInit DEF Init, PolicyInv
<1>2. IInv /\ [Next]_vars => IInv'
  BY TypeStep, PlannedStep, PolicyStep, InstalledStep, CurrentStep
<1>3. IInv => RunsCurrent
  BY DEF CurrentInv, Settled, sees, RunsCurrent
<1> HIDE DEF IInv
<1>4. QED  BY <1>1, <1>2, <1>3, PTL DEF Spec
=============================================================================
