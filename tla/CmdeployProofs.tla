--------------------------- MODULE CmdeployProofs ---------------------------
(* Proofs about Cmdeploy for any number of edits, failures and detours.        *)
EXTENDS Cmdeploy, SequenceTheorems, TLAPS

-----------------------------------------------------------------------------
(* Sequences                                                                 *)

Elements(s) == {s[i] : i \in DOMAIN s}

LEMMA Single ==
    ASSUME NEW x, NEW r
    PROVE  /\ Head(<<r>>) = r
           /\ Tail(<<r>>) = <<>>
           /\ <<r>> # <<>>
           /\ <<x>> \o Tail(<<r>>) = <<x>>
           /\ Append(<<>>, x) = <<x>>
           /\ Len(<<r>>) = 1 /\ DOMAIN <<r>> = {1} /\ <<r>>[1] = r
           /\ Len(<<>>) = 0 /\ DOMAIN <<>> = {}
OBVIOUS

LEMMA ElementsOfTail ==
    ASSUME NEW S, NEW s \in Seq(S), s # <<>>
    PROVE  /\ Head(s) \in S
           /\ Tail(s) \in Seq(S)
           /\ Elements(s) = {Head(s)} \cup Elements(Tail(s))
<1>1. Len(s) \in Nat \ {0} /\ DOMAIN s = 1..Len(s)
  BY EmptySeq, LenProperties
<1>2. Tail(s) \in Seq(S) /\ Head(s) \in S
  BY HeadTailProperties
<1>3. Len(Tail(s)) = Len(s) - 1 /\ DOMAIN Tail(s) = 1..(Len(s) - 1)
      /\ \A i \in 1..(Len(s) - 1) : Tail(s)[i] = s[i + 1]
  BY <1>1, <1>2, HeadTailProperties, LenProperties
<1>4. Head(s) = s[1]
  BY <1>1
<1>5. Elements(s) \subseteq {Head(s)} \cup Elements(Tail(s))
  <2> SUFFICES ASSUME NEW i \in 1..Len(s) PROVE s[i] = Head(s) \/ s[i] \in Elements(Tail(s))
    BY <1>1 DEF Elements
  <2>1. CASE i = 1
    BY <2>1, <1>4
  <2>2. CASE i # 1
    <3>1. i - 1 \in 1..(Len(s) - 1) /\ (i - 1) + 1 = i
      BY <2>2, <1>1
    <3>2. Tail(s)[i - 1] = s[i]
      BY <3>1, <1>3
    <3>3. QED  BY <3>1, <3>2, <1>3 DEF Elements
  <2>3. QED  BY <2>1, <2>2
<1>6. {Head(s)} \cup Elements(Tail(s)) \subseteq Elements(s)
  <2>1. s[1] \in Elements(s)
    BY <1>1 DEF Elements
  <2>2. ASSUME NEW i \in 1..(Len(s) - 1) PROVE Tail(s)[i] \in Elements(s)
    <3>1. i + 1 \in 1..Len(s) /\ Tail(s)[i] = s[i + 1]
      BY <1>1, <1>3
    <3>2. QED  BY <3>1, <1>1 DEF Elements
  <2>3. QED  BY <2>1, <2>2, <1>3, <1>4 DEF Elements
<1>7. QED  BY <1>2, <1>5, <1>6

LEMMA ElementsOfConcat ==
    ASSUME NEW S, NEW s \in Seq(S), NEW t \in Seq(S)
    PROVE  s \o t \in Seq(S) /\ Elements(s \o t) = Elements(s) \cup Elements(t)
<1>1. /\ s \o t \in Seq(S)
      /\ Len(s \o t) = Len(s) + Len(t)
      /\ \A i \in 1..Len(s) + Len(t) :
           (s \o t)[i] = IF i <= Len(s) THEN s[i] ELSE t[i - Len(s)]
  BY ConcatProperties
<1>2. /\ Len(s) \in Nat /\ DOMAIN s = 1..Len(s)
      /\ Len(t) \in Nat /\ DOMAIN t = 1..Len(t)
      /\ DOMAIN (s \o t) = 1..(Len(s) + Len(t))
  BY <1>1, LenProperties
<1>3. ASSUME NEW i \in 1..(Len(s) + Len(t)) PROVE (s \o t)[i] \in Elements(s) \cup Elements(t)
  <2>1. CASE i <= Len(s)
    BY <2>1, <1>1, <1>2 DEF Elements
  <2>2. CASE ~(i <= Len(s))
    <3>1. i - Len(s) \in 1..Len(t)
      BY <2>2, <1>2
    <3>2. QED  BY <3>1, <2>2, <1>1, <1>2 DEF Elements
  <2>3. QED  BY <2>1, <2>2
<1>4. ASSUME NEW i \in 1..Len(s) PROVE s[i] \in Elements(s \o t)
  <2>1. i \in 1..(Len(s) + Len(t)) /\ (s \o t)[i] = s[i]
    BY <1>1, <1>2
  <2>2. QED  BY <2>1, <1>2 DEF Elements
<1>5. ASSUME NEW i \in 1..Len(t) PROVE t[i] \in Elements(s \o t)
  <2>1. i + Len(s) \in 1..(Len(s) + Len(t)) /\ (s \o t)[i + Len(s)] = t[i]
    BY <1>1, <1>2
  <2>2. QED  BY <2>1, <1>2 DEF Elements
<1>6. QED  BY <1>1, <1>2, <1>3, <1>4, <1>5 DEF Elements

-----------------------------------------------------------------------------
(* Types, and the channel: at most one call is under way on it, and a command *)
(* that waits waits for that one.                                            *)

\* What perform_initial_checks has still to ask before its k-th step
Rest(k) ==
    CASE k = 1 -> <<"A", "mta-sts", "www", "acme", "dkim", "_mta-sts">>
      [] k = 2 -> <<"mta-sts", "www", "acme", "dkim", "_mta-sts">>
      [] k = 3 -> <<"www", "acme", "dkim", "_mta-sts">>
      [] k = 4 -> <<"acme", "dkim", "_mta-sts">>
      [] k = 5 -> <<"dkim", "_mta-sts">>
      [] k = 6 -> <<"_mta-sts">>
      [] k = 7 -> <<>>

\* A line has a value of its name.
Record == {l \in Line : l.value \in Values(l.name)}

Found(fns, todos) ==
    [fn : fns, data : RemoteData, diff : SUBSET Record,
     address : Address \cup {None, "unread"}, todo : todos]
InitialRequest == Found({"perform_initial_checks"}, {Rest(k) : k \in 1..7})
ZonefileRequest == Found({"check_zonefile"}, Seq(Record))
Request == InitialRequest \cup ZonefileRequest
AnswerType == [failed : BOOLEAN, data : RemoteData, diff : SUBSET Record]
CmdType == [at : {"idle", "initial", "deploy", "verify"}, do : {"run", "dns"},
            opts : SUBSET Option, data : RemoteData \cup {None}]

\* The function that a command waits for
awaited(fn) ==
    \/ cmd.at = "initial" /\ fn = "perform_initial_checks"
    \/ cmd.at = "verify" /\ fn = "check_zonefile"

NoCall == requests = <<>> /\ answers = <<>> /\ cmd.at \in {"idle", "deploy"}

CallUnderWay ==
    \E r \in Request :
      /\ requests = <<r>> /\ answers = <<>>
      /\ cmd.at = "idle" \/ awaited(r.fn)

CallAnswered ==
    /\ cmd.at \in {"idle", "initial", "verify"}
    /\ \E a \in AnswerType : requests = <<>> /\ answers = <<a>>

Channel == NoCall \/ CallUnderWay \/ CallAnswered

States ==
    /\ strict_tls \in BOOLEAN
    /\ zone \in Zone
    /\ host \in [dkim : BOOLEAN, acme : BOOLEAN]
    /\ cmd \in CmdType
    /\ cmd.at = "deploy" /\ "skip_dns_check" \notin cmd.opts => cmd.data \in RemoteData
    /\ cmd.at = "verify" => cmd.do = "dns" /\ cmd.data \in RemoteData
    /\ outcome \in [says : Says, lines : SUBSET Record, ok : BOOLEAN]
    /\ seen \subseteq Zone /\ unheard \subseteq Name
    /\ events \in 0..MaxEvents

TypeInv == States /\ Channel

LEMMA RestSteps ==
    /\ \A k \in 1..6 : Rest(k) # <<>> /\ Tail(Rest(k)) = Rest(k + 1)
    /\ Rest(7) = <<>>
    /\ Head(Rest(1)) = "A" /\ Head(Rest(2)) = "mta-sts" /\ Head(Rest(3)) = "www"
    /\ Head(Rest(4)) = "acme" /\ Head(Rest(5)) = "dkim" /\ Head(Rest(6)) = "_mta-sts"
<1>1. /\ Rest(1) # <<>> /\ Tail(Rest(1)) = Rest(2) /\ Head(Rest(1)) = "A"
      /\ Rest(2) # <<>> /\ Tail(Rest(2)) = Rest(3) /\ Head(Rest(2)) = "mta-sts"
      /\ Rest(3) # <<>> /\ Tail(Rest(3)) = Rest(4) /\ Head(Rest(3)) = "www"
  BY DEF Rest
<1>2. /\ Rest(4) # <<>> /\ Tail(Rest(4)) = Rest(5) /\ Head(Rest(4)) = "acme"
      /\ Rest(5) # <<>> /\ Tail(Rest(5)) = Rest(6) /\ Head(Rest(5)) = "dkim"
      /\ Rest(6) # <<>> /\ Tail(Rest(6)) = Rest(7) /\ Head(Rest(6)) = "_mta-sts"
      /\ Rest(7) = <<>>
  BY DEF Rest
<1>3. ASSUME NEW k \in 1..6 PROVE Rest(k) # <<>> /\ Tail(Rest(k)) = Rest(k + 1)
  <2>1. \/ k = 1 /\ k + 1 = 2
        \/ k = 2 /\ k + 1 = 3
        \/ k = 3 /\ k + 1 = 4
        \/ k = 4 /\ k + 1 = 5
        \/ k = 5 /\ k + 1 = 6
        \/ k = 6 /\ k + 1 = 7
    OBVIOUS
  <2>2. QED  BY <1>1, <1>2, <2>1, Zenon
<1>4. QED  BY <1>1, <1>2, <1>3, Zenon

LEMMA ValuesOf ==
    /\ \A n \in Name : Values(n) \subseteq Value
    /\ Values("A") = Address
    /\ \A n \in Alias : Values(n) = {"target", "elsewhere"} \cup Address
    /\ Values("_mta-sts") = StsId \cup {"noid"}
    /\ Values("dkim") = {"key", "nokey"}
    /\ \A n \in {"MX", "spf", "CAA"} : Values(n) = {"right", "wrong"}
<1>1. \A n \in Name : Values(n) \subseteq Value
  BY DEF Value
<1>2. QED  BY <1>1 DEF Values, Alias

LEMMA Names ==
    Name = {"A", "MX", "_mta-sts", "dkim", "spf", "CAA", "mta-sts", "www"} /\ Alias = {"mta-sts", "www"}
BY DEF Name, Alias

LEMMA ZoneValues ==
    ASSUME NEW z \in Zone
    PROVE  /\ \A n \in Name : z[n] \in Value \cup {None}
           /\ z["A"] \in Address \cup {None}
           /\ \A n \in Alias : z[n] \in {"target", "elsewhere", None} \cup Address
           /\ z["_mta-sts"] \in StsId \cup {"noid", None}
           /\ z["dkim"] \in {"key", "nokey", None}
           /\ \A n \in {"MX", "spf", "CAA"} : z[n] \in {"right", "wrong", None}
BY ValuesOf, Names DEF Zone

LEMMA Lines ==
    /\ \A n \in Name : \A v \in Values(n) : line(n, v) \in Record
    /\ \A n, v : line(n, v).name = n /\ line(n, v).value = v
BY ValuesOf DEF line, Line, Record

LEMMA SetType ==
    ASSUME NEW z \in Zone, NEW L \in SUBSET Record
    PROVE  set(z, L) \in Zone
<1>1. ASSUME NEW n \in Name, \E l \in L : l.name = n
      PROVE  (CHOOSE l \in L : l.name = n).value \in Values(n)
  <2>1. PICK l \in L : l.name = n
    BY <1>1
  <2>2. (CHOOSE k \in L : k.name = n) \in L /\ (CHOOSE k \in L : k.name = n).name = n
    BY <2>1
  <2>3. QED  BY <2>2 DEF Record
<1>2. \A n \in Name : set(z, L)[n] \in Values(n) \cup {None}
  BY <1>1 DEF set, Zone
<1>3. set(z, L) \in [Name -> Value \cup {None}]
  BY <1>2, ValuesOf DEF set
<1>4. QED  BY <1>2, <1>3 DEF Zone

LEMMA NoDataType == NoData \in RemoteData
BY DEF NoData, RemoteData

LEMMA CheckType ==
    ASSUME NEW data \in RemoteData PROVE check_initial(data) \subseteq Record
<1>1. line("A", "addr1") \in Record
  BY Lines, ValuesOf, Names DEF Address
<1>2. \A n \in Alias : line(n, "target") \in Record
  BY Lines, ValuesOf, Names
<1>3. QED  BY <1>1, <1>2 DEF check_initial, Alias

\* The zone file, line by line.
LEMMA ZoneFileLines ==
    ASSUME NEW data \in RemoteData, data.A # None, NEW id \in StsId, strict_tls \in BOOLEAN
    PROVE  LET zonefile == get_filled_zone_file(data, id)
           IN /\ zonefile \in Seq(Record)
              /\ Elements(zonefile) =
                   {line("A", data.A), line("MX", "right"), line("www", "target"),
                    line("dkim", data.dkim), line("spf", "right")}
                   \cup (IF strict_tls THEN {line("_mta-sts", id), line("mta-sts", "target")} ELSE {})
                   \cup (IF data.acme THEN {line("CAA", "right")} ELSE {})
<1> DEFINE s1 == <<line("A", data.A), line("MX", "right")>>
           s2 == IF strict_tls THEN <<line("_mta-sts", id), line("mta-sts", "target")>> ELSE <<>>
           s3 == <<line("www", "target"), line("dkim", data.dkim), line("spf", "right")>>
           s4 == IF data.acme THEN <<line("CAA", "right")>> ELSE <<>>
<1>1. /\ line("A", data.A) \in Record /\ line("MX", "right") \in Record
      /\ line("_mta-sts", id) \in Record /\ line("mta-sts", "target") \in Record
      /\ line("www", "target") \in Record /\ line("dkim", data.dkim) \in Record
      /\ line("spf", "right") \in Record /\ line("CAA", "right") \in Record
  BY Lines, ValuesOf, Names DEF RemoteData
<1>2. s1 \in Seq(Record) /\ Elements(s1) = {line("A", data.A), line("MX", "right")}
  BY <1>1 DEF Elements
<1>3. /\ s2 \in Seq(Record)
      /\ Elements(s2) = IF strict_tls THEN {line("_mta-sts", id), line("mta-sts", "target")} ELSE {}
  BY <1>1 DEF Elements
<1>4. /\ s3 \in Seq(Record)
      /\ Elements(s3) = {line("www", "target"), line("dkim", data.dkim), line("spf", "right")}
  BY <1>1 DEF Elements
<1>5. s4 \in Seq(Record) /\ Elements(s4) = IF data.acme THEN {line("CAA", "right")} ELSE {}
  BY <1>1 DEF Elements
<1> HIDE DEF s1, s2, s3, s4
<1> DEFINE t2 == s1 \o s2
           t3 == t2 \o s3
           t4 == t3 \o s4
<1>6. t2 \in Seq(Record) /\ Elements(t2) = Elements(s1) \cup Elements(s2)
  BY <1>2, <1>3, ElementsOfConcat
<1> HIDE DEF t2
<1>7. t3 \in Seq(Record) /\ Elements(t3) = Elements(t2) \cup Elements(s3)
  BY <1>4, <1>6, ElementsOfConcat
<1> HIDE DEF t3
<1>8. t4 \in Seq(Record) /\ Elements(t4) = Elements(t3) \cup Elements(s4)
  BY <1>5, <1>7, ElementsOfConcat
<1>9. get_filled_zone_file(data, id) = t4
  BY DEF get_filled_zone_file, s1, s2, s3, s4, t2, t3, t4
<1> HIDE DEF t4
<1>10. Elements(get_filled_zone_file(data, id))
         = Elements(s1) \cup Elements(s2) \cup Elements(s3) \cup Elements(s4)
  BY <1>6, <1>7, <1>8, <1>9
<1>11. QED  BY <1>2, <1>3, <1>4, <1>5, <1>8, <1>9, <1>10

LEMMA TypeInit == Init => TypeInv
<1> SUFFICES ASSUME Init PROVE TypeInv
  OBVIOUS
<1>1. host \in [dkim : BOOLEAN, acme : BOOLEAN]
  BY DEF Init
<1>2. [n \in Name |-> None] \in Zone
  BY DEF Zone
<1>3. RightZone(host) \in Zone
  <2>1. \A n \in Name : RightZone(host)[n] \in Values(n) \cup {None}
    BY ValuesOf, Names DEF RightZone, Address, StsId
  <2>2. RightZone(host) \in [Name -> Value \cup {None}]
    BY <2>1, ValuesOf DEF RightZone
  <2>3. QED  BY <2>1, <2>2 DEF Zone
<1>4. zone \in Zone
  BY <1>2, <1>3 DEF Init
<1>5. cmd \in CmdType /\ cmd.at = "idle"
  BY DEF Init, Start, CmdType, Option
<1>6. outcome \in [says : Says, lines : SUBSET Record, ok : BOOLEAN]
  BY DEF Init, Says
<1>7. QED  BY <1>1, <1>4, <1>5, <1>6, BoundAssumption DEF Init, TypeInv, States, Channel, NoCall

\* What every remote function does with the request at its head.
LEMMA AtWork ==
    ASSUME Channel, requests # <<>>
    PROVE  /\ request \in Request
           /\ requests = <<request>> /\ answers = <<>>
           /\ cmd.at = "idle" \/ awaited(request.fn)
BY Single DEF Channel, NoCall, CallUnderWay, CallAnswered, request

LEMMA ProceedType ==
    ASSUME TypeInv, requests # <<>>, NEW q \in Request,
           q.fn = request.fn, requests' = <<q>>, unheard' \subseteq Name, events' \in 0..MaxEvents,
           UNCHANGED <<strict_tls, zone, host, answers, cmd, outcome, seen>>
    PROVE  TypeInv'
<1>1. /\ answers = <<>>
      /\ cmd.at = "idle" \/ awaited(q.fn)
  BY AtWork DEF TypeInv
<1>2. CallUnderWay'
  BY <1>1 DEF CallUnderWay, awaited
<1>3. QED  BY <1>2 DEF TypeInv, Channel, States

LEMMA RestIs ==
    ASSUME NEW k \in 1..7, Rest(k) # <<>>
    PROVE  /\ k \in 1..6 /\ Tail(Rest(k)) = Rest(k + 1)
           /\ \/ k = 1 /\ Head(Rest(k)) = "A"
              \/ k = 2 /\ Head(Rest(k)) = "mta-sts"
              \/ k = 3 /\ Head(Rest(k)) = "www"
              \/ k = 4 /\ Head(Rest(k)) = "acme"
              \/ k = 5 /\ Head(Rest(k)) = "dkim"
              \/ k = 6 /\ Head(Rest(k)) = "_mta-sts"
<1>1. k # 7
  BY RestSteps, Zenon
<1>2. k = 1 \/ k = 2 \/ k = 3 \/ k = 4 \/ k = 5 \/ k = 6
  BY <1>1
<1>3. k \in 1..6
  BY <1>2
<1>4. Tail(Rest(k)) = Rest(k + 1)
  BY <1>3, RestSteps, Zenon
<1>5. QED  BY <1>2, <1>3, <1>4, RestSteps, Zenon

LEMMA QueryAliasType ==
    ASSUME NEW n \in Alias, NEW address, NEW lost, zone \in Zone
    PROVE  query_alias(n, address, lost) \in Value \cup {None}
<1>1. n \in Name
  BY Names
<1>2. zone[n] \in Value \cup {None}
  BY <1>1, ZoneValues
<1>3. "target" \in Value
  BY <1>1, ValuesOf
<1>4. QED  BY <1>2, <1>3 DEF query_alias, query_dns

\* A step of perform_initial_checks, with the queries that go unanswered in it
InitialStep(lost) ==
    \/ QueryAddress(lost) \/ QueryAlias(lost) \/ QueryStsId(lost)
    \/ lost = {} /\ (AccountUrl \/ DkimEntry)

\* What the k-th step has found: it changes one entry of the data.
FoundBy(k, d, lost) ==
    /\ d.A = IF k = 1 THEN query_dns("A", lost) ELSE request.data.A
    /\ \A n \in Alias :
         d.alias[n] = IF n = step THEN query_alias(n, request.data.A, lost) ELSE request.data.alias[n]
    /\ k = 6 => d.sts = IF /\ d.A # None /\ \A n \in Alias : d.alias[n] # None
                           /\ query_dns("_mta-sts", lost) \in StsId
                        THEN query_dns("_mta-sts", lost) ELSE None
    /\ d.acme = IF k = 4 THEN host.acme ELSE request.data.acme
    /\ d.dkim = IF k = 5 THEN get_dkim_entry ELSE request.data.dkim

InitialEffect(k, d, lost) ==
    /\ request \in InitialRequest
    /\ request.todo = Rest(k) /\ step = Head(Rest(k))
    /\ FoundBy(k, d, lost)
    /\ requests' = <<[request EXCEPT !.data = d, !.todo = Rest(k + 1)]>>
    /\ unheard' = unheard \cup lost
    /\ UNCHANGED <<strict_tls, zone, host, answers, cmd, outcome, seen>>

LEMMA InitialStepEffect ==
    ASSUME TypeInv, NEW lost, InitialStep(lost)
    PROVE  \E k \in 1..6, d \in RemoteData : InitialEffect(k, d, lost)
<1>1. requests # <<>> /\ request.fn = "perform_initial_checks" /\ request.todo # <<>>
  BY DEF InitialStep, QueryAddress, QueryAlias, AccountUrl, DkimEntry, QueryStsId, working, request
<1>2. request \in InitialRequest /\ requests = <<request>>
  BY <1>1, AtWork DEF TypeInv, Request, ZonefileRequest, Found
<1>3. PICK k \in 1..7 : request.todo = Rest(k)
  BY <1>2 DEF InitialRequest, Found
<1>4. /\ k \in 1..6 /\ Tail(request.todo) = Rest(k + 1) /\ step = Head(Rest(k))
      /\ step = "A" => k = 1
      /\ step \in Alias => k \in {2, 3}
      /\ step = "acme" => k = 4
      /\ step = "dkim" => k = 5
      /\ step = "_mta-sts" => k = 6
  <2>1. Rest(k) # <<>> /\ step = Head(Rest(k))
    BY <1>1, <1>3 DEF step
  <2>2. k \in 1..6
    BY <2>1, RestIs
  <2>3. Tail(request.todo) = Rest(k + 1)
    BY <1>3, <2>1, RestIs
  <2>4. QED  BY <2>1, <2>2, <2>3, RestIs, Names
<1>5. request.data \in RemoteData
  BY <1>2 DEF InitialRequest, Found
<1>6. zone \in Zone /\ host \in [dkim : BOOLEAN, acme : BOOLEAN]
  BY DEF TypeInv, States
<1>7. ASSUME NEW d \in RemoteData, FoundBy(k, d, lost), Proceed([request EXCEPT !.data = d], lost)
      PROVE  InitialEffect(k, d, lost)
  <2>1. [request EXCEPT !.data = d].todo = request.todo
    BY <1>2 DEF InitialRequest, Found
  <2>2. requests' = <<[[request EXCEPT !.data = d] EXCEPT !.todo = Rest(k + 1)]>>
    BY <1>2, <1>4, <1>7, <2>1, Single DEF Proceed, Goes
  <2>3. [[request EXCEPT !.data = d] EXCEPT !.todo = Rest(k + 1)]
          = [request EXCEPT !.data = d, !.todo = Rest(k + 1)]
    OBVIOUS
  <2>4. QED  BY <1>2, <1>3, <1>4, <1>7, <2>2, <2>3 DEF Proceed, Goes, InitialEffect
<1>8. CASE QueryAddress(lost)
  <2> DEFINE d == [request.data EXCEPT !.A = query_dns("A", lost)]
  <2>1. k = 1 /\ step \notin Alias
    BY <1>4, <1>8, Names DEF QueryAddress
  <2>2. d \in RemoteData
    BY <1>5, <1>6, ZoneValues DEF RemoteData, query_dns
  <2>3. FoundBy(k, d, lost)
    BY <1>5, <2>1 DEF RemoteData, FoundBy
  <2>4. Proceed([request EXCEPT !.data = d], lost)
    BY <1>8, <1>2 DEF QueryAddress, InitialRequest, Found
  <2> HIDE DEF d
  <2>5. QED  BY <1>4, <1>7, <2>2, <2>3, <2>4
<1>9. CASE QueryAlias(lost)
  <2> DEFINE d == [request.data EXCEPT !.alias[step] = query_alias(step, request.data.A, lost)]
  <2>1. k \in {2, 3} /\ step \in Alias
    BY <1>4, <1>9, Names DEF QueryAlias
  <2>2. query_alias(step, request.data.A, lost) \in Value \cup {None}
    BY <2>1, <1>6, QueryAliasType
  <2>3. d \in RemoteData
    BY <1>5, <2>1, <2>2 DEF RemoteData
  <2>4. FoundBy(k, d, lost)
    BY <1>5, <2>1 DEF RemoteData, FoundBy
  <2>5. Proceed([request EXCEPT !.data = d], lost)
    BY <1>9, <1>2 DEF QueryAlias, InitialRequest, Found
  <2> HIDE DEF d
  <2>6. QED  BY <1>4, <1>7, <2>3, <2>4, <2>5
<1>10. CASE lost = {} /\ AccountUrl
  <2> DEFINE d == [request.data EXCEPT !.acme = host.acme]
  <2>1. k = 4 /\ step \notin Alias
    BY <1>4, <1>10, Names DEF AccountUrl
  <2>2. d \in RemoteData
    BY <1>5, <1>6 DEF RemoteData
  <2>3. FoundBy(k, d, lost)
    BY <1>5, <2>1 DEF RemoteData, FoundBy
  <2>4. Proceed([request EXCEPT !.data = d], lost)
    BY <1>10, <1>2 DEF AccountUrl, InitialRequest, Found
  <2> HIDE DEF d
  <2>5. QED  BY <1>4, <1>7, <2>2, <2>3, <2>4
<1>11. CASE lost = {} /\ DkimEntry
  <2> DEFINE d == [request.data EXCEPT !.dkim = get_dkim_entry]
  <2>1. k = 5 /\ step \notin Alias
    BY <1>4, <1>11, Names DEF DkimEntry
  <2>2. d \in RemoteData
    BY <1>5, <1>6 DEF RemoteData, get_dkim_entry
  <2>3. FoundBy(k, d, lost)
    BY <1>5, <2>1 DEF RemoteData, FoundBy
  <2>4. Proceed([request EXCEPT !.data = d], lost)
    BY <1>11, <1>2 DEF DkimEntry, InitialRequest, Found
  <2> HIDE DEF d
  <2>5. QED  BY <1>4, <1>7, <2>2, <2>3, <2>4
<1>12. CASE QueryStsId(lost)
  <2>1. k = 6 /\ step \notin Alias
    BY <1>4, <1>12, Names DEF QueryStsId
  <2>2. PICK s \in StsId \cup {None} :
          /\ s = IF /\ request.data.A # None /\ \A n \in Alias : request.data.alias[n] # None
                   /\ query_dns("_mta-sts", lost) \in StsId
                THEN query_dns("_mta-sts", lost) ELSE None
          /\ Proceed([request EXCEPT !.data.sts = s], lost)
    BY <1>12 DEF QueryStsId
  <2> DEFINE d == [request.data EXCEPT !.sts = s]
  <2>3. d \in RemoteData
    BY <1>5 DEF RemoteData
  <2>4. FoundBy(k, d, lost)
    <3>1. d.A = request.data.A /\ d.alias = request.data.alias /\ d.sts = s
          /\ d.acme = request.data.acme /\ d.dkim = request.data.dkim
      BY <1>5 DEF RemoteData
    <3> HIDE DEF d
    <3>2. QED  BY <2>1, <2>2, <3>1 DEF FoundBy
  <2>5. Proceed([request EXCEPT !.data = d], lost)
    BY <2>2, <1>2 DEF InitialRequest, Found
  <2> HIDE DEF d
  <2>6. QED  BY <1>4, <1>7, <2>3, <2>4, <2>5
<1>13. QED  BY <1>8, <1>9, <1>10, <1>11, <1>12 DEF InitialStep

LEMMA InitialStepType ==
    ASSUME TypeInv, NEW lost \in SUBSET Name, InitialStep(lost), events' \in 0..MaxEvents
    PROVE  TypeInv'
<1>1. PICK k \in 1..6, d \in RemoteData : InitialEffect(k, d, lost)
  BY InitialStepEffect
<1> DEFINE q == [request EXCEPT !.data = d, !.todo = Rest(k + 1)]
<1>2. k + 1 \in 1..7
  OBVIOUS
<1>3. q \in InitialRequest /\ q.fn = request.fn
  BY <1>1, <1>2 DEF InitialEffect, InitialRequest, Found
<1>4. requests # <<>>
  BY DEF InitialStep, QueryAddress, QueryAlias, AccountUrl, DkimEntry, QueryStsId, working
<1>5. requests' = <<q>> /\ unheard' = unheard \cup lost /\ UNCHANGED <<strict_tls, zone, host, answers, cmd, outcome, seen>>
  BY <1>1 DEF InitialEffect
<1> HIDE DEF q
<1>6. unheard' \subseteq Name
  BY <1>5 DEF TypeInv, States
<1>7. QED  BY <1>3, <1>4, <1>5, <1>6, ProceedType DEF Request

\* A step of check_zonefile
ZonefileStep(lost) == CompareLine(lost) \/ AliasAddress(lost) \/ CompareAlias(lost)

LEMMA ZonefileStepEffect ==
    ASSUME TypeInv, NEW lost, ZonefileStep(lost)
    PROVE  \E q \in ZonefileRequest :
             /\ request \in ZonefileRequest
             /\ request.todo # <<>> /\ step \in Record
             /\ Elements(request.todo) = {step} \cup Elements(Tail(request.todo))
             /\ requests' = <<q>> /\ q.data = request.data
             /\ \/ /\ AliasAddress(lost)
                   /\ q.todo = request.todo /\ q.diff = request.diff /\ q.address = query_dns("A", lost)
                \/ /\ CompareLine(lost)
                   /\ q.todo = Tail(request.todo) /\ q.address = request.address
                   /\ q.diff = IF query_dns(step.name, lost) = step.value THEN request.diff
                               ELSE request.diff \cup {step}
                \/ /\ CompareAlias(lost)
                   /\ q.todo = Tail(request.todo) /\ q.address = "unread"
                   /\ q.diff = IF query_alias(step.name, request.address, lost) = "target"
                                 THEN request.diff ELSE request.diff \cup {step}
             /\ unheard' = unheard \cup lost /\ UNCHANGED <<strict_tls, zone, host, answers, cmd, outcome, seen>>
<1>1. requests # <<>> /\ request.fn = "check_zonefile" /\ request.todo # <<>>
  BY DEF ZonefileStep, CompareLine, AliasAddress, CompareAlias, working, request
<1>2. request \in ZonefileRequest /\ requests = <<request>>
  BY <1>1, AtWork DEF TypeInv, Request, InitialRequest, Found
<1>3. request.todo \in Seq(Record)
  BY <1>2 DEF ZonefileRequest, Found
<1>4. /\ step \in Record /\ Tail(request.todo) \in Seq(Record)
      /\ Elements(request.todo) = {step} \cup Elements(Tail(request.todo))
  BY <1>1, <1>3, ElementsOfTail DEF step
<1>5. zone["A"] \in Address \cup {None}
  BY ZoneValues DEF TypeInv, States
<1>6. CASE AliasAddress(lost)
  <2>1. [request EXCEPT !.address = query_dns("A", lost)] \in ZonefileRequest
    BY <1>2, <1>5 DEF ZonefileRequest, Found, query_dns
  <2>2. requests' = <<[request EXCEPT !.address = query_dns("A", lost)]>>
    BY <1>2, <1>6, Single DEF AliasAddress, Goes
  <2>3. QED  BY <1>1, <1>2, <1>4, <1>6, <2>1, <2>2 DEF AliasAddress, Goes, ZonefileRequest, Found
<1>7. ASSUME NEW D \in SUBSET Record, NEW ad \in Address \cup {None, "unread"}, NEW r,
             r = [request EXCEPT !.address = ad, !.diff = D], Proceed(r, lost)
      PROVE  \E q \in ZonefileRequest :
               /\ requests' = <<q>> /\ q.data = request.data
               /\ q.todo = Tail(request.todo) /\ q.address = ad /\ q.diff = D
               /\ unheard' = unheard \cup lost /\ UNCHANGED <<strict_tls, zone, host, answers, cmd, outcome, seen>>
  <2> DEFINE q == [r EXCEPT !.todo = Tail(request.todo)]
  <2>1. r \in ZonefileRequest /\ r.todo = request.todo /\ r.data = request.data
        /\ r.address = ad /\ r.diff = D
    BY <1>2, <1>7 DEF ZonefileRequest, Found
  <2>2. q \in ZonefileRequest /\ q.data = request.data
        /\ q.todo = Tail(request.todo) /\ q.address = ad /\ q.diff = D
    BY <1>4, <2>1 DEF ZonefileRequest, Found
  <2>3. requests' = <<q>>
    BY <1>2, <1>7, <2>1, Single DEF Proceed, Goes
  <2>4. unheard' = unheard \cup lost /\ UNCHANGED <<strict_tls, zone, host, answers, cmd, outcome, seen>>
    BY <1>7 DEF Proceed, Goes
  <2> HIDE DEF q
  <2>5. QED  BY <2>2, <2>3, <2>4
<1>8. request.diff \in SUBSET Record /\ request.address \in Address \cup {None, "unread"}
  BY <1>2 DEF ZonefileRequest, Found
<1>9. CASE CompareLine(lost)
  <2> DEFINE D == IF query_dns(step.name, lost) = step.value THEN request.diff
                  ELSE request.diff \cup {step}
             r == IF query_dns(step.name, lost) = step.value THEN request
                  ELSE [request EXCEPT !.diff = @ \cup {step}]
  <2>1. D \in SUBSET Record
    BY <1>4, <1>8
  <2>2. r = [request EXCEPT !.address = request.address, !.diff = D]
    BY <1>2 DEF ZonefileRequest, Found
  <2>3. Proceed(r, lost)
    BY <1>9 DEF CompareLine
  <2> HIDE DEF D, r
  <2>4. PICK q \in ZonefileRequest :
               /\ requests' = <<q>> /\ q.data = request.data
               /\ q.todo = Tail(request.todo) /\ q.address = request.address /\ q.diff = D
               /\ unheard' = unheard \cup lost /\ UNCHANGED <<strict_tls, zone, host, answers, cmd, outcome, seen>>
    BY <1>7, <1>8, <2>1, <2>2, <2>3
  <2>5. QED  BY <1>1, <1>2, <1>4, <1>9, <2>4 DEF D
<1>10. CASE CompareAlias(lost)
  <2> DEFINE D == IF query_alias(step.name, request.address, lost) = "target"
                    THEN request.diff ELSE request.diff \cup {step}
             r == [request EXCEPT !.address = "unread", !.diff = D]
  <2>1. D \in SUBSET Record
    BY <1>4, <1>8
  <2>2. Proceed(r, lost)
    BY <1>10, <1>2 DEF CompareAlias, ZonefileRequest, Found
  <2> HIDE DEF D
  <2>3. r = [request EXCEPT !.address = "unread", !.diff = D]
    OBVIOUS
  <2> HIDE DEF r
  <2>4. PICK q \in ZonefileRequest :
               /\ requests' = <<q>> /\ q.data = request.data
               /\ q.todo = Tail(request.todo) /\ q.address = "unread" /\ q.diff = D
               /\ unheard' = unheard \cup lost /\ UNCHANGED <<strict_tls, zone, host, answers, cmd, outcome, seen>>
    BY <1>7, <2>1, <2>2, <2>3
  <2>5. QED  BY <1>1, <1>2, <1>4, <1>10, <2>4 DEF D
<1>11. QED  BY <1>6, <1>9, <1>10 DEF ZonefileStep

LEMMA ZonefileStepType ==
    ASSUME TypeInv, NEW lost \in SUBSET Name, ZonefileStep(lost), events' \in 0..MaxEvents
    PROVE  TypeInv'
<1>1. PICK q \in ZonefileRequest :
        /\ request \in ZonefileRequest /\ requests' = <<q>>
        /\ unheard' = unheard \cup lost /\ UNCHANGED <<strict_tls, zone, host, answers, cmd, outcome, seen>>
  BY ZonefileStepEffect
<1>2. q \in Request /\ q.fn = request.fn
  BY <1>1 DEF ZonefileRequest, Request, Found
<1>3. requests # <<>>
  BY DEF ZonefileStep, CompareLine, AliasAddress, CompareAlias, working
<1>4. unheard' \subseteq Name
  BY <1>1 DEF TypeInv, States
<1>5. QED  BY <1>1, <1>2, <1>3, <1>4, ProceedType

\* What a command that takes an answer finds.
LEMMA AnswerIs ==
    ASSUME Channel, answers # <<>>
    PROVE  /\ requests = <<>> /\ answers = <<Head(answers)>> /\ Tail(answers) = <<>>
           /\ Head(answers) \in AnswerType
           /\ cmd.at \in {"idle", "initial", "verify"}
BY Single DEF Channel, NoCall, CallUnderWay, CallAnswered

LEMMA EndsType ==
    ASSUME TypeInv, NEW says \in Says, NEW lines \in SUBSET Record, NEW ok \in BOOLEAN,
           Ends(says, lines, ok)
    PROVE  /\ cmd' \in CmdType /\ cmd'.at = "idle" /\ cmd'.do = cmd.do
           /\ outcome' \in [says : Says, lines : SUBSET Record, ok : BOOLEAN]
<1>1. cmd.do \in {"run", "dns"}
  BY DEF TypeInv, States, CmdType
<1>2. cmd' = [at |-> "idle", do |-> cmd.do, opts |-> {}, data |-> None]
  BY DEF Ends, Start
<1>3. cmd' \in CmdType /\ cmd'.at = "idle" /\ cmd'.do = cmd.do
  BY <1>1, <1>2 DEF CmdType
<1>4. outcome' = [says |-> says, lines |-> lines, ok |-> ok]
  BY DEF Ends
<1>5. outcome' \in [says : Says, lines : SUBSET Record, ok : BOOLEAN]
  BY <1>4
<1>6. QED  BY <1>3, <1>5

LEMMA AnswerTaken ==
    ASSUME TypeInv, answers # <<>>, requests' = requests, answers' = Tail(answers),
           cmd'.at \in {"idle", "deploy"}
    PROVE  Channel'
BY AnswerIs DEF TypeInv, Channel, NoCall

LEMMA FinishType == TypeInv /\ (Finish \/ Raises) => TypeInv'
<1> SUFFICES ASSUME TypeInv, Finish \/ Raises PROVE TypeInv'
  OBVIOUS
<1>1. requests # <<>> /\ (\E failed \in BOOLEAN : Answer(failed)) /\ events' \in 0..MaxEvents
  <2>1. requests # <<>> /\ (UNCHANGED events \/ Event)
    BY DEF Finish, Raises
  <2>2. events' \in 0..MaxEvents
    BY <2>1, BoundAssumption DEF Event, TypeInv, States
  <2>3. Answer(FALSE) \/ Answer(TRUE)
    BY DEF Finish, Raises
  <2>4. QED  BY <2>1, <2>2, <2>3
<1>2. PICK failed \in BOOLEAN : Answer(failed)
  BY <1>1
<1>3. /\ request \in Request /\ requests = <<request>> /\ answers = <<>>
      /\ cmd.at = "idle" \/ awaited(request.fn)
  BY <1>1, AtWork DEF TypeInv
<1> DEFINE a == [failed |-> failed, data |-> request.data, diff |-> request.diff]
<1>4. a \in AnswerType
  BY <1>3 DEF Request, InitialRequest, ZonefileRequest, Found, AnswerType
<1>5. requests' = <<>> /\ answers' = <<a>>
  BY <1>2, <1>3, Single DEF Answer
<1>6. UNCHANGED <<strict_tls, zone, host, cmd, outcome, seen, unheard>>
  BY <1>2 DEF Answer
<1> HIDE DEF a
<1>7. CallAnswered'
  BY <1>3, <1>4, <1>5, <1>6 DEF CallAnswered, awaited
<1>8. QED  BY <1>1, <1>6, <1>7 DEF TypeInv, States, Channel

LEMMA CallType ==
    ASSUME TypeInv, NEW do \in {"run", "dns"}, NEW opts \in SUBSET Option, Call(do, opts),
           UNCHANGED <<strict_tls, zone, host, outcome>>, events' \in 0..MaxEvents
    PROVE  TypeInv'
<1>1. initial_checks \in InitialRequest
      /\ initial_checks.fn = "perform_initial_checks"
  <2>1. Rest(1) = <<"A", "mta-sts", "www", "acme", "dkim", "_mta-sts">> /\ 1 \in 1..7
    BY DEF Rest
  <2>2. QED  BY <2>1, NoDataType DEF initial_checks, InitialRequest, Found
<1>2. CASE "skip_dns_check" \in opts
  <2>1. /\ cmd' = [at |-> "deploy", do |-> do, opts |-> opts, data |-> None]
        /\ requests' = <<>> /\ answers' = <<>> /\ seen' = {zone} /\ unheard' = {}
    BY <1>2 DEF Call
  <2>2. QED  BY <1>2, <2>1 DEF TypeInv, States, Channel, NoCall, CmdType
<1>3. CASE "skip_dns_check" \notin opts
  <2>1. /\ cmd' = [at |-> "initial", do |-> do, opts |-> opts, data |-> None]
        /\ requests' = <<initial_checks>> /\ answers' = <<>> /\ seen' = {zone} /\ unheard' = {}
    BY <1>3 DEF Call
  <2>2. CallUnderWay'
    BY <1>1, <2>1 DEF CallUnderWay, awaited, Request
  <2>3. States'
    BY <2>1 DEF TypeInv, States, CmdType
  <2>4. QED  BY <2>2, <2>3 DEF TypeInv, Channel
<1>4. QED  BY <1>2, <1>3

\* The four ways to go on after perform_initial_checks
CheckedEnds(data) ==
    \/ Ends("missing", check_initial(data), FALSE)
    \/ Ends("please run", {}, FALSE)
    \/ \E lines \in SUBSET Record : Ends("written", lines, TRUE)

Deploys(data) ==
    /\ check_initial(data) = {} /\ cmd.do = "run"
    /\ cmd' = [cmd EXCEPT !.at = "deploy", !.data = data]
    /\ UNCHANGED <<requests, outcome>>

Verifies(data) ==
    /\ check_initial(data) = {} /\ cmd.do = "dns" /\ (strict_tls => data.acme)
    /\ cmd' = [cmd EXCEPT !.at = "verify", !.data = data]
    /\ \E id \in sts_id(data) :
         id \in StsId /\ requests' = <<zonefile_check(get_filled_zone_file(data, id))>>
    /\ UNCHANGED outcome

LEMMA CheckedCases ==
    ASSUME TypeInv, Checked
    PROVE  LET data == Head(answers).data
           IN /\ data \in RemoteData /\ cmd.at = "initial"
              /\ requests = <<>> /\ answers' = <<>>
              /\ (CheckedEnds(data) /\ requests' = <<>>) \/ Deploys(data) \/ Verifies(data)
              /\ UNCHANGED <<strict_tls, zone, host, seen, unheard, events>>
<1> DEFINE data == Head(answers).data
           missing == check_initial(data)
<1>1. answers # <<>> /\ cmd.at = "initial" /\ answers' = Tail(answers)
  BY DEF Checked, waits
<1>2. data \in RemoteData /\ requests = <<>> /\ answers' = <<>>
  BY <1>1, AnswerIs DEF TypeInv, AnswerType
<1>3. missing \in SUBSET Record
  BY <1>2, CheckType
<1>4. /\ UNCHANGED <<strict_tls, zone, host, seen, unheard, events>>
      /\ \/ /\ missing # {}
            /\ Ends("missing", missing, FALSE)
            /\ UNCHANGED requests
         \/ /\ missing = {} /\ cmd.do = "run"
            /\ cmd' = [cmd EXCEPT !.at = "deploy", !.data = data]
            /\ UNCHANGED <<requests, outcome>>
         \/ /\ missing = {} /\ cmd.do = "dns" /\ strict_tls /\ ~data.acme
            /\ Ends("please run", {}, FALSE)
            /\ UNCHANGED requests
         \/ /\ missing = {} /\ cmd.do = "dns" /\ (strict_tls => data.acme)
            /\ \E id \in sts_id(data) :
                 LET zonefile == get_filled_zone_file(data, id)
                     lines == {zonefile[i] : i \in DOMAIN zonefile}
                 IN \/ /\ "zonefile" \in cmd.opts
                       /\ Ends("written", lines, TRUE)
                       /\ UNCHANGED requests
                    \/ /\ "zonefile" \notin cmd.opts
                       /\ cmd' = [cmd EXCEPT !.at = "verify", !.data = data]
                       /\ requests' = Append(requests, zonefile_check(zonefile))
                       /\ UNCHANGED outcome
  BY DEF Checked
<1>5. CASE missing # {} /\ Ends("missing", missing, FALSE) /\ UNCHANGED requests
  BY <1>1, <1>2, <1>3, <1>4, <1>5 DEF CheckedEnds
<1>6. CASE /\ missing = {} /\ cmd.do = "run"
           /\ cmd' = [cmd EXCEPT !.at = "deploy", !.data = data]
           /\ UNCHANGED <<requests, outcome>>
  BY <1>1, <1>2, <1>4, <1>6 DEF Deploys
<1>7. CASE Ends("please run", {}, FALSE) /\ UNCHANGED requests
  BY <1>1, <1>2, <1>4, <1>7 DEF CheckedEnds
<1>8. ASSUME missing = {}, cmd.do = "dns", strict_tls => data.acme, NEW id \in sts_id(data),
             LET zonefile == get_filled_zone_file(data, id)
                 lines == {zonefile[i] : i \in DOMAIN zonefile}
             IN \/ /\ "zonefile" \in cmd.opts
                   /\ Ends("written", lines, TRUE)
                   /\ UNCHANGED requests
                \/ /\ "zonefile" \notin cmd.opts
                   /\ cmd' = [cmd EXCEPT !.at = "verify", !.data = data]
                   /\ requests' = Append(requests, zonefile_check(zonefile))
                   /\ UNCHANGED outcome
      PROVE  (CheckedEnds(data) /\ requests' = <<>>) \/ Verifies(data)
  <2>1. id \in StsId
    BY <1>2, <1>8 DEF sts_id, RemoteData
  <2>2. data.A # None
    BY <1>8 DEF check_initial
  <2>3. get_filled_zone_file(data, id) \in Seq(Record) /\ strict_tls \in BOOLEAN
    BY <1>2, <2>1, <2>2, ZoneFileLines DEF TypeInv, States
  <2>4. Elements(get_filled_zone_file(data, id)) \in SUBSET Record
    BY <2>3, ElementOfSeq, LenProperties DEF Elements
  <2>5. CASE "zonefile" \in cmd.opts
    BY <1>2, <1>8, <2>4, <2>5 DEF CheckedEnds, Elements
  <2>6. CASE "zonefile" \notin cmd.opts
    <3>1. requests' = <<zonefile_check(get_filled_zone_file(data, id))>>
      BY <1>2, <1>8, <2>6, Single
    <3>2. QED  BY <1>8, <2>1, <2>6, <3>1 DEF Verifies
  <2>7. QED  BY <2>5, <2>6
<1>9. QED  BY <1>1, <1>2, <1>4, <1>5, <1>6, <1>7, <1>8

LEMMA EndedType ==
    ASSUME TypeInv, NEW says \in Says, NEW lines \in SUBSET Record, NEW ok \in BOOLEAN,
           Ends(says, lines, ok), Channel',
           UNCHANGED <<strict_tls, zone, seen, unheard>>,
           host' \in [dkim : BOOLEAN, acme : BOOLEAN], events' \in 0..MaxEvents
    PROVE  TypeInv'
BY EndsType DEF TypeInv, States

LEMMA CheckedType == TypeInv /\ Checked => TypeInv'
<1> SUFFICES ASSUME TypeInv, Checked PROVE TypeInv'
  OBVIOUS
<1> DEFINE data == Head(answers).data
<1>1. /\ data \in RemoteData /\ cmd.at = "initial"
      /\ requests = <<>> /\ answers' = <<>>
      /\ (CheckedEnds(data) /\ requests' = <<>>) \/ Deploys(data) \/ Verifies(data)
      /\ UNCHANGED <<strict_tls, zone, host, seen, unheard, events>>
  BY CheckedCases
<1> HIDE DEF data
<1>2. host' \in [dkim : BOOLEAN, acme : BOOLEAN] /\ events' \in 0..MaxEvents
  BY <1>1 DEF TypeInv, States
<1>3. CASE CheckedEnds(data) /\ requests' = <<>>
  <2>1. cmd'.at = "idle"
    BY <1>3 DEF CheckedEnds, Ends, Start
  <2>2. Channel'
    BY <1>1, <1>3, <2>1 DEF Channel, NoCall
  <2>3. \E says \in Says, lines \in SUBSET Record, ok \in BOOLEAN : Ends(says, lines, ok)
    BY <1>1, <1>3, CheckType DEF CheckedEnds, Says
  <2>4. QED  BY <1>1, <1>2, <2>2, <2>3, EndedType
<1>4. CASE Deploys(data)
  <2>1. cmd' \in CmdType /\ cmd'.at = "deploy" /\ cmd'.data = data
    BY <1>1, <1>4 DEF Deploys, TypeInv, States, CmdType
  <2>2. QED  BY <1>1, <1>4, <2>1 DEF Deploys, TypeInv, States, Channel, NoCall
<1>5. CASE Verifies(data)
  <2>1. /\ cmd' \in CmdType /\ cmd'.at = "verify" /\ cmd'.do = "dns"
        /\ cmd'.data = data
    <3>1. cmd \in CmdType /\ cmd.do = "dns"
          /\ cmd' = [cmd EXCEPT !.at = "verify", !.data = data]
      BY <1>5 DEF Verifies, TypeInv, States
    <3>2. cmd' = [at |-> "verify", do |-> "dns", opts |-> cmd.opts, data |-> data]
      BY <3>1 DEF CmdType
    <3>3. cmd.opts \in SUBSET Option
      BY <3>1 DEF CmdType
    <3>4. QED  BY <1>1, <3>2, <3>3 DEF CmdType
  <2>2. PICK id \in StsId : requests' = <<zonefile_check(get_filled_zone_file(data, id))>>
    BY <1>5 DEF Verifies
  <2>3. data.A # None
    BY <1>5 DEF Verifies, check_initial
  <2>4. get_filled_zone_file(data, id) \in Seq(Record)
    BY <1>1, <2>3, ZoneFileLines DEF TypeInv, States
  <2>5. zonefile_check(get_filled_zone_file(data, id)) \in ZonefileRequest
        /\ zonefile_check(get_filled_zone_file(data, id)).fn = "check_zonefile"
    BY <2>4, NoDataType DEF zonefile_check, ZonefileRequest, Found
  <2>6. CallUnderWay'
    BY <1>1, <2>1, <2>2, <2>5 DEF CallUnderWay, awaited, Request
  <2>7. States'
    BY <1>1, <1>5, <2>1 DEF Verifies, TypeInv, States
  <2>8. QED  BY <2>6, <2>7 DEF TypeInv, Channel
<1>6. QED  BY <1>1, <1>3, <1>4, <1>5

LEMMA AnsweredType == TypeInv /\ (Verified \/ Failed \/ TimesOut) => TypeInv'
<1> SUFFICES ASSUME TypeInv, Verified \/ Failed \/ TimesOut PROVE TypeInv'
  OBVIOUS
<1>1. host' \in [dkim : BOOLEAN, acme : BOOLEAN] /\ UNCHANGED <<strict_tls, zone, seen, unheard>>
  BY DEF Verified, Failed, TimesOut, TypeInv, States
<1>2. CASE Verified
  <2>1. answers # <<>> /\ answers' = Tail(answers) /\ UNCHANGED <<requests, events>>
    BY <1>2 DEF Verified, waits
  <2>2. Head(answers).diff \in SUBSET Record
    BY <2>1, AnswerIs DEF TypeInv, AnswerType
  <2> DEFINE diff == Head(answers).diff
             ok == \A l \in diff : l.name \in Recommended
             says == IF diff = {} THEN "correct" ELSE "unset"
  <2>3. Ends(says, diff, ok) /\ says \in Says /\ ok \in BOOLEAN
    BY <1>2 DEF Verified, Says
  <2>4. cmd'.at = "idle"
    BY <2>3 DEF Ends, Start
  <2>5. Channel' /\ events' \in 0..MaxEvents
    BY <2>1, <2>4, AnswerTaken DEF TypeInv, States
  <2> HIDE DEF says, diff, ok
  <2>6. diff \in SUBSET Record
    BY <2>2 DEF diff
  <2>7. QED  BY <1>1, <2>3, <2>5, <2>6, EndedType
<1>3. CASE Failed
  <2>1. answers # <<>> /\ answers' = Tail(answers) /\ UNCHANGED <<requests, events>>
        /\ Ends("raised", {}, FALSE)
    BY <1>3 DEF Failed
  <2>2. cmd'.at = "idle"
    BY <2>1 DEF Ends, Start
  <2>3. Channel' /\ events' \in 0..MaxEvents
    BY <2>1, <2>2, AnswerTaken DEF TypeInv, States
  <2>4. QED  BY <1>1, <2>1, <2>3, EndedType DEF Says
<1>4. CASE TimesOut
  <2>1. Event /\ Ends("raised", {}, FALSE) /\ UNCHANGED <<requests, answers>>
    BY <1>4 DEF TimesOut, channel
  <2>2. cmd'.at = "idle"
    BY <2>1 DEF Ends, Start
  <2>3. Channel'
    BY <2>1, <2>2 DEF TypeInv, Channel, NoCall, CallUnderWay, CallAnswered
  <2>4. events' \in 0..MaxEvents
    BY <2>1, BoundAssumption DEF Event, TypeInv, States
  <2>5. QED  BY <1>1, <2>1, <2>3, <2>4, EndedType DEF Says
<1>5. QED  BY <1>2, <1>3, <1>4

LEMMA DeployType == TypeInv /\ (Deploy \/ DeployFails) => TypeInv'
<1> SUFFICES ASSUME TypeInv, Deploy \/ DeployFails PROVE TypeInv'
  OBVIOUS
<1>1. cmd.at = "deploy" /\ UNCHANGED <<strict_tls, zone, seen, unheard, requests, answers>>
  BY DEF Deploy, DeployFails, channel
<1>2. host \in [dkim : BOOLEAN, acme : BOOLEAN] /\ strict_tls \in BOOLEAN
  BY DEF TypeInv, States
<1>3. host' \in [dkim : BOOLEAN, acme : BOOLEAN]
  <2>1. [dkim |-> TRUE, acme |-> host.acme \/ strict_tls] \in [dkim : BOOLEAN, acme : BOOLEAN]
    OBVIOUS
  <2>2. [host EXCEPT !.dkim = TRUE] \in [dkim : BOOLEAN, acme : BOOLEAN]
    BY <1>2
  <2>3. QED  BY <1>2, <2>1, <2>2 DEF Deploy, DeployFails, Deployed
<1>4. \E says \in Says, ok \in BOOLEAN : Ends(says, {}, ok)
  BY DEF Deploy, DeployFails, Says
<1>5. cmd'.at = "idle"
  BY <1>4 DEF Ends, Start
<1>6. Channel'
  BY <1>1, <1>5 DEF TypeInv, Channel, NoCall, CallUnderWay, CallAnswered
<1>7. events' \in 0..MaxEvents
  <2>1. UNCHANGED events \/ Event
    BY DEF Deploy, DeployFails
  <2>2. QED  BY <2>1, BoundAssumption DEF Event, TypeInv, States
<1>8. QED  BY <1>1, <1>3, <1>4, <1>6, <1>7, EndedType

LEMMA OperatorType ==
    ASSUME TypeInv,
           \/ SetRecords \/ Follow
           \/ \E do \in {"run", "dns"}, opts \in {{}} \cup {{o} : o \in Option} : Detour(do, opts)
           \/ \E n \in Name, v \in Value \cup {None} : Edit(n, v)
    PROVE  TypeInv'
<1>1. CASE SetRecords
  <2>1. zone' \in Zone
    BY <1>1, SetType DEF SetRecords, TypeInv, States
  <2>2. outcome' \in [says : Says, lines : SUBSET Record, ok : BOOLEAN]
    BY <1>1 DEF SetRecords, TypeInv, States, Says
  <2>3. QED  BY <1>1, <2>1, <2>2 DEF SetRecords, channel, TypeInv, States, Channel, NoCall,
               CallUnderWay, CallAnswered, awaited
<1>2. CASE Follow
  <2>1. cmd.do \in {"run", "dns"} /\ events \in 0..MaxEvents
    BY DEF TypeInv, States, CmdType
  <2>2. \E do \in {"run", "dns"} : Call(do, {})
    BY <1>2, <2>1 DEF Follow
  <2>3. QED  BY <1>2, <2>1, <2>2, CallType DEF Follow
<1>3. ASSUME NEW do \in {"run", "dns"}, NEW opts \in {{}} \cup {{o} : o \in Option}, Detour(do, opts)
      PROVE  TypeInv'
  <2>1. events' \in 0..MaxEvents
    BY <1>3, BoundAssumption DEF Detour, Event, TypeInv, States
  <2>2. opts \in SUBSET Option /\ Call(do, opts) /\ UNCHANGED <<strict_tls, zone, host, outcome>>
    BY <1>3 DEF Detour
  <2>3. QED  BY <2>1, <2>2, CallType
<1>4. ASSUME NEW n \in Name, NEW v \in Value \cup {None}, Edit(n, v) PROVE TypeInv'
  <2>1. zone' \in Zone
    BY <1>4, ValuesOf DEF Edit, TypeInv, States, Zone
  <2>2. events' \in 0..MaxEvents
    BY <1>4, BoundAssumption DEF Edit, Event, TypeInv, States
  <2>3. seen' \subseteq Zone
    BY <1>4, <2>1 DEF Edit, TypeInv, States
  <2>4. UNCHANGED <<strict_tls, host, requests, answers, cmd, outcome, unheard>>
    BY <1>4 DEF Edit, channel
  <2>5. QED  BY <2>1, <2>2, <2>3, <2>4 DEF TypeInv, States, Channel, NoCall, CallUnderWay,
               CallAnswered, awaited
<1>5. QED  BY <1>1, <1>2, <1>3, <1>4

LEMMA StutterType == TypeInv /\ UNCHANGED vars => TypeInv'
BY DEF vars, channel, TypeInv, States, Channel, NoCall, CallUnderWay, CallAnswered, awaited

\* The remote function goes on, whether its queries are answered or not.
RemoteStep == \E lost \in SUBSET Name : InitialStep(lost) \/ ZonefileStep(lost)

LEMMA RemoteSteps ==
    ASSUME TypeInv
    PROVE  /\ Remote => RemoteStep \/ Finish
           /\ Unanswered => RemoteStep
           /\ Remote \/ Unanswered => events' \in 0..MaxEvents
<1>1. ASSUME NEW lost \in SUBSET Name, Query(lost) PROVE RemoteStep
  BY <1>1 DEF Query, InitialStep, ZonefileStep, RemoteStep
<1>2. Remote => RemoteStep \/ Finish
  BY <1>1 DEF Remote, InitialStep, RemoteStep
<1>3. Unanswered => RemoteStep
  BY <1>1 DEF Unanswered
<1>4. Remote \/ Unanswered => events' \in 0..MaxEvents
  <2>1. Remote \/ Unanswered => UNCHANGED events \/ Event
    BY DEF Remote, Finish, Unanswered
  <2>2. QED  BY <2>1, BoundAssumption DEF Event, TypeInv, States
<1>5. QED  BY <1>2, <1>3, <1>4

LEMMA TypeNext == TypeInv /\ [Next]_vars => TypeInv'
BY RemoteSteps, InitialStepType, ZonefileStepType, FinishType, CheckedType, AnsweredType, DeployType,
   OperatorType, StutterType DEF Next, Command, RemoteStep

LEMMA TypeInvariant == Spec => []TypeInv
BY TypeInit, TypeNext, PTL DEF Spec

LEMMA TypeInvImplies == TypeInv => TypeOK
<1> SUFFICES ASSUME TypeInv PROVE TypeOK
  OBVIOUS
<1>1. Record \subseteq Line
  BY DEF Record
<1>2. /\ Len(requests) <= 1
      /\ \A i \in DOMAIN requests : requests[i].data \in RemoteData /\ requests[i].diff \subseteq Line
  <2>1. requests = <<>> \/ \E r \in Request : requests = <<r>>
    BY DEF TypeInv, Channel, NoCall, CallUnderWay, CallAnswered
  <2>2. ASSUME NEW r \in Request PROVE r.data \in RemoteData /\ r.diff \subseteq Line
    BY <1>1 DEF Request, InitialRequest, ZonefileRequest, Found
  <2>3. CASE requests = <<>>
    BY <2>3, Single
  <2>4. CASE \E r \in Request : requests = <<r>>
    <3>1. PICK r \in Request : requests = <<r>>
      BY <2>4
    <3>2. Len(requests) = 1 /\ \A i \in DOMAIN requests : requests[i] = r
      BY <3>1, Single
    <3>3. QED  BY <2>2, <3>2
  <2>5. QED  BY <2>1, <2>3, <2>4
<1>3. answers = <<>> \/ \E a \in AnswerType : answers = <<a>>
  BY DEF TypeInv, Channel, NoCall, CallUnderWay, CallAnswered
<1>4. /\ Len(answers) <= 1
      /\ \A i \in DOMAIN answers :
           answers[i].data \in RemoteData /\ answers[i].diff \subseteq Line /\ answers[i].failed \in BOOLEAN
  <2>1. ASSUME NEW a \in AnswerType
        PROVE  a.data \in RemoteData /\ a.diff \subseteq Line /\ a.failed \in BOOLEAN
    BY <1>1 DEF AnswerType
  <2>2. CASE answers = <<>>
    BY <2>2, Single
  <2>3. CASE \E a \in AnswerType : answers = <<a>>
    <3>1. PICK a \in AnswerType : answers = <<a>>
      BY <2>3
    <3>2. Len(answers) = 1 /\ \A i \in DOMAIN answers : answers[i] = a
      BY <3>1, Single
    <3>3. QED  BY <2>1, <3>2
  <2>4. QED  BY <1>3, <2>2, <2>3
<1>6. outcome \in [says : Says, lines : SUBSET Line, ok : BOOLEAN]
  BY <1>1 DEF TypeInv, States
<1>7. QED  BY <1>2, <1>4, <1>6 DEF TypeInv, States, TypeOK, CmdType

\* Every state of commands, channel and zone is well formed.
THEOREM CmdeployTypes == Spec => []TypeOK
BY TypeInvariant, TypeInvImplies, PTL

-----------------------------------------------------------------------------
(* What a command knows is what has been: the zone was read record by record, *)
(* and each record that is found right was right in a zone since the command  *)
(* began.                                                                    *)

SeenGood(n) == \E z \in seen : Good(n, z)

\* An address was that of the domain, or there was no answer for it.
Known(address) == (\E y \in seen : y["A"] = address) \/ (address = None /\ "A" \in unheard)
AddressRead(address) == address # "unread" => Known(address)

\* What perform_initial_checks has established before its k-th step
InitialFacts(d, k) ==
    /\ k > 1 => Known(d.A)
    /\ k > 2 /\ d.alias["mta-sts"] = "target" => SeenGood("mta-sts")
    /\ k > 3 /\ d.alias["www"] = "target" => SeenGood("www")
    /\ k > 4 => d.acme = host.acme
    /\ k > 5 => d.dkim = get_dkim_entry

\* What check_zonefile has established with these lines left and that diff:
\* each record is good, or it is reported or still to be compared with a line
\* that only a good record matches.
ZonefileFacts(left, diff) ==
    /\ \A l \in left : \A z \in Zone : z[l.name] = l.value => Good(l.name, z)
    /\ \A n \in Needed \cup Recommended :
         SeenGood(n) \/ \E l \in left \cup diff : l.name = n

KeyHeld == host.acme => host.dkim
ZoneSeen == cmd.at # "idle" => zone \in seen

InitialKnown ==
    cmd.at = "initial" =>
      /\ requests # <<>> =>
           \E k \in 1..7 : request.todo = Rest(k) /\ InitialFacts(request.data, k)
      /\ answers # <<>> /\ ~Head(answers).failed => InitialFacts(Head(answers).data, 7)

ZonefileKnown ==
    cmd.at = "verify" =>
      /\ strict_tls => host.acme
      /\ requests # <<>> =>
           ZonefileFacts(Elements(request.todo), request.diff) /\ AddressRead(request.address)
      /\ answers # <<>> /\ ~Head(answers).failed => ZonefileFacts({}, Head(answers).diff)

HistoryInv ==
    KeyHeld /\ ZoneSeen /\ InitialKnown /\ ZonefileKnown /\ DeployedWithDns /\ VerifiedWasRight

LEMMA GoodIs ==
    ASSUME NEW z
    PROVE  /\ Good("A", z) <=> z["A"] # None
           /\ \A n \in Alias : Good(n, z) <=>
                z[n] = "target" \/ (z[n] # None /\ \E y \in seen : z[n] = y["A"])
           /\ Good("_mta-sts", z) <=> z["_mta-sts"] \in StsId
           /\ Good("dkim", z) <=> z["dkim"] = get_dkim_entry
           /\ Good("CAA", z) <=> (host.acme => z["CAA"] = "right")
           /\ \A n \in {"MX", "spf"} : Good(n, z) <=> z[n] = "right"
<1>1. \A n \in Alias : Good(n, z) <=>
                z[n] = "target" \/ (z[n] # None /\ \E y \in seen : z[n] = y["A"])
  BY DEF Good, Alias
<1>2. QED  BY <1>1 DEF Good, Alias

\* Nothing that was right since the command began ceases to have been.
LEMMA SeenGrows ==
    ASSUME seen \subseteq seen', UNCHANGED <<strict_tls, host>>, NEW n \in Name, SeenGood(n)
    PROVE  SeenGood(n)'
<1>1. PICK z \in seen : Good(n, z)
  BY DEF SeenGood
<1>2. z \in seen' /\ Good(n, z)'
  BY <1>1 DEF Good, get_dkim_entry
<1>3. QED  BY <1>2 DEF SeenGood

LEMMA FactsGrow ==
    ASSUME seen \subseteq seen', unheard \subseteq unheard', UNCHANGED <<strict_tls, host>>
    PROVE  /\ \A d, k : InitialFacts(d, k) => InitialFacts(d, k)'
           /\ \A left \in SUBSET Record : \A diff :
                ZonefileFacts(left, diff) => ZonefileFacts(left, diff)'
           /\ \A address : Known(address) => Known(address)'
           /\ \A address : AddressRead(address) => AddressRead(address)'
<1>1. \A n \in Name : SeenGood(n) => SeenGood(n)'
  BY SeenGrows
<1>2. \A address : Known(address) => Known(address)'
  BY DEF Known
<1>6. ASSUME NEW d, NEW k, InitialFacts(d, k) PROVE InitialFacts(d, k)'
  BY <1>1, <1>2, <1>6, Names DEF InitialFacts, get_dkim_entry
<1>3. ASSUME NEW left \in SUBSET Record, NEW diff, ZonefileFacts(left, diff)
      PROVE  ZonefileFacts(left, diff)'
  <2>1. \A n \in Name : \A z : Good(n, z) => Good(n, z)'
    BY DEF Good, get_dkim_entry
  <2>2. \A l \in left : l.name \in Name
    BY DEF Record, Line
  <2>3. Needed' = Needed /\ Needed \cup Recommended \subseteq Name
    BY Names DEF Needed, Recommended
  <2>4. QED  BY <1>1, <1>3, <2>1, <2>2, <2>3 DEF ZonefileFacts
<1>4. ASSUME NEW address, AddressRead(address) PROVE AddressRead(address)'
  BY <1>2, <1>4 DEF AddressRead
<1>5. QED  BY <1>2, <1>3, <1>4, <1>6

LEMMA RestInjective ==
    ASSUME NEW j \in 1..7, NEW k \in 1..6, Rest(j) = Rest(k) PROVE j = k
<1>1. Rest(k) # <<>> /\ k \in 1..7
  <2>1. Rest(k) # <<>>
    BY RestSteps, Zenon
  <2>2. QED  BY <2>1
<1>2. Rest(j) # <<>>
  BY <1>1
<1> DEFINE next == Head(Rest(k))
<1>3. next = Head(Rest(j))
  OBVIOUS
<1>4. \/ k = 1 /\ next = "A"
      \/ k = 2 /\ next = "mta-sts"
      \/ k = 3 /\ next = "www"
      \/ k = 4 /\ next = "acme"
      \/ k = 5 /\ next = "dkim"
      \/ k = 6 /\ next = "_mta-sts"
  BY <1>1, RestIs
<1> HIDE DEF next
<1>5. \/ j = 1 /\ next = "A"
      \/ j = 2 /\ next = "mta-sts"
      \/ j = 3 /\ next = "www"
      \/ j = 4 /\ next = "acme"
      \/ j = 5 /\ next = "dkim"
      \/ j = 6 /\ next = "_mta-sts"
  BY <1>2, <1>3, RestIs
<1>6. QED  BY <1>4, <1>5

LEMMA CheckPassed ==
    ASSUME NEW data, check_initial(data) = {}
    PROVE  /\ data.A # None
           /\ strict_tls => \A n \in Alias : data.alias[n] = "target"
BY Names DEF check_initial

LEMMA AliasGood ==
    ASSUME NEW n \in Alias, NEW address, NEW lost, zone \in Zone, zone \in seen,
           Known(address), query_alias(n, address, lost) = "target"
    PROVE  SeenGood(n)
<1>1. zone[n] = "target" \/ (zone[n] \in Address /\ zone[n] = address)
  <2>1. None # "target" /\ None \notin {"target", "elsewhere"} \cup Address
    BY NoneAssumption, ValuesOf, Names
  <2>2. query_dns(n, lost) \in {zone[n], None}
    BY DEF query_dns
  <2>3. query_dns(n, lost) = "target" \/ (query_dns(n, lost) \in Address /\ query_dns(n, lost) = address)
    BY <2>1 DEF query_alias
  <2>4. QED  BY <2>1, <2>2, <2>3
<1>2. zone[n] \in Address => zone[n] # None
  BY NoneAssumption, ValuesOf, Names
<1>3. zone[n] = "target" \/ (zone[n] # None /\ \E y \in seen : zone[n] = y["A"])
  BY <1>1, <1>2 DEF Known
<1>4. Good(n, zone)
  BY <1>3, GoodIs
<1>5. QED  BY <1>4 DEF SeenGood

LEMMA HistoryInit == Init => HistoryInv
BY DEF Init, HistoryInv, KeyHeld, ZoneSeen, InitialKnown, ZonefileKnown, DeployedWithDns,
   VerifiedWasRight, Start

\* A step that leaves everything alone but the channel
LEMMA QuietStep ==
    ASSUME HistoryInv, UNCHANGED <<strict_tls, zone, host, cmd, outcome, seen>>,
           InitialKnown', ZonefileKnown'
    PROVE  HistoryInv'
BY DEF HistoryInv, KeyHeld, ZoneSeen, DeployedWithDns, VerifiedWasRight, Good, Needed, get_dkim_entry

\* The steps of the remote functions, by what they make of the facts
LEMMA InitialStepHistory ==
    ASSUME TypeInv, HistoryInv, NEW lost \in SUBSET Name, InitialStep(lost)
    PROVE  HistoryInv'
<1>1. PICK k \in 1..6, d \in RemoteData : InitialEffect(k, d, lost)
  BY InitialStepEffect
<1> DEFINE q == [request EXCEPT !.data = d, !.todo = Rest(k + 1)]
<1>2. requests # <<>>
  BY DEF InitialStep, QueryAddress, QueryAlias, AccountUrl, DkimEntry, QueryStsId, working
<1>3. /\ answers = <<>>
      /\ cmd.at = "idle" \/ awaited(request.fn)
  BY <1>2, AtWork DEF TypeInv
<1>4. requests' = <<q>> /\ request' = q
      /\ unheard' = unheard \cup lost /\ UNCHANGED <<strict_tls, zone, host, answers, cmd, outcome, seen>>
  BY <1>1, Single DEF InitialEffect, request
<1>5. request \in InitialRequest /\ request.fn = "perform_initial_checks"
      /\ q.data = d /\ q.todo = Rest(k + 1)
  BY <1>1 DEF InitialEffect, InitialRequest, Found
<1> HIDE DEF q
<1>6. CASE cmd.at = "idle"
  BY <1>4, <1>6, QuietStep DEF InitialKnown, ZonefileKnown
<1>7. CASE cmd.at = "initial"
  <2>1. InitialFacts(request.data, k)
    <3>1. PICK j \in 1..7 : request.todo = Rest(j) /\ InitialFacts(request.data, j)
      BY <1>2, <1>7 DEF HistoryInv, InitialKnown
    <3>2. j = k
      BY <1>1, <3>1, RestInjective DEF InitialEffect
    <3>3. QED  BY <3>1, <3>2
  <2>2. zone \in seen /\ zone \in Zone
    BY <1>7 DEF HistoryInv, ZoneSeen, TypeInv, States
  <2>3. FoundBy(k, d, lost) /\ step = Head(Rest(k))
    BY <1>1 DEF InitialEffect
  <2>4. /\ k = 1 => step = "A"
        /\ k = 2 => step = "mta-sts"
        /\ k = 3 => step = "www"
        /\ step = "mta-sts" => k = 2
        /\ step = "www" => k = 3
    <3>1. Rest(k) # <<>> /\ k \in 1..7
      <4>1. Rest(k) # <<>>
        BY RestSteps, Zenon
      <4>2. QED  BY <4>1
    <3>2. QED  BY <2>3, <3>1, RestIs
  <2>5. Known(d.A)'
    <3>1. CASE k = 1
      <4>1. d.A = zone["A"] \/ (d.A = None /\ "A" \in lost)
        BY <2>3, <3>1 DEF FoundBy, query_dns
      <4>2. QED  BY <1>4, <2>2, <4>1 DEF Known
    <3>2. CASE k # 1
      BY <1>4, <2>1, <2>3, <3>2, FactsGrow DEF FoundBy, InitialFacts
    <3>3. QED  BY <3>1, <3>2
  <2>6. k > 1 /\ d.alias["mta-sts"] = "target" => SeenGood("mta-sts")
    <3>1. CASE k = 2
      <4>1. d.alias["mta-sts"] = query_alias("mta-sts", request.data.A, lost)
        BY <2>3, <2>4, <3>1, Names DEF FoundBy
      <4>2. Known(request.data.A)
        BY <2>1, <3>1 DEF InitialFacts
      <4>3. QED  BY <2>2, <4>1, <4>2, AliasGood, Names
    <3>2. CASE k > 2
      BY <2>1, <2>3, <2>4, <3>2, Names DEF FoundBy, InitialFacts
    <3>3. QED  BY <3>1, <3>2
  <2>7. k > 2 /\ d.alias["www"] = "target" => SeenGood("www")
    <3>1. CASE k = 3
      <4>1. d.alias["www"] = query_alias("www", request.data.A, lost)
        BY <2>3, <2>4, <3>1, Names DEF FoundBy
      <4>2. Known(request.data.A)
        BY <2>1, <3>1 DEF InitialFacts
      <4>3. QED  BY <2>2, <4>1, <4>2, AliasGood, Names
    <3>2. CASE k > 3
      BY <2>1, <2>3, <2>4, <3>2, Names DEF FoundBy, InitialFacts
    <3>3. QED  BY <3>1, <3>2
  <2>8. /\ k > 3 => d.acme = host.acme
        /\ k > 4 => d.dkim = get_dkim_entry
    BY <2>1, <2>3 DEF FoundBy, InitialFacts
  <2>9. (SeenGood("mta-sts") => SeenGood("mta-sts")') /\ (SeenGood("www") => SeenGood("www")')
    BY <1>4, SeenGrows, Names
  <2>10. InitialFacts(d, k + 1)'
    BY <1>4, <2>5, <2>6, <2>7, <2>8, <2>9 DEF InitialFacts, get_dkim_entry
  <2>11. InitialKnown'
    BY <1>3, <1>4, <1>5, <2>10 DEF InitialKnown
  <2>12. ZonefileKnown'
    BY <1>4, <1>7 DEF ZonefileKnown
  <2>13. QED  BY <1>4, <2>11, <2>12, QuietStep
<1>8. QED  BY <1>3, <1>5, <1>6, <1>7 DEF awaited

LEMMA ZonefileStepHistory ==
    ASSUME TypeInv, HistoryInv, NEW lost \in SUBSET Name, ZonefileStep(lost)
    PROVE  HistoryInv'
<1>1. PICK q \in ZonefileRequest :
             /\ request \in ZonefileRequest
             /\ request.todo # <<>> /\ step \in Record
             /\ Elements(request.todo) = {step} \cup Elements(Tail(request.todo))
             /\ requests' = <<q>> /\ q.data = request.data
             /\ \/ /\ AliasAddress(lost)
                   /\ q.todo = request.todo /\ q.diff = request.diff /\ q.address = query_dns("A", lost)
                \/ /\ CompareLine(lost)
                   /\ q.todo = Tail(request.todo) /\ q.address = request.address
                   /\ q.diff = IF query_dns(step.name, lost) = step.value THEN request.diff
                               ELSE request.diff \cup {step}
                \/ /\ CompareAlias(lost)
                   /\ q.todo = Tail(request.todo) /\ q.address = "unread"
                   /\ q.diff = IF query_alias(step.name, request.address, lost) = "target"
                                 THEN request.diff ELSE request.diff \cup {step}
             /\ unheard' = unheard \cup lost /\ UNCHANGED <<strict_tls, zone, host, answers, cmd, outcome, seen>>
  BY ZonefileStepEffect
<1>2. requests # <<>>
  BY DEF ZonefileStep, CompareLine, AliasAddress, CompareAlias, working
<1>3. /\ answers = <<>>
      /\ cmd.at = "idle" \/ awaited(request.fn)
  BY <1>2, AtWork DEF TypeInv
<1>4. request' = q /\ request.fn = "check_zonefile"
  BY <1>1, Single DEF request, ZonefileRequest, Found
<1>5. CASE cmd.at = "idle"
  BY <1>1, <1>5, QuietStep DEF InitialKnown, ZonefileKnown
<1>6. CASE cmd.at = "verify"
  <2>1. ZonefileFacts(Elements(request.todo), request.diff) /\ AddressRead(request.address)
        /\ (strict_tls => host.acme)
    BY <1>2, <1>6 DEF HistoryInv, ZonefileKnown
  <2>2. zone \in seen /\ zone \in Zone
    BY <1>6 DEF HistoryInv, ZoneSeen, TypeInv, States
  <2>3. Elements(q.todo) \subseteq Elements(request.todo)
    BY <1>1
  <2>4. AddressRead(q.address)'
    <3>1. CASE q.address = query_dns("A", lost)
      <4>1. q.address = zone["A"] \/ (q.address = None /\ "A" \in lost)
        BY <3>1 DEF query_dns
      <4>2. QED  BY <1>1, <2>2, <4>1 DEF AddressRead, Known
    <3>2. CASE q.address = request.address
      BY <1>1, <2>1, <3>2, FactsGrow
    <3>3. CASE q.address = "unread"
      BY <3>3 DEF AddressRead
    <3>4. QED  BY <1>1, <3>1, <3>2, <3>3
  <2>5. step \in Elements(q.todo) \cup q.diff \/ SeenGood(step.name)
    <3>1. CASE AliasAddress(lost) /\ q.todo = request.todo
      BY <1>1, <3>1
    <3>2. CASE q.diff = IF query_dns(step.name, lost) = step.value THEN request.diff
                        ELSE request.diff \cup {step}
      <4>1. CASE zone[step.name] = step.value
        <5>1. Good(step.name, zone)
          BY <1>1, <2>1, <2>2, <4>1 DEF ZonefileFacts
        <5>2. QED  BY <2>2, <5>1 DEF SeenGood
      <4>2. CASE zone[step.name] # step.value
        <5>1. step.value # None
          BY <1>1, NoneAssumption, ValuesOf DEF Record, Line
        <5>2. query_dns(step.name, lost) # step.value
          BY <4>2, <5>1 DEF query_dns
        <5>3. QED  BY <3>2, <5>2
      <4>3. QED  BY <4>1, <4>2
    <3>3. CASE /\ CompareAlias(lost)
               /\ q.diff = IF query_alias(step.name, request.address, lost) = "target"
                             THEN request.diff ELSE request.diff \cup {step}
      <4>1. CASE query_alias(step.name, request.address, lost) = "target"
        <5>1. step.name \in Name /\ Known(request.address)
          BY <1>1, <2>1, <3>3 DEF Record, Line, AddressRead, CompareAlias
        <5>2. CASE step.name \in Alias
          BY <2>2, <4>1, <5>1, <5>2, AliasGood
        <5>3. CASE step.name \notin Alias
          <6>1. None \notin {"target", "elsewhere"} \cup Address
            BY NoneAssumption, ValuesOf, Names
          <6>2. zone[step.name] \in {"target", "elsewhere"} \cup Address
            BY <4>1, <6>1 DEF query_alias, query_dns
          <6>3. step.name = "A"
            <7>1. step.name \in {"A", "_mta-sts", "dkim", "MX", "spf", "CAA"}
              BY <5>1, <5>3, Names
            <7>2. /\ zone["_mta-sts"] \in StsId \cup {"noid", None}
                  /\ zone["dkim"] \in {"key", "nokey", None}
                  /\ \A n \in {"MX", "spf", "CAA"} : zone[n] \in {"right", "wrong", None}
              BY <2>2, ZoneValues
            <7>3. QED  BY <6>1, <6>2, <7>1, <7>2 DEF Address, StsId
          <6>4. Good("A", zone)
            BY <6>1, <6>2, <6>3, GoodIs
          <6>5. QED  BY <2>2, <6>3, <6>4 DEF SeenGood
        <5>4. QED  BY <5>2, <5>3
      <4>2. CASE query_alias(step.name, request.address, lost) # "target"
        BY <3>3, <4>2
      <4>3. QED  BY <4>1, <4>2
    <3>4. QED  BY <1>1, <3>1, <3>2, <3>3
  <2>6. Elements(request.todo) \cup request.diff \subseteq {step} \cup Elements(q.todo) \cup q.diff
    BY <1>1
  <2>7. ZonefileFacts(Elements(q.todo), q.diff)
    BY <2>1, <2>3, <2>5, <2>6 DEF ZonefileFacts
  <2>8. Elements(q.todo) \in SUBSET Record
    BY ElementOfSeq, LenProperties DEF Elements, ZonefileRequest, Found
  <2>9. ZonefileFacts(Elements(q.todo), q.diff)'
    BY <1>1, <2>7, <2>8, FactsGrow
  <2>10. ZonefileKnown'
    BY <1>1, <1>3, <1>4, <2>1, <2>4, <2>9 DEF ZonefileKnown
  <2>11. InitialKnown'
    BY <1>1, <1>6 DEF InitialKnown
  <2>12. QED  BY <1>1, <2>10, <2>11, QuietStep
<1>7. QED  BY <1>3, <1>4, <1>5, <1>6 DEF awaited

LEMMA FinishHistory == TypeInv /\ HistoryInv /\ (Finish \/ Raises) => HistoryInv'
<1> SUFFICES ASSUME TypeInv, HistoryInv, Finish \/ Raises PROVE HistoryInv'
  OBVIOUS
<1>1. PICK failed \in BOOLEAN :
        Answer(failed) /\ requests # <<>> /\ (~failed => request.todo = <<>>)
  BY DEF Finish, Raises
<1>2. /\ request \in Request /\ requests = <<request>> /\ answers = <<>>
      /\ cmd.at = "idle" \/ awaited(request.fn)
  BY <1>1, AtWork DEF TypeInv
<1>3. PICK a : /\ a = [failed |-> failed, data |-> request.data, diff |-> request.diff]
               /\ requests' = <<>> /\ answers' = <<a>> /\ Head(answers') = a
  BY <1>1, <1>2, Single DEF Answer
<1>4. a.data = request.data /\ a.diff = request.diff /\ a.failed = failed
  BY <1>3
<1>5. UNCHANGED <<strict_tls, zone, host, cmd, outcome, seen, unheard>>
  BY <1>1 DEF Answer
<1>6. InitialKnown'
  <2>1. ASSUME cmd.at = "initial", ~failed PROVE InitialFacts(a.data, 7)'
    <3>1. PICK k \in 1..7 : request.todo = Rest(k) /\ InitialFacts(request.data, k)
      BY <1>1, <2>1 DEF HistoryInv, InitialKnown
    <3>2. Rest(k) = <<>>
      BY <1>1, <2>1, <3>1
    <3>3. k = 7
      <4>1. k \notin 1..6
        BY <3>2, RestSteps, Zenon
      <4>2. QED  BY <4>1
    <3>4. InitialFacts(a.data, 7)
      BY <1>4, <3>1, <3>3
    <3>5. QED  BY <1>5, <3>4, FactsGrow
  <2>2. QED  BY <1>3, <1>4, <1>5, <2>1 DEF InitialKnown
<1>7. ZonefileKnown'
  <2>1. cmd.at = "verify" => (strict_tls => host.acme)
    BY DEF HistoryInv, ZonefileKnown
  <2>2. ASSUME cmd.at = "verify", ~failed PROVE ZonefileFacts({}, a.diff)'
    <3>1. ZonefileFacts(Elements(request.todo), request.diff)
      BY <1>1, <2>2 DEF HistoryInv, ZonefileKnown
    <3>2. Elements(request.todo) = {}
      BY <1>1, <2>2, Single DEF Elements
    <3>3. ZonefileFacts({}, a.diff) /\ {} \in SUBSET Record
      BY <1>4, <3>1, <3>2
    <3>4. QED  BY <1>5, <3>3, FactsGrow
  <2>3. QED  BY <1>3, <1>4, <1>5, <2>1, <2>2 DEF ZonefileKnown
<1>8. QED  BY <1>5, <1>6, <1>7, QuietStep

\* A command begins: nothing is known but the zone.
LEMMA CallHistory ==
    ASSUME TypeInv, HistoryInv, NEW do \in {"run", "dns"}, NEW opts \in SUBSET Option, Call(do, opts),
           UNCHANGED <<strict_tls, zone, host, outcome>>
    PROVE  HistoryInv'
<1>1. seen' = {zone} /\ answers' = <<>>
      /\ (cmd'.at = "deploy" => "skip_dns_check" \in cmd'.opts)
      /\ cmd'.at \in {"initial", "deploy"}
      /\ requests' \in {<<>>, <<initial_checks>>}
  BY DEF Call
<1>2. InitialKnown'
  <2>1. requests' # <<>> => request'.todo = Rest(1)
    BY <1>1, Single DEF request, initial_checks, Rest
  <2>2. \A d : InitialFacts(d, 1)'
    BY DEF InitialFacts
  <2>3. 1 \in 1..7
    OBVIOUS
  <2>4. QED  BY <1>1, <2>1, <2>2, <2>3 DEF InitialKnown
<1>3. QED  BY <1>1, <1>2 DEF HistoryInv, KeyHeld, ZoneSeen, ZonefileKnown, DeployedWithDns,
             VerifiedWasRight

\* A command ends without having verified anything.
LEMMA EndedHistory ==
    ASSUME HistoryInv, NEW says \in Says \ {"unset", "correct"}, NEW lines, NEW ok,
           Ends(says, lines, ok), KeyHeld'
    PROVE  HistoryInv'
<1>1. cmd'.at = "idle" /\ outcome'.says = says
  BY DEF Ends, Start
<1>2. QED  BY <1>1 DEF HistoryInv, ZoneSeen, InitialKnown, ZonefileKnown, DeployedWithDns, VerifiedWasRight

\* The zone file asks for what is right, and for all of it.
LEMMA ZoneFileFacts ==
    ASSUME TypeInv, ZoneSeen, cmd.at = "initial", NEW data \in RemoteData, InitialFacts(data, 7),
           data.A # None, NEW id \in StsId
    PROVE  ZonefileFacts(Elements(get_filled_zone_file(data, id)), {})
<1> DEFINE lines == Elements(get_filled_zone_file(data, id))
<1>1. lines = {line("A", data.A), line("MX", "right"), line("www", "target"),
               line("dkim", data.dkim), line("spf", "right")}
              \cup (IF strict_tls THEN {line("_mta-sts", id), line("mta-sts", "target")} ELSE {})
              \cup (IF data.acme THEN {line("CAA", "right")} ELSE {})
  BY ZoneFileLines DEF TypeInv, States
<1>2. data.acme = host.acme /\ data.dkim = get_dkim_entry
  BY DEF InitialFacts
<1> HIDE DEF lines
<1>3. ASSUME NEW l \in lines, NEW z \in Zone, z[l.name] = l.value PROVE Good(l.name, z)
  <2>1. \/ l.name = "A" /\ l.value = data.A
        \/ l.name \in {"MX", "spf", "CAA"} /\ l.value = "right"
        \/ l.name \in Alias /\ l.value = "target"
        \/ l.name = "_mta-sts" /\ l.value = id
        \/ l.name = "dkim" /\ l.value = data.dkim
    BY <1>1, <1>3, Lines, Names
  <2>2. QED  BY <1>2, <1>3, <2>1, GoodIs
<1>4. ASSUME NEW n \in Needed \cup Recommended PROVE SeenGood(n) \/ \E l \in lines \cup {} : l.name = n
  <2>1. zone \in seen
    BY DEF ZoneSeen
  <2>2. ~data.acme => SeenGood("CAA")
    BY <1>2, <2>1, GoodIs DEF SeenGood
  <2>3. \/ n \in {"A", "MX", "www", "dkim", "spf", "CAA"}
        \/ n \in {"mta-sts", "_mta-sts"} /\ strict_tls
    BY <1>4 DEF Needed, Recommended
  <2>4. QED  BY <1>1, <2>2, <2>3, Lines
<1>5. QED  BY <1>3, <1>4 DEF ZonefileFacts, lines

LEMMA CheckedHistory == TypeInv /\ HistoryInv /\ Checked => HistoryInv'
<1> SUFFICES ASSUME TypeInv, HistoryInv, Checked PROVE HistoryInv'
  OBVIOUS
<1>1. PICK data \in RemoteData :
         /\ data = Head(answers).data /\ cmd.at = "initial"
         /\ requests = <<>> /\ answers' = <<>>
         /\ (CheckedEnds(data) /\ requests' = <<>>) \/ Deploys(data) \/ Verifies(data)
         /\ UNCHANGED <<strict_tls, zone, host, seen, unheard, events>>
  BY CheckedCases
<1>2. InitialFacts(data, 7)
  BY <1>1 DEF Checked, waits, HistoryInv, InitialKnown
<1>3. KeyHeld'
  BY <1>1 DEF HistoryInv, KeyHeld
<1>4. CASE CheckedEnds(data)
  <2>1. \E says \in Says \ {"unset", "correct"} : \E lines, ok : Ends(says, lines, ok)
    BY <1>4 DEF CheckedEnds, Says
  <2>2. QED  BY <1>3, <2>1, EndedHistory
<1>5. CASE Deploys(data)
  <2>1. cmd'.at = "deploy"
    BY <1>5 DEF Deploys, TypeInv, States, CmdType
  <2>2. data.A # None /\ (strict_tls => \A n \in Alias : data.alias[n] = "target")
    BY <1>5, CheckPassed DEF Deploys
  <2>3. SeenGood("A")
    BY <1>2, <2>2, GoodIs DEF InitialFacts, Known, SeenGood
  <2>4. strict_tls => \A n \in Alias : SeenGood(n)
    BY <1>2, <2>2, Names DEF InitialFacts
  <2>5. \A n \in {"A"} \cup (IF strict_tls THEN Alias ELSE {}) : SeenGood(n)
    BY <2>3, <2>4
  <2>6. {"A"} \cup Alias \subseteq Name
    BY Names
  <2>7. \A n \in {"A"} \cup (IF strict_tls THEN Alias ELSE {}) : SeenGood(n)'
    BY <1>1, <2>5, <2>6, SeenGrows
  <2>8. DeployedWithDns'
    BY <1>1, <2>7 DEF DeployedWithDns, SeenGood
  <2>9. QED  BY <1>1, <1>3, <2>1, <2>8 DEF HistoryInv, ZoneSeen, InitialKnown, ZonefileKnown,
               VerifiedWasRight
<1>6. CASE Verifies(data)
  <2>1. cmd'.at = "verify" /\ UNCHANGED outcome
    BY <1>6 DEF Verifies, TypeInv, States, CmdType
  <2>2. PICK id \in StsId : requests' = <<zonefile_check(get_filled_zone_file(data, id))>>
    BY <1>6 DEF Verifies
  <2>3. data.A # None
    BY <1>6, CheckPassed DEF Verifies
  <2>4. PICK zonefile : /\ zonefile = get_filled_zone_file(data, id)
                        /\ requests' = <<zonefile_check(zonefile)>>
    BY <2>2
  <2>5. request'.todo = zonefile /\ request'.diff = {} /\ request'.address = "unread"
    BY <2>4, Single DEF request, zonefile_check
  <2>6. ZonefileFacts(Elements(zonefile), {}) /\ Elements(zonefile) \in SUBSET Record
    <3>1. ZonefileFacts(Elements(zonefile), {})
      BY <1>1, <1>2, <2>3, <2>4, ZoneFileFacts DEF HistoryInv
    <3>2. zonefile \in Seq(Record)
      BY <1>1, <2>3, <2>4, ZoneFileLines DEF TypeInv, States
    <3>3. QED  BY <3>1, <3>2, ElementOfSeq, LenProperties DEF Elements
  <2>7. ZonefileFacts(Elements(zonefile), {})'
    BY <1>1, <2>6, FactsGrow
  <2>8. strict_tls => host.acme
    BY <1>2, <1>6 DEF Verifies, InitialFacts
  <2>9. ZonefileKnown'
    BY <1>1, <2>5, <2>7, <2>8 DEF ZonefileKnown, AddressRead
  <2>10. QED  BY <1>1, <1>3, <2>1, <2>9 DEF HistoryInv, ZoneSeen, InitialKnown, DeployedWithDns,
                VerifiedWasRight
<1>7. QED  BY <1>1, <1>4, <1>5, <1>6

LEMMA AnsweredHistory == TypeInv /\ HistoryInv /\ (Verified \/ Failed \/ TimesOut) => HistoryInv'
<1> SUFFICES ASSUME TypeInv, HistoryInv, Verified \/ Failed \/ TimesOut PROVE HistoryInv'
  OBVIOUS
<1>1. UNCHANGED <<strict_tls, zone, host, seen, unheard>>
  BY DEF Verified, Failed, TimesOut
<1>2. KeyHeld'
  BY <1>1 DEF HistoryInv, KeyHeld
<1>3. CASE Failed \/ TimesOut
  BY <1>2, <1>3, EndedHistory DEF Failed, TimesOut, Says
<1>4. CASE Verified
  <2> DEFINE ok(diff) == \A l \in diff : l.name \in Recommended
             says(diff) == IF diff = {} THEN "correct" ELSE "unset"
  <2>1. PICK diff : /\ diff = Head(answers).diff
                    /\ Ends(says(diff), diff, ok(diff))
    BY <1>4 DEF Verified
  <2>2. cmd.at = "verify" /\ answers # <<>> /\ ~Head(answers).failed
    BY <1>4 DEF Verified, waits
  <2>3. ZonefileFacts({}, diff) /\ (strict_tls => host.dkim /\ host.acme)
    BY <2>1, <2>2 DEF HistoryInv, ZonefileKnown, KeyHeld
  <2>4. /\ cmd'.at = "idle"
        /\ outcome' = [says |-> says(diff), lines |-> diff, ok |-> ok(diff)]
    BY <2>1 DEF Ends, Start
  <2>5. /\ outcome'.ok => ok(diff)
        /\ outcome'.says = "correct" => diff = {}
    BY <2>4
  <2> HIDE DEF says
  <2>6. ASSUME outcome'.ok,
               NEW n \in Needed \cup (IF outcome'.says = "correct" THEN Recommended ELSE {})
        PROVE  SeenGood(n)
    <3>1. SeenGood(n) \/ \E l \in diff : l.name = n
      BY <2>3, <2>6 DEF ZonefileFacts
    <3>2. CASE \E l \in diff : l.name = n
      <4>1. outcome'.says # "correct" /\ n \in Recommended
        BY <2>5, <2>6, <3>2
      <4>2. n \in Needed
        BY <2>6, <4>1
      <4>3. QED  BY <4>1, <4>2 DEF Needed, Recommended
    <3>3. QED  BY <3>1, <3>2
  <2>7. Needed \cup Recommended \subseteq Name
    BY Names DEF Needed, Recommended
  <2>8. VerifiedWasRight'
    <3>1. Needed' = Needed
      BY <1>1 DEF Needed
    <3>2. ASSUME outcome'.ok, NEW n \in Needed \cup (IF outcome'.says = "correct" THEN Recommended ELSE {})
          PROVE  SeenGood(n)'
      BY <1>1, <2>6, <2>7, <3>2, SeenGrows
    <3>3. QED  BY <1>1, <2>3, <3>1, <3>2 DEF VerifiedWasRight, SeenGood
  <2>9. QED  BY <1>2, <2>4, <2>8 DEF HistoryInv, ZoneSeen, InitialKnown, ZonefileKnown, DeployedWithDns
<1>5. QED  BY <1>3, <1>4

LEMMA DeployHistory == TypeInv /\ HistoryInv /\ (Deploy \/ DeployFails) => HistoryInv'
<1> SUFFICES ASSUME TypeInv, HistoryInv, Deploy \/ DeployFails PROVE HistoryInv'
  OBVIOUS
<1>1. \E says \in Says \ {"unset", "correct"} : \E lines, ok : Ends(says, lines, ok)
  BY DEF Deploy, DeployFails, Says
<1>2. KeyHeld'
  <2>1. host \in [dkim : BOOLEAN, acme : BOOLEAN] /\ (host.acme => host.dkim)
    BY DEF TypeInv, States, HistoryInv, KeyHeld
  <2>2. \/ host' = host
        \/ host' = [host EXCEPT !.dkim = TRUE]
        \/ host' = [dkim |-> TRUE, acme |-> host.acme \/ strict_tls]
    BY DEF Deploy, DeployFails, Deployed
  <2>3. host'.dkim \/ host' = host
    BY <2>1, <2>2
  <2>4. QED  BY <2>1, <2>3 DEF KeyHeld
<1>3. QED  BY <1>1, <1>2, EndedHistory

LEMMA OperatorHistory ==
    ASSUME TypeInv, HistoryInv,
           \/ SetRecords \/ Follow
           \/ \E do \in {"run", "dns"}, opts \in {{}} \cup {{o} : o \in Option} : Detour(do, opts)
           \/ \E n \in Name, v \in Value \cup {None} : Edit(n, v)
    PROVE  HistoryInv'
<1>1. CASE SetRecords
  <2>1. cmd.at = "idle" /\ outcome'.says = "set" /\ UNCHANGED <<host, cmd>>
    BY <1>1 DEF SetRecords, TypeInv, States
  <2>2. QED  BY <2>1 DEF HistoryInv, KeyHeld, ZoneSeen, InitialKnown, ZonefileKnown, DeployedWithDns,
               VerifiedWasRight
<1>2. CASE Follow
  <2>1. cmd.do \in {"run", "dns"} /\ {} \in SUBSET Option
    BY DEF TypeInv, States, CmdType
  <2>2. \E do \in {"run", "dns"} : Call(do, {})
    BY <1>2, <2>1 DEF Follow
  <2>3. QED  BY <1>2, <2>1, <2>2, CallHistory DEF Follow
<1>3. ASSUME NEW do \in {"run", "dns"}, NEW opts \in {{}} \cup {{o} : o \in Option}, Detour(do, opts)
      PROVE  HistoryInv'
  <2>1. opts \in SUBSET Option /\ Call(do, opts) /\ UNCHANGED <<strict_tls, zone, host, outcome>>
    BY <1>3 DEF Detour
  <2>2. QED  BY <2>1, CallHistory
<1>4. ASSUME NEW n \in Name, NEW v \in Value \cup {None}, Edit(n, v) PROVE HistoryInv'
  <2>1. /\ UNCHANGED <<strict_tls, host, requests, answers, cmd, outcome, unheard>>
        /\ seen' = IF cmd.at = "idle" THEN seen ELSE seen \cup {zone'}
    BY <1>4 DEF Edit, channel
  <2>2. seen \subseteq seen' /\ (cmd.at # "idle" => zone' \in seen')
    BY <2>1
  <2>3. \A m \in Name : SeenGood(m) => SeenGood(m)'
    BY <2>1, <2>2, SeenGrows
  <2>4. InitialKnown'
    BY <2>1, <2>2, FactsGrow DEF HistoryInv, InitialKnown, request
  <2>5. ZonefileKnown'
    <3>1. SUFFICES ASSUME cmd.at = "verify" PROVE ZonefileKnown'
      BY <2>1 DEF ZonefileKnown
    <3>2. requests # <<>> => Elements(request.todo) \in SUBSET Record
      <4>1. requests # <<>> => request \in ZonefileRequest
        BY <3>1, AtWork DEF TypeInv, awaited, Request, InitialRequest, Found
      <4>2. QED  BY <4>1, ElementOfSeq, LenProperties DEF Elements, ZonefileRequest, Found
    <3>3. {} \in SUBSET Record
      OBVIOUS
    <3>4. PICK left, diff, address, final :
             /\ left = Elements(request.todo) /\ diff = request.diff /\ address = request.address
             /\ final = Head(answers).diff
      OBVIOUS
    <3>5. /\ strict_tls => host.acme
          /\ requests # <<>> => ZonefileFacts(left, diff)' /\ AddressRead(address)'
          /\ answers # <<>> /\ ~Head(answers).failed => ZonefileFacts({}, final)'
      BY <2>1, <2>2, <3>1, <3>2, <3>3, <3>4, FactsGrow DEF HistoryInv, ZonefileKnown
    <3>6. request' = request
      BY <2>1 DEF request
    <3>7. QED  BY <2>1, <3>4, <3>5, <3>6 DEF ZonefileKnown
  <2>6. DeployedWithDns'
    <3>1. {"A"} \cup Alias \subseteq Name
      BY Names
    <3>2. QED  BY <2>1, <2>3, <3>1 DEF HistoryInv, DeployedWithDns, SeenGood
  <2>7. VerifiedWasRight'
    <3>1. Needed' = Needed /\ Needed \cup Recommended \subseteq Name
      BY <2>1, Names DEF Needed, Recommended
    <3>2. QED  BY <2>1, <2>3, <3>1 DEF HistoryInv, VerifiedWasRight, SeenGood
  <2>8. QED  BY <2>1, <2>2, <2>4, <2>5, <2>6, <2>7 DEF HistoryInv, KeyHeld, ZoneSeen
<1>5. QED  BY <1>1, <1>2, <1>3, <1>4

LEMMA StutterHistory == HistoryInv /\ UNCHANGED vars => HistoryInv'
<1> SUFFICES ASSUME HistoryInv, UNCHANGED vars PROVE HistoryInv'
  OBVIOUS
<1>1. UNCHANGED <<strict_tls, zone, host, requests, answers, cmd, outcome, seen, unheard>> /\ request' = request
  BY DEF vars, channel, request
<1>2. InitialKnown'
  BY <1>1, FactsGrow DEF HistoryInv, InitialKnown
<1>3. ZonefileKnown'
  BY <1>1 DEF HistoryInv, ZonefileKnown, ZonefileFacts, AddressRead, Known, SeenGood, Good, Needed, get_dkim_entry
<1>4. QED  BY <1>1, <1>2, <1>3, QuietStep

LEMMA HistoryNext == TypeInv /\ HistoryInv /\ [Next]_vars => HistoryInv'
BY RemoteSteps, InitialStepHistory, ZonefileStepHistory, FinishHistory, CheckedHistory,
   AnsweredHistory, DeployHistory, OperatorHistory, StutterHistory DEF Next, Command, RemoteStep

LEMMA HistoryInvariant == Spec => []HistoryInv
BY TypeInvariant, HistoryInit, HistoryNext, TypeInit, TypeNext, PTL DEF Spec

\* run_cmd deploys, with the checks, only after the address and the aliases of
\* the certificate have been right while it ran.
THEOREM DeploymentChecked == Spec => []DeployedWithDns
BY HistoryInvariant, PTL DEF HistoryInv

\* dns_cmd returns 0, and calls a zone correct, only if each record was right
\* while it ran, however the zone was edited between two queries.
THEOREM VerdictTrue == Spec => []VerifiedWasRight
BY HistoryInvariant, PTL DEF HistoryInv

-----------------------------------------------------------------------------
(* Nothing is said to be missing without a cause: what check_initial or a line *)
(* of the zone file goes by was read from a zone since the command began, or a *)
(* query was not answered.                                                    *)

Changed(n) == \E y, z \in seen : y[n] # z[n] \/ (n \in Alias /\ y["A"] # z["A"])
Unheard(n) == n \in unheard \/ (n \in Alias /\ "A" \in unheard)
Doubt(n) == (\E z \in seen : ~Good(n, z)) \/ Changed(n) \/ Unheard(n)

\* What perform_initial_checks has established of the rest before its k-th step
AlarmFacts(d, k) ==
    /\ k > 1 /\ d.A = None => Doubt("A")
    /\ k > 2 /\ d.alias["mta-sts"] # "target" => Doubt("mta-sts")
    /\ k > 3 /\ d.alias["www"] # "target" => Doubt("www")
    /\ k > 6 /\ d.A # None /\ (\A n \in Alias : d.alias[n] = "target") =>
         \/ "_mta-sts" \in unheard
         \/ \E y \in seen : IF d.sts = None THEN y["_mta-sts"] \notin StsId
                                          ELSE y["_mta-sts"] = d.sts

\* A zone without the line is a reason to report it; with an alias it takes a
\* look at the addresses.
Justified(l) ==
    \/ l.name \in Alias
    \/ Unheard(l.name)
    \/ \A z \in Zone : z[l.name] # l.value =>
         ~Good(l.name, z) \/ \E y \in seen : ~Good(l.name, y) \/ y[l.name] # z[l.name]

LineFacts(left, diff) == (\A l \in left : Justified(l)) /\ (\A l \in diff : Doubt(l.name))

InitialDoubts ==
    cmd.at = "initial" =>
      /\ requests # <<>> => \E k \in 1..7 : request.todo = Rest(k) /\ AlarmFacts(request.data, k)
      /\ answers # <<>> /\ ~Head(answers).failed => AlarmFacts(Head(answers).data, 7)

ZonefileDoubts ==
    cmd.at = "verify" =>
      /\ requests # <<>> => /\ LineFacts(Elements(request.todo), request.diff)
                            /\ request.address # "unread" => step.name \in Alias
      /\ answers # <<>> /\ ~Head(answers).failed => LineFacts({}, Head(answers).diff)

AlarmInv == InitialDoubts /\ ZonefileDoubts /\ AlarmsHaveCause

\* A reason remains one although more zones are seen: an address by which an
\* alias would be right after all is a change of the address.
LEMMA DoubtGrows ==
    ASSUME seen \subseteq seen', unheard \subseteq unheard', UNCHANGED <<strict_tls, host>>, NEW n \in Name, Doubt(n)
    PROVE  Doubt(n)'
<1>1. CASE Changed(n) \/ Changed(n)' \/ Unheard(n)
  BY <1>1 DEF Doubt, Changed, Unheard
<1>2. CASE ~Changed(n) /\ ~Changed(n)' /\ ~Unheard(n)
  <2>1. PICK z \in seen : ~Good(n, z)
    BY <1>2 DEF Doubt
  <2>2. CASE n \notin Alias
    <3>1. ~Good(n, z)'
      BY <2>1, <2>2 DEF Good, get_dkim_entry
    <3>2. QED  BY <2>1, <3>1 DEF Doubt
  <2>3. CASE n \in Alias
    <3>1. ~(z[n] = "target" \/ (z[n] # None /\ z[n] = z["A"]))
      BY <2>1, <2>3, GoodIs
    <3>2. \A y \in seen' : y["A"] = z["A"]
      BY <1>2, <2>1, <2>3 DEF Changed
    <3>3. ~(z[n] = "target" \/ (z[n] # None /\ \E y \in seen' : z[n] = y["A"]))
      BY <3>1, <3>2
    <3>4. ~Good(n, z)'
      BY <2>3, <3>3 DEF Good, Alias
    <3>5. QED  BY <2>1, <3>4 DEF Doubt
  <2>4. QED  BY <2>2, <2>3
<1>3. QED  BY <1>1, <1>2

LEMMA DoubtsGrow ==
    ASSUME seen \subseteq seen', unheard \subseteq unheard', UNCHANGED <<strict_tls, host>>
    PROVE  /\ \A n \in Name : Doubt(n) => Doubt(n)'
           /\ \A d, k : AlarmFacts(d, k) => AlarmFacts(d, k)'
           /\ \A l \in Record : Justified(l) => Justified(l)'
           /\ \A left \in SUBSET Record, diff \in SUBSET Record :
                LineFacts(left, diff) => LineFacts(left, diff)'
<1>1. \A n \in Name : Doubt(n) => Doubt(n)'
  BY DoubtGrows
<1>2. ASSUME NEW d, NEW k, AlarmFacts(d, k) PROVE AlarmFacts(d, k)'
  BY <1>1, <1>2, Names DEF AlarmFacts
<1>3. ASSUME NEW l \in Record, Justified(l) PROVE Justified(l)'
  <2>1. CASE l.name \in Alias \/ Unheard(l.name)
    BY <2>1 DEF Justified, Unheard
  <2>2. CASE l.name \notin Alias /\ ~Unheard(l.name)
    <3>1. \A z : Good(l.name, z)' <=> Good(l.name, z)
      BY <2>2 DEF Good, get_dkim_entry
    <3>2. QED  BY <1>3, <2>2, <3>1 DEF Justified
  <2>3. QED  BY <2>1, <2>2
<1>4. \A l \in Record : l.name \in Name
  BY DEF Record, Line
<1>5. ASSUME NEW left \in SUBSET Record, NEW diff \in SUBSET Record, LineFacts(left, diff)
      PROVE  LineFacts(left, diff)'
  BY <1>1, <1>3, <1>4, <1>5 DEF LineFacts
<1>6. QED  BY <1>1, <1>2, <1>3, <1>5

\* An alias that does not pass was wrong, or was changed, or the address was, or
\* there was no answer for one of them.
LEMMA AliasDoubt ==
    ASSUME NEW n \in Alias, NEW address, NEW lost, zone \in Zone, zone \in seen, seen \subseteq Zone,
           Known(address), query_alias(n, address, lost) # "target"
    PROVE  Doubt(n) \/ n \in lost
<1>1. SUFFICES ASSUME ~Doubt(n), n \notin lost PROVE FALSE
  OBVIOUS
<1>2. /\ Good(n, zone) /\ \A y \in seen : y["A"] = zone["A"]
      /\ "A" \notin unheard
  BY <1>1 DEF Doubt, Changed, Unheard
<1>3. zone["A"] = address /\ zone["A"] \in Address \cup {None}
  BY <1>2, ZoneValues DEF Known
<1>4. query_dns(n, lost) = zone[n]
  BY <1>1 DEF query_dns
<1>5. zone[n] # "target"
  BY <1>4 DEF query_alias
<1>6. zone[n] # None /\ zone[n] = zone["A"]
  BY <1>2, <1>5, GoodIs
<1>7. zone[n] \in Address /\ zone[n] = address
  BY <1>3, <1>6
<1>8. query_alias(n, address, lost) = "target"
  BY <1>4, <1>7 DEF query_alias, Address
<1>9. QED  BY <1>8

LEMMA AlarmInit == Init => AlarmInv
BY DEF Init, AlarmInv, InitialDoubts, ZonefileDoubts, AlarmsHaveCause, Start

\* What is said at the end of a command remains justified.
LEMMA AlarmStays ==
    ASSUME TypeInv, AlarmsHaveCause, UNCHANGED <<strict_tls, host, outcome>>,
           seen \subseteq seen', unheard \subseteq unheard',
           cmd'.at = "idle" => cmd.at = "idle"
    PROVE  AlarmsHaveCause'
<1>1. \A l \in outcome.lines : l.name \in Name
  BY DEF TypeInv, States, Record, Line
<1>2. \A n \in Name : Doubt(n) => Doubt(n)'
  BY DoubtsGrow
<1>3. QED  BY <1>1, <1>2 DEF AlarmsHaveCause, Doubt, Changed, Unheard

LEMMA InitialStepAlarm ==
    ASSUME TypeInv, HistoryInv, AlarmInv, NEW lost \in SUBSET Name, InitialStep(lost)
    PROVE  AlarmInv'
<1>1. PICK k \in 1..6, d \in RemoteData : InitialEffect(k, d, lost)
  BY InitialStepEffect
<1> DEFINE q == [request EXCEPT !.data = d, !.todo = Rest(k + 1)]
<1>2. requests # <<>>
  BY DEF InitialStep, QueryAddress, QueryAlias, AccountUrl, DkimEntry, QueryStsId, working
<1>3. answers = <<>> /\ (cmd.at = "idle" \/ awaited(request.fn))
  BY <1>2, AtWork DEF TypeInv
<1>4. requests' = <<q>> /\ request' = q
      /\ unheard' = unheard \cup lost /\ UNCHANGED <<strict_tls, zone, host, answers, cmd, outcome, seen>>
  BY <1>1, Single DEF InitialEffect, request
<1>5. request.fn = "perform_initial_checks" /\ q.data = d /\ q.todo = Rest(k + 1)
  BY <1>1 DEF InitialEffect, InitialRequest, Found
<1> HIDE DEF q
<1>6. AlarmsHaveCause'
  BY <1>4, AlarmStays DEF AlarmInv
<1>7. CASE cmd.at = "idle"
  BY <1>4, <1>6, <1>7 DEF AlarmInv, InitialDoubts, ZonefileDoubts
<1>8. CASE cmd.at = "initial"
  <2>1. InitialFacts(request.data, k) /\ AlarmFacts(request.data, k)
    <3>1. PICK j \in 1..7 : request.todo = Rest(j) /\ InitialFacts(request.data, j)
      BY <1>2, <1>8 DEF HistoryInv, InitialKnown
    <3>2. PICK i \in 1..7 : request.todo = Rest(i) /\ AlarmFacts(request.data, i)
      BY <1>2, <1>8 DEF AlarmInv, InitialDoubts
    <3>3. j = k /\ i = k
      BY <1>1, <3>1, <3>2, RestInjective DEF InitialEffect
    <3>4. QED  BY <3>1, <3>2, <3>3
  <2>2. zone \in seen /\ zone \in Zone /\ seen \subseteq Zone
    BY <1>8 DEF HistoryInv, ZoneSeen, TypeInv, States
  <2>3. FoundBy(k, d, lost) /\ step = Head(Rest(k))
    BY <1>1 DEF InitialEffect
  <2>4. /\ k = 2 => step = "mta-sts"
        /\ k = 3 => step = "www"
        /\ step = "mta-sts" => k = 2
        /\ step = "www" => k = 3
    <3>1. Rest(k) # <<>> /\ k \in 1..7
      <4>1. Rest(k) # <<>>
        BY RestSteps, Zenon
      <4>2. QED  BY <4>1
    <3>2. QED  BY <2>3, <3>1, RestIs
  <2>5. k > 1 => Known(request.data.A)
    BY <2>1 DEF InitialFacts
  <2>13. /\ (Doubt("mta-sts") \/ "mta-sts" \in lost) => Doubt("mta-sts")'
         /\ (Doubt("www") \/ "www" \in lost) => Doubt("www")'
         /\ (Doubt("A") \/ "A" \in lost) => Doubt("A")'
    <3>1. \A n \in Name : Doubt(n) => Doubt(n)'
      BY <1>4, DoubtsGrow
    <3>2. \A n : n \in lost => Unheard(n)'
      BY <1>4 DEF Unheard
    <3>3. QED  BY <3>1, <3>2, Names DEF Doubt
  <2>6. k > 1 /\ d.alias["mta-sts"] # "target" => Doubt("mta-sts")'
    <3>1. CASE k = 2
      <4>1. d.alias["mta-sts"] = query_alias("mta-sts", request.data.A, lost)
        BY <2>3, <2>4, <3>1, Names DEF FoundBy
      <4>2. QED  BY <2>2, <2>5, <2>13, <3>1, <4>1, AliasDoubt, Names
    <3>2. CASE k > 2
      BY <2>1, <2>13, <2>3, <2>4, <3>2, Names DEF FoundBy, AlarmFacts
    <3>3. QED  BY <3>1, <3>2
  <2>7. k > 2 /\ d.alias["www"] # "target" => Doubt("www")'
    <3>1. CASE k = 3
      <4>1. d.alias["www"] = query_alias("www", request.data.A, lost)
        BY <2>3, <2>4, <3>1, Names DEF FoundBy
      <4>2. QED  BY <2>2, <2>5, <2>13, <3>1, <4>1, AliasDoubt, Names
    <3>2. CASE k > 3
      BY <2>1, <2>13, <2>3, <2>4, <3>2, Names DEF FoundBy, AlarmFacts
    <3>3. QED  BY <3>1, <3>2
  <2>8. ASSUME k > 5, d.A # None, \A n \in Alias : d.alias[n] = "target"
        PROVE  \/ "_mta-sts" \in lost
               \/ \E y \in seen : IF d.sts = None THEN y["_mta-sts"] \notin StsId
                                                ELSE y["_mta-sts"] = d.sts
    <3>1. k = 6 /\ None # "target"
      <4>1. None # "target"
        BY NoneAssumption, ValuesOf, Names
      <4>2. QED  BY <2>8, <4>1
    <3>2. "_mta-sts" \notin lost => d.sts = IF zone["_mta-sts"] \in StsId THEN zone["_mta-sts"] ELSE None
      BY <2>3, <2>8, <3>1 DEF FoundBy, query_dns
    <3>3. None \notin StsId
      BY NoneAssumption, ValuesOf, Names
    <3>4. QED  BY <2>2, <3>2, <3>3
  <2>9. k > 0 /\ d.A = None => Doubt("A")'
    <3>1. CASE k = 1
      <4>1. d.A = zone["A"] \/ "A" \in lost
        BY <2>3, <3>1 DEF FoundBy, query_dns
      <4>2. d.A = None => ~Good("A", zone) \/ "A" \in lost
        BY <4>1, GoodIs
      <4>3. QED  BY <2>2, <2>13, <4>2 DEF Doubt
    <3>2. CASE k > 1
      BY <2>1, <2>13, <2>3, <3>2 DEF FoundBy, AlarmFacts
    <3>3. QED  BY <3>1, <3>2
  <2>10. AlarmFacts(d, k + 1)'
    BY <1>4, <2>6, <2>7, <2>8, <2>9 DEF AlarmFacts
  <2>11. InitialDoubts'
    BY <1>3, <1>4, <1>5, <2>10 DEF InitialDoubts
  <2>12. QED  BY <1>4, <1>6, <1>8, <2>11 DEF AlarmInv, ZonefileDoubts
<1>9. QED  BY <1>3, <1>5, <1>7, <1>8 DEF awaited

LEMMA ZonefileStepAlarm ==
    ASSUME TypeInv, HistoryInv, AlarmInv, NEW lost \in SUBSET Name, ZonefileStep(lost)
    PROVE  AlarmInv'
<1>1. PICK q \in ZonefileRequest :
             /\ request \in ZonefileRequest
             /\ request.todo # <<>> /\ step \in Record
             /\ Elements(request.todo) = {step} \cup Elements(Tail(request.todo))
             /\ requests' = <<q>> /\ q.data = request.data
             /\ \/ /\ AliasAddress(lost)
                   /\ q.todo = request.todo /\ q.diff = request.diff /\ q.address = query_dns("A", lost)
                \/ /\ CompareLine(lost)
                   /\ q.todo = Tail(request.todo) /\ q.address = request.address
                   /\ q.diff = IF query_dns(step.name, lost) = step.value THEN request.diff
                               ELSE request.diff \cup {step}
                \/ /\ CompareAlias(lost)
                   /\ q.todo = Tail(request.todo) /\ q.address = "unread"
                   /\ q.diff = IF query_alias(step.name, request.address, lost) = "target"
                                 THEN request.diff ELSE request.diff \cup {step}
             /\ unheard' = unheard \cup lost /\ UNCHANGED <<strict_tls, zone, host, answers, cmd, outcome, seen>>
  BY ZonefileStepEffect
<1>2. requests # <<>>
  BY DEF ZonefileStep, CompareLine, AliasAddress, CompareAlias, working
<1>3. answers = <<>> /\ (cmd.at = "idle" \/ awaited(request.fn))
  BY <1>2, AtWork DEF TypeInv
<1>4. request' = q /\ request.fn = "check_zonefile"
  BY <1>1, Single DEF request, ZonefileRequest, Found
<1>5. AlarmsHaveCause'
  BY <1>1, AlarmStays DEF AlarmInv
<1>6. CASE cmd.at = "idle"
  BY <1>1, <1>5, <1>6 DEF AlarmInv, InitialDoubts, ZonefileDoubts
<1>7. CASE cmd.at = "verify"
  <2>1. LineFacts(Elements(request.todo), request.diff) /\ AddressRead(request.address)
        /\ (request.address # "unread" => step.name \in Alias)
    BY <1>2, <1>7 DEF HistoryInv, ZonefileKnown, AlarmInv, ZonefileDoubts
  <2>2. zone \in seen /\ zone \in Zone /\ seen \subseteq Zone
    BY <1>7 DEF HistoryInv, ZoneSeen, TypeInv, States
  <2>3. Elements(q.todo) \subseteq Elements(request.todo)
    BY <1>1
  <2>4. step \in q.diff => step \in request.diff \/ Doubt(step.name) \/ step.name \in lost
    <3>1. CASE AliasAddress(lost) /\ q.diff = request.diff
      BY <3>1
    <3>2. CASE /\ CompareLine(lost)
               /\ q.diff = IF query_dns(step.name, lost) = step.value THEN request.diff
                           ELSE request.diff \cup {step}
      <4>1. CASE zone[step.name] = step.value \/ step.name \in lost
        BY <3>2, <4>1 DEF query_dns
      <4>2. CASE zone[step.name] # step.value /\ step.name \notin lost
        <5>1. step.name \notin Alias
          BY <3>2, <4>2 DEF CompareLine, query_dns
        <5>2. Justified(step)
          BY <1>1, <2>1 DEF LineFacts
        <5>3. \/ Unheard(step.name) \/ ~Good(step.name, zone)
              \/ \E y \in seen : ~Good(step.name, y) \/ y[step.name] # zone[step.name]
          BY <2>2, <4>2, <5>1, <5>2 DEF Justified
        <5>4. QED  BY <2>2, <5>3 DEF Doubt, Changed
      <4>3. QED  BY <4>1, <4>2
    <3>3. CASE /\ CompareAlias(lost)
               /\ q.diff = IF query_alias(step.name, request.address, lost) = "target"
                             THEN request.diff ELSE request.diff \cup {step}
      <4>1. step.name \in Alias /\ Known(request.address)
        BY <2>1, <3>3 DEF CompareAlias, AddressRead
      <4>2. CASE query_alias(step.name, request.address, lost) # "target"
        BY <2>2, <4>1, <4>2, AliasDoubt
      <4>3. CASE query_alias(step.name, request.address, lost) = "target"
        BY <3>3, <4>3
      <4>4. QED  BY <4>2, <4>3
    <3>4. QED  BY <1>1, <3>1, <3>2, <3>3
  <2>5. q.diff \subseteq request.diff \cup {step}
    BY <1>1
  <2>6. /\ Elements(q.todo) \in SUBSET Record /\ q.diff \in SUBSET Record
        /\ \A l \in Record : l.name \in Name
    BY ElementOfSeq, LenProperties DEF Elements, ZonefileRequest, Found, Record, Line
  <2>7. ASSUME NEW l \in q.diff PROVE Doubt(l.name)'
    <3>1. Doubt(l.name) \/ l.name \in lost
      BY <2>1, <2>4, <2>5, <2>7 DEF LineFacts
    <3>2. l.name \in lost => Unheard(l.name)'
      BY <1>1 DEF Unheard
    <3>3. Doubt(l.name) => Doubt(l.name)'
      BY <1>1, <2>6, DoubtsGrow
    <3>4. QED  BY <3>1, <3>2, <3>3 DEF Doubt
  <2>8. LineFacts(Elements(q.todo), q.diff)'
    <3>1. ASSUME NEW l \in Elements(q.todo) PROVE Justified(l)'
      BY <1>1, <2>1, <2>3, <2>6, DoubtsGrow DEF LineFacts
    <3>2. QED  BY <2>7, <3>1 DEF LineFacts
  <2>9. q.address # "unread" => step'.name \in Alias
    <3>1. CASE AliasAddress(lost) /\ q.todo = request.todo
      BY <1>4, <3>1 DEF AliasAddress, step
    <3>2. CASE CompareLine(lost) /\ q.address = request.address
      BY <3>2 DEF CompareLine
    <3>3. QED  BY <1>1, <3>1, <3>2
  <2>10. ZonefileDoubts'
    BY <1>1, <1>3, <1>4, <2>8, <2>9 DEF ZonefileDoubts
  <2>11. QED  BY <1>1, <1>5, <1>7, <2>10 DEF AlarmInv, InitialDoubts
<1>8. QED  BY <1>3, <1>4, <1>6, <1>7 DEF awaited

LEMMA FinishAlarm == TypeInv /\ AlarmInv /\ (Finish \/ Raises) => AlarmInv'
<1> SUFFICES ASSUME TypeInv, AlarmInv, Finish \/ Raises PROVE AlarmInv'
  OBVIOUS
<1>1. PICK failed \in BOOLEAN :
        Answer(failed) /\ requests # <<>> /\ (~failed => request.todo = <<>>)
  BY DEF Finish, Raises
<1>2. /\ request \in Request /\ requests = <<request>> /\ answers = <<>>
      /\ cmd.at = "idle" \/ awaited(request.fn)
  BY <1>1, AtWork DEF TypeInv
<1>3. PICK a : /\ a = [failed |-> failed, data |-> request.data, diff |-> request.diff]
               /\ requests' = <<>> /\ answers' = <<a>> /\ Head(answers') = a
  BY <1>1, <1>2, Single DEF Answer
<1>4. a.data = request.data /\ a.diff = request.diff /\ a.failed = failed
  BY <1>3
<1>5. UNCHANGED <<strict_tls, zone, host, cmd, outcome, seen, unheard>>
  BY <1>1 DEF Answer
<1>6. InitialDoubts'
  <2>1. ASSUME cmd.at = "initial", ~failed PROVE AlarmFacts(a.data, 7)'
    <3>1. PICK k \in 1..7 : request.todo = Rest(k) /\ AlarmFacts(request.data, k)
      BY <1>1, <2>1 DEF AlarmInv, InitialDoubts
    <3>2. Rest(k) = <<>>
      BY <1>1, <2>1, <3>1
    <3>3. k = 7
      <4>1. k \notin 1..6
        BY <3>2, RestSteps, Zenon
      <4>2. QED  BY <4>1
    <3>4. AlarmFacts(a.data, 7)
      BY <1>4, <3>1, <3>3
    <3>5. QED  BY <1>5, <3>4, DoubtsGrow
  <2>2. QED  BY <1>3, <1>4, <1>5, <2>1 DEF InitialDoubts
<1>7. ZonefileDoubts'
  <2>1. ASSUME cmd.at = "verify", ~failed PROVE LineFacts({}, a.diff)'
    <3>1. LineFacts(Elements(request.todo), request.diff)
      BY <1>1, <2>1 DEF AlarmInv, ZonefileDoubts
    <3>2. LineFacts({}, a.diff)
      BY <1>4, <3>1 DEF LineFacts
    <3>3. a.diff \in SUBSET Record /\ {} \in SUBSET Record
      BY <1>2, <1>4 DEF Request, InitialRequest, ZonefileRequest, Found
    <3>4. QED  BY <1>5, <3>2, <3>3, DoubtsGrow
  <2>2. QED  BY <1>3, <1>4, <1>5, <2>1 DEF ZonefileDoubts
<1>8. AlarmsHaveCause'
  BY <1>5, AlarmStays DEF AlarmInv
<1>9. QED  BY <1>6, <1>7, <1>8 DEF AlarmInv

LEMMA CallAlarm ==
    ASSUME NEW do \in {"run", "dns"}, NEW opts \in SUBSET Option, Call(do, opts)
    PROVE  AlarmInv'
<1>1. /\ answers' = <<>> /\ cmd'.at \in {"initial", "deploy"}
      /\ requests' \in {<<>>, <<initial_checks>>}
  BY DEF Call
<1>2. requests' # <<>> => request'.todo = Rest(1)
  BY <1>1, Single DEF request, initial_checks, Rest
<1>3. \A d : AlarmFacts(d, 1)'
  BY DEF AlarmFacts
<1>4. 1 \in 1..7
  OBVIOUS
<1>5. InitialDoubts'
  BY <1>1, <1>2, <1>3, <1>4 DEF InitialDoubts
<1>6. QED  BY <1>1, <1>5 DEF AlarmInv, ZonefileDoubts, AlarmsHaveCause

\* A command ends, and either reports nothing or has its reasons.
LEMMA EndedAlarm ==
    ASSUME NEW says, NEW lines, NEW ok, Ends(says, lines, ok),
           says \in {"missing", "unset"} => \A l \in lines : Doubt(l.name)'
    PROVE  AlarmInv'
<1>1. cmd'.at = "idle" /\ outcome'.says = says /\ outcome'.lines = lines
  BY DEF Ends, Start
<1>2. QED  BY <1>1 DEF AlarmInv, InitialDoubts, ZonefileDoubts, AlarmsHaveCause, Doubt, Changed,
                      Unheard

\* The record that check_initial_remote_data misses
LEMMA MissingDoubt ==
    ASSUME NEW data \in RemoteData, InitialFacts(data, 7), AlarmFacts(data, 7),
           NEW l \in check_initial(data)
    PROVE  l.name \in Name /\ Doubt(l.name)
<1>1. CASE data.A = None
  <2>1. l.name = "A"
    BY <1>1, Lines DEF check_initial
  <2>2. QED  BY <1>1, <2>1, Names DEF AlarmFacts
<1>2. CASE data.A # None
  <2>1. l.name \in Alias /\ data.alias[l.name] # "target"
    BY <1>2, Lines, Names DEF check_initial
  <2>2. QED  BY <2>1, Names DEF AlarmFacts
<1>3. QED  BY <1>1, <1>2

\* Each line of the zone file is one that a right zone has.
LEMMA LinesJustified ==
    ASSUME TypeInv, NEW data \in RemoteData, InitialFacts(data, 7), AlarmFacts(data, 7),
           check_initial(data) = {}, NEW id \in sts_id(data), id \in StsId
    PROVE  LineFacts(Elements(get_filled_zone_file(data, id)), {})
<1> DEFINE lines == Elements(get_filled_zone_file(data, id))
<1>1. data.A # None /\ (strict_tls => \A n \in Alias : data.alias[n] = "target")
  BY CheckPassed
<1>2. lines = {line("A", data.A), line("MX", "right"), line("www", "target"),
               line("dkim", data.dkim), line("spf", "right")}
              \cup (IF strict_tls THEN {line("_mta-sts", id), line("mta-sts", "target")} ELSE {})
              \cup (IF data.acme THEN {line("CAA", "right")} ELSE {})
  BY <1>1, ZoneFileLines DEF TypeInv, States
<1>3. data.acme = host.acme /\ data.dkim = get_dkim_entry /\ \E y \in seen : y["A"] = data.A
  BY <1>1 DEF InitialFacts, Known
<1> HIDE DEF lines
<1>4. ASSUME NEW l \in lines PROVE Justified(l)
  <2>1. \/ l.name = "A" /\ l.value = data.A
        \/ l.name \in {"MX", "spf"} /\ l.value = "right"
        \/ l.name = "CAA" /\ l.value = "right" /\ data.acme
        \/ l.name \in Alias
        \/ l.name = "_mta-sts" /\ l.value = id /\ strict_tls
        \/ l.name = "dkim" /\ l.value = data.dkim
    BY <1>2, <1>4, Lines, Names
  <2>2. CASE l.name = "A" /\ l.value = data.A
    <3>1. \A z : z["A"] # data.A => \E y \in seen : y["A"] # z["A"]
      BY <1>3
    <3>2. QED  BY <2>2, <3>1 DEF Justified
  <2>3. CASE l.name \in {"MX", "spf"} /\ l.value = "right"
    BY <2>3, GoodIs DEF Justified
  <2>4. CASE l.name = "CAA" /\ l.value = "right" /\ data.acme
    BY <1>3, <2>4, GoodIs DEF Justified
  <2>5. CASE l.name \in Alias
    BY <2>5 DEF Justified
  <2>6. CASE l.name = "_mta-sts" /\ l.value = id /\ strict_tls
    <3>1. CASE "_mta-sts" \in unheard
      BY <2>6, <3>1 DEF Justified, Unheard
    <3>2. CASE "_mta-sts" \notin unheard
      <4>1. PICK y \in seen : IF data.sts = None THEN y["_mta-sts"] \notin StsId
                                               ELSE y["_mta-sts"] = data.sts
        BY <1>1, <2>6, <3>2 DEF AlarmFacts
      <4>2. CASE data.sts = None
        BY <2>6, <4>1, <4>2, GoodIs DEF Justified
      <4>3. CASE data.sts # None
        <5>1. y["_mta-sts"] = id
          BY <4>1, <4>3 DEF sts_id
        <5>2. QED  BY <2>6, <5>1 DEF Justified
      <4>4. QED  BY <4>2, <4>3
    <3>3. QED  BY <3>1, <3>2
  <2>7. CASE l.name = "dkim" /\ l.value = data.dkim
    BY <1>3, <2>7, GoodIs DEF Justified
  <2>8. QED  BY <2>1, <2>2, <2>3, <2>4, <2>5, <2>6, <2>7
<1>5. QED  BY <1>4 DEF LineFacts, lines

LEMMA CheckedAlarm == TypeInv /\ HistoryInv /\ AlarmInv /\ Checked => AlarmInv'
<1> SUFFICES ASSUME TypeInv, HistoryInv, AlarmInv, Checked PROVE AlarmInv'
  OBVIOUS
<1>1. PICK data \in RemoteData :
         /\ data = Head(answers).data /\ cmd.at = "initial"
         /\ requests = <<>> /\ answers' = <<>>
         /\ (CheckedEnds(data) /\ requests' = <<>>) \/ Deploys(data) \/ Verifies(data)
         /\ UNCHANGED <<strict_tls, zone, host, seen, unheard, events>>
  BY CheckedCases
<1>2. InitialFacts(data, 7) /\ AlarmFacts(data, 7)
  BY <1>1 DEF Checked, waits, HistoryInv, InitialKnown, AlarmInv, InitialDoubts
<1>3. CASE CheckedEnds(data)
  <2>1. \A l \in check_initial(data) : Doubt(l.name)'
    BY <1>1, <1>2, MissingDoubt, DoubtsGrow
  <2>2. QED  BY <1>3, <2>1, EndedAlarm DEF CheckedEnds
<1>4. CASE Deploys(data)
  <2>1. cmd'.at = "deploy"
    BY <1>4 DEF Deploys, TypeInv, States, CmdType
  <2>2. QED  BY <2>1 DEF AlarmInv, InitialDoubts, ZonefileDoubts, AlarmsHaveCause
<1>5. CASE Verifies(data)
  <2>1. cmd'.at = "verify"
    BY <1>5 DEF Verifies, TypeInv, States, CmdType
  <2>2. PICK id \in sts_id(data) :
          id \in StsId /\ requests' = <<zonefile_check(get_filled_zone_file(data, id))>>
    BY <1>5 DEF Verifies
  <2>3. data.A # None /\ check_initial(data) = {}
    BY <1>5, CheckPassed DEF Verifies
  <2>4. PICK zonefile : /\ zonefile = get_filled_zone_file(data, id)
                        /\ requests' = <<zonefile_check(zonefile)>>
    BY <2>2
  <2>5. request'.todo = zonefile /\ request'.diff = {} /\ request'.address = "unread"
    BY <2>4, Single DEF request, zonefile_check
  <2>6. LineFacts(Elements(zonefile), {}) /\ Elements(zonefile) \in SUBSET Record
    <3>1. LineFacts(Elements(zonefile), {})
      BY <1>2, <2>2, <2>3, <2>4, LinesJustified
    <3>2. zonefile \in Seq(Record)
      BY <1>1, <2>2, <2>3, <2>4, ZoneFileLines DEF TypeInv, States
    <3>3. QED  BY <3>1, <3>2, ElementOfSeq, LenProperties DEF Elements
  <2>7. LineFacts(Elements(zonefile), {})'
    BY <1>1, <2>6, DoubtsGrow
  <2>8. ZonefileDoubts'
    BY <1>1, <2>5, <2>7 DEF ZonefileDoubts
  <2>9. QED  BY <2>1, <2>8 DEF AlarmInv, InitialDoubts, AlarmsHaveCause
<1>6. QED  BY <1>1, <1>3, <1>4, <1>5

LEMMA AnsweredAlarm == TypeInv /\ AlarmInv /\ (Verified \/ Failed \/ TimesOut) => AlarmInv'
<1> SUFFICES ASSUME TypeInv, AlarmInv, Verified \/ Failed \/ TimesOut PROVE AlarmInv'
  OBVIOUS
<1>1. CASE Failed \/ TimesOut
  BY <1>1, EndedAlarm DEF Failed, TimesOut
<1>2. CASE Verified
  <2> DEFINE diff == Head(answers).diff
  <2>1. cmd.at = "verify" /\ answers # <<>> /\ ~Head(answers).failed
    BY <1>2 DEF Verified, waits
  <2>2. LineFacts({}, diff) /\ diff \subseteq Record
    BY <2>1, AnswerIs DEF AlarmInv, ZonefileDoubts, TypeInv, AnswerType
  <2>3. UNCHANGED <<strict_tls, host, seen, unheard>>
    BY <1>2 DEF Verified
  <2>4. \A l \in diff : Doubt(l.name)'
    <3>1. \A l \in diff : l.name \in Name
      BY <2>2 DEF Record, Line
    <3>2. QED  BY <2>2, <2>3, <3>1, DoubtsGrow DEF LineFacts
  <2>5. \E says, ok : Ends(says, diff, ok)
    BY <1>2 DEF Verified
  <2> HIDE DEF diff
  <2>6. QED  BY <2>4, <2>5, EndedAlarm
<1>3. QED  BY <1>1, <1>2

LEMMA DeployAlarm == Deploy \/ DeployFails => AlarmInv'
BY EndedAlarm DEF Deploy, DeployFails

LEMMA OperatorAlarm ==
    ASSUME TypeInv, AlarmInv,
           \/ SetRecords \/ Follow
           \/ \E do \in {"run", "dns"}, opts \in {{}} \cup {{o} : o \in Option} : Detour(do, opts)
           \/ \E n \in Name, v \in Value \cup {None} : Edit(n, v)
    PROVE  AlarmInv'
<1>1. CASE SetRecords
  <2>1. cmd.at = "idle" /\ outcome'.says = "set" /\ UNCHANGED cmd
    BY <1>1 DEF SetRecords, TypeInv, States
  <2>2. QED  BY <2>1 DEF AlarmInv, InitialDoubts, ZonefileDoubts, AlarmsHaveCause
<1>2. CASE Follow
  <2>1. cmd.do \in {"run", "dns"} /\ {} \in SUBSET Option
    BY DEF TypeInv, States, CmdType
  <2>2. \E do \in {"run", "dns"} : Call(do, {})
    BY <1>2, <2>1 DEF Follow
  <2>3. QED  BY <2>1, <2>2, CallAlarm
<1>3. ASSUME NEW do \in {"run", "dns"}, NEW opts \in {{}} \cup {{o} : o \in Option}, Detour(do, opts)
      PROVE  AlarmInv'
  <2>1. opts \in SUBSET Option /\ Call(do, opts)
    BY <1>3 DEF Detour
  <2>2. QED  BY <2>1, CallAlarm
<1>4. ASSUME NEW n \in Name, NEW v \in Value \cup {None}, Edit(n, v) PROVE AlarmInv'
  <2>1. /\ UNCHANGED <<strict_tls, host, requests, answers, cmd, outcome, unheard>>
        /\ seen \subseteq seen'
    BY <1>4 DEF Edit, channel
  <2>2. request' = request /\ step' = step
    BY <2>1 DEF request, step
  <2>3. InitialDoubts'
    BY <2>1, <2>2, DoubtsGrow DEF AlarmInv, InitialDoubts
  <2>4. ZonefileDoubts'
    <3>1. SUFFICES ASSUME cmd.at = "verify" PROVE ZonefileDoubts'
      BY <2>1 DEF ZonefileDoubts
    <3>2. requests # <<>> => Elements(request.todo) \in SUBSET Record /\ request.diff \in SUBSET Record
      <4>1. requests # <<>> => request \in ZonefileRequest
        BY <3>1, AtWork DEF TypeInv, awaited, Request, InitialRequest, Found
      <4>2. QED  BY <4>1, ElementOfSeq, LenProperties DEF Elements, ZonefileRequest, Found
    <3>3. {} \in SUBSET Record /\ (answers # <<>> => Head(answers).diff \in SUBSET Record)
      BY AnswerIs DEF TypeInv, AnswerType
    <3>4. PICK left, diff, final :
             /\ left = Elements(request.todo) /\ diff = request.diff /\ final = Head(answers).diff
      OBVIOUS
    <3>5. /\ requests # <<>> => LineFacts(left, diff)'
          /\ answers # <<>> /\ ~Head(answers).failed => LineFacts({}, final)'
      BY <2>1, <3>1, <3>2, <3>3, <3>4, DoubtsGrow DEF AlarmInv, ZonefileDoubts
    <3>6. requests # <<>> => (request.address # "unread" => step.name \in Alias)
      BY <3>1 DEF AlarmInv, ZonefileDoubts
    <3>7. QED  BY <2>1, <2>2, <3>4, <3>5, <3>6 DEF ZonefileDoubts
  <2>5. AlarmsHaveCause'
    BY <2>1, AlarmStays DEF AlarmInv
  <2>6. QED  BY <2>3, <2>4, <2>5 DEF AlarmInv
<1>5. QED  BY <1>1, <1>2, <1>3, <1>4

LEMMA StutterAlarm == AlarmInv /\ UNCHANGED vars => AlarmInv'
<1> SUFFICES ASSUME AlarmInv, UNCHANGED vars PROVE AlarmInv'
  OBVIOUS
<1>1. /\ UNCHANGED <<strict_tls, zone, host, requests, answers, cmd, outcome, seen, unheard>>
      /\ request' = request /\ step' = step
  BY DEF vars, channel, request, step
<1>2. InitialDoubts'
  BY <1>1, DoubtsGrow DEF AlarmInv, InitialDoubts
<1>3. ZonefileDoubts' /\ AlarmsHaveCause'
  BY <1>1 DEF AlarmInv, ZonefileDoubts, LineFacts, Justified, Doubt, Changed, Unheard, AlarmsHaveCause, Good,
              get_dkim_entry
<1>4. QED  BY <1>2, <1>3 DEF AlarmInv

LEMMA AlarmNext == TypeInv /\ HistoryInv /\ AlarmInv /\ [Next]_vars => AlarmInv'
BY RemoteSteps, InitialStepAlarm, ZonefileStepAlarm, FinishAlarm, CheckedAlarm, AnsweredAlarm,
   DeployAlarm, OperatorAlarm, StutterAlarm DEF Next, Command, RemoteStep

\* AlarmsHaveCause: whatever run or dns reports as missing was, at some time since
\* the command began, not right or just being changed, or a query went unanswered,
\* of it or of the address that an alias is compared with (query_dns,
\* check_initial_remote_data, check_zonefile).
THEOREM AlarmsJustified == Spec => []AlarmsHaveCause
<1>1. Init => AlarmInv
  BY AlarmInit
<1>2. TypeInv /\ HistoryInv /\ AlarmInv /\ [Next]_vars => AlarmInv'
  BY AlarmNext
<1>3. AlarmInv => AlarmsHaveCause
  BY DEF AlarmInv
<1>4. QED  BY <1>1, <1>2, <1>3, TypeInvariant, HistoryInvariant, PTL DEF Spec

-----------------------------------------------------------------------------
(* Commands end                                                              *)

\* What is left for a remote function that is under way, or its answer to be
\* taken: two steps for a line of the zone file at most, and for a command.
workOf(r) == 2 * Len(r.todo) + (IF r.address = "unread" THEN 3 ELSE 2)

work == IF requests = <<>> THEN 1 ELSE workOf(request)

left == CASE cmd.at = "idle" -> 0
          [] cmd.at = "deploy" -> 1
          [] cmd.at = "verify" -> work
          [] cmd.at = "initial" -> 20 + work

LEMMA WorkOf ==
    ASSUME NEW r \in Request
    PROVE  Len(r.todo) \in Nat /\ workOf(r) \in Nat /\ workOf(r) >= 2
<1>1. \A k \in 1..7 : Len(Rest(k)) \in Nat
  BY DEF Rest
<1>2. Len(r.todo) \in Nat
  BY <1>1 DEF Request, InitialRequest, ZonefileRequest, Found
<1> DEFINE n == Len(r.todo)
<1>3. n \in Nat
  BY <1>2
<1> HIDE DEF n
<1>4. workOf(r) = 2 * n + (IF r.address = "unread" THEN 3 ELSE 2)
  BY DEF workOf, n
<1>5. workOf(r) \in Nat /\ workOf(r) >= 2
  BY <1>3, <1>4
<1>6. QED  BY <1>2, <1>5

LEMMA WorkNat == TypeInv => work \in Nat /\ left \in Nat
<1> SUFFICES ASSUME TypeInv PROVE work \in Nat /\ left \in Nat
  OBVIOUS
<1>1. work \in Nat
  BY AtWork, WorkOf DEF work, TypeInv
<1>2. cmd.at \in {"idle", "initial", "deploy", "verify"}
  BY DEF TypeInv, States, CmdType
<1>3. QED  BY <1>1, <1>2 DEF left

LEMMA LessWork ==
    ASSUME NEW r, NEW q, Len(r.todo) \in Nat,
           \/ Len(q.todo) = Len(r.todo) - 1 /\ q.address \in {r.address, "unread"}
           \/ q.todo = r.todo /\ r.address = "unread" /\ q.address # "unread"
    PROVE  workOf(q) < workOf(r) /\ workOf(q) \in Int
<1> DEFINE n == Len(r.todo)
           m == Len(q.todo)
           old == IF r.address = "unread" THEN 3 ELSE 2
           new == IF q.address = "unread" THEN 3 ELSE 2
<1>1. n \in Nat /\ ((m = n - 1 /\ new <= old + 1) \/ (m = n /\ new < old))
  OBVIOUS
<1>2. old \in Nat /\ new \in Nat
  OBVIOUS
<1>3. workOf(q) = 2 * m + new /\ workOf(r) = 2 * n + old
  BY DEF workOf
<1> HIDE DEF n, m, old, new
<1>4. QED  BY <1>1, <1>2, <1>3

LEMMA WorkOfNext ==
    ASSUME TypeInv, requests # <<>>, NEW q, requests' = <<q>>,
           workOf(q) < workOf(request), workOf(q) \in Int
    PROVE  work' < work /\ work' \in Int
<1>1. Head(<<q>>) = q /\ <<q>> # <<>>
  BY Single
<1>2. request' = q /\ requests' # <<>>
  BY <1>1 DEF request
<1>3. work' = workOf(q)
  BY <1>2 DEF work, workOf
<1>4. QED  BY <1>3 DEF work

\* Each step of a remote function leaves less to do,
LEMMA RemoteWorks ==
    ASSUME TypeInv, Remote \/ Unanswered \/ Raises
    PROVE  UNCHANGED cmd /\ work' < work /\ work' \in Int /\ requests # <<>>
<1>1. ASSUME NEW lost, InitialStep(lost)
      PROVE  UNCHANGED cmd /\ work' < work /\ work' \in Int /\ requests # <<>>
  <2>1. PICK k \in 1..6, d \in RemoteData : InitialEffect(k, d, lost)
    BY <1>1, InitialStepEffect
  <2> DEFINE q == [request EXCEPT !.data = d, !.todo = Rest(k + 1)]
  <2>2. q.todo = Rest(k + 1) /\ q.address = request.address
    BY <2>1 DEF InitialEffect, InitialRequest, Found
  <2>3. requests' = <<q>> /\ request' = q /\ UNCHANGED cmd /\ request.todo = Rest(k)
    BY <2>1 DEF InitialEffect, request
  <2>4. Len(Rest(k + 1)) = Len(Rest(k)) - 1 /\ Len(Rest(k)) \in Nat
    BY DEF Rest
  <2>5. requests # <<>>
    BY <1>1 DEF InitialStep, QueryAddress, QueryAlias, AccountUrl, DkimEntry, QueryStsId, working
  <2> HIDE DEF q
  <2>6. workOf(q) < workOf(request) /\ workOf(q) \in Int
    BY <2>2, <2>3, <2>4, LessWork
  <2>7. QED  BY <2>3, <2>5, <2>6, WorkOfNext
<1>2. ASSUME NEW lost, ZonefileStep(lost)
      PROVE  UNCHANGED cmd /\ work' < work /\ work' \in Int /\ requests # <<>>
  <2>1. PICK q \in ZonefileRequest :
             /\ request \in ZonefileRequest /\ request.todo # <<>>
             /\ requests' = <<q>> /\ UNCHANGED cmd
             /\ \/ AliasAddress(lost) /\ q.todo = request.todo /\ q.address = query_dns("A", lost)
                \/ CompareLine(lost) /\ q.todo = Tail(request.todo) /\ q.address = request.address
                \/ CompareAlias(lost) /\ q.todo = Tail(request.todo) /\ q.address = "unread"
    BY <1>2, ZonefileStepEffect
  <2>3. request.todo \in Seq(Record) /\ Len(Tail(request.todo)) = Len(request.todo) - 1
        /\ Len(request.todo) \in Nat
    BY <2>1 DEF ZonefileRequest, Found
  <2>4. query_dns("A", lost) # "unread"
    BY ZoneValues, NoneAssumption DEF TypeInv, States, query_dns, Address
  <2>5. requests # <<>>
    BY <1>2 DEF ZonefileStep, CompareLine, AliasAddress, CompareAlias, working
  <2>6. AliasAddress(lost) => request.address = "unread"
    BY DEF AliasAddress
  <2>7. workOf(q) < workOf(request) /\ workOf(q) \in Int
    <3>1. \/ Len(q.todo) = Len(request.todo) - 1 /\ q.address \in {request.address, "unread"}
          \/ q.todo = request.todo /\ request.address = "unread" /\ q.address # "unread"
      BY <2>1, <2>3, <2>4, <2>6
    <3>2. QED  BY <2>3, <3>1, LessWork
  <2>8. QED  BY <2>1, <2>5, <2>7, WorkOfNext
<1>3. CASE Finish \/ Raises
  <2>1. requests # <<>> /\ \E failed \in BOOLEAN : Answer(failed)
    BY <1>3 DEF Finish, Raises
  <2>2. requests = <<request>>
    BY <2>1, AtWork DEF TypeInv
  <2>3. requests' = <<>> /\ UNCHANGED cmd
    BY <2>1, <2>2, Single DEF Answer
  <2>4. workOf(request) >= 2 /\ workOf(request) \in Nat
    BY <2>1, AtWork, WorkOf DEF TypeInv
  <2>5. work = workOf(request) /\ work' = 1
    BY <2>1, <2>3 DEF work
  <2>6. QED  BY <2>1, <2>3, <2>4, <2>5
<1>4. QED  BY <1>1, <1>2, <1>3, RemoteSteps DEF RemoteStep

\* and so does each step of the command, which may have a zone file checked of
\* eight lines at most.
LEMMA ZoneFileLength ==
    ASSUME NEW data, NEW id
    PROVE  Len(get_filled_zone_file(data, id)) \in 0..8
<1> DEFINE Any == {line("A", data.A), line("MX", "right"), line("_mta-sts", id), line("mta-sts", "target"),
                   line("www", "target"), line("dkim", data.dkim), line("spf", "right"), line("CAA", "right")}
           Short(s, k) == s \in Seq(Any) /\ Len(s) <= k
           s1 == <<line("A", data.A), line("MX", "right")>>
           s2 == IF strict_tls THEN <<line("_mta-sts", id), line("mta-sts", "target")>> ELSE <<>>
           s3 == <<line("www", "target"), line("dkim", data.dkim), line("spf", "right")>>
           s4 == IF data.acme THEN <<line("CAA", "right")>> ELSE <<>>
<1>1. ASSUME NEW a \in Any, NEW b \in Any, NEW c \in Any
      PROVE  Short(<<>>, 0) /\ Short(<<a>>, 1) /\ Short(<<a, b>>, 2) /\ Short(<<a, b, c>>, 3)
  <2> HIDE DEF Any
  <2>1. QED  OBVIOUS
<1>2. ASSUME NEW s, NEW t, NEW k \in Nat, NEW l \in Nat, Short(s, k), Short(t, l)
      PROVE  Short(s \o t, k + l)
  <2> HIDE DEF Any
  <2>1. QED  BY <1>2
<1> HIDE DEF Short
<1>3. Short(s1, 2) /\ Short(s3, 3)
  BY <1>1
<1>4. Short(s2, 2) /\ Short(s4, 1)
  <2>1. Short(<<line("_mta-sts", id), line("mta-sts", "target")>>, 2) /\ Short(<<line("CAA", "right")>>, 1)
    BY <1>1
  <2>2. Short(<<>>, 2) /\ Short(<<>>, 1)
    BY <1>1 DEF Short
  <2>3. QED  BY <2>1, <2>2
<1>5. get_filled_zone_file(data, id) = s1 \o s2 \o s3 \o s4
  BY DEF get_filled_zone_file
<1> HIDE DEF s1, s2, s3, s4
<1>6. Short(s1 \o s2, 4) /\ Short((s1 \o s2) \o s3, 7) /\ Short(((s1 \o s2) \o s3) \o s4, 8)
  <2>1. Short(s1 \o s2, 2 + 2)
    BY <1>2, <1>3, <1>4
  <2>2. Short((s1 \o s2) \o s3, 4 + 3)
    BY <1>2, <1>3, <2>1
  <2>3. Short(((s1 \o s2) \o s3) \o s4, 7 + 1)
    BY <1>2, <1>4, <2>2
  <2>4. QED  BY <2>1, <2>2, <2>3
<1>7. QED  BY <1>5, <1>6 DEF Short

LEMMA CommandWorks ==
    ASSUME TypeInv, Command \/ TimesOut \/ DeployFails
    PROVE  (cmd'.at = "idle" \/ left' < left)
<1>1. ASSUME NEW says, NEW lines, NEW ok, Ends(says, lines, ok) PROVE cmd'.at = "idle"
  BY <1>1 DEF Ends, Start
<1>2. CASE Checked
  <2> DEFINE data == Head(answers).data
  <2>1. /\ cmd.at = "initial" /\ requests = <<>>
        /\ CheckedEnds(data) \/ Deploys(data) \/ Verifies(data)
    BY <1>2, CheckedCases
  <2> HIDE DEF data
  <2>2. left = 21 /\ cmd \in CmdType
    BY <2>1 DEF left, work, TypeInv, States
  <2>3. CASE CheckedEnds(data)
    BY <1>1, <2>3 DEF CheckedEnds
  <2>4. CASE Deploys(data)
    <3>1. cmd'.at = "deploy"
      BY <2>2, <2>4 DEF Deploys, CmdType
    <3>2. left' = 1
      BY <3>1 DEF left
    <3>3. QED  BY <2>2, <3>2
  <2>5. CASE Verifies(data)
    <3>1. cmd'.at = "verify"
      BY <2>2, <2>5 DEF Verifies, CmdType
    <3>2. PICK id \in StsId : requests' = <<zonefile_check(get_filled_zone_file(data, id))>>
      BY <2>5 DEF Verifies
    <3> DEFINE q == zonefile_check(get_filled_zone_file(data, id))
               n == Len(q.todo)
    <3>3. n \in 0..8 /\ q.address = "unread"
      BY ZoneFileLength DEF zonefile_check
    <3>4. workOf(q) = 2 * n + 3
      BY <3>3 DEF workOf
    <3>5. requests' = <<q>>
      BY <3>2
    <3> HIDE DEF q, n
    <3>6. work' = workOf(q)
      BY <3>5, Single DEF work, workOf, request
    <3>7. left' = work'
      BY <3>1 DEF left
    <3>8. left' <= 19
      BY <3>3, <3>4, <3>6, <3>7
    <3>9. QED  BY <2>2, <3>3, <3>4, <3>6, <3>7, <3>8
  <2>6. QED  BY <2>1, <2>3, <2>4, <2>5
<1>3. CASE Verified \/ Failed \/ TimesOut \/ Deploy \/ DeployFails
  BY <1>1, <1>3 DEF Verified, Failed, TimesOut, Deploy, DeployFails
<1>4. QED  BY <1>2, <1>3 DEF Command

\* The zone may change meanwhile, but a command that is under way keeps going.
LEMMA OthersWait ==
    ASSUME cmd.at # "idle", [Next]_vars,
           ~(Remote \/ Unanswered \/ Raises \/ Command \/ TimesOut \/ DeployFails)
    PROVE  UNCHANGED <<cmd, requests, answers>>
BY DEF Next, SetRecords, Follow, Call, Detour, Edit, channel, vars

\* Fairness of the remote functions and of the commands, with the guards of their
\* steps in the place of ENABLED
Ready == answers # <<>> \/ cmd.at = "deploy"
Scheduled ==
    /\ []<>(requests = <<>>) \/ []<><<Remote>>_vars
    /\ []<>~Ready \/ []<><<Command>>_vars

\* A command that is under way comes nearer and nearer to its end, however the
\* zone is edited meanwhile: it does not stay forever with n steps left.
THEOREM CommandsEnd ==
    ASSUME NEW n \in Nat
    PROVE  /\ Spec => [](left \in Nat)
           /\ Spec /\ Scheduled =>
                (cmd.at # "idle" /\ left = n ~> cmd.at = "idle" \/ left < n)
<1> DEFINE At == cmd.at # "idle" /\ left = n
           Asking == At /\ requests # <<>>
           Acting == At /\ requests = <<>>
           Less == cmd.at = "idle" \/ left < n
           Quiet == requests = <<>>
           Able == Ready
           Work == Remote
           Act == Command
<1>1. TypeInv => left \in Nat
  BY WorkNat
<1>2. ASSUME TypeInv, At, Remote \/ Unanswered \/ Raises \/ Command \/ TimesOut \/ DeployFails PROVE Less'
  <2>1. CASE Remote \/ Unanswered \/ Raises
    <3>1. UNCHANGED cmd /\ work' < work
      BY <1>2, <2>1, RemoteWorks
    <3>2. cmd.at \in {"initial", "verify"}
      BY <1>2, <2>1, RemoteWorks, AtWork DEF TypeInv, awaited
    <3>3. work' \in Int /\ work \in Nat
      BY <1>2, <2>1, RemoteWorks, WorkNat
    <3>4. left' < left
      BY <3>1, <3>2, <3>3 DEF left
    <3>5. QED  BY <1>2, <3>4
  <2>2. QED  BY <1>2, <2>1, CommandWorks
<1>3. ASSUME TypeInv, At, [Next]_vars PROVE UNCHANGED <<cmd, requests, answers>> \/ Less'
  BY <1>2, <1>3, OthersWait
<1>4. TypeInv /\ Asking /\ [Next]_vars => Asking' \/ Less'
  BY <1>3 DEF left, work, workOf, request
<1>5. TypeInv /\ Asking /\ <<Work>>_vars => Less'
  BY <1>2
<1>6. TypeInv /\ Acting /\ [Next]_vars => Acting' \/ Less'
  BY <1>3 DEF left, work, workOf, request
<1>7. TypeInv /\ Acting /\ <<Act>>_vars => Less'
  BY <1>2
<1>8. TypeInv /\ Acting => Able
  BY DEF TypeInv, States, CmdType, Channel, NoCall, CallUnderWay, CallAnswered, Ready
<1>9. (At => Asking \/ Acting) /\ (Asking => ~Quiet)
  OBVIOUS
<1> HIDE DEF At, Asking, Acting, Less, Quiet, Able, Work, Act
<1>10. Spec /\ ([]<>Quiet \/ []<><<Work>>_vars) /\ ([]<>~Able \/ []<><<Act>>_vars) => (At ~> Less)
  BY <1>4, <1>5, <1>6, <1>7, <1>8, <1>9, TypeInvariant, PTL DEF Spec
<1>11. Spec => [](left \in Nat)
  BY <1>1, TypeInvariant, PTL
<1>12. QED  BY <1>10, <1>11 DEF At, Less, Quiet, Able, Work, Act, Scheduled
=============================================================================
