------------------------------ MODULE Cmdeploy ------------------------------
(***************************************************************************)
(* The operator's side: the commands `cmdeploy run` and `cmdeploy dns`       *)
(* (cmdeploy.py), the functions they have executed on the relay over one     *)
(* ssh channel (sshexec.py, remote/_sshexec_bootstrap.py), the DNS checks    *)
(* made there record by record while others edit the zone and queries go     *)
(* unanswered (remote/rdns.py, dns.py), and an operator who does what the     *)
(* commands print.                                                            *)
(***************************************************************************)
EXTENDS Naturals, FiniteSets, Sequences

CONSTANTS
    None,           \* no record, no answer
    MaxEvents       \* bound: edits of the zone by others, failures, unanswered queries,
                    \* and commands the operator was not told to call, in all

ASSUME BoundAssumption == MaxEvents \in Nat

VARIABLES
    strict_tls,     \* tls_cert_mode is "acme"
    zone,           \* what the authoritative name server answers
    host,           \* the relay: is there a DKIM key, an ACME account
    requests, answers,   \* the channel, and the call the remote loop is at
    cmd,            \* the command under way
    outcome,        \* what the last command printed
    seen,           \* every zone there has been since the command began
    unheard,        \* the names of which a query has gone unanswered since then
    events          \* counter for the bound

channel == <<requests, answers>>
vars == <<strict_tls, zone, host, channel, cmd, outcome, seen, unheard, events>>

\* A and AAAA are one record, so are www and admin, and the recommended ones
\* whose value is fixed (SPF, DMARC, ADSP, SRV).
Alias == {"mta-sts", "www"}
Name == {"A", "MX", "_mta-sts", "dkim", "spf", "CAA"} \cup Alias
Recommended == {"spf", "CAA"}
Address == {"addr1", "addr2"}
StsId == {"id1", "id2"}

\* An alias is a CNAME ("target" is the mail domain) or has an address of its
\* own; "noid" is a TXT record that no id can be read from; "nokey" is the DKIM
\* entry without a key.
Values(n) ==
    CASE n = "A" -> Address
      [] n \in Alias -> {"target", "elsewhere"} \cup Address
      [] n = "_mta-sts" -> StsId \cup {"noid"}
      [] n = "dkim" -> {"key", "nokey"}
      [] OTHER -> {"right", "wrong"}
Value == UNION {Values(n) : n \in Name}

ASSUME NoneAssumption == None \notin Value \cup {"unread"}

Zone == {z \in [Name -> Value \cup {None}] : \A n \in Name : z[n] \in Values(n) \cup {None}}
Line == [name : Name, value : Value]
RemoteData == [A : Address \cup {None}, alias : [Alias -> Value \cup {None}],
               acme : BOOLEAN, dkim : {"key", "nokey"}, sts : StsId \cup {None}]
Says == {"begin", "missing", "please run", "run again", "next", "website", "failed", "raised",
         "written", "unset", "correct", "set"}
Option == {"skip_dns_check", "website_only", "dry_run", "zonefile", "localhost"}
Event == events < MaxEvents /\ events' = events + 1
Start == [at |-> "idle", do |-> "run", opts |-> {}, data |-> None]

-----------------------------------------------------------------------------
(* Records *)

line(n, v) == [name |-> n, value |-> v]
set(z, lines) == [n \in Name |-> IF \E l \in lines : l.name = n
                                 THEN (CHOOSE l \in lines : l.name = n).value ELSE z[n]]

\* The authoritative name server is asked, which must be found first; no name
\* server, and an empty answer, are as if there was no record.
query_dns(n, lost) == IF n \in lost THEN None ELSE zone[n]

\* query_alias_or_same_address, given the address of the mail domain
query_alias(n, address, lost) ==
    CASE query_dns(n, lost) \in {"target", "elsewhere"} -> query_dns(n, lost)
      [] query_dns(n, lost) \in Address /\ query_dns(n, lost) = address -> "target"
      [] OTHER -> None

\* get_dkim_entry: openssl and awk make an entry without a key, and no error,
\* if there is no key.
get_dkim_entry == IF host.dkim THEN "key" ELSE "nokey"

\* Mutant: the alias for web mail is not looked at.
check_initial_NoWww(data) ==
    IF data.A = None THEN {line("A", "addr1")}
    ELSE IF strict_tls /\ data.alias["mta-sts"] # "target" THEN {line("mta-sts", "target")}
    ELSE {}

\* The first record that check_initial_remote_data misses, if any
check_initial(data) ==
    IF data.A = None THEN {line("A", "addr1")}
    ELSE IF strict_tls /\ data.alias["mta-sts"] # "target" THEN {line("mta-sts", "target")}
    ELSE IF strict_tls /\ data.alias["www"] # "target" THEN {line("www", "target")}
    ELSE {}

\* Mutant: no id unless one is published.
sts_id_Published(data) == {data.sts}

\* Mutant: a new id each time.
sts_id_Fresh(data) == StsId

\* The id that is published, else a new one from the clock
sts_id(data) == IF data.sts # None THEN {data.sts} ELSE StsId

get_filled_zone_file(data, id) ==
    <<line("A", data.A), line("MX", "right")>>
    \o (IF strict_tls THEN <<line("_mta-sts", id), line("mta-sts", "target")>> ELSE <<>>)
    \o <<line("www", "target"), line("dkim", data.dkim), line("spf", "right")>>
    \o (IF data.acme THEN <<line("CAA", "right")>> ELSE <<>>)

-----------------------------------------------------------------------------
(* One call: SSHExec.__call__ here, _run_loop on the relay                   *)

\* A request is a record with what its function has found so far.
NoData == [A |-> None, alias |-> [n \in Alias |-> None], acme |-> FALSE, dkim |-> "nokey", sts |-> None]

initial_checks ==
    [fn |-> "perform_initial_checks", data |-> NoData, diff |-> {}, address |-> "unread",
     todo |-> <<"A", "mta-sts", "www", "acme", "dkim", "_mta-sts">>]

zonefile_check(lines) ==
    [fn |-> "check_zonefile", data |-> NoData, diff |-> {}, address |-> "unread", todo |-> lines]

working(fn) == requests # <<>> /\ Head(requests).fn = fn /\ Head(requests).todo # <<>>
request == Head(requests)
step == Head(request.todo)

\* The function goes on with what it has found, queries of these names having
\* gone unanswered.
Goes(r, lost) ==
    /\ requests' = <<r>> \o Tail(requests)
    /\ unheard' = unheard \cup lost
    /\ UNCHANGED <<strict_tls, zone, host, answers, cmd, outcome, seen>>

Proceed(r, lost) == Goes([r EXCEPT !.todo = Tail(@)], lost)

\* perform_initial_checks, a record or a shell command at a time
QueryAddress(lost) ==
    /\ working("perform_initial_checks") /\ step = "A" /\ lost \subseteq {"A"}
    /\ Proceed([request EXCEPT !.data.A = query_dns("A", lost)], lost)

QueryAlias(lost) ==
    /\ working("perform_initial_checks") /\ step \in Alias /\ lost \subseteq {step}
    /\ Proceed([request EXCEPT !.data.alias[step] = query_alias(step, request.data.A, lost)], lost)

AccountUrl ==
    /\ working("perform_initial_checks") /\ step = "acme"
    /\ Proceed([request EXCEPT !.data.acme = host.acme], {})

DkimEntry ==
    /\ working("perform_initial_checks") /\ step = "dkim"
    /\ Proceed([request EXCEPT !.data.dkim = get_dkim_entry], {})

\* With an alias or the address missing, the id is not looked for.
QueryStsId(lost) ==
    /\ working("perform_initial_checks") /\ step = "_mta-sts"
    /\ LET d == request.data
           early == d.A = None \/ \E n \in Alias : d.alias[n] = None
       IN /\ lost \subseteq IF early THEN {} ELSE {"_mta-sts"}
          /\ Proceed([request EXCEPT !.data.sts =
                        IF ~early /\ query_dns("_mta-sts", lost) \in StsId
                          THEN query_dns("_mta-sts", lost) ELSE None], lost)

\* Mutant: any answer will do.
CompareLine_AnyAnswer(lost) ==
    /\ working("check_zonefile") /\ request.address = "unread" /\ lost \subseteq {step.name}
    /\ query_dns(step.name, lost) # None \/ step.name \notin Alias
    /\ Proceed(IF query_dns(step.name, lost) # None THEN request
               ELSE [request EXCEPT !.diff = @ \cup {step}], lost)

\* check_zonefile, line by line; a CNAME that is not there is followed by a
\* query for the address of the mail domain and one for that of the alias.
CompareLine(lost) ==
    /\ working("check_zonefile") /\ request.address = "unread" /\ lost \subseteq {step.name}
    /\ query_dns(step.name, lost) = step.value \/ step.name \notin Alias
    /\ Proceed(IF query_dns(step.name, lost) = step.value THEN request
               ELSE [request EXCEPT !.diff = @ \cup {step}], lost)

AliasAddress(lost) ==
    /\ working("check_zonefile") /\ request.address = "unread" /\ lost \subseteq {"A", step.name}
    /\ step.name \in Alias /\ query_dns(step.name, lost) # step.value
    /\ Goes([request EXCEPT !.address = query_dns("A", lost)], lost)

\* Mutant: only a CNAME will do.
CompareAlias_Cname(lost) ==
    /\ working("check_zonefile") /\ request.address # "unread" /\ lost \subseteq {step.name}
    /\ Proceed([request EXCEPT !.address = "unread", !.diff = @ \cup {step}], lost)

CompareAlias(lost) ==
    /\ working("check_zonefile") /\ request.address # "unread" /\ lost \subseteq {step.name}
    /\ Proceed([request EXCEPT !.address = "unread",
                  !.diff = IF query_alias(step.name, request.address, lost) = "target" THEN @
                           ELSE @ \cup {step}], lost)

Query(lost) ==
    \/ QueryAddress(lost) \/ QueryAlias(lost) \/ QueryStsId(lost)
    \/ CompareLine(lost) \/ AliasAddress(lost) \/ CompareAlias(lost)

\* No SOA record is found, or dig has no answer to show and no error either, for
\* a record that is there.
Unanswered ==
    /\ Event
    /\ \E n \in Name : zone[n] # None /\ Query({n})

Answer(failed) ==
    /\ requests' = Tail(requests)
    /\ answers' = Append(answers, [failed |-> failed, data |-> request.data, diff |-> request.diff])
    /\ UNCHANGED <<strict_tls, zone, host, cmd, outcome, seen, unheard>>

\* _handle_one_request: ("finish", result),
Finish == requests # <<>> /\ request.todo = <<>> /\ Answer(FALSE) /\ UNCHANGED events

\* or ("error", traceback): a command of the shell failed, dig or apt.
Raises ==
    /\ requests # <<>> /\ request.todo # <<>>
    /\ Event
    /\ Answer(TRUE)

-----------------------------------------------------------------------------
(* The commands *)

waits(at) == cmd.at = at /\ answers # <<>>

Ends(says, lines, ok) ==
    /\ cmd' = [Start EXCEPT !.do = cmd.do]
    /\ outcome' = [says |-> says, lines |-> lines, ok |-> ok]

\* run_cmd or dns_cmd on a channel of its own; run without DNS checks, or with
\* them, and dns begin with the same call.
Call(do, opts) ==
    /\ cmd.at = "idle"
    /\ LET asks == "skip_dns_check" \notin opts IN
       /\ cmd' = [at |-> IF asks THEN "initial" ELSE "deploy", do |-> do, opts |-> opts, data |-> None]
       /\ requests' = IF asks THEN <<initial_checks>> ELSE <<>>
    /\ answers' = <<>>
    /\ seen' = {zone} /\ unheard' = {}

\* The answer to perform_initial_checks, taken by check_initial_remote_data
\* and what follows it in either command.
Checked ==
    /\ waits("initial") /\ ~Head(answers).failed
    /\ answers' = Tail(answers)
    /\ LET data == Head(answers).data
           missing == check_initial(data)
       IN \/ /\ missing # {}
             /\ Ends("missing", missing, FALSE)
             /\ UNCHANGED requests
          \/ /\ missing = {} /\ cmd.do = "run"
             /\ cmd' = [cmd EXCEPT !.at = "deploy", !.data = data]
             /\ UNCHANGED <<requests, outcome>>
          \/ /\ missing = {} /\ cmd.do = "dns" /\ strict_tls /\ ~data.acme
             /\ Ends("please run", {}, FALSE)
             /\ UNCHANGED requests
          \/ /\ missing = {} /\ cmd.do = "dns" /\ (strict_tls => data.acme)
             /\ \E id \in sts_id(data) :
                  LET zonefile == get_filled_zone_file(data, id)
                      lines == {zonefile[i] : i \in DOMAIN zonefile}
                  IN \/ /\ "zonefile" \in cmd.opts
                        /\ Ends("written", lines, TRUE)
                        /\ UNCHANGED requests
                     \/ /\ "zonefile" \notin cmd.opts
                        /\ cmd' = [cmd EXCEPT !.at = "verify", !.data = data]
                        /\ requests' = Append(requests, zonefile_check(zonefile))
                        /\ UNCHANGED outcome
    /\ UNCHANGED <<strict_tls, zone, host, seen, unheard, events>>

\* check_full_zone
Verified ==
    /\ waits("verify") /\ ~Head(answers).failed
    /\ answers' = Tail(answers)
    /\ LET diff == Head(answers).diff IN
       Ends(IF diff = {} THEN "correct" ELSE "unset", diff, \A l \in diff : l.name \in Recommended)
    /\ UNCHANGED <<strict_tls, zone, host, requests, seen, unheard, events>>

\* FuncError is not caught,
Failed ==
    /\ cmd.at \in {"initial", "verify"} /\ answers # <<>> /\ Head(answers).failed
    /\ answers' = Tail(answers)
    /\ Ends("raised", {}, FALSE)
    /\ UNCHANGED <<strict_tls, zone, host, requests, seen, unheard, events>>

\* nor is TimeoutError, after 60 seconds without an answer; the remote function
\* goes on.  A call to localhost has no timeout.
TimesOut ==
    /\ cmd.at \in {"initial", "verify"} /\ answers = <<>> /\ "localhost" \notin cmd.opts
    /\ Event
    /\ Ends("raised", {}, FALSE)
    /\ UNCHANGED <<strict_tls, zone, host, channel, seen, unheard>>

\* pyinfra: the key of OpenDKIM is made while configuring, the ACME account
\* when the TLS deployer is activated, later.
Deployed(h) ==
    IF cmd.opts \cap {"dry_run", "website_only"} # {} THEN host ELSE h

\* run_cmd after pyinfra: it goes by the account that was there before.
Deploy ==
    /\ cmd.at = "deploy"
    /\ host' = Deployed([dkim |-> TRUE, acme |-> host.acme \/ strict_tls])
    /\ \/ "website_only" \in cmd.opts /\ Ends("website", {}, TRUE)
       \/ /\ "website_only" \notin cmd.opts
          /\ Ends(IF "skip_dns_check" \notin cmd.opts /\ strict_tls /\ ~cmd.data.acme
                  THEN "run again" ELSE "next", {}, TRUE)
    /\ UNCHANGED <<strict_tls, zone, channel, seen, unheard, events>>

DeployFails ==
    /\ cmd.at = "deploy"
    /\ Event
    /\ host' \in {host, Deployed([host EXCEPT !.dkim = TRUE]),
                  Deployed([dkim |-> TRUE, acme |-> host.acme \/ strict_tls])}
    /\ Ends("failed", {}, FALSE)
    /\ UNCHANGED <<strict_tls, zone, channel, seen, unheard>>

-----------------------------------------------------------------------------
(* The operator, and others with access to the zone                          *)

\* Sets the records that were printed, or loads the zone file.
SetRecords ==
    /\ cmd.at = "idle" /\ outcome.says \in {"missing", "unset", "written"}
    /\ zone' = set(zone, outcome.lines)
    /\ outcome' = [outcome EXCEPT !.says = "set", !.lines = {}]
    /\ UNCHANGED <<strict_tls, host, channel, cmd, seen, unheard, events>>

\* Calls what was advised, the same again after a failure or after setting
\* records, and dns when the web pages are up.
Follow ==
    /\ CASE outcome.says \in {"begin", "please run", "run again"} -> Call("run", {})
         [] outcome.says \in {"next", "website"} -> Call("dns", {})
         [] outcome.says \in {"set", "failed", "raised"} -> Call(cmd.do, {})
         [] OTHER -> FALSE
    /\ UNCHANGED <<strict_tls, zone, host, outcome, events>>

Detour(do, opts) ==
    /\ Event
    /\ "zonefile" \in opts => do = "dns"
    /\ opts \cap {"skip_dns_check", "website_only", "dry_run"} # {} => do = "run"
    /\ Call(do, opts)
    /\ UNCHANGED <<strict_tls, zone, host, outcome>>

Edit(n, v) ==
    /\ Event
    /\ zone[n] # v /\ v \in Values(n) \cup {None}
    /\ zone' = [zone EXCEPT ![n] = v]
    /\ seen' = IF cmd.at = "idle" THEN seen ELSE seen \cup {zone'}
    /\ UNCHANGED <<strict_tls, host, channel, cmd, outcome, unheard>>

-----------------------------------------------------------------------------
RightZone(h) ==
    [n \in Name |-> CASE n = "A" -> "addr1"
                      [] n \in Alias -> "target"
                      [] n = "_mta-sts" -> "id1"
                      [] n = "dkim" -> IF h.dkim THEN "key" ELSE None
                      [] OTHER -> "right"]

Init ==
    /\ strict_tls \in BOOLEAN
    /\ host \in {h \in [dkim : BOOLEAN, acme : BOOLEAN] : h.acme => h.dkim}
    /\ zone \in {RightZone(host), [n \in Name |-> None]}
    /\ requests = <<>> /\ answers = <<>>
    /\ cmd = Start
    /\ outcome = [says |-> "begin", lines |-> {}, ok |-> FALSE]
    /\ seen = {zone} /\ unheard = {}
    /\ events = 0

Remote ==
    \/ Query({}) /\ UNCHANGED events
    \/ AccountUrl /\ UNCHANGED events
    \/ DkimEntry /\ UNCHANGED events
    \/ Finish

Command == Checked \/ Verified \/ Failed \/ Deploy

Next ==
    \/ Remote \/ Unanswered \/ Raises
    \/ Command \/ TimesOut \/ DeployFails
    \/ SetRecords \/ Follow
    \/ \E do \in {"run", "dns"}, opts \in {{}} \cup {{o} : o \in Option} : Detour(do, opts)
    \/ \E n \in Name, v \in Value \cup {None} : Edit(n, v)

\* The remote function and the command go on; the operator follows.
Fairness == WF_vars(Remote) /\ WF_vars(Command) /\ WF_vars(SetRecords \/ Follow)

Spec == Init /\ [][Next]_vars /\ Fairness

-----------------------------------------------------------------------------
(* Properties *)

TypeOK ==
    /\ strict_tls \in BOOLEAN
    /\ zone \in Zone
    /\ host \in [dkim : BOOLEAN, acme : BOOLEAN]
    /\ Len(requests) <= 1
    /\ \A i \in DOMAIN requests : requests[i].data \in RemoteData /\ requests[i].diff \subseteq Line
    /\ Len(answers) <= 1
    /\ \A i \in DOMAIN answers :
         answers[i].data \in RemoteData /\ answers[i].diff \subseteq Line /\ answers[i].failed \in BOOLEAN
    /\ cmd \in [at : {"idle", "initial", "deploy", "verify"}, do : {"run", "dns"},
                opts : SUBSET Option, data : RemoteData \cup {None}]
    /\ outcome \in [says : Says, lines : SUBSET Line, ok : BOOLEAN]
    /\ seen \subseteq Zone /\ unheard \subseteq Name
    /\ events \in 0..MaxEvents

\* The names the relay cannot do without, and what will do for each: an alias
\* may have an address that the mail domain had since the command began.
Needed == {"A", "MX", "www", "dkim"} \cup (IF strict_tls THEN {"mta-sts", "_mta-sts"} ELSE {})

Good(n, z) ==
    CASE n = "A" -> z[n] # None
      [] n \in Alias -> z[n] = "target" \/ (z[n] # None /\ \E y \in seen : z[n] = y["A"])
      [] n = "_mta-sts" -> z[n] \in StsId
      [] n = "dkim" -> z[n] = get_dkim_entry
      [] n = "CAA" -> host.acme => z[n] = "right"
      [] OTHER -> z[n] = "right"

\* dns_cmd: although the zone is read record by record and may be edited in
\* between, every record that is needed was right at some time since the command
\* began when it returns 0, and the recommended ones too when it prints that all
\* entries are verified and correct; with ACME the relay has key and account.
VerifiedWasRight ==
    cmd.at = "idle" /\ cmd.do = "dns" /\ outcome.ok /\ outcome.says \in {"unset", "correct"} =>
      /\ \A n \in Needed \cup (IF outcome.says = "correct" THEN Recommended ELSE {}) :
           \E z \in seen : Good(n, z)
      /\ strict_tls => host.dkim /\ host.acme

\* check_initial_remote_data and check_zonefile: when a record is said to be
\* missing there is a cause for it since the command began: the record was not
\* right, or it or the address that it is compared with was changed, or a query of
\* either went unanswered, which query_dns cannot tell from a missing record, so
\* that a record may be reported that was right all the time (rdns.py:79-86).
AlarmsHaveCause ==
    cmd.at = "idle" /\ outcome.says \in {"missing", "unset"} =>
      \A l \in outcome.lines :
        \/ \E z \in seen : ~Good(l.name, z)
        \/ \E y, z \in seen : y[l.name] # z[l.name] \/ (l.name \in Alias /\ y["A"] # z["A"])
        \/ l.name \in unheard \/ (l.name \in Alias /\ "A" \in unheard)

\* run_cmd: with ACME nothing is deployed, unless the checks are disabled, before
\* the address and all aliases that the certificate is for have been right.
DeployedWithDns ==
    cmd.at = "deploy" /\ "skip_dns_check" \notin cmd.opts =>
      \A n \in {"A"} \cup (IF strict_tls THEN Alias ELSE {}) : \E z \in seen : Good(n, z)

\* Whoever does what the commands print comes to a zone that is verified,
\* whatever the zone and the relay were like at the beginning.
AdviceLeadsThere == <>[](cmd.at = "idle" /\ outcome.says = "correct")
=============================================================================
