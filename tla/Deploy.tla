------------------------------- MODULE Deploy -------------------------------
(* cmdeploy run: one deployer per part of the relay, whose install, configure *)
(* and activate methods give pyinfra operations to perform on the server.     *)
(* Files that a deployer treats alike are one file here, and so are services: *)
(* "filtermail" stands for three, "chatmaild" for chatmail-metadata,          *)
(* lastlogin and the timers. A deployer remembers in need_restart (a mark)    *)
(* that a file has changed, for as long as one run of cmdeploy lasts.         *)
EXTENDS Naturals, Sequences, FiniteSets, SequencesExt

CONSTANTS
    Absent,         \* contents of a file that does not exist
    Configs,        \* the options of runs: records disable_mail, mtail, iroh, website_only
    TlsModes,       \* subset of {"acme", "self", "external"}
    StageLists,     \* the values of CMDEPLOY_STAGES
    Editable,       \* the files of which there are new versions between runs
    Broken,         \* the configurations, <<file, version>>, that no validation passes
    MaxRuns, MaxEdits, MaxCuts, MaxReboots      \* bounds

VARIABLES
    want,       \* [File -> Version]: what a run would put, or find in the package list
    disk,       \* [File -> Version \cup {Absent}]
    loaded,     \* [Unit -> Version \cup {Absent}]: the units as systemd has them
    running,    \* services that run
    enabled,    \* services that start at boot
    saw,        \* the files of each running service as they were when it started
    blocked,    \* whether /usr/sbin/policy-rc.d exists
    tls_cert_mode, config, stages,              \* of the run
    todo,       \* the operations left to it
    marks,      \* the need_restart and daemon_reload of its deployers
    outcome,    \* "none" before the first run, "running", "complete", "cut"
    whole,      \* whether all runs went through all stages to the end
    runs, edits, cuts, reboots

server == <<disk, loaded, running, enabled, saw, blocked>>
run == <<tls_cert_mode, config, stages, todo, marks, outcome, whole>>
vars == <<server, run, want, runs, edits, cuts, reboots>>

-----------------------------------------------------------------------------
(* Operations                                                                *)

Always == {"always"}

other == [do |-> "other"]
upgrade == [do |-> "upgrade"]
put(f, ms) == [do |-> "put", file |-> f, marks |-> ms]
package(f, ms) == [do |-> "package", file |-> f, marks |-> ms]
systemd(s, on, boot, restarted, daemon_reload) ==
    [do |-> "service", service |-> s, running |-> on, enabled |-> boot,
     restarted |-> restarted, daemon_reload |-> daemon_reload]
block == [do |-> "block"]
unblock == [do |-> "unblock"]
validate(s, ms) == [do |-> "validate", service |-> s, marks |-> ms]
blocked_service_startup(f, ms) == <<block, package(f, ms), unblock>>

\* A unit of chatmaild: uploaded in configure, restarted by every activate.
remote_units(s) == systemd(s, TRUE, TRUE, Always, Always)

deployer(i, c, a) == [install |-> i, configure |-> c, activate |-> a]

-----------------------------------------------------------------------------
(* The deployers                                                             *)

ChatmailDeployer == deployer(<<upgrade, other>>, <<other>>, <<>>)
LegacyRemoveDeployer == deployer(<<other>>, <<>>, <<>>)
WebsiteDeployer == deployer(<<other>>, <<other>>, <<>>)
GithashDeployer == deployer(<<>>, <<>>, <<other>>)

FiltermailDeployer == deployer(
    <<put("filtermail", {"filtermail"})>>,
    <<put("filtermail.service", {"filtermail"})>>,
    <<systemd("filtermail", TRUE, TRUE, {"filtermail"}, Always)>>)

JournaldDeployer == deployer(
    <<>>,
    <<put("journald.conf", {"journald"})>>,
    <<systemd("journald", TRUE, TRUE, {"journald"}, {})>>)

UnboundDeployer == deployer(
    blocked_service_startup("unbound", {}),
    <<other, put("unbound.conf", {"unbound"})>>,
    <<other, systemd("unbound", TRUE, TRUE, {"unbound"}, {})>>)

TurnDeployer == deployer(
    <<put("turnserver", {})>>,
    <<put("turnserver.service", {})>>,
    <<remote_units("turnserver")>>)

IrohDeployer(c) == deployer(
    <<put("iroh-relay", {"iroh"})>>,
    <<put("iroh-relay.service", {"iroh"}), put("iroh-relay.toml", {"iroh"})>>,
    <<systemd("iroh-relay", TRUE, c.iroh, {"iroh"}, {})>>)

\* The reconcile service is started by its timer only, and systemd applies a
\* changed timer as soon as it has loaded it.
AcmetoolDeployer == deployer(
    <<put("acmetool", {}), other>>,
    <<other, put("acmetool-redirector.service", {"redirector"}),
      put("acmetool-reconcile.service", {"reconcile"}),
      put("acmetool-reconcile.timer", {"timer"})>>,
    <<systemd("acmetool-redirector", TRUE, TRUE, {"redirector"}, {}),
      systemd("acmetool-reconcile", FALSE, FALSE, {}, {"reconcile"}),
      systemd("acmetool-reconcile.timer", TRUE, TRUE, {}, {"timer"}), other>>)

SelfSignedTlsDeployer == deployer(<<other>>, <<other>>, <<>>)

ExternalTlsDeployer == deployer(
    <<>>,
    <<other, put("tls-cert-reload.path", {"tls"}), put("tls-cert-reload.service", {"tls"})>>,
    <<systemd("tls-cert-reload.path", TRUE, TRUE, {"tls"}, {"tls"})>>)

get_tls_deployer(mode) ==
    CASE mode = "acme" -> AcmetoolDeployer
      [] mode = "self" -> SelfSignedTlsDeployer
      [] mode = "external" -> ExternalTlsDeployer

install_remote_venv_with_chatmaild == <<other, put("chatmaild", {})>>
configure_remote_venv_with_chatmaild == <<put("chatmail.ini", {}), other>>

ChatmailVenvDeployer == deployer(
    install_remote_venv_with_chatmaild,
    configure_remote_venv_with_chatmaild \o <<put("chatmaild.service", {})>>,
    <<remote_units("chatmaild")>>)

MtastsDeployer == deployer(
    <<>>, <<other>>, <<systemd("mta-sts-daemon", FALSE, FALSE, {}, Always)>>)

\* The key is generated when there is none, which marks nothing.
OpendkimDeployer == deployer(
    <<package("opendkim", {})>>,
    <<put("opendkim.conf", {"opendkim"}), put("opendkim.private", {}),
      put("opendkim.service.d", {"opendkim"}), other>>,
    <<systemd("opendkim", TRUE, TRUE, {"opendkim"}, {"opendkim"})>>)

\* Only a changed configuration is validated.
configure_dovecot ==
    <<put("dovecot.conf", {"dovecot", "dovecot.config"}), other,
      put("dovecot.service.d", {"dovecot.daemon_reload"}), validate("dovecot", {"dovecot.config"})>>

\* Mutant: a replaced binary that still runs is not noticed.
DovecotDeployer_NoStale(c) == deployer(
    blocked_service_startup("dovecot", {"dovecot"}) \o <<other>>,
    <<put("doveauth.service", {})>> \o configure_dovecot,
    <<remote_units("doveauth")>> \o (IF c.disable_mail THEN <<>> ELSE <<other>>)
    \o <<systemd("dovecot", ~c.disable_mail, ~c.disable_mail,
                 IF c.disable_mail THEN {} ELSE {"dovecot"}, {"dovecot.daemon_reload"})>>
    \o (IF c.disable_mail THEN <<>> ELSE <<other>>))

\* Permissions are repaired before the start, and the health check comes after it.
DovecotDeployer(c) == deployer(
    blocked_service_startup("dovecot", {"dovecot"}) \o <<other>>,
    <<put("doveauth.service", {})>> \o configure_dovecot,
    <<remote_units("doveauth")>>
    \o (IF c.disable_mail THEN <<>> ELSE <<[do |-> "stale", service |-> "dovecot"], other>>)
    \o <<systemd("dovecot", ~c.disable_mail, ~c.disable_mail,
                 IF c.disable_mail THEN {} ELSE {"dovecot"}, {"dovecot.daemon_reload"})>>
    \o (IF c.disable_mail THEN <<>> ELSE <<other>>))

\* Mutant: a changed configuration does not count for need_restart.
Fail2BanDeployer_NoRestart == deployer(
    <<package("fail2ban", {})>>,
    <<put("fail2ban.conf", {})>>,
    <<systemd("fail2ban", TRUE, TRUE, {"fail2ban"}, {})>>)

Fail2BanDeployer == deployer(
    <<package("fail2ban", {})>>,
    <<put("fail2ban.conf", {"fail2ban"})>>,
    <<systemd("fail2ban", TRUE, TRUE, {"fail2ban"}, {})>>)

\* Mutant: the restart is not left out with --disable-mail.
PostfixDeployer_Restarts(c) == deployer(
    <<package("postfix", {})>>,
    <<put("postfix.conf", {"postfix"}), put("postfix@.service.d", {"postfix.daemon_reload"}),
      validate("postfix", {"postfix"})>>,
    <<systemd("postfix", ~c.disable_mail, ~c.disable_mail,
              {"postfix"}, {"postfix.daemon_reload"})>>)

\* Mutant: the configuration is not validated.
PostfixDeployer_NotValidated(c) == deployer(
    <<package("postfix", {})>>,
    <<put("postfix.conf", {"postfix"}), put("postfix@.service.d", {"postfix.daemon_reload"})>>,
    <<systemd("postfix", ~c.disable_mail, ~c.disable_mail,
              IF c.disable_mail THEN {} ELSE {"postfix"}, {"postfix.daemon_reload"})>>)

PostfixDeployer(c) == deployer(
    <<package("postfix", {})>>,
    <<put("postfix.conf", {"postfix"}), put("postfix@.service.d", {"postfix.daemon_reload"}),
      validate("postfix", {"postfix"})>>,
    <<systemd("postfix", ~c.disable_mail, ~c.disable_mail,
              IF c.disable_mail THEN {} ELSE {"postfix"}, {"postfix.daemon_reload"})>>)

FcgiwrapDeployer == deployer(
    <<package("fcgiwrap", {})>>, <<>>, <<systemd("fcgiwrap", TRUE, TRUE, {}, {})>>)

\* Mutant: policy-rc.d stays after the installation.
NginxDeployer_KeepsPolicy == deployer(
    <<block, package("nginx", {})>>,
    <<put("nginx.conf", {"nginx"}), other>>,
    <<systemd("nginx", TRUE, TRUE, {"nginx"}, {})>>)

NginxDeployer == deployer(
    <<block, package("nginx", {}), unblock>>,
    <<put("nginx.conf", {"nginx"}), other>>,
    <<systemd("nginx", TRUE, TRUE, {"nginx"}, {})>>)

\* Neither the binary nor the unit, which has the address, marks anything.
MtailDeployer(c) == deployer(
    <<other, put("mtail", {})>>,
    <<put("mtail.service", {}), put("delivered_mail.mtail", {"mtail"})>>,
    <<systemd("mtail", c.mtail, c.mtail, {"mtail"}, {})>>)

\* With --website-only a run is about nothing else.
all_deployers(mode, c) ==
    IF c.website_only THEN <<WebsiteDeployer>> ELSE
    <<ChatmailDeployer, LegacyRemoveDeployer, FiltermailDeployer, JournaldDeployer,
      UnboundDeployer, TurnDeployer, IrohDeployer(c), get_tls_deployer(mode),
      WebsiteDeployer, ChatmailVenvDeployer, MtastsDeployer, OpendkimDeployer,
      DovecotDeployer(c), Fail2BanDeployer, PostfixDeployer(c), FcgiwrapDeployer,
      NginxDeployer, MtailDeployer(c), GithashDeployer>>

\* The operations of a run: stage by stage, each for all deployers.
perform_stages(ds, sts) ==
    FlattenSeq([i \in 1..Len(sts) |-> FlattenSeq([d \in 1..Len(ds) |-> ds[d][sts[i]]])])

-----------------------------------------------------------------------------
(* What services read when they start                                        *)

Service == {"filtermail", "journald", "unbound", "turnserver", "iroh-relay", "acmetool-redirector",
            "acmetool-reconcile.timer", "tls-cert-reload.path", "chatmaild", "opendkim", "doveauth",
            "dovecot", "fail2ban", "postfix", "fcgiwrap", "nginx", "mtail"}

\* The configuration of services that are Debian packages
Conf == [unbound |-> "unbound.conf", dovecot |-> "dovecot.conf", fail2ban |-> "fail2ban.conf",
         postfix |-> "postfix.conf", nginx |-> "nginx.conf"]

Reads == [s \in Service |->
    CASE s = "filtermail" -> {"filtermail", "filtermail.service", "chatmail.ini"}
      [] s = "journald" -> {"journald.conf"}
      [] s = "turnserver" -> {"turnserver", "turnserver.service"}
      [] s = "iroh-relay" -> {"iroh-relay", "iroh-relay.service", "iroh-relay.toml"}
      [] s = "acmetool-redirector" -> {"acmetool", "acmetool-redirector.service"}
      [] s = "acmetool-reconcile.timer" -> {}
      [] s = "tls-cert-reload.path" -> {"tls-cert-reload.path"}
      [] s = "chatmaild" -> {"chatmaild", "chatmaild.service", "chatmail.ini"}
      [] s = "opendkim" -> {"opendkim", "opendkim.conf", "opendkim.private", "opendkim.service.d"}
      [] s = "doveauth" -> {"chatmaild", "doveauth.service", "chatmail.ini"}
      [] s = "fcgiwrap" -> {"fcgiwrap"}
      [] s = "mtail" -> {"mtail", "mtail.service", "delivered_mail.mtail"}
      [] s \in DOMAIN Conf -> {s, Conf[s]}]

Program == {"filtermail", "unbound", "turnserver", "iroh-relay", "acmetool", "chatmaild",
            "opendkim", "dovecot", "fail2ban", "postfix", "fcgiwrap", "nginx", "mtail"}

\* Additions to the unit of a Debian package
DropIn == {"opendkim.service.d", "dovecot.service.d", "postfix@.service.d"}

Unit == DropIn \cup
    {"filtermail.service", "turnserver.service", "iroh-relay.service", "acmetool-redirector.service",
     "acmetool-reconcile.service", "acmetool-reconcile.timer", "tls-cert-reload.path",
     "tls-cert-reload.service", "chatmaild.service", "doveauth.service", "mtail.service"}

File == Unit \cup UNION {Reads[s] : s \in Service}

\* A service without its own configuration has the one of its Debian package.
startable(s) ==
    s \in Service /\ \A f \in Reads[s] \cap (Program \cup (Unit \ DropIn)) : disk[f] # Absent

-----------------------------------------------------------------------------
Version == 0..1
Stage == {"install", "configure", "activate"}

\* What comes from the package list of the server. Dovecot is pinned instead
\* (dovecot/deployer.py:63-73).
Debian == {"unbound", "acmetool", "opendkim", "fail2ban", "postfix", "fcgiwrap", "nginx"}

\* apt.packages, and the generation of a key, only make sure that it is there.
Kept == Debian \cup {"opendkim.private"}

ASSUME DeployAssumption ==
    /\ Absent \notin Version
    /\ Configs # {} /\ Configs \subseteq [disable_mail : BOOLEAN, mtail : BOOLEAN, iroh : BOOLEAN,
                                         website_only : BOOLEAN]
    /\ TlsModes \subseteq {"acme", "self", "external"}
    /\ Editable \subseteq File
    /\ Broken \subseteq {"dovecot.conf", "postfix.conf"} \X Version
    /\ {MaxRuns, MaxEdits, MaxCuts, MaxReboots} \subseteq Nat

\* Whoever limits a run to some stages keeps their order (doc/source/overview.rst:357).
ASSUME StageAssumption ==
    /\ StageLists # {} /\ StageLists \subseteq Seq(Stage)
    /\ \A sts \in StageLists : \A i, j \in DOMAIN sts :
         i < j => sts[i] # "activate" /\ sts[j] # "install"

TypeOK ==
    /\ want \in [File -> Version]
    /\ disk \in [File -> Version \cup {Absent}]
    /\ loaded \in [Unit -> Version \cup {Absent}]
    /\ running \subseteq Service /\ enabled \subseteq Service
    /\ \A s \in Service : IF s \in running THEN saw[s] \in [Reads[s] -> Version \cup {Absent}]
                                            ELSE saw[s] = <<>>
    /\ blocked \in BOOLEAN /\ whole \in BOOLEAN
    /\ tls_cert_mode \in TlsModes /\ config \in Configs /\ stages \in StageLists
    /\ outcome \in {"none", "running", "complete", "cut"}
    /\ outcome # "running" => todo = <<>> /\ marks = {}
    /\ runs \in 0..MaxRuns /\ edits \in 0..MaxEdits /\ cuts \in 0..MaxCuts /\ reboots \in 0..MaxReboots

Init ==
    /\ want = [f \in File |-> 0]
    /\ disk = [f \in File |-> Absent]
    /\ loaded = [f \in Unit |-> Absent]
    /\ running = {"journald"} /\ enabled = {"journald"}
    /\ saw = [s \in Service |-> IF s = "journald" THEN [f \in Reads[s] |-> Absent] ELSE <<>>]
    /\ blocked = FALSE /\ whole = TRUE
    /\ tls_cert_mode \in TlsModes
    /\ config = (CHOOSE c \in Configs : TRUE) /\ stages = (CHOOSE sts \in StageLists : TRUE)
    /\ outcome = "none" /\ todo = <<>> /\ marks = {}
    /\ runs = 0 /\ edits = 0 /\ cuts = 0 /\ reboots = 0

-----------------------------------------------------------------------------
(* The runs of cmdeploy                                                      *)

idle == outcome # "running"

\* chatmail.ini or the checkout changes on the build machine, or Debian has a
\* new version. It makes no difference before the first run, nor after the last.
Edit(f) ==
    /\ idle /\ runs \in 1..MaxRuns - 1 /\ edits < MaxEdits /\ edits' = edits + 1
    /\ want' = [want EXCEPT ![f] = 1 - @]
    /\ UNCHANGED <<server, run, runs, cuts, reboots>>

\* Every run has new deployers, none of which needs a restart yet.
deploy_chatmail(c, sts) ==
    /\ idle /\ runs < MaxRuns /\ runs' = runs + 1
    /\ config' = c /\ stages' = sts
    /\ outcome' = "running" /\ marks' = {}
    /\ todo' = perform_stages(all_deployers(tls_cert_mode, c), sts)
    /\ UNCHANGED <<server, tls_cert_mode, whole, want, edits, cuts, reboots>>

op == Head(todo)

\* The current operation, of one of the given kinds, succeeds.
Perform(kinds) ==
    /\ outcome = "running" /\ todo # <<>> /\ op.do \in kinds
    /\ todo' = Tail(todo)
    /\ UNCHANGED <<tls_cert_mode, config, stages, outcome, whole, want, runs, edits, cuts, reboots>>

needed(ms) == ms = Always \/ ms \cap marks # {}

\* What services that start now get to see: their files, and of their units
\* what systemd has, or has to load for that.
Start(ss, units) ==
    /\ loaded' = [f \in Unit |-> IF units[f] = Absent /\ \E s \in ss : f \in Reads[s] THEN disk'[f]
                                                                              ELSE units[f]]
    /\ saw' = [s \in Service |->
                 IF s \in ss
                   THEN [f \in Reads[s] |-> IF f \in Unit THEN loaded'[f] ELSE disk'[f]]
                 ELSE IF s \in running' THEN saw[s] ELSE <<>>]

\* An operation whose effect no property here tells apart
Other ==
    /\ Perform({"other"})
    /\ UNCHANGED <<server, marks>>

\* What an operation makes of a file
source(f) == IF f \in Kept /\ disk[f] # Absent THEN disk[f] ELSE want[f]

\* files.put, files.template, files.download and the like, of a file
PutFile ==
    /\ Perform({"put"})
    /\ disk' = [disk EXCEPT ![op.file] = source(op.file)]
    /\ marks' = marks \cup (IF disk' # disk THEN op.marks ELSE {})
    /\ UNCHANGED <<loaded, running, enabled, saw, blocked>>

\* A Debian package enables its service, and starts it unless policy-rc.d
\* says no.
Install ==
    /\ Perform({"package"})
    /\ disk' = [disk EXCEPT ![op.file] = source(op.file)]
    /\ marks' = marks \cup (IF disk' # disk THEN op.marks ELSE {})
    /\ enabled' = IF disk[op.file] = Absent THEN enabled \cup {op.file} ELSE enabled
    /\ IF disk' = disk \/ blocked
         THEN UNCHANGED <<running, saw, loaded>>
         ELSE running' = running \cup {op.file} /\ Start({op.file}, loaded)
    /\ UNCHANGED blocked

\* apt.upgrade: a new version of a package restarts its service if that is
\* enabled or runs, unless policy-rc.d says no, and no other one.
Upgrade ==
    /\ Perform({"upgrade"})
    /\ LET new == {f \in Debian : disk[f] \notin {Absent, want[f]}}
           restarted == {s \in new \cap Service : ~blocked /\ s \in running \cup enabled}
       IN  /\ disk' = [f \in File |-> IF f \in new THEN want[f] ELSE disk[f]]
           /\ running' = running \cup restarted
           /\ Start(restarted, loaded)
    /\ UNCHANGED <<enabled, blocked, marks>>

Policy ==
    /\ Perform({"block", "unblock"})
    /\ blocked' = (op.do = "block")
    /\ UNCHANGED <<disk, loaded, running, enabled, saw, marks>>

broken(s) == <<Conf[s], disk[Conf[s]]>> \in Broken

\* doveconf -n, postconf: a configuration that does not pass ends the run (Cut).
Validate ==
    /\ Perform({"validate"})
    /\ needed(op.marks) => ~broken(op.service)
    /\ UNCHANGED <<server, marks>>

\* A service that still runs a binary that has been replaced needs a restart.
Stale ==
    /\ Perform({"stale"})
    /\ marks' = IF op.service \in running /\ saw[op.service][op.service] # disk[op.service]
                  THEN marks \cup {op.service} ELSE marks
    /\ UNCHANGED server

\* systemd.service. A restart comes after the stop of a service that is not
\* to run; whether it then runs is left open.
Systemd ==
    /\ Perform({"service"})
    /\ op.running => startable(op.service)
    /\ LET again == needed(op.restarted) /\ op.service \in running
       IN  /\ running' \in IF op.running THEN {running \cup {op.service}}
                           ELSE {running \ {op.service}} \cup (IF again THEN {running} ELSE {})
           /\ UNCHANGED disk
           /\ Start({s \in running' : s = op.service /\ (again \/ s \notin running)},
                    IF needed(op.daemon_reload) THEN [f \in Unit |-> disk[f]] ELSE loaded)
    /\ enabled' = IF op.enabled THEN enabled \cup {op.service} ELSE enabled \ {op.service}
    /\ UNCHANGED <<blocked, marks>>

Stop(how) ==
    /\ outcome' = how /\ todo' = <<>>
    /\ UNCHANGED <<server, tls_cert_mode, config, stages, want, runs, edits, reboots>>

\* Mutant: the deployers of a run are those of the next one.
Finish_KeepsMarks ==
    /\ outcome = "running" /\ todo = <<>>
    /\ whole' = (whole /\ (config.website_only \/ stages = <<"install", "configure", "activate">>))
    /\ Stop("complete")
    /\ UNCHANGED <<marks, cuts>>

Finish ==
    /\ outcome = "running" /\ todo = <<>>
    /\ whole' = (whole /\ (config.website_only \/ stages = <<"install", "configure", "activate">>))
    /\ marks' = {}
    /\ Stop("complete")
    /\ UNCHANGED cuts

\* An operation fails, a validation too, or cmdeploy is interrupted, or a port is
\* taken or an address is missing before the first operation: nothing is undone.
Cut ==
    /\ outcome = "running" /\ todo # <<>>
    /\ cuts < MaxCuts /\ cuts' = cuts + 1
    /\ whole' = FALSE /\ marks' = {}
    /\ Stop("cut")

Reboot ==
    /\ idle /\ reboots < MaxReboots /\ reboots' = reboots + 1
    /\ running' = {s \in enabled : startable(s)}
    /\ UNCHANGED <<disk, enabled, blocked>>
    /\ Start(running', [f \in Unit |-> disk[f]])
    /\ UNCHANGED <<run, want, runs, edits, cuts>>

-----------------------------------------------------------------------------
Next ==
    \/ \E f \in Editable : Edit(f)
    \/ \E c \in Configs, sts \in StageLists : deploy_chatmail(c, sts)
    \/ Other \/ PutFile \/ Install \/ Upgrade \/ Policy \/ Validate \/ Stale \/ Systemd
    \/ Finish \/ Cut \/ Reboot

Spec == Init /\ [][Next]_vars

-----------------------------------------------------------------------------
(* Properties *)

performed(stage) == outcome = "complete" /\ stage \in ToSet(stages) /\ ~config.website_only

\* Files that are put without need_restart, or upgraded without a restart,
\* although a service reads them when it starts
Overlooked == {<<"mtail", "mtail">>, <<"mtail", "mtail.service">>, <<"filtermail", "chatmail.ini">>,
               <<"acmetool-redirector", "acmetool">>}

\* As long as no run is cut short or limited to some stages, what runs on the
\* server runs with the files that are there: each change of a file leads to a
\* restart in the same run, with the unit as it is now, also with services that
\* were disabled in between (the need_restart of the deployers), and so does a
\* new version of a Debian package (deployers.py:500).
RunsCurrent ==
    idle /\ whole =>
      \A s \in running : \A f \in Reads[s] : saw[s][f] = disk[f] \/ <<s, f>> \in Overlooked

\* Whatever was cut short before, Dovecot does not go on with a binary that
\* has been replaced once a run has activated it (dovecot/deployer.py:84-93).
BinaryCurrent ==
    performed("activate") /\ "dovecot" \in running => saw["dovecot"]["dovecot"] = disk["dovecot"]

\* The block on services that packages start ends with the installation, also
\* if a run that was cut short left it behind (basedeploy.py:27-46).
PolicyRemoved == performed("install") => ~blocked

\* After a run with --disable-mail neither Dovecot nor Postfix runs, also
\* after a reboot.
MailDisabled ==
    performed("activate") /\ config.disable_mail =>
      {"dovecot", "postfix"} \cap (running \cup enabled) = {}

\* The mark of a changed configuration, which has it validated
config_mark == [dovecot |-> "dovecot.config", postfix |-> "postfix"]

\* Neither Dovecot nor Postfix starts with a configuration that does not pass
\* validation, whether an operation, a package, an upgrade or the boot starts it:
\* never in the run that brought the configuration, and not at all as long as no
\* run was cut short (dovecot/deployer.py:228-233, postfix/deployer.py:95-103). A
\* failed validation cuts the run short and leaves the configuration: the next
\* run finds it unchanged, and starts the service with it.
ValidatedBeforeStart ==
    [][\A s \in {"dovecot", "postfix"} :
         saw'[s] \notin {saw[s], <<>>} /\ (cuts = 0 \/ config_mark[s] \in marks)
         => <<Conf[s], saw'[s][Conf[s]]>> \notin Broken]_vars

\* chatmail.ini.f:91: mtail_address is the "Address on which `mtail` listens",
\* which its unit has in the command line.
MtailListens ==
    idle /\ whole /\ "mtail" \in running => saw["mtail"]["mtail.service"] = disk["mtail.service"]
=============================================================================
