------------------------------ MODULE MCDeploy ------------------------------
(* Small instances of Deploy for TLC. *)
EXTENDS Deploy

Full == <<"install", "configure", "activate">>
AllStages == {Full}
Split == {Full, <<"install", "configure">>, <<"activate">>}

Options(dm, mt, ir, wo) == [disable_mail |-> dm, mtail |-> mt, iroh |-> ir, website_only |-> wo]
Usual == Options(FALSE, TRUE, TRUE, FALSE)
OptionSets == {Usual, Options(TRUE, FALSE, FALSE, FALSE), Options(FALSE, TRUE, TRUE, TRUE)}
UsualOnly == {Usual}

\* one file of each kind: installed and configured, with and without a mark,
\* validated, a unit, a binary that Debian packages bring, Debian packages whose
\* upgrade restarts a service, one that may be disabled, and none
Sources == {"dovecot", "dovecot.conf", "postfix.conf", "iroh-relay.service", "chatmail.ini",
            "delivered_mail.mtail", "tls-cert-reload.path", "postfix", "acmetool"}
Bad == {<<"dovecot.conf", 1>>, <<"postfix.conf", 1>>}
=============================================================================
