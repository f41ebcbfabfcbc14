\* three runs, any of them with all stages or some, with and without
\* --disable-mail and mtail; one change on the build machine, or a new version of a
\* Debian package; a new configuration of Dovecot or Postfix fails its validation;
\* one run cut short anywhere, one reboot
CONSTANTS
    Absent = Absent
    Configs <- OptionSets
    TlsModes = {"acme", "external"}
    StageLists <- Split
    Editable <- Sources
    Broken <- Bad
    MaxRuns = 3
    MaxEdits = 1
    MaxCuts = 1
    MaxReboots = 1
SPECIFICATION Spec
INVARIANTS TypeOK RunsCurrent BinaryCurrent PolicyRemoved MailDisabled
PROPERTIES ValidatedBeforeStart
CHECK_DEADLOCK FALSE
