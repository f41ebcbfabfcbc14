\* a zone that is right or empty, a relay at any stage of its deployment; two edits,
\* failures, unanswered queries, late answers or commands with an option
CONSTANTS
    None = None
    MaxEvents = 2
SPECIFICATION Spec
INVARIANTS TypeOK VerifiedWasRight AlarmsHaveCause DeployedWithDns
PROPERTIES AdviceLeadsThere
CHECK_DEADLOCK FALSE
