\* two complete runs, and mtail_address changes in between
CONSTANTS
    Absent = Absent
    Configs <- UsualOnly
    TlsModes = {"acme"}
    StageLists <- AllStages
    Editable = {"mtail.service"}
    Broken = {}
    MaxRuns = 2
    MaxEdits = 1
    MaxCuts = 0
    MaxReboots = 0
SPECIFICATION Spec
INVARIANT MtailListens
CHECK_DEADLOCK FALSE
