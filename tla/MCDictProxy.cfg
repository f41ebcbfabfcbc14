\* two connections, one id, all commands
CONSTANTS
    Conn = {c1, c2}
    Id = {i1}
    Addr = {a1, a2}
    None = None
    Command = {"B", "S", "C", "L", "I", "H"}
    MaxLines = 4
SPECIFICATION Spec
SYMMETRY Symmetry
INVARIANTS TypeOK RightAddress RepliesTruthful CommittedOnce ThreadEnds
CHECK_DEADLOCK FALSE
