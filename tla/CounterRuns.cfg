CONSTANTS
    WordBits = 2
    NPcb = 2
    NTcb = 0
    NPages = 4
    ShellOps = {"newprocess"}
    ThreadOps = {}
    KillTargets = {}
    MaxPid = 2
    MaxTid = 0
SPECIFICATION Spec
CHECK_DEADLOCK FALSE
INVARIANT CounterNeverRuns
