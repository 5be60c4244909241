CONSTANTS
    WordBits = 2
    NPcb = 1
    NTcb = 2
    NPages = 4
    ShellOps = {"thread"}
    ThreadOps = {"lock", "spin"}
    KillTargets = {}
    MaxPid = 1
    MaxTid = 2
SPECIFICATION FairSpec
CHECK_DEADLOCK FALSE
PROPERTY Preempted
