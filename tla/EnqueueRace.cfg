CONSTANTS
    WordBits = 2
    NPcb = 1
    NTcb = 2
    NPages = 4
    ShellOps = {"thread"}
    ThreadOps = {"exit"}
    KillTargets = {}
    MaxPid = 1
    MaxTid = 2
SPECIFICATION Spec
INVARIANT ThreadsVisible
