CONSTANTS
    WordBits = 2
    NPcb = 1
    NTcb = 3
    NPages = 6
    ShellOps = {"thread", "threads"}
    ThreadOps = {"lock", "exit"}
    KillTargets = {}
    MaxPid = 1
    MaxTid = 4
SPECIFICATION Spec
INVARIANTS
    ContextsKept
    StacksOwned
    WalksEnd
    RunningIsCurrent
    MutualExclusion
    WaitListExact
    NoLostWakeup
