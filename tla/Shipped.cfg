CONSTANTS
    WordBits = 2
    NPcb = 4
    NTcb = 0
    NPages = 4
    ShellOps = {"newprocess", "killprocess", "ps"}
    ThreadOps = {}
    KillTargets = {0, 1, 2, 3}
    MaxPid = 5
    MaxTid = 0
SPECIFICATION Spec
CHECK_DEADLOCK FALSE
INVARIANTS
    PagesAccounted
    QueueExact
PROPERTY ImplementsRoundRobin
