CONSTANTS
    WordBits = 2
    NPcb = 2
    NTcb = 2
    NPages = 4
    ShellOps = {"newprocess", "killprocess", "thread", "killthread", "threads"}
    ThreadOps = {"lock", "exit", "spin"}
    KillTargets = {0, 1}
    MaxPid = 2
    MaxTid = 2
SPECIFICATION Spec
CHECK_DEADLOCK FALSE
INVARIANTS
    TypeOK
    InterruptShield
    MutualExclusion
