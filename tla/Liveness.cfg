CONSTANTS
    WordBits = 2
    NPcb = 1
    NTcb = 3
    NPages = 6
    ShellOps = {"thread", "ls"}
    ThreadOps = {"lock"}
    KillTargets = {}
    MaxPid = 1
    MaxTid = 3
SPECIFICATION FairSpec
PROPERTIES
    ReadyRuns
    CommandsFinish
    HeadWaiterMoves
    ImplementsRoundRobin
