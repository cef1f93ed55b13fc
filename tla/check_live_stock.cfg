SPECIFICATION FairSpec
CONSTANTS
    w1 = w1
    w2 = w2
    sched = sched
    nobody = nobody
    target = target
    other = other
    Web = {w1}
    Sched = sched
    Free = nobody
    Instance = {target}
    Target = target
    Listed = {target}
    Modes = {"auto"}
    Faults = {"stock"}
PROPERTIES
    StoppedIsRetried
