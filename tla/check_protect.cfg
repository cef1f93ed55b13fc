SPECIFICATION Spec
CONSTANTS
    w1 = w1
    w2 = w2
    sched = sched
    nobody = nobody
    target = target
    other = other
    Web = {}
    Sched = sched
    Free = nobody
    Instance = {target, other}
    Target = target
    Listed = {target, other}
    Modes = {}
    Faults = {"over", "low", "error", "crash", "stock", "reclaim", "release",
              "owner"}
INVARIANTS
    ProtectionIsComplete
PROPERTIES
    ImplementsPowerControl
