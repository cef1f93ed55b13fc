SPECIFICATION Spec
CONSTANTS
    w1 = w1
    w2 = w2
    sched = sched
    nobody = nobody
    target = target
    other = other
    Web = {w1, w2}
    Sched = sched
    Free = nobody
    Instance = {target}
    Target = target
    Listed = {target}
    Modes = {"on"}
    Faults = {"over", "crash"}
SYMMETRY WebSymmetry
INVARIANTS
    TypeOK
    IInv
    StartUnderThreshold
    PersistedIsPublished
    NoLostPoll
    SettingsNotForgotten
PROPERTIES
    RefreshKeepsReason
