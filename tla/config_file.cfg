SPECIFICATION Spec
CONSTANTS
    p1 = p1
    p2 = p2
    Minute = 1
    Minutes = 4
    Proc = {p1, p2}
    Legacy <- MCLegacy
    Starts <- MCStarts
    SavedModes = {"on", "auto"}
    EnvMode = "off"
    EnvStarts <- MCEnvStarts
    EnvLegacy <- MCEnvLegacy
    Crashes = TRUE
    Environments <- MCEnvironments
SYMMETRY ProcSymmetry
INVARIANTS
    TypeOK
    SavedIsKept
    EnvironmentNotPersisted
    MigrationIsComplement
