SPECIFICATION Spec
CONSTANTS
    p1 = p1
    p2 = p2
    Minute = 1
    Minutes = 4
    Proc = {p1, p2}
    Legacy <- MCFew
    Starts <- MCStarts
    SavedModes = {"on", "auto"}
    EnvMode = "off"
    EnvStarts <- MCEnvStarts
    EnvLegacy <- MCEnvLegacy
    Crashes = FALSE
    Environments <- MCEnvironments
SYMMETRY ProcSymmetry
INVARIANT
    KeysSurvive
