SPECIFICATION LiveSpec
CONSTANTS
    h1 = h1
    h2 = h2
    Handlers <- MCHandlers
    Patches <- MCPatches
    Parsable <- MCParsable
    Default <- MCDefault
    Env <- MCEnv
    MaxPatches = 3
    MaxRestarts = 1
    GHandlers <- MCHandlers
    GReprobe = 2
    GStrikes = 2
    GPlans <- MCGPlans
    DHandlers <- MCHandlers
    DReprobe = 2
    DStrikes = 2
    DPlans <- MCDPlans
INVARIANTS
    LiveTypeOK
    WindowValid
    RejectedNotApplied
    AloneIsAtomic
    LiftedWhenOff
    
PROPERTIES
    RestartKeeps
CHECK_DEADLOCK FALSE
