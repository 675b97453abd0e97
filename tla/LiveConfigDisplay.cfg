SPECIFICATION Spec
CONSTANTS
    h1 = h1
    h2 = h2
    Handlers <- MCHandlers
    Patches <- MCPatches
    Parsable <- MCParsable
    Default <- MCDefault
    Env <- MCEnv
    MaxPatches = 3
    MaxRestarts = 1
INVARIANTS
    GetShowsLive
CHECK_DEADLOCK FALSE
