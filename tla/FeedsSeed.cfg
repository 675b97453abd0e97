SPECIFICATION Spec
CONSTANTS
    Channels = {"one"}
    Items = {1, 2}
    Entries <- TwoOfOne
    Window = 1
    Backends <- Followed
    MaxCrashes = 0
PROPERTIES
    SeededStaysSilent
