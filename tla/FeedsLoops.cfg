SPECIFICATION Spec
CONSTANTS
    Channels = {"one", "two"}
    Items = {1}
    Entries <- OneOfTwo
    Window = 1
    Backends <- Bilibili
    MaxCrashes = 1
PROPERTIES
    SavedIsNotRepublished
