SPECIFICATION UploadSpec
CONSTANTS
    Files = {f1, f2}
    Servers = {s1, s2}
    First = s1
    Tasks = {1, 2}
    MaxSessions = 2
    MaxSelect = 2
    Size = 2
    OneVolume = {s1}
    None = None
    NameOf <- OwnNames
CHECK_DEADLOCK FALSE
INVARIANTS UploadTypeOK SavedWhole SavedOnce

