SPECIFICATION UploadSpec
CONSTANTS
    Files = {f1, f2}
    Servers = {s1}
    First = s1
    Tasks = {1, 2}
    MaxSessions = 2
    MaxSelect = 3
    Size = 1
    OneVolume = {s1}
    None = None
    NameOf <- OwnNames
CHECK_DEADLOCK FALSE
PROPERTIES UploadEnds
