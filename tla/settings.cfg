SPECIFICATION FairSpec
CONSTANTS
    NoFile = NoFile
    Torn = Torn
    Peer = {p}
    Room = {r}
    RequirePairing = FALSE
    MaxChanges = 3
    MaxFailures = 1
    MaxCrashes = 1
INVARIANTS
    TypeOK
    NeverTorn
    NothingForgotten
PROPERTIES
    NeverBackwards
    Saved
