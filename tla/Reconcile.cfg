SPECIFICATION FairSpec
CONSTANTS
    Host = {h1, h2}
    Package = {p}
    MaxGeneration = 3
    MaxSelections = 1
    MaxCrashes = 1
INVARIANT LeasedBytesKept
PROPERTY IdentityNotReused
 
PROPERTY Reclaimed
