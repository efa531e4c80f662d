\* A runtime leaving or dead, another starting, and a sweep of what is left.
SPECIFICATION FairSpec
CONSTANTS
    Runtime = {r1, r2}
    Sweeper = {s1}
    Inode = {i1, i2, i3, i4}
    NoFile = NoFile
    Nobody = Nobody
INVARIANTS
    TypeOK
    OneHolder
    ServingIsReachable
    LiveOwnerHoldsTheLock
PROPERTIES
    StartSettles
    OwnershipSpec
CHECK_DEADLOCK FALSE
