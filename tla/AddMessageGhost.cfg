\* Ghost format, no faults: the thread partition is the reference graph's,
\* and the committed index refines ThreadPartition.
CONSTANTS
    a = a  b = b  c = c  d = d  e = e  g = g
    MsgIds <- MCMsgIds
    Files <- MCFiles
    Ghosts = TRUE
    Faults = {}
    MaxThread = 6
    MaxFaults = 0
SPECIFICATION Spec
INVARIANT TypeOK
INVARIANT ThreadsFollowReferences
INVARIANT GhostsAreReferenced
INVARIANT ThreadsAreComponents
PROPERTY ImplementsThreadPartition
