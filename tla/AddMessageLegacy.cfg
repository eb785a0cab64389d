\* Legacy format (no ghosts, thread_id_<mid> metadata), no faults.
CONSTANTS
    a = a  b = b  c = c  d = d  e = e  g = g
    MsgIds <- MCMsgIds
    Files <- MCFiles
    Ghosts = FALSE
    Faults = {}
    MaxThread = 6
    MaxFaults = 0
SPECIFICATION Spec
INVARIANT ThreadsFollowReferences
INVARIANT MetadataClearedOnArrival
INVARIANT ParentsShareThread
