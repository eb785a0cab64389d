\* I2 (threads follow references) when an add fails half way: a merge
\* interrupted by an index error is committed by end_atomic at DONE.
CONSTANTS
    a = a  b = b  c = c  d = d  e = e  g = g
    MsgIds <- MCMsgIds
    Files <- MCFiles
    Ghosts = TRUE
    Faults = {"index", "merge", "commit", "crash"}
    MaxThread = 9
    MaxFaults = 1
SPECIFICATION Spec
INVARIANT ThreadsFollowReferences
