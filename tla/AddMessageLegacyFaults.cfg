\* Legacy format with an index error, a partial merge, a failed commit or a
\* crash: what still holds when an add fails half way.
CONSTANTS
    a = a  b = b  c = c  d = d  e = e  g = g
    MsgIds <- MCMsgIds
    Files <- MCFiles
    Ghosts = FALSE
    Faults = {"index", "merge", "commit", "crash"}
    MaxThread = 9
    MaxFaults = 1
SPECIFICATION Spec
INVARIANT OneThreadPerDoc
INVARIANT HighWaterMark
INVARIANT ReturnedMessageIsIndexed
