\* Legacy format: messages that share a parent not yet indexed.
CONSTANTS
    a = a  b = b  c = c  d = d  e = e  g = g
    MsgIds <- MCMsgIds
    Files <- MCFiles
    Ghosts = FALSE
    Faults = {}
    MaxThread = 6
    MaxFaults = 0
SPECIFICATION Spec
INVARIANT SiblingsShareThread
