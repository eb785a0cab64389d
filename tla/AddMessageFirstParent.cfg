\* S4: the merge winner is the first parent's thread (spec) -- the code
\* walks the parents in hash-table order.
CONSTANTS
    a = a  b = b  c = c  d = d  e = e  g = g
    MsgIds <- MCMsgIds
    Files <- MCFiles
    Ghosts = TRUE
    Faults = {}
    MaxThread = 6
    MaxFaults = 0
SPECIFICATION Spec
PROPERTY FirstParentThreadWins
