\* Legacy format with one indexing failure: the failed add of a parent
\* commits the removal of its child's reference term (and the consumed
\* thread_id_<mid> entry), so the retried add no longer finds the child.
CONSTANTS
    a = a  b = b  c = c  d = d  e = e  g = g
    MsgIds <- MCMsgIds
    Files <- MCFiles
    Ghosts = FALSE
    Faults = {"index"}
    MaxThread = 10
    MaxFaults = 1
SPECIFICATION Spec
INVARIANT ParentsShareThread
