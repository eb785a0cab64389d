\* Ghost format with up to two index errors, failed commits or crashes,
\* but no merge interrupted part way: what a failed add commits (ghosts,
\* finished merges, the thread counter) still lets its retry join the
\* message to the messages its headers name.
CONSTANTS
    a = a  b = b  c = c  d = d  e = e  g = g
    MsgIds <- MCMsgIds
    Files <- MCFiles
    Ghosts = TRUE
    Faults = {"index", "commit", "crash"}
    MaxThread = 10
    MaxFaults = 2
SPECIFICATION Spec
INVARIANT ParentsShareThread
