\* Header values of one or two ids of two or three characters between
\* separators; the message's own id is among them.
CONSTANTS
    Self <- MCSelf
    Cases <- PassCases
SPECIFICATION Spec
CHECK_DEADLOCK FALSE
INVARIANT TypeOK
INVARIANT ParsedAsIntended
INVARIANT LoopTerminates
