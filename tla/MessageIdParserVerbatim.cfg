\* S7 of the specification: a malformed Message-ID is stored verbatim and
\* is threadable to messages that reference the same verbatim string.
CONSTANTS
    Self <- MCOther
    Cases <- VerbatimCases
SPECIFICATION Spec
CHECK_DEADLOCK FALSE
INVARIANT ReplyFindsMessage
