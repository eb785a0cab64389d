\* Section 4.1 of the specification: spaces and tabs inside an id are
\* removed.  An id holding two spaces in a row.
CONSTANTS
    Self <- MCSelf
    Cases <- BlankCases
SPECIFICATION Spec
CHECK_DEADLOCK FALSE
INVARIANT ParsedAsIntended
