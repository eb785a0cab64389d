\* P6 of the specification: "<id>" parses to id.  Ids of one character.
CONSTANTS
    Self <- MCSelf
    Cases <- OneCharCases
SPECIFICATION Spec
CHECK_DEADLOCK FALSE
INVARIANT ParsedAsIntended
