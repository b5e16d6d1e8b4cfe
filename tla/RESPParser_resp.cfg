CONSTANT MaxLength = 5
SPECIFICATION RespSpec
INVARIANTS StringsReadBack LinesReadBack WordsAreRead
CHECK_DEADLOCK FALSE
