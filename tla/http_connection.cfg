SPECIFICATION LiveSpec
CONSTANTS
  BodyLength = 2
  Script <- MCGetPutGet
  Cut = FALSE
  ResponseLength = 3
  SendBuffer = 2
INVARIANTS  ResponsesInOrder
PROPERTY PatientClientAnswered
\* A closed connection does nothing more.
CHECK_DEADLOCK FALSE
