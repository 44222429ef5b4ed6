CONSTANTS
  Edition = "nt"
  MaxMessages = 0
SPECIFICATION Spec
INVARIANT NoUnhandledError
CHECK_DEADLOCK FALSE
