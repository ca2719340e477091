CONSTANTS
  App <- EchoClient
  MaxBinds = 1
SPECIFICATION Spec
CHECK_DEADLOCK FALSE
INVARIANT NoAccessAfterUnmap
