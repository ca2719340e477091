CONSTANTS
  App <- EchoClient
  MaxBinds = 3
SPECIFICATION Spec
CHECK_DEADLOCK FALSE
INVARIANT TypeOK
PROPERTY SendersStop
