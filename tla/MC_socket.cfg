CONSTANTS
  c1 = c1
  c2 = c2
  NoCc = NoCc
  Conns <- MCConns
  Script <- Lifecycle
  MaxMsgs = 1
SPECIFICATION Spec
CHECK_DEADLOCK FALSE
INVARIANT TypeOK
INVARIANT PortBoundToListedChannel
INVARIANT PollerStoppedAfterStop
PROPERTY ConnectionsAccepted
