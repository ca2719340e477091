CONSTANTS
  Cfgs <- Compatible
  MaxConns = 2
  MaxCrashes = 1
  CallbackResults = {"ok", "err"}
SPECIFICATION Spec
INVARIANT TypeOK
INVARIANT AgreedRings
PROPERTY Settles
 
CHECK_DEADLOCK FALSE
