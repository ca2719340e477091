CONSTANTS
  Cfgs <- OneToOne
  MaxConns = 1
  MaxCrashes = 1
  CallbackResults = {"ok"}
SPECIFICATION Spec
INVARIANT NoPanic
CHECK_DEADLOCK FALSE
