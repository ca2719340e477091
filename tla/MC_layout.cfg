CONSTANT Configs <- AllConfigs
SPECIFICATION Spec
INVARIANT TypeOK
INVARIANT RegionFits
INVARIANT HeadersIntact
CHECK_DEADLOCK FALSE
