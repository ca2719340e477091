CONSTANT Configs <- TwoPairs
SPECIFICATION Spec
PROPERTY DescWritesInOwnRing
CHECK_DEADLOCK FALSE
