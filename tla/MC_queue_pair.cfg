CONSTANTS
  Log2RingSize = 2
  IndexWidth = 3
  PacketBufferSize = 2
  MaxWrites = 5
  RxThreads = 1
  Workloads <- OneWay
SPECIFICATION Spec
INVARIANT TypeOK
INVARIANT RingOrder
INVARIANT NoIncompleteChain
INVARIANT CapacityRestored
INVARIANT StoredDataDelivered
PROPERTY AllDelivered
PROPERTY ImplementsFifo
