CONSTANTS
  Log2RingSize = 1
  IndexWidth = 2
  PacketBufferSize = 2
  MaxWrites = 2
  RxThreads = 1
  Workloads <- ClientToServer
SPECIFICATION Spec
INVARIANT RoundTrip
