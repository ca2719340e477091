---------------------------- MODULE MC_MemifLayout ---------------------------
(* Memory configurations for MemifLayout: up to three queue pairs, rings of *)
(* 1 to 8 slots, buffers of one and two cells.                              *)
EXTENDS MemifLayout

MemoryConfigs(pairs) ==
  [NumQueuePairs : pairs, Log2RingSize : 0 .. 3, PacketBufferSize : {16, 32}]

AllConfigs == MemoryConfigs(1 .. 3)
OnePair == MemoryConfigs({1})
TwoPairs == MemoryConfigs({2})
==============================================================================
