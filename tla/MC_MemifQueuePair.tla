------------------------- MODULE MC_MemifQueuePair --------------------------
(* Model values for MemifQueuePair.  A 2-byte buffer makes a 3-byte packet *)
(* a two-descriptor chain: it needs the whole of a 2-slot ring, half of a  *)
(* 4-slot one.  Indices of IndexWidth bits wrap after 2^IndexWidth slots.  *)
EXTENDS MemifQueuePair

\* Traffic in both directions: single-slot packets and two-slot chains.
BothWaysLoad == [r \in Rings |-> IF r = "S2M" THEN {<<1>>, <<1, 1, 1>>}
                                              ELSE {<<2>>, <<2, 2, 2>>}]

\* One direction at a time, with packets whose bytes differ.
ClientToServerLoad == [r \in Rings |-> IF r = "S2M" THEN {<<1>>, <<2, 3, 1>>} ELSE {}]
ServerToClientLoad == [r \in Rings |-> IF r = "M2S" THEN {<<1>>, <<2, 3, 1>>} ELSE {}]
\* Single-slot packets in both directions, with bytes that tell them apart.
OneSlotBothWaysLoad == [r \in Rings |-> IF r = "S2M" THEN {<<1>>} ELSE {<<2>>}]

BothWays == {BothWaysLoad}
OneWay == {ClientToServerLoad, ServerToClientLoad}
ClientToServer == {ClientToServerLoad}
\* bw_test: a client sends single-slot packets to a server port whose
\* ConnectedFunc starts queueNum receivers, all on rx queue 0.
ClientToServerOneSlot == {[r \in Rings |-> IF r = "S2M" THEN {<<1>>} ELSE {}]}
OneSlotBothWays == {OneSlotBothWaysLoad}
==============================================================================
