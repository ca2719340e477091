----------------------------- MODULE MemifLayout -----------------------------
(***************************************************************************)
(* The client's shared memory layout: addRegion sizes the single region,   *)
(* initializeQueues creates the S2M rings, then the M2S rings, writing     *)
(* each ring header (putRing) and then its descriptors (putDescBuf) into   *)
(* the region.  Memory is modelled as 16-byte cells, the size of a         *)
(* descriptor; a ring header covers 8 cells.                               *)
(*                                                                         *)
(* The layout the fast path relies on, as spec §4.2 states it: the rings   *)
(* occupy the first 2 * NumQueuePairs * ring footprint bytes, and every    *)
(* slot of every ring points at a packet buffer behind them.  The checks   *)
(* here are about where stores land; that two rings share a buffer is      *)
(* MemifQueuePair's concern (InitDesc).                                    *)
(***************************************************************************)
EXTENDS Integers, Sequences

CONSTANTS
  Configs   \* set of p.run MemoryConfig records the client may negotiate

ringSize == 128   \* ring header bytes
descSize == 16    \* descriptor bytes, and the cell size of the model
HeaderCells == ringSize \div descSize

ASSUME \A c \in Configs :
         /\ c.NumQueuePairs \in Nat \ {0} /\ c.Log2RingSize \in Nat
         /\ c.PacketBufferSize \in Nat /\ c.PacketBufferSize % descSize = 0

VARIABLES
  run,     \* the MemoryConfig initializeQueues works with
  region,  \* [packetBufferOffset, size] of region 0
  mem,     \* [cell -> content] the region, in 16-byte cells
  rings,   \* Seq of [type, qid, offset]: txQueues then rxQueues, in creation order
  phase,   \* "region", "tx", "rx", "done", or "panic" (slice out of range)
  qid,     \* loop variable of initializeQueues
  j        \* loop variable over the slots; -1 before the queue is created

vars == <<run, region, mem, rings, phase, qid, j>>

RingEntries(c) == 2 ^ c.Log2RingSize
\* rSize in Port.newRing: one ring header and its descriptor array.
RingFootprint(c) == ringSize + descSize * RingEntries(c)

Zero == [kind |-> "zero", ring |-> 0, off |-> 0]
Hdr(k) == [kind |-> "hdr", ring |-> k, off |-> 0]
DescCell(off) == [kind |-> "desc", ring |-> 0, off |-> off]

\* Port.newRing: S2M rings from offset 0, M2S rings after all S2M rings.
NewRingOffset(c, type, ringIndex) ==
  (IF type = "S2M" THEN 0 ELSE c.NumQueuePairs * RingFootprint(c))
    + ringIndex * RingFootprint(c)

AddRegionOneRingSet ==
  LET pbo == run.NumQueuePairs * RingFootprint(run)
      size == pbo + run.PacketBufferSize * RingEntries(run)
                      * (run.NumQueuePairs + run.NumQueuePairs)
  IN /\ phase = "region"
     /\ region' = [packetBufferOffset |-> pbo, size |-> size]
     /\ mem' = [c \in 0 .. size \div descSize - 1 |-> Zero]
     /\ phase' = "tx"
     /\ qid' = 0 /\ j' = -1
     /\ UNCHANGED <<run, rings>>

\* Port.addRegion(true, true): rings first, then 2 * NumQueuePairs rings'
\* worth of packet buffers.
AddRegion ==
  LET pbo == (run.NumQueuePairs + run.NumQueuePairs) * RingFootprint(run)
      size == pbo + run.PacketBufferSize * RingEntries(run)
                      * (run.NumQueuePairs + run.NumQueuePairs)
  IN /\ phase = "region"
     /\ region' = [packetBufferOffset |-> pbo, size |-> size]
     /\ mem' = [c \in 0 .. size \div descSize - 1 |-> Zero]
     /\ phase' = "tx"
     /\ qid' = 0 /\ j' = -1
     /\ UNCHANGED <<run, rings>>

InitQueueSwapped ==
  LET type == IF phase = "tx" THEN "M2S" ELSE "S2M"
      off == NewRingOffset(run, type, qid)
      k == Len(rings) + 1
  IN /\ phase \in {"tx", "rx"} /\ j = -1
     /\ rings' = Append(rings, [type |-> type, qid |-> qid, offset |-> off])
     /\ mem' = [c \in DOMAIN mem |->
                  IF c \in off \div descSize .. off \div descSize + HeaderCells - 1
                    THEN Hdr(k) ELSE mem[c]]
     /\ j' = 0
     /\ UNCHANGED <<run, region, phase, qid>>

\* Create queue qid of the current loop: newRing, setCookie, setFlags, and
\* putRing copies the header into the region.
InitQueue ==
  LET type == IF phase = "tx" THEN "S2M" ELSE "M2S"
      off == NewRingOffset(run, type, qid)
      k == Len(rings) + 1
  IN /\ phase \in {"tx", "rx"} /\ j = -1
     /\ rings' = Append(rings, [type |-> type, qid |-> qid, offset |-> off])
     /\ mem' = [c \in DOMAIN mem |->
                  IF c \in off \div descSize .. off \div descSize + HeaderCells - 1
                    THEN Hdr(k) ELSE mem[c]]
     /\ j' = 0
     /\ UNCHANGED <<run, region, phase, qid>>

\* After the last slot of a queue: the next qid, then from the tx loop to
\* the rx loop, then done.
NextLoop(ph, q) ==
  IF q + 1 < run.NumQueuePairs THEN [ph |-> ph, qid |-> q + 1]
  ELSE IF ph = "tx" THEN [ph |-> "rx", qid |-> 0]
  ELSE [ph |-> "done", qid |-> 0]

PutDescNoReset ==
  LET ring == rings[Len(rings)]
      slot == qid * RingEntries(run) + j
      addr == ring.offset + ringSize + slot * descSize
      nxt == NextLoop(phase, qid)
  IN /\ phase \in {"tx", "rx"} /\ j \in 0 .. RingEntries(run) - 1
     /\ IF addr \div descSize \in DOMAIN mem
          THEN /\ mem' = [mem EXCEPT ![addr \div descSize] =
                            DescCell(region.packetBufferOffset + slot * run.PacketBufferSize)]
               /\ j' = j + 1
               /\ IF j + 1 = RingEntries(run)
                    THEN phase' = nxt.ph /\ qid' = nxt.qid
                    ELSE UNCHANGED <<phase, qid>>
          ELSE phase' = "panic" /\ UNCHANGED <<mem, qid, j>>
     /\ UNCHANGED <<run, region, rings>>

\* Descriptor j of the queue: slot = qid * ring.size + j, offset of packet
\* buffer `slot`, stored by putDescBuf(slot, desc) at
\* ring.offset + ringSize + slot * descSize.  A start beyond the mapped
\* region makes the slice expression panic.
PutDesc ==
  LET ring == rings[Len(rings)]
      slot == qid * RingEntries(run) + j
      addr == ring.offset + ringSize + slot * descSize
      nxt == NextLoop(phase, qid)
  IN /\ phase \in {"tx", "rx"} /\ j \in 0 .. RingEntries(run) - 1
     /\ IF addr \div descSize \in DOMAIN mem
          THEN /\ mem' = [mem EXCEPT ![addr \div descSize] =
                            DescCell(region.packetBufferOffset + slot * run.PacketBufferSize)]
               /\ IF j + 1 = RingEntries(run)
                    THEN phase' = nxt.ph /\ qid' = nxt.qid /\ j' = -1
                    ELSE j' = j + 1 /\ UNCHANGED <<phase, qid>>
          ELSE phase' = "panic" /\ UNCHANGED <<mem, qid, j>>
     /\ UNCHANGED <<run, region, rings>>

Init ==
  /\ run \in Configs
  /\ region = [packetBufferOffset |-> 0, size |-> 0]
  /\ mem = <<>>
  /\ rings = <<>>
  /\ phase = "region"
  /\ qid = 0 /\ j = -1

Next == AddRegion \/ InitQueue \/ PutDesc

Spec == Init /\ [][Next]_vars
-----------------------------------------------------------------------------
Cells(off, n) == off \div descSize .. off \div descSize + n - 1

TypeOK ==
  /\ run \in Configs
  /\ phase \in {"region", "tx", "rx", "done", "panic"}
  /\ \A c \in DOMAIN mem : mem[c].kind \in {"zero", "hdr", "desc"}
  /\ rings \in Seq([type : {"S2M", "M2S"}, qid : Nat, offset : Nat])
  /\ j \in -1 .. RingEntries(run) - 1

\* Spec §4.2: no store of initializeQueues leaves the region, the rings lie
\* in the first 2 * NumQueuePairs * footprint bytes, and every buffer a
\* descriptor names lies whole between that point and the region's end.
RegionFits ==
  /\ phase # "panic"
  /\ \A k \in 1 .. Len(rings) :
       rings[k].offset + RingFootprint(run) <= 2 * run.NumQueuePairs * RingFootprint(run)
  /\ \A c \in DOMAIN mem :
       mem[c].kind = "desc" =>
         /\ mem[c].off >= 2 * run.NumQueuePairs * RingFootprint(run)
         /\ mem[c].off + run.PacketBufferSize <= region.size

\* When initializeQueues returns, every ring header is still whole in shared
\* memory (connect checks the cookie in it): no later descriptor store of
\* the loops landed on a header written before it.
HeadersIntact ==
  phase = "done" =>
    \A k \in 1 .. Len(rings) :
      \A c \in Cells(rings[k].offset, HeaderCells) : mem[c] = Hdr(k)

\* Each descriptor store of initializeQueues lands in the descriptor array
\* of the ring it is initialising.
DescWritesInOwnRing ==
  [][\A c \in DOMAIN mem :
       (mem'[c] # mem[c] /\ mem'[c].kind = "desc") =>
         c \in Cells(rings[Len(rings)].offset + ringSize, RingEntries(run))]_vars
==============================================================================
