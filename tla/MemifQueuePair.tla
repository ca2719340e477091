--------------------------- MODULE MemifQueuePair ---------------------------
(***************************************************************************)
(* The packet fast path of one memif queue pair (queue pair 0), as the     *)
(* client lays it out in initializeQueues and as ReadPacket / WritePacket  *)
(* (packet_processing.go) drive it from application threads: one writer   *)
(* per ring, and RxThreads readers of the server's rx queue 0 (one in the  *)
(* echo examples, queueNum in bw_test's receiver).                         *)
(*                                                                         *)
(*   ring "S2M": the client writes (advances head), the server reads       *)
(*               (caches lastHead, publishes tail);                         *)
(*   ring "M2S": the client posts empty buffers (advances head in its      *)
(*               refill), the server fills them (advances tail), the       *)
(*               client reads (caches lastTail).                            *)
(*                                                                         *)
(* Every shared-memory access of the code is kept: head/tail loads and     *)
(* stores, descriptor loads and stores, and payload copies.  A step of a   *)
(* thread groups accesses to memory no other thread touches at that time,  *)
(* so the interleavings between the threads are those of the code         *)
(* under sequentially consistent memory.                                   *)
(***************************************************************************)
EXTENDS Integers, Sequences, SequencesExt, Bitwise

CONSTANTS
  Log2RingSize,     \* p.run.Log2RingSize: the ring has 2^Log2RingSize slots
  IndexWidth,       \* bits of the head / tail fields (16 in the code)
  PacketBufferSize, \* p.run.PacketBufferSize: bytes of one packet buffer
  Workloads,        \* set of [Rings -> set of packets]: what the application may write
  MaxWrites,        \* bound: packets committed per ring
  RxThreads         \* goroutines calling ReadPacket on the server's rx queue 0

Rings == {"S2M", "M2S"}

ASSUME /\ Log2RingSize \in Nat /\ IndexWidth \in Nat \ {0}
       /\ Log2RingSize < IndexWidth
       /\ PacketBufferSize \in Nat \ {0}
       /\ MaxWrites \in Nat /\ RxThreads \in Nat \ {0}
       /\ \A w \in Workloads : DOMAIN w = Rings

\* ring.size and the mask ReadPacket / WritePacket index slots with.
RingSize == 2 ^ Log2RingSize
Slots == 0 .. RingSize - 1
\* head and tail are uint16 fields: every stored index is taken modulo 2^16.
Modulus == 2 ^ IndexWidth
\* Fault variant: the index kept as a plain int, never truncated to 16 bits.
WrapNone(x) == x
Wrap(x) == x % Modulus
SlotOf(i) == i & (RingSize - 1)

\* The region holds 2 * NumQueuePairs * RingSize packet buffers (addRegion).
Buffers == 0 .. 2 * RingSize - 1
Zero == 0  \* the content of a fresh memfd region

\* The ring a thread of each role works on: the client writes S2M and reads
\* M2S; the server reads S2M and writes M2S.
WriterIsServer(r) == r = "M2S"
ReaderIsServer(r) == r = "S2M"
\* The threads that call ReadPacket on a ring.  They share the Queue (and
\* its lastHead / lastTail) that GetRxQueue returns a pointer to.
Readers(r) == IF ReaderIsServer(r) THEN 1 .. RxThreads ELSE 1 .. 1

VARIABLES
  head, tail,   \* [Rings -> 0..Modulus-1]: the ring header indices in shm
  desc,         \* [Rings -> [Slots -> descriptor]] in shm
  buf,          \* [Buffers -> [1..PacketBufferSize -> byte]] payload in shm
  lastHead,     \* server rx queue (S2M) cached head
  lastTail,     \* client rx queue (M2S) cached tail
  wr,           \* [Rings -> writer thread state inside WritePacket]
  rd,           \* [r \in Rings -> [Readers(r) -> state inside ReadPacket]]
  irq,          \* [Rings -> BOOLEAN] the ring's eventfd has been written
  committed,    \* [Rings -> Nat]: packets WritePacket has committed
  inflight,     \* history: [pkt, img] of each committed packet not yet
                \* returned by ReadPacket; img is the bytes WritePacket copied
  lastRead,     \* history: the last packet ReadPacket returned, with the
                \* oldest in-flight packet at that moment
  incomplete,   \* [Rings -> BOOLEAN] ReadPacket hit "incomplete chained buffer"
  Packets       \* [Rings -> set of packets] the application's workload, fixed

vars == <<head, tail, desc, buf, lastHead, lastTail, wr, rd, irq,
          committed, inflight, lastRead, incomplete, Packets>>

Desc == [next : BOOLEAN, len : 0 .. PacketBufferSize, buf : Buffers]

\* initializeQueues: flags 0, region 0, length PacketBufferSize, and the
\* offset of buffer qid * ring.size + j, for the tx rings and again for the
\* rx rings of the same queue pair.
qid == 0
InitDesc(r, j) == [next |-> FALSE, len |-> PacketBufferSize, buf |-> qid * RingSize + j]

\* initializeQueues: q.ring.setFlags(1) for every ring.
RingFlags(r) == 1
ringFlagInterrupt == 0

\* Queue.isInterrupt / Queue.interrupt: the eventfd is written when the mask
\* test says interrupts are on.
IsInterrupt(r) == (RingFlags(r) & ringFlagInterrupt) = 0
Interrupt(r) == irq' = [irq EXCEPT ![r] = irq[r] \/ IsInterrupt(r)]

\* copy(region[offset:offset+capacity], pkt[:]): the first Min(capacity,
\* Len(pkt)) bytes of the packet overwrite the start of the buffer.
CopyOut(b, pkt, capacity) ==
  LET k == IF capacity < Len(pkt) THEN capacity ELSE Len(pkt)
  IN [i \in 1 .. PacketBufferSize |-> IF i <= k THEN pkt[i] ELSE b[i]]
Copied(pkt, capacity) == IF capacity < Len(pkt) THEN capacity ELSE Len(pkt)

\* copy(pkt[pktOffset:], region[offset:offset+length])
CopyIn(b, length) == [i \in 1 .. length |-> b[i]]

IdleWriter == [pc |-> "idle", pkt |-> <<>>, slot |-> 0, nFree |-> 0, n |-> 0,
               d |-> InitDesc("S2M", 0), img |-> <<>>]
\* History bookkeeping: ReadPacket returned data while the oldest packet
\* committed and not yet returned was Head(inflight[r]); spurious when none
\* was in flight.
NoRead == [data |-> <<>>, pkt |-> <<>>, img |-> <<>>, spurious |-> FALSE]
Delivered(r, data) ==
  IF inflight[r] = <<>>
    THEN /\ lastRead' = [lastRead EXCEPT ![r] = [NoRead EXCEPT !.data = data, !.spurious = TRUE]]
         /\ UNCHANGED inflight
    ELSE /\ lastRead' = [lastRead EXCEPT ![r] = [data |-> data, pkt |-> Head(inflight[r]).pkt,
                                                img |-> Head(inflight[r]).img, spurious |-> FALSE]]
         /\ inflight' = [inflight EXCEPT ![r] = Tail(@)]

IdleReader == [pc |-> "idle", slot |-> 0, nSlots |-> 0, data |-> <<>>, got |-> 0]

Init ==
  /\ head = [r \in Rings |-> 0]
  /\ tail = [r \in Rings |-> 0]
  /\ desc = [r \in Rings |-> [j \in Slots |-> InitDesc(r, j)]]
  /\ buf = [b \in Buffers |-> [i \in 1 .. PacketBufferSize |-> Zero]]
  /\ lastHead = 0
  /\ lastTail = 0
  /\ wr = [r \in Rings |-> IdleWriter]
  /\ rd = [r \in Rings |-> [t \in Readers(r) |-> IdleReader]]
  /\ irq = [r \in Rings |-> FALSE]
  /\ committed = [r \in Rings |-> 0]
  /\ inflight = [r \in Rings |-> <<>>]
  /\ lastRead = [r \in Rings |-> NoRead]
  /\ incomplete = [r \in Rings |-> FALSE]
  /\ Packets \in Workloads

-----------------------------------------------------------------------------
(***************************************************************************)
(* WritePacket.  The writer loads the indices, fills one buffer per slot,  *)
(* stores each descriptor that continues with NEXT set, and publishes its  *)
(* index only after the final descriptor is stored.                        *)
(***************************************************************************)

\* The producer slot and the free slot count (WritePacket lines 84-90): the
\* server fills buffers the client posted (head - tail), the client writes
\* into the slots the server has released (size - head + tail).
WriterSlot(r) == IF WriterIsServer(r) THEN tail[r] ELSE head[r]
\* Fault variant: the client counts one free slot too many.
WriterFreeOverrun(r) ==
  IF WriterIsServer(r) THEN Wrap(head[r] - tail[r])
                       ELSE Wrap(RingSize + 1 - head[r] + tail[r])
WriterFree(r) ==
  IF WriterIsServer(r) THEN Wrap(head[r] - tail[r])
                       ELSE Wrap(RingSize - head[r] + tail[r])

\* The capacity of a slot: on the server the length the client posted, on
\* the client its own packet buffer size.
Capacity(r, d) == IF WriterIsServer(r) THEN d.len ELSE PacketBufferSize

\* writeTail(slot) on the server, writeHead(slot) on the client.
PublishWriter(r, slot) ==
  IF WriterIsServer(r) THEN /\ tail' = [tail EXCEPT ![r] = slot]
                            /\ UNCHANGED head
                       ELSE /\ head' = [head EXCEPT ![r] = slot]
                            /\ UNCHANGED tail

\* Load the descriptor of the current slot, reset its flags and length,
\* copy the packet into its buffer and record the copied length.
FillSlot(r, w, d) ==
  LET k == Copied(w.pkt, Capacity(r, d))
  IN /\ buf' = [buf EXCEPT ![d.buf] = CopyOut(@, w.pkt, Capacity(r, d))]
     /\ wr' = [wr EXCEPT ![r] =
                 [w EXCEPT !.n = w.n + k,
                           !.d = [d EXCEPT !.next = FALSE, !.len = k],
                           !.img = w.img \o SubSeq(w.pkt, 1, k),
                           !.pc = IF w.n + k < Len(w.pkt) THEN "more" ELSE "commit"]]

\* nFree == 0: interrupt the peer and return 0.
WritePacketNoRoom(r) ==
  /\ wr[r].pc = "idle"
  /\ committed[r] < MaxWrites
  /\ Packets[r] # {}
  /\ WriterFree(r) = 0
  /\ Interrupt(r)
  /\ UNCHANGED <<Packets, head, tail, desc, buf, lastHead, lastTail, wr, rd,
                 committed, inflight, lastRead, incomplete>>

WritePacketBegin(r) ==
  /\ wr[r].pc = "idle"
  /\ committed[r] < MaxWrites
  /\ WriterFree(r) # 0
  /\ \E pkt \in Packets[r] :
       FillSlot(r, [IdleWriter EXCEPT !.pkt = pkt, !.slot = WriterSlot(r),
                                      !.nFree = WriterFree(r)],
                desc[r][SlotOf(WriterSlot(r))])
  /\ UNCHANGED <<Packets, head, tail, desc, lastHead, lastTail, rd, irq,
                 committed, inflight, lastRead, incomplete>>

\* The packet needs another slot and none is free: interrupt, return 0.
\* Nothing is published, so the partly written chain is never visible.
WritePacketChainFull(r) ==
  /\ wr[r].pc = "more"
  /\ wr[r].nFree - 1 = 0
  /\ wr' = [wr EXCEPT ![r] = IdleWriter]
  /\ Interrupt(r)
  /\ UNCHANGED <<Packets, head, tail, desc, buf, lastHead, lastTail, rd,
                 committed, inflight, lastRead, incomplete>>

\* Fault variant: the producer index is published after every descriptor
\* of a chain instead of after the terminating one.
WritePacketMorePublishing(r) ==
  LET w == wr[r]
      slot == Wrap(w.slot + 1)
      desc1 == [desc EXCEPT ![r][SlotOf(w.slot)] = [w.d EXCEPT !.next = TRUE]]
  IN /\ w.pc = "more"
     /\ w.nFree - 1 # 0
     /\ desc' = desc1
     /\ PublishWriter(r, slot)
     /\ FillSlot(r, [w EXCEPT !.slot = slot, !.nFree = w.nFree - 1],
                 desc1[r][SlotOf(slot)])
     /\ UNCHANGED <<Packets, lastHead, lastTail, rd, irq,
                    committed, inflight, lastRead, incomplete>>

\* Store the current descriptor with NEXT set, advance, fill the next slot.
WritePacketMore(r) ==
  LET w == wr[r]
      slot == Wrap(w.slot + 1)
      desc1 == [desc EXCEPT ![r][SlotOf(w.slot)] = [w.d EXCEPT !.next = TRUE]]
  IN /\ w.pc = "more"
     /\ w.nFree - 1 # 0
     /\ desc' = desc1
     /\ FillSlot(r, [w EXCEPT !.slot = slot, !.nFree = w.nFree - 1],
                 desc1[r][SlotOf(slot)])
     /\ UNCHANGED <<Packets, head, tail, lastHead, lastTail, rd, irq,
                    committed, inflight, lastRead, incomplete>>

\* Store the terminating descriptor, publish the producer index, interrupt.
WritePacketCommit(r) ==
  LET w == wr[r]
  IN /\ w.pc = "commit"
     /\ desc' = [desc EXCEPT ![r][SlotOf(w.slot)] = w.d]
     /\ PublishWriter(r, Wrap(w.slot + 1))
     /\ Interrupt(r)
     /\ committed' = [committed EXCEPT ![r] = @ + 1]
     /\ inflight' = [inflight EXCEPT ![r] = Append(@, [pkt |-> w.pkt, img |-> w.img])]
     /\ wr' = [wr EXCEPT ![r] = IdleWriter]
     /\ UNCHANGED <<Packets, buf, lastHead, lastTail, rd, lastRead, incomplete>>

-----------------------------------------------------------------------------
(***************************************************************************)
(* ReadPacket.  The reader loads the peer's index once, copies the         *)
(* descriptors of one packet, then refills: the server publishes tail, the *)
(* client re-posts every free slot with a full length and publishes head.  *)
(***************************************************************************)

\* Server: from lastHead up to head.  Client: from lastTail up to tail.
ReaderSlot(r) == IF ReaderIsServer(r) THEN lastHead ELSE lastTail
\* Fault variant: the server compares against its own tail, not the head.
ReaderEndOwnIndex(r) == IF ReaderIsServer(r) THEN tail[r] ELSE tail[r]
ReaderEnd(r) == IF ReaderIsServer(r) THEN head[r] ELSE tail[r]

ReadPacketBegin(r, t) ==
  LET nSlots == Wrap(ReaderEnd(r) - ReaderSlot(r))
  IN /\ rd[r][t].pc = "idle"
     /\ rd' = [rd EXCEPT ![r][t] = [IdleReader EXCEPT
                 !.pc = IF nSlots = 0 THEN "refill" ELSE "desc",
                 !.slot = ReaderSlot(r), !.nSlots = nSlots]]
     /\ UNCHANGED <<Packets, head, tail, desc, buf, lastHead, lastTail, wr, irq,
                    committed, inflight, lastRead, incomplete>>

\* Copy one descriptor and its payload.  A descriptor with NEXT set when no
\* further slot was published ends the call with "incomplete chained buffer"
\* before the refill.
ReadPacketDesc(r, t) ==
  LET x == rd[r][t]
      d == desc[r][SlotOf(x.slot)]
      x1 == [x EXCEPT !.data = @ \o CopyIn(buf[d.buf], d.len),
                      !.slot = Wrap(@ + 1), !.nSlots = @ - 1, !.got = @ + 1,
                      !.pc = IF d.next THEN "desc" ELSE "refill"]
  IN /\ x.pc = "desc"
     /\ IF d.next /\ x1.nSlots = 0
          THEN /\ rd' = [rd EXCEPT ![r][t] = IdleReader]
               /\ incomplete' = [incomplete EXCEPT ![r] = TRUE]
          ELSE /\ rd' = [rd EXCEPT ![r][t] = x1]
               /\ UNCHANGED incomplete
     /\ UNCHANGED <<Packets, head, tail, desc, buf, lastHead, lastTail, wr, irq,
                    committed, inflight, lastRead>>

\* The client's refill re-posts Wrap(size - head + lastTail) slots.
\* Fault variant: one slot more is re-posted than was consumed.
RefillCountOver(h, lt) == Wrap(RingSize - h + lt + 1)
RefillCount(h, lt) == Wrap(RingSize - h + lt)

\* setDescLength stores the value through a *uint16: the low 16 bits of the
\* 32-bit length field are replaced, the high 16 bits are kept.
SetDescLength(old, v) == old - (old % 2^16) + (v % 2^16)

\* Fault variant: the client advances head without re-sizing the slots.
RefillNoResize(r, slot) ==
  IF ReaderIsServer(r)
    THEN /\ lastHead' = slot
         /\ tail' = [tail EXCEPT ![r] = slot]
         /\ UNCHANGED <<Packets, head, desc, lastTail>>
    ELSE /\ lastTail' = slot
         /\ head' = [head EXCEPT ![r] = Wrap(head[r] + RefillCount(head[r], slot))]
         /\ UNCHANGED <<Packets, tail, lastHead, desc>>

Refill(r, slot) ==
  IF ReaderIsServer(r)
    THEN /\ lastHead' = slot
         /\ tail' = [tail EXCEPT ![r] = slot]
         /\ UNCHANGED <<Packets, head, desc, lastTail>>
    ELSE LET h == head[r]
             n == RefillCount(h, slot)
             posted == {SlotOf(h + i) : i \in 0 .. n - 1}
         IN /\ lastTail' = slot
            /\ desc' = [desc EXCEPT ![r] =
                          [j \in Slots |-> IF j \in posted
                                             THEN [@[j] EXCEPT !.len = SetDescLength(@, PacketBufferSize)]
                                             ELSE @[j]]]
            /\ head' = [head EXCEPT ![r] = Wrap(h + n)]
            /\ UNCHANGED <<Packets, tail, lastHead>>

ReadPacketRefill(r, t) ==
  LET x == rd[r][t]
  IN /\ x.pc = "refill"
     /\ Refill(r, x.slot)
     /\ IF x.got > 0 THEN Delivered(r, x.data) ELSE UNCHANGED <<Packets, inflight, lastRead>>
     /\ rd' = [rd EXCEPT ![r][t] = IdleReader]
     /\ UNCHANGED <<Packets, buf, wr, irq, committed, incomplete>>

-----------------------------------------------------------------------------
Next ==
  \E r \in Rings :
    \/ WritePacketNoRoom(r) \/ WritePacketBegin(r) \/ WritePacketChainFull(r)
    \/ WritePacketMore(r) \/ WritePacketCommit(r)
    \/ \E t \in Readers(r) :
         ReadPacketBegin(r, t) \/ ReadPacketDesc(r, t) \/ ReadPacketRefill(r, t)

\* Each queue is served by application threads that call ReadPacket in a
\* loop (the examples' packetprocessing / recvpkt); a WritePacket call that
\* has started runs to its end.  No thread is obliged to start a write.
Fairness ==
  \A r \in Rings :
    /\ \A t \in Readers(r) :
         /\ WF_vars(ReadPacketBegin(r, t)) /\ WF_vars(ReadPacketDesc(r, t))
         /\ WF_vars(ReadPacketRefill(r, t))
    /\ WF_vars(WritePacketMore(r)) /\ WF_vars(WritePacketChainFull(r))
    /\ WF_vars(WritePacketCommit(r))

Spec == Init /\ [][Next]_vars /\ Fairness

-----------------------------------------------------------------------------
(***************************************************************************)
(* Properties.                                                             *)
(***************************************************************************)

Index == 0 .. Modulus - 1
\* The distance from index a forward to index b on the 16-bit circle.
Dist(a, b) == Wrap(b - a)

TypeOK ==
  /\ head \in [Rings -> Index] /\ tail \in [Rings -> Index]
  /\ desc \in [Rings -> [Slots -> Desc]]
  /\ lastHead \in Index /\ lastTail \in Index
  /\ wr \in [Rings -> [pc : {"idle", "more", "commit"}, pkt : Seq(Nat),
                       slot : Index, nFree : Index, n : Nat, d : Desc,
                       img : Seq(Nat)]]
  /\ \A r \in Rings :
       rd[r] \in [Readers(r) -> [pc : {"idle", "desc", "refill"}, slot : Index,
                                nSlots : Index, data : Seq(Nat), got : Nat]]
  /\ irq \in [Rings -> BOOLEAN] /\ incomplete \in [Rings -> BOOLEAN]

\* Spec §3: 0 <= head - tail <= 2^L modulo 2^16, with each index moved only
\* by its owner.  On S2M the client's head runs at most a ring ahead of the
\* tail the server released.  On M2S the indices stay in the order
\* lastTail <= tail <= head <= lastTail + 2^L around the circle: the server
\* fills only what the client posted, the client posts only what it has
\* consumed.  A wrong free count in WritePacket or refill count in
\* ReadPacket makes a producer overrun its consumer.
RingOrder ==
  /\ Dist(tail["S2M"], head["S2M"]) <= RingSize
  /\ Dist(lastTail, tail["M2S"]) <= Dist(lastTail, head["M2S"])
  /\ Dist(lastTail, head["M2S"]) <= RingSize

\* ReadPacket never meets a published descriptor with NEXT set whose
\* successor is unpublished ("incomplete chained buffer"): WritePacket
\* publishes its index only after the terminating descriptor is stored.
NoIncompleteChain == \A r \in Rings : ~incomplete[r]

\* Every M2S slot the client has posted and the server has not yet filled
\* carries the full PacketBufferSize as its length: the client's refill
\* re-sizes the slots the server shortened, and the server takes a slot's
\* capacity from that field.
CapacityRestored ==
  \A i \in 0 .. Dist(tail["M2S"], head["M2S"]) - 1 :
    LET j == SlotOf(tail["M2S"] + i)
    IN \/ desc["M2S"][j].len = PacketBufferSize
       \/ wr["M2S"].pc # "idle" /\ j = SlotOf(wr["M2S"].slot)

\* ReadPacket returns the packets of a ring in the order WritePacket
\* committed them, each with the length WritePacket wrote into its
\* descriptors, whatever the interleaving of the threads.
DeliveredInOrder ==
  \A r \in Rings : ~lastRead[r].spurious /\ Len(lastRead[r].data) = Len(lastRead[r].img)

\* The bytes ReadPacket returns are, in order, the bytes WritePacket copied
\* into the ring's buffers: no buffer a committed packet occupies is written
\* again before the reader has copied it out.
StoredDataDelivered == \A r \in Rings : lastRead[r].data = lastRead[r].img

\* Spec §8 properties 3 and 4 (round trip, chained round trip): the packets
\* ReadPacket returns are, in order, the packets passed to WritePacket.
RoundTrip == \A r \in Rings : lastRead[r].data = lastRead[r].pkt

\* Every packet WritePacket commits is eventually returned by ReadPacket.
AllDelivered ==
  \A r \in Rings : \A k \in 1 .. MaxWrites :
    committed[r] >= k ~> committed[r] - Len(inflight[r]) >= k

-----------------------------------------------------------------------------
(***************************************************************************)
(* Refinement.  Each ring implements PacketFifo.  The queue is read off    *)
(* shared memory: the descriptors from the consumer's index up to the      *)
(* producer's, cut into packets after each descriptor without NEXT, each   *)
(* packet the bytes of its buffers.  The packet consumed last is the data  *)
(* ReadPacket returned last.                                               *)
(***************************************************************************)
RECURSIVE Chains(_, _, _, _)
Chains(r, i, n, cur) ==
  IF n = 0 THEN <<>>
  ELSE LET d == desc[r][SlotOf(i)]
           cur1 == cur \o CopyIn(buf[d.buf], d.len)
       IN IF d.next THEN Chains(r, Wrap(i + 1), n - 1, cur1)
                    ELSE <<cur1>> \o Chains(r, Wrap(i + 1), n - 1, <<>>)

RingContents(r) == Chains(r, ReaderSlot(r), Dist(ReaderSlot(r), WriterSlot(r)), <<>>)

\* The bytes a ring's buffers can hold: those the workloads write and the
\* zero fill of a fresh region.
ImageBytes == {Zero} \cup UNION {Range(p) : p \in UNION {w[r] : w \in Workloads, r \in Rings}}

S2MFifo == INSTANCE PacketFifo WITH Data <- Seq(ImageBytes), MaxQueued <- RingSize,
                    queue <- RingContents("S2M"), received <- lastRead["S2M"].data
M2SFifo == INSTANCE PacketFifo WITH Data <- Seq(ImageBytes), MaxQueued <- RingSize,
                    queue <- RingContents("M2S"), received <- lastRead["M2S"].data

\* Each ring of the queue pair is a bounded FIFO of packets: a published
\* packet stays in shared memory unchanged until ReadPacket consumes it,
\* ReadPacket returns exactly the oldest one, a ring never holds more than
\* 2^Log2RingSize packets, and every published packet is consumed.
ImplementsFifo == S2MFifo!FifoSpec /\ M2SFifo!FifoSpec
==============================================================================
