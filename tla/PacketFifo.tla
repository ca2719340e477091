----------------------------- MODULE PacketFifo -----------------------------
(***************************************************************************)
(* What one memif ring promises its two ends (spec §3, §8): a bounded      *)
(* first-in first-out queue of packets.  The producer appends a whole      *)
(* packet while fewer than MaxQueued packets are queued; the consumer      *)
(* takes the oldest one, and every queued packet is eventually taken.      *)
(***************************************************************************)
EXTENDS Sequences, Naturals

CONSTANTS
  Data,      \* the packets (byte sequences) a producer may append
  MaxQueued  \* at most this many packets are queued (one slot each at least)

VARIABLES
  queue,     \* the packets appended and not yet taken, oldest first
  received   \* the packet the consumer took last

fifoVars == <<queue, received>>

FifoInit == queue = <<>> /\ received = <<>>

\* The producer appends one packet of Data (stated by what the new queue
\* is, so that Data may be an infinite set such as Seq(Bytes)).
Send ==
  /\ Len(queue) < MaxQueued
  /\ Len(queue') = Len(queue) + 1
  /\ SubSeq(queue', 1, Len(queue)) = queue
  /\ queue'[Len(queue')] \in Data
  /\ UNCHANGED received

Receive ==
  /\ queue # <<>>
  /\ received' = Head(queue)
  /\ queue' = Tail(queue)

FifoNext == Send \/ Receive

FifoSpec == FifoInit /\ [][FifoNext]_fifoVars /\ WF_fifoVars(Receive)
==============================================================================
