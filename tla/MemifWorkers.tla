---------------------------- MODULE MemifWorkers ----------------------------
(***************************************************************************)
(* One port's lifecycle as its socket's polling goroutine drives it, and   *)
(* the worker goroutines the application's ConnectedFunc starts.           *)
(*                                                                         *)
(* The polling goroutine binds a control channel to the port, runs         *)
(* Port.connect (mmap, queue check, ConnectedFunc) and, when the channel   *)
(* closes, Port.disconnect with the default DisconnectedFunc: close        *)
(* QuitChan and ErrChan, Wg.Wait, then, in separate steps the workers can   *)
(* interleave with, drop txQueues, drop rxQueues and unmap the regions.   *)
(* The workers are those of the examples: a sender (sendpkt)     *)
(* selects on QuitChan before each WritePacket, a receiver (recvpkt,       *)
(* packetprocessing) calls ReadPacket forever.  Each calls Wg.Add(1) as    *)
(* its first statement, inside the goroutine, and Wg.Done when it returns. *)
(***************************************************************************)
EXTENDS Integers, Sequences

CONSTANTS
  App,       \* the kinds of goroutine ConnectedFunc starts, in order
  MaxBinds   \* bound: control channels bound to the port over a run

Kinds == {"sender", "receiver"}
ASSUME App \in Seq(Kinds) /\ MaxBinds \in Nat

VARIABLES
  port,      \* "idle" (p.cc = nil), "bound", "connected", "waiting" (the
             \* polling goroutine blocked in Wg.Wait), or the teardown step
             \* disconnect is at: "dropTx", "dropRx", "unmap"
  binds,     \* control channels bound so far
  quit,      \* QuitChan is closed
  wg,        \* the WaitGroup counter
  txq,       \* p.txQueues holds queue 0
  rxq,       \* p.rxQueues holds queue 0
  mapped,    \* p.regions mapped
  workers,   \* Seq of [kind, pc]: every goroutine ConnectedFunc started
  exit       \* "none", or how the process ended: "fatal" (logrus.Fatal),
             \* "close" (close of closed channel), "unmapped" (a queue
             \* access after the regions were dropped)

vars == <<port, binds, quit, wg, txq, rxq, mapped, workers, exit>>
queues == <<txq, rxq, mapped>>

Alive == exit = "none"

Init ==
  /\ port = "idle" /\ binds = 0 /\ quit = FALSE /\ wg = 0
  /\ txq = FALSE /\ rxq = FALSE /\ mapped = FALSE /\ workers = <<>> /\ exit = "none"

-----------------------------------------------------------------------------
(* The polling goroutine.                                                  *)

\* A control channel gets the port: RequestConnection on a client,
\* parseInit on a server.
Bind ==
  /\ Alive /\ port = "idle" /\ binds < MaxBinds
  /\ port' = "bound" /\ binds' = binds + 1
  /\ UNCHANGED <<quit, wg, queues, workers, exit>>

\* Port.connect on CONNECT / CONNECTED: map the regions, check the rings
\* of the queues the handshake appended to txQueues / rxQueues, reset their
\* cached indices, and call ConnectedFunc, which starts one goroutine per
\* element of App and returns.
Connect ==
  /\ Alive /\ port = "bound"
  /\ port' = "connected" /\ txq' = TRUE /\ rxq' = TRUE /\ mapped' = TRUE
  /\ workers' = workers \o [i \in 1 .. Len(App) |-> [kind |-> App[i], pc |-> "spawned"]]
  /\ UNCHANGED <<binds, quit, wg, exit>>

\* controlChannel.close calls Port.disconnect while p.cc is set, connected
\* or not; the default DisconnectedFunc closes QuitChan (a second close
\* panics) and ErrChan, then blocks in Wg.Wait.
Disconnect ==
  /\ Alive /\ port \in {"bound", "connected"}
  /\ IF quit THEN exit' = "close" /\ UNCHANGED <<port, quit>>
             ELSE port' = "waiting" /\ quit' = TRUE /\ UNCHANGED exit
  /\ UNCHANGED <<binds, wg, queues, workers>>

\* Fault variant: the DisconnectedFunc does not wait for the workers.
WaitReturnsNoWait ==
  /\ Alive /\ port = "waiting"
  /\ port' = "dropTx"
  /\ UNCHANGED <<binds, quit, wg, queues, workers, exit>>

\* Wg.Wait returns once the counter is zero, and so do DisconnectedFunc
\* and its error check; disconnect goes on with its teardown.
WaitReturns ==
  /\ Alive /\ port = "waiting" /\ wg = 0
  /\ port' = "dropTx"
  /\ UNCHANGED <<binds, quit, wg, queues, workers, exit>>

\* q.close() of every tx queue, then p.txQueues = []Queue{}.
DropTxQueues ==
  /\ Alive /\ port = "dropTx"
  /\ port' = "dropRx" /\ txq' = FALSE
  /\ UNCHANGED <<binds, quit, wg, rxq, mapped, workers, exit>>

\* The same for the rx queues.
DropRxQueues ==
  /\ Alive /\ port = "dropRx"
  /\ port' = "unmap" /\ rxq' = FALSE
  /\ UNCHANGED <<binds, quit, wg, txq, mapped, workers, exit>>

\* Munmap and close every region, p.regions = nil, p.cc = nil: the port
\* is disconnected.  A queue access from here on (SIGSEGV on the unmapped
\* pages, or an index into the nil regions) ends the process.
Unmap ==
  /\ Alive /\ port = "unmap"
  /\ port' = "idle" /\ mapped' = FALSE
  /\ UNCHANGED <<binds, quit, wg, txq, rxq, workers, exit>>

Teardown == DropTxQueues \/ DropRxQueues \/ Unmap

-----------------------------------------------------------------------------
(* The workers.                                                            *)

SetPc(i, pc) == workers' = [workers EXCEPT ![i].pc = pc]

\* p.Wg.Add(1), the goroutine's first statement.
WorkerAdd(i) ==
  /\ Alive /\ workers[i].pc = "spawned"
  /\ SetPc(i, "added") /\ wg' = wg + 1
  /\ UNCHANGED <<port, binds, quit, queues, exit>>

\* GetTxQueue (a sender) / GetRxQueue (a receiver): an index beyond the
\* (emptied) queue list is an error, and the worker calls logrus.Fatal.
\* Otherwise the worker keeps &p.txQueues[0] / &p.rxQueues[0], whose
\* accesses go through q.port.regions.
HasQueue(i) == IF workers[i].kind = "sender" THEN txq ELSE rxq

WorkerGetQueue(i) ==
  /\ Alive /\ workers[i].pc = "added"
  /\ IF HasQueue(i) THEN SetPc(i, "loop") /\ UNCHANGED exit
                 ELSE exit' = "fatal" /\ UNCHANGED workers
  /\ UNCHANGED <<port, binds, quit, wg, queues>>

\* Fault variant: Wg.Done in the loop body instead of deferred.
SenderSelectDoneEachLoop(i) ==
  /\ Alive /\ workers[i].kind = "sender" /\ workers[i].pc = "loop"
  /\ wg' = wg - 1
  /\ IF quit THEN SetPc(i, "done") ELSE SetPc(i, "write")
  /\ UNCHANGED <<port, binds, quit, queues, exit>>

\* Fault variant: the loop never reads QuitChan.
SenderSelectNoQuit(i) ==
  /\ Alive /\ workers[i].kind = "sender" /\ workers[i].pc = "loop"
  /\ SetPc(i, "write")
  /\ UNCHANGED <<port, binds, quit, wg, queues, exit>>

\* sendpkt's select: a closed QuitChan returns (deferred Wg.Done), else
\* the default branch goes on to WritePacket.
SenderSelect(i) ==
  /\ Alive /\ workers[i].kind = "sender" /\ workers[i].pc = "loop"
  /\ IF quit THEN SetPc(i, "done") /\ wg' = wg - 1
             ELSE SetPc(i, "write") /\ UNCHANGED wg
  /\ UNCHANGED <<port, binds, quit, queues, exit>>

\* A queue access of the worker's loop (WritePacket, or ReadPacket's index
\* load and refill): it reads the port's regions, which disconnect may
\* have unmapped.
Access(i, next) ==
  /\ IF mapped THEN SetPc(i, next) /\ UNCHANGED exit
                 ELSE exit' = "unmapped" /\ UNCHANGED workers
  /\ UNCHANGED <<port, binds, quit, wg, queues>>

SenderWrite(i) ==
  /\ Alive /\ workers[i].kind = "sender" /\ workers[i].pc = "write"
  /\ Access(i, "loop")

\* recvpkt / packetprocessing: ReadPacket forever, QuitChan never read.
ReceiverBegin(i) ==
  /\ Alive /\ workers[i].kind = "receiver" /\ workers[i].pc = "loop"
  /\ Access(i, "read")

ReceiverRefill(i) ==
  /\ Alive /\ workers[i].kind = "receiver" /\ workers[i].pc = "read"
  /\ Access(i, "loop")

Worker(i) ==
  \/ WorkerAdd(i) \/ WorkerGetQueue(i)
  \/ SenderSelect(i) \/ SenderWrite(i)
  \/ ReceiverBegin(i) \/ ReceiverRefill(i)

Next ==
  \/ Bind \/ Connect \/ Disconnect \/ WaitReturns \/ Teardown
  \/ \E i \in DOMAIN workers : Worker(i)

\* The Go scheduler runs every runnable goroutine eventually: the blocked
\* Wg.Wait, the rest of disconnect and every worker step are weakly fair.  Binding, connecting and
\* disconnecting follow the peer and the application, and are not.
Fairness ==
  /\ WF_vars(WaitReturns) /\ WF_vars(Teardown)
  /\ \A i \in 1 .. MaxBinds * Len(App) : WF_vars(i \in DOMAIN workers /\ Worker(i))

Spec == Init /\ [][Next]_vars /\ Fairness

-----------------------------------------------------------------------------
Pcs == {"spawned", "added", "loop", "write", "read", "done"}

TypeOK ==
  /\ port \in {"idle", "bound", "connected", "waiting", "dropTx", "dropRx", "unmap"}
  /\ binds \in 0 .. MaxBinds /\ quit \in BOOLEAN
  /\ {txq, rxq, mapped} \subseteq BOOLEAN
  /\ wg \in Nat
  /\ workers \in Seq([kind : Kinds, pc : Pcs])
  /\ exit \in {"none", "fatal", "close", "unmapped"}

\* Every Port.disconnect that reaches Wg.Wait returns (or the process has
\* ended): the polling goroutine, which serves every port and channel of
\* the socket, is not blocked for ever by workers that never call Wg.Done.
DisconnectCompletes == port = "waiting" ~> (port # "waiting" \/ ~Alive)

\* Spec §5: DisconnectedFunc waits for the workers, so no worker touches a
\* queue after disconnect unmapped the regions.  It rests on every
\* goroutine that can still reach a queue holding the WaitGroup when
\* Wg.Wait reads the counter; the examples' workers call Wg.Add(1) inside
\* the goroutine, after ConnectedFunc has returned.
NoAccessAfterUnmap == exit # "unmapped"

\* Once QuitChan is closed, every sender that has started its loop returns
\* and calls Wg.Done (or the process has ended): sendpkt polls QuitChan
\* before each WritePacket.
Running(i) == workers[i].pc \in {"added", "loop", "write"}
SendersStop ==
  \A i \in 1 .. MaxBinds * Len(App) :
    (quit /\ i \in DOMAIN workers /\ workers[i].kind = "sender" /\ Running(i))
      ~> ((i \in DOMAIN workers /\ workers[i].pc = "done") \/ ~Alive)
====
