----------------------------- MODULE MemifControl -----------------------------
(***************************************************************************)
(* The memif control plane: one client port and one server port, each on   *)
(* its own Socket whose polling goroutine handles one epoll event at a     *)
(* time (socket.go StartPolling, maxEpollEvents = 1).  The client connects *)
(* with RequestConnection, the server's listener accepts, and the two      *)
(* control channels exchange 128-byte messages over a SOCK_SEQPACKET       *)
(* connection (control_msg.go).  Each event handler is one atomic step of  *)
(* its socket's reactor; the two processes interleave freely.              *)
(*                                                                         *)
(* sendMsg sends at most ONE queued message per handled event, so the      *)
(* client's INIT .. CONNECT pipeline advances one message per ACK.         *)
(*                                                                         *)
(* A process may crash (its descriptors close, the peer sees EPOLLHUP) or  *)
(* panic, which ends it the same way.  cc.close never closes the socket    *)
(* descriptor, so a graceful close produces no hang-up at the peer.        *)
(***************************************************************************)
EXTENDS Integers, Sequences, FiniteSets

CONSTANTS
  Cfgs,            \* set of [client, server] PortCfg pairs: [Id, Secret, NumQueuePairs]
  MaxConns,        \* bound: connections the client application opens
  MaxCrashes,      \* bound: process crashes
  CallbackResults  \* results the user's ConnectedFunc may return: subset of {"ok", "err"}

Procs == {"client", "server"}
Peer(p) == IF p = "client" THEN "server" ELSE "client"
Conns == 1 .. MaxConns

ASSUME /\ MaxConns \in Nat /\ MaxCrashes \in Nat
       /\ CallbackResults \subseteq {"ok", "err"} /\ CallbackResults # {}
       /\ \A c \in Cfgs : \A p \in Procs : c[p].NumQueuePairs \in 1 .. 255

\* MsgHello.MaxRingS2M / MaxRingM2S as msgEnqHello sets them.
MaxRing == 255

\* A control message: its kind and the fields the handlers read.
Msg(t) == [t |-> t, id |-> 0, secret |-> 0, s2m |-> FALSE, index |-> 0]
MsgTypes == {"ACK", "HELLO", "INIT", "ADD_REGION", "ADD_RING", "CONNECT",
             "CONNECTED", "DISCONNECT"}

VARIABLES
  cfg,        \* the two ports' PortCfg, fixed for the behaviour
  alive,      \* [Procs -> BOOLEAN] the process still runs
  crashes,    \* crashes so far
  conns,      \* connections the client has opened (RequestConnection)
  backlog,    \* connections waiting in the listener's accept queue
  ch,         \* [Conns -> [Procs -> Seq(Msg)]] messages in flight to p
  cc,         \* [Conns -> [Procs -> controlChannel]] each end of a connection
  port,       \* [Procs -> Port] the runtime state of each port
  panicked,   \* [Procs -> reason] why a process panicked, or "none"
  disrupted   \* history: a crash, an application Disconnect or a failing ConnectedFunc

vars == <<cfg, alive, crashes, conns, backlog, ch, cc, port, panicked,
          disrupted>>

\* st: "none" (never created), "open" (in the epoll set and ccList) or
\* "closed"; bound: cc.port != nil; conn: cc.isConnected.
NoCC == [st |-> "none", q |-> <<>>, bound |-> FALSE, conn |-> FALSE]
\* Port fields: cc (0 = nil), run.NumQueuePairs, len(regions), the ring
\* indices of txQueues and rxQueues, and whether QuitChan is closed.
NewPort == [cc |-> 0, run |-> 0, regions |-> 0, txq |-> <<>>, rxq |-> <<>>,
            quit |-> FALSE]

Open(k, p) == alive[p] /\ cc[k][p].st = "open"

Init ==
  /\ cfg \in Cfgs
  /\ alive = [p \in Procs |-> TRUE]
  /\ crashes = 0 /\ conns = 0 /\ backlog = {}
  /\ ch = [k \in Conns |-> [p \in Procs |-> <<>>]]
  /\ cc = [k \in Conns |-> [p \in Procs |-> NoCC]]
  /\ port = [p \in Procs |-> NewPort]
  /\ panicked = [p \in Procs |-> "none"]
  /\ disrupted = FALSE
-----------------------------------------------------------------------------
\* sendMsg: dequeue the first queued message, if any, and send it.
Sent(x) == IF x.q = <<>> THEN <<>> ELSE <<Head(x.q)>>
AfterSend(x) == IF x.q = <<>> THEN x ELSE [x EXCEPT !.q = Tail(@)]

\* The messages the handlers enqueue (msgEnqHello, msgEnqInit, ...), with
\* the fields the peer's handlers read.
HelloMsg == Msg("HELLO")
InitMsg(p) == [Msg("INIT") EXCEPT !.id = cfg[p].Id, !.secret = cfg[p].Secret]
AddRegionMsgs(regions) == [i \in 1 .. regions |-> Msg("ADD_REGION")]
\* One ADD_RING per ring of the list, with the S2M flag and its index.
AddRingMsgs(s2m, n) == [i \in 1 .. n |-> [Msg("ADD_RING") EXCEPT !.s2m = s2m, !.index = i - 1]]
ConnectMsg == Msg("CONNECT")
ConnectedMsg == Msg("CONNECTED")
DisconnectMsg == Msg("DISCONNECT")

\* parseHello: run.NumQueuePairs = min16(cfg.NumQueuePairs, MaxRingM2S);
\* the version range always holds between two peers of this code.
HelloRun(p) == IF cfg[p].NumQueuePairs < MaxRing THEN cfg[p].NumQueuePairs ELSE MaxRing

\* Port.disconnect: nothing when p.cc is nil; else DisconnectedFunc, close
\* the queues, unmap and forget the regions, clear p.cc.  The default
\* DisconnectedFunc closes QuitChan (and ErrChan) first.
Disconnected(pt) ==
  [pt EXCEPT !.cc = 0, !.txq = <<>>, !.rxq = <<>>, !.regions = 0, !.quit = TRUE]
DisconnectPanics(pt) == pt.cc # 0 /\ pt.quit

CloseSilent(p, k, sendMsg, in1, trailing) ==
  LET x == cc[k][p]
      x1 == [x EXCEPT !.st = "closed", !.q = IF sendMsg THEN <<>> ELSE @]
      late == IF trailing THEN Sent(x1) ELSE <<>>
      x2 == IF trailing THEN AfterSend(x1) ELSE x1
      pt == port[p]
      disc == x.bound /\ pt.cc # 0
  IN /\ cc' = [cc EXCEPT ![k][p] = x2]
     /\ ch' = [ch EXCEPT ![k][p] = in1, ![k][Peer(p)] = @ \o late]
     /\ IF disc /\ DisconnectPanics(pt)
          THEN /\ alive' = [alive EXCEPT ![p] = FALSE]
               /\ panicked' = [panicked EXCEPT ![p] = "close of closed channel"]
               /\ UNCHANGED port
          ELSE /\ port' = IF disc THEN [port EXCEPT ![p] = Disconnected(pt)] ELSE port
               /\ UNCHANGED <<alive, panicked>>

\* controlChannel.close(sendMsg): with sendMsg, clear the queue, enqueue
\* DISCONNECT and send it; remove the channel from epoll and ccList; if the
\* channel is bound, disconnect the port.  in1 is what remains in the
\* channel's inbound queue; with trailing, the caller's sendMsg then runs on
\* the closed channel (parseDisconnect returns nil to handleEvent).
Close(p, k, sendMsg, in1, trailing) ==
  LET x == cc[k][p]
      x1 == [x EXCEPT !.st = "closed", !.q = IF sendMsg THEN <<>> ELSE @]
      out == IF sendMsg THEN <<DisconnectMsg>> ELSE <<>>
      late == IF trailing THEN Sent(x1) ELSE <<>>
      x2 == IF trailing THEN AfterSend(x1) ELSE x1
      pt == port[p]
      disc == x.bound /\ pt.cc # 0
  IN /\ cc' = [cc EXCEPT ![k][p] = x2]
     /\ ch' = [ch EXCEPT ![k][p] = in1, ![k][Peer(p)] = @ \o out \o late]
     /\ IF disc /\ DisconnectPanics(pt)
          THEN /\ alive' = [alive EXCEPT ![p] = FALSE]
               /\ panicked' = [panicked EXCEPT ![p] = "close of closed channel"]
               /\ UNCHANGED port
          ELSE /\ port' = IF disc THEN [port EXCEPT ![p] = Disconnected(pt)] ELSE port
               /\ UNCHANGED <<alive, panicked>>

\* A handler that returns through parseMsg's error label: close(true).
Fail(p, k) == Close(p, k, TRUE, Tail(ch[k][p]), FALSE)

\* A handler that succeeds: the channel's new state x, then sendMsg.
Reply(p, k, x) ==
  /\ cc' = [cc EXCEPT ![k][p] = AfterSend(x)]
  /\ ch' = [ch EXCEPT ![k][p] = Tail(@), ![k][Peer(p)] = @ \o Sent(x)]

Enq(x, msgs) == [x EXCEPT !.q = @ \o msgs]

\* The rings a queue list holds: ring type (S2M or not) and ring index.
RingsOffByOne(s2m, n) == [i \in 1 .. n |-> [s2m |-> s2m, index |-> i - 2]]
Rings(s2m, n) == [i \in 1 .. n |-> [s2m |-> s2m, index |-> i - 1]]
-----------------------------------------------------------------------------
(***************************************************************************)
(* Connection set-up and the listener.                                     *)
(***************************************************************************)

\* Port.RequestConnection (called by NewPort while !IsConnecting, and by an
\* application that reconnects): connect to the listener and create a
\* control channel bound to the port.  A refused connect returns an error
\* and changes nothing.
RequestConnection ==
  LET k == conns + 1
  IN /\ conns < MaxConns
     /\ alive["client"] /\ alive["server"]
     /\ port["client"].cc = 0
     /\ cc' = [cc EXCEPT ![k]["client"] = [NoCC EXCEPT !.st = "open", !.bound = TRUE]]
     /\ port' = [port EXCEPT !["client"].cc = k]
     /\ backlog' = backlog \cup {k}
     /\ conns' = k
     /\ UNCHANGED <<cfg, alive, crashes, ch, panicked, disrupted>>

\* listener.handleEvent, EPOLLIN: accept, addControlChannel(newFd, nil),
\* msgEnqHello, sendMsg.
ListenerAccept(k) ==
  LET x == [NoCC EXCEPT !.st = "open", !.q = <<HelloMsg>>]
  IN /\ alive["server"] /\ k \in backlog
     /\ cc' = [cc EXCEPT ![k]["server"] = AfterSend(x)]
     /\ ch' = [ch EXCEPT ![k]["client"] = @ \o Sent(x)]
     /\ backlog' = backlog \ {k}
     /\ UNCHANGED <<cfg, alive, crashes, conns, port, panicked, disrupted>>

\* controlChannel.handleEvent, EPOLLHUP (the peer's descriptor closed when
\* its process ended): close(false, ""), then format the error with
\* cc.port.GetName(), a nil dereference when no port is bound.
HangUp(p, k) ==
  /\ Open(k, p) /\ ~alive[Peer(p)]
  /\ IF cc[k][p].bound
       THEN Close(p, k, FALSE, ch[k][p], FALSE)
       ELSE /\ cc' = [cc EXCEPT ![k][p].st = "closed"]
            /\ alive' = [alive EXCEPT ![p] = FALSE]
            /\ panicked' = [panicked EXCEPT ![p] = "nil pointer dereference"]
            /\ UNCHANGED <<ch, port>>
  /\ UNCHANGED <<cfg, crashes, conns, backlog, disrupted>>
-----------------------------------------------------------------------------
(***************************************************************************)
(* controlChannel.handleEvent, EPOLLIN: receive one message, parseMsg,     *)
(* then sendMsg.  One action per message kind.                             *)
(***************************************************************************)
Receiving(p, k, t) ==
  /\ Open(k, p) /\ alive[Peer(p)]
  /\ ch[k][p] # <<>> /\ Head(ch[k][p]).t = t

\* Client: parseHello, addRegion, initializeQueues, then enqueue INIT, one
\* ADD_REGION per region, ADD_RING for every S2M ring then every M2S ring,
\* and CONNECT.
ReceiveHello(p, k) ==
  LET pt == port[p]
      n == HelloRun(p)
      regions == pt.regions + 1
      msgs == <<InitMsg(p)>> \o AddRegionMsgs(regions)
                \o AddRingMsgs(TRUE, n) \o AddRingMsgs(FALSE, n) \o <<ConnectMsg>>
  IN /\ Receiving(p, k, "HELLO")
     /\ port' = [port EXCEPT ![p] = [pt EXCEPT !.run = n, !.regions = regions,
                                              !.txq = @ \o Rings(TRUE, n),
                                              !.rxq = @ \o Rings(FALSE, n)]]
     /\ Reply(p, k, Enq(cc[k][p], msgs))
     /\ UNCHANGED <<cfg, alive, crashes, conns, backlog, panicked, disrupted>>

ReceiveInit(p, k) ==
  LET m == Head(ch[k][p])
  IN /\ Receiving(p, k, "INIT")
     /\ \/ /\ m.id = cfg[p].Id /\ port[p].cc = 0 /\ m.secret = cfg[p].Secret
           /\ port' = [port EXCEPT ![p].cc = k, ![p].run = cfg[p].NumQueuePairs]
           /\ Reply(p, k, Enq([cc[k][p] EXCEPT !.bound = TRUE], <<Msg("ACK")>>))
           /\ UNCHANGED <<alive, panicked>>
        \/ /\ ~(m.id = cfg[p].Id /\ port[p].cc = 0 /\ m.secret = cfg[p].Secret)
           /\ Fail(p, k)
     /\ UNCHANGED <<cfg, crashes, conns, backlog, disrupted>>

\* Server: parseAddRegion appends the region (index <= 255 holds), ACK.
ReceiveAddRegion(p, k) ==
  /\ Receiving(p, k, "ADD_REGION")
  /\ port' = [port EXCEPT ![p].regions = @ + 1]
  /\ Reply(p, k, Enq(cc[k][p], <<Msg("ACK")>>))
  /\ UNCHANGED <<cfg, alive, crashes, conns, backlog, panicked, disrupted>>

ReceiveAddRingSwapped(p, k) ==
  LET m == Head(ch[k][p])
  IN /\ Receiving(p, k, "ADD_RING")
     /\ \/ /\ m.index < port[p].run
           /\ port' = IF ~m.s2m THEN [port EXCEPT ![p].rxq = Append(@, [s2m |-> FALSE, index |-> m.index])]
                                ELSE [port EXCEPT ![p].txq = Append(@, [s2m |-> TRUE, index |-> m.index])]
           /\ Reply(p, k, Enq(cc[k][p], <<Msg("ACK")>>))
           /\ UNCHANGED <<alive, panicked>>
        \/ /\ m.index >= port[p].run
           /\ Fail(p, k)
     /\ UNCHANGED <<cfg, crashes, conns, backlog, disrupted>>

\* Server: parseAddRing rejects index >= cc.port.run.NumQueuePairs; an S2M
\* ring becomes an rx queue of the server, an M2S ring a tx queue; ACK.
ReceiveAddRing(p, k) ==
  LET m == Head(ch[k][p])
  IN /\ Receiving(p, k, "ADD_RING")
     /\ \/ /\ m.index < port[p].run
           /\ port' = IF m.s2m THEN [port EXCEPT ![p].rxq = Append(@, [s2m |-> TRUE, index |-> m.index])]
                               ELSE [port EXCEPT ![p].txq = Append(@, [s2m |-> FALSE, index |-> m.index])]
           /\ Reply(p, k, Enq(cc[k][p], <<Msg("ACK")>>))
           /\ UNCHANGED <<alive, panicked>>
        \/ /\ m.index >= port[p].run
           /\ Fail(p, k)
     /\ UNCHANGED <<cfg, crashes, conns, backlog, disrupted>>

\* Port.connect maps the regions, checks every ring's cookie (the layout
\* initializeQueues writes keeps them whole, see MemifLayout), resets the
\* cached indices, and returns what the user's ConnectedFunc returns.
\* Server: parseConnect, then cc.isConnected and CONNECTED.
ReceiveConnect(p, k) ==
  /\ Receiving(p, k, "CONNECT")
  /\ \E res \in CallbackResults :
       \/ /\ res = "ok"
          /\ Reply(p, k, Enq([cc[k][p] EXCEPT !.conn = TRUE], <<ConnectedMsg>>))
          /\ UNCHANGED <<port, alive, panicked, disrupted>>
       \/ /\ res = "err"
          /\ Fail(p, k)
          /\ disrupted' = TRUE
  /\ UNCHANGED <<cfg, crashes, conns, backlog>>

\* Client: parseConnected, then cc.isConnected; nothing is queued.
ReceiveConnected(p, k) ==
  /\ Receiving(p, k, "CONNECTED")
  /\ \E res \in CallbackResults :
       \/ /\ res = "ok"
          /\ Reply(p, k, [cc[k][p] EXCEPT !.conn = TRUE])
          /\ UNCHANGED <<port, alive, panicked, disrupted>>
       \/ /\ res = "err"
          /\ Fail(p, k)
          /\ disrupted' = TRUE
  /\ UNCHANGED <<cfg, crashes, conns, backlog>>

\* parseDisconnect: close(false); parseMsg returns nil, so handleEvent's
\* sendMsg then runs on the closed channel with whatever is still queued.
ReceiveDisconnect(p, k) ==
  /\ Receiving(p, k, "DISCONNECT")
  /\ Close(p, k, FALSE, Tail(ch[k][p]), TRUE)
  /\ UNCHANGED <<cfg, crashes, conns, backlog, disrupted>>

\* An ACK is observed; sendMsg sends the next queued message.
ReceiveAck(p, k) ==
  /\ Receiving(p, k, "ACK")
  /\ Reply(p, k, cc[k][p])
  /\ UNCHANGED <<cfg, alive, crashes, conns, backlog, port, panicked, disrupted>>

Receive(p, k) ==
  \/ ReceiveHello(p, k) \/ ReceiveInit(p, k) \/ ReceiveAddRegion(p, k)
  \/ ReceiveAddRing(p, k) \/ ReceiveConnect(p, k) \/ ReceiveConnected(p, k)
  \/ ReceiveDisconnect(p, k) \/ ReceiveAck(p, k)
-----------------------------------------------------------------------------
(***************************************************************************)
(* The application and the environment.                                    *)
(***************************************************************************)

\* Port.Disconnect: when p.cc != nil, p.cc.close(true, "Port disconnected").
AppDisconnect(p) ==
  /\ alive[p] /\ port[p].cc # 0
  /\ Close(p, port[p].cc, TRUE, ch[port[p].cc][p], FALSE)
  /\ disrupted' = TRUE
  /\ UNCHANGED <<cfg, crashes, conns, backlog>>

\* The process is killed: every descriptor it holds is closed by the kernel.
Crash(p) ==
  /\ alive[p] /\ crashes < MaxCrashes
  /\ alive' = [alive EXCEPT ![p] = FALSE]
  /\ crashes' = crashes + 1
  /\ disrupted' = TRUE
  /\ UNCHANGED <<cfg, conns, backlog, ch, cc, port, panicked>>

Next ==
  \/ RequestConnection
  \/ \E k \in Conns : ListenerAccept(k)
  \/ \E p \in Procs, k \in Conns : HangUp(p, k) \/ Receive(p, k)
  \/ \E p \in Procs : AppDisconnect(p) \/ Crash(p)

\* Each socket's polling goroutine loops on a level-triggered epoll_wait:
\* an event that stays ready is eventually returned and handled.  The
\* application's connects and disconnects, and crashes, need not happen.
Fairness ==
  /\ \A k \in Conns : WF_vars(ListenerAccept(k))
  /\ \A p \in Procs, k \in Conns : WF_vars(HangUp(p, k)) /\ WF_vars(Receive(p, k))

Spec == Init /\ [][Next]_vars /\ Fairness
-----------------------------------------------------------------------------
(***************************************************************************)
(* Properties.                                                             *)
(***************************************************************************)
CCState == [st : {"none", "open", "closed"}, q : Seq([t : MsgTypes, id : Nat, secret : Nat,
                                                     s2m : BOOLEAN, index : Nat]),
            bound : BOOLEAN, conn : BOOLEAN]

TypeOK ==
  /\ cfg \in Cfgs
  /\ alive \in [Procs -> BOOLEAN]
  /\ crashes \in 0 .. MaxCrashes /\ conns \in 0 .. MaxConns /\ backlog \subseteq Conns
  /\ \A k \in Conns, p \in Procs :
       /\ cc[k][p] \in CCState
       /\ \A i \in DOMAIN ch[k][p] : ch[k][p][i].t \in MsgTypes
  /\ \A p \in Procs :
       /\ port[p].cc \in 0 .. MaxConns /\ port[p].run \in 0 .. MaxRing
       /\ port[p].txq \in Seq([s2m : BOOLEAN, index : 0 .. MaxRing - 1])
       /\ port[p].rxq \in Seq([s2m : BOOLEAN, index : 0 .. MaxRing - 1])
       /\ port[p].quit \in BOOLEAN
  /\ disrupted \in BOOLEAN

BothConnected(k) == \A p \in Procs : Open(k, p) /\ cc[k][p].conn
NoneOpen(k) == \A p \in Procs : ~Open(k, p)
Settled(k) == BothConnected(k) \/ NoneOpen(k)

\* When both ends of a connection report connected (the ports' connected
\* callbacks have run and their workers use the queues), both ports are
\* bound to it and the server holds exactly the rings the client built:
\* the client's S2M rings 0..N-1 as its rx queues and its M2S rings as its
\* tx queues, with the same number of regions.  The client's messages are
\* applied one per ACK, so none may be lost, repeated or reordered.
AgreedRings ==
  \A k \in Conns : BothConnected(k) =>
    LET n == port["client"].run
    IN /\ \A p \in Procs : port[p].cc = k
       /\ port["client"].txq = Rings(TRUE, n) /\ port["client"].rxq = Rings(FALSE, n)
       /\ port["server"].rxq = Rings(TRUE, n) /\ port["server"].txq = Rings(FALSE, n)
       /\ port["server"].regions = port["client"].regions

\* No connection stays half open: whenever one end is open and the two do
\* not both report connected, eventually either both are connected or
\* neither end is open.  A close must reach the peer as a DISCONNECT (the
\* descriptor is not closed) or, when a process ends, as a hang-up.
Settles == \A k \in Conns : ~Settled(k) ~> Settled(k)

NoPanic == \A p \in Procs : panicked[p] = "none"
==============================================================================
