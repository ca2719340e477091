----------------------------- MODULE MemifSocket -----------------------------
(***************************************************************************)
(* A memif Socket (socket.go) with one server port, as the examples set it *)
(* up (NewSocket, NewPort, which adds the listener): the polling goroutine *)
(* StartPolling starts, the listener and control channels it dispatches    *)
(* to, socket.ErrChan, and the application goroutine.  The application    *)
(* runs a Script of API calls (StartPolling, StopPolling, Port.Disconnect, *)
(* Socket.Delete) and, between calls, reads socket.ErrChan as the          *)
(* examples' main loops do.                                                *)
(*                                                                         *)
(* The handshake is MemifControl's; here a peer's message is an INIT       *)
(* (parseInit binds the port if it is free, else fails) or a DISCONNECT.   *)
(* A handler runs in one step of the polling goroutine.  controlChannel.   *)
(* close on the application goroutine is split at its system calls        *)
(* (sendmsg, epoll_ctl DEL), since the polling goroutine runs in between.  *)
(***************************************************************************)
EXTENDS Integers, Sequences, SequencesExt

CONSTANTS
  Conns,    \* the client connections the listener may accept
  NoCc,     \* nil: no control channel
  Script,   \* the application's calls on the socket and the port, in order
  MaxMsgs   \* bound: messages each peer sends

Calls == {"StartPolling", "StopPolling", "Disconnect", "Delete"}
MsgKinds == {"init", "disconnect"}
Fds == {"wake", "listener"} \cup Conns

ASSUME /\ NoCc \notin Conns /\ MaxMsgs \in Nat
       /\ Script \in Seq(Calls)

VARIABLES
  epoll,      \* descriptors registered with socket.epfd
  epfdOpen,   \* socket.epfd is not yet closed (Delete closes it)
  wake,       \* the wake eventfd has been written (it is never read)
  ccList,     \* socket.ccList, in order
  ccPort,     \* cc.port is the port (set by parseInit, never cleared)
  portCc,     \* the port's p.cc, or NoCc
  portListed, \* the port is in socket.portList
  quit,       \* the port's QuitChan (and ErrChan) are closed
  peer,       \* per connection: [st, gone, inbox, sent]
  stopChan,   \* socket.stopPollChan: "nil", "open" or "closed"
  wg,         \* socket.wg
  poller,     \* the polling goroutine: [pc, fd]
  errChan,    \* errors buffered in socket.ErrChan (capacity 1)
  app,        \* the application goroutine: [pc, i, cc, caller]
  exit        \* "none", or the goroutine whose panic ended the process

vars == <<epoll, epfdOpen, wake, ccList, ccPort, portCc, portListed, quit,
          peer, stopChan, wg, poller, errChan, app, exit>>
sockVars == <<epoll, epfdOpen, wake, ccList>>
portVars == <<ccPort, portCc, portListed, quit>>

Alive == exit = "none"

Init ==
  /\ epoll = {"wake", "listener"} /\ epfdOpen = TRUE /\ wake = FALSE
  /\ ccList = <<>> /\ ccPort = [k \in Conns |-> FALSE]
  /\ portCc = NoCc /\ portListed = TRUE /\ quit = FALSE
  /\ peer = [k \in Conns |-> [st |-> "idle", gone |-> FALSE, inbox |-> <<>>, sent |-> 0]]
  /\ stopChan = "nil" /\ wg = 0
  /\ poller = [pc |-> "idle", fd |-> NoCc] /\ errChan = 0
  /\ app = [pc |-> "idle", i |-> 1, cc |-> NoCc, caller |-> "none"]
  /\ exit = "none"

-----------------------------------------------------------------------------
(* Peers: clients that connect, send, and hang up.                         *)

PeerConnect(k) ==
  /\ Alive /\ peer[k].st = "idle" /\ "listener" \in epoll
  /\ peer' = [peer EXCEPT ![k].st = "backlog"]
  /\ UNCHANGED <<sockVars, portVars, stopChan, wg, poller, errChan, app, exit>>

PeerSend(k, m) ==
  /\ Alive /\ peer[k].st = "accepted" /\ ~peer[k].gone /\ peer[k].sent < MaxMsgs
  /\ peer' = [peer EXCEPT ![k].inbox = Append(@, m), ![k].sent = @ + 1]
  /\ UNCHANGED <<sockVars, portVars, stopChan, wg, poller, errChan, app, exit>>

PeerHangUp(k) ==
  /\ Alive /\ peer[k].st # "idle" /\ ~peer[k].gone
  /\ peer' = [peer EXCEPT ![k].gone = TRUE]
  /\ UNCHANGED <<sockVars, portVars, stopChan, wg, poller, errChan, app, exit>>

\* Level-triggered readiness: EPOLLHUP of a gone peer, EPOLLIN of a
\* pending message or connection, or the written wake eventfd.
Ready(fd) ==
  \/ fd = "wake" /\ wake
  \/ fd = "listener" /\ \E k \in Conns : peer[k].st = "backlog"
  \/ fd \in Conns /\ (peer[fd].gone \/ peer[fd].inbox # <<>>)

-----------------------------------------------------------------------------
(* controlChannel.close after its sendMsg: epoll_ctl DEL (an error returns *)
(* before anything else), ccList.Remove, and Port.disconnect on cc.port,   *)
(* which returns at once if p.cc is nil and otherwise runs the default     *)
(* DisconnectedFunc: close QuitChan and ErrChan (a panic if closed) and    *)
(* set p.cc to nil.  g is the goroutine that runs it.                      *)

PortDisconnect(k, g) ==
  IF ccPort[k] /\ portCc # NoCc
  THEN IF quit THEN exit' = g /\ UNCHANGED <<quit, portCc>>
       ELSE quit' = TRUE /\ portCc' = NoCc /\ UNCHANGED exit
  ELSE UNCHANGED <<quit, portCc, exit>>

CloseChannel(k, g) ==
  /\ epoll' = epoll \ {k}
  /\ ccList' = Remove(ccList, k)
  /\ PortDisconnect(k, g)

-----------------------------------------------------------------------------
(* The polling goroutine (StartPolling's func literal).                     *)

SetPoller(pc) == poller' = [poller EXCEPT !.pc = pc]

\* The select on stopPollChan, then syscall.EpollWait: a closed epfd fails
\* and the goroutine sends the error and returns.
PollSelect ==
  /\ Alive /\ poller.pc = "select"
  /\ CASE stopChan = "closed" -> SetPoller("done") /\ wg' = wg - 1
       [] ~epfdOpen -> SetPoller("sendExit") /\ UNCHANGED wg
       [] OTHER -> SetPoller("wait") /\ UNCHANGED wg
  /\ UNCHANGED <<sockVars, portVars, peer, stopChan, errChan, app, exit>>

\* EpollWait returns one event (maxEpollEvents = 1): a registered, ready
\* descriptor.
PollWake(fd) ==
  /\ Alive /\ poller.pc = "wait" /\ fd \in epoll /\ Ready(fd)
  /\ poller' = [pc |-> "ready", fd |-> fd]
  /\ UNCHANGED <<sockVars, portVars, peer, stopChan, wg, errChan, app, exit>>

\* The loop skips the wake event; handleEvent's result goes to ErrChan.
Handled(err) == SetPoller(IF err THEN "send" ELSE "select")

HandleWake ==
  /\ Alive /\ poller.pc = "ready" /\ poller.fd = "wake"
  /\ SetPoller("select")
  /\ UNCHANGED <<sockVars, portVars, peer, stopChan, wg, errChan, app, exit>>

\* listener.handleEvent, EPOLLIN: Accept (which fails once Delete closed
\* the listener), addControlChannel (epoll_ctl ADD fails once epfd is
\* closed), then HELLO by sendMsg, which fails if the peer is gone.
HandleAccept ==
  /\ Alive /\ poller.pc = "ready" /\ poller.fd = "listener"
  /\ IF "listener" \notin epoll
     THEN Handled(TRUE) /\ UNCHANGED <<sockVars, peer>>
     ELSE \E k \in Conns :
            /\ peer[k].st = "backlog"
            /\ peer' = [peer EXCEPT ![k].st = "accepted"]
            /\ IF epfdOpen
               THEN /\ epoll' = epoll \cup {k} /\ ccList' = Append(ccList, k)
                    /\ Handled(peer[k].gone)
               ELSE Handled(TRUE) /\ UNCHANGED <<epoll, ccList>>
            /\ UNCHANGED <<epfdOpen, wake>>
  /\ UNCHANGED <<portVars, stopChan, wg, errChan, app, exit>>

\* socket.handleEvent finds no channel with the event's descriptor.
HandleNotFound ==
  /\ Alive /\ poller.pc = "ready" /\ poller.fd \in Conns
  /\ poller.fd \notin ToSet(ccList)
  /\ Handled(TRUE)
  /\ UNCHANGED <<sockVars, portVars, peer, stopChan, wg, errChan, app, exit>>

\* cc.handleEvent, EPOLLHUP: close(false), then the error "hang up:
\* cc.port.GetName()", a nil dereference on a channel with no port.
HandleHangUp ==
  LET k == poller.fd IN
  /\ Alive /\ poller.pc = "ready" /\ k \in ToSet(ccList) /\ peer[k].gone
  /\ CASE k \notin epoll ->
            Handled(TRUE) /\ UNCHANGED <<epoll, ccList, quit, portCc, exit>>
       [] ccPort[k] -> CloseChannel(k, "poller") /\ Handled(TRUE)
       [] OTHER ->
            /\ epoll' = epoll \ {k} /\ ccList' = Remove(ccList, k)
            /\ exit' = "poller" /\ UNCHANGED <<quit, portCc, poller>>
  /\ UNCHANGED <<epfdOpen, wake, ccPort, portListed, peer, stopChan, wg, errChan, app>>

\* Fault variant: parseInit without the port.cc == nil test.
HandleInitAnyPort ==
  LET k == poller.fd IN
  /\ Alive /\ poller.pc = "ready" /\ k \in ToSet(ccList) /\ ~peer[k].gone
  /\ Head(peer[k].inbox) = "init"
  /\ peer' = [peer EXCEPT ![k].inbox = Tail(@)]
  /\ portListed
  /\ portCc' = k /\ ccPort' = [ccPort EXCEPT ![k] = TRUE]
  /\ Handled(FALSE)
  /\ UNCHANGED <<sockVars, quit, exit, portListed, stopChan, wg, errChan, app>>

\* cc.handleEvent, EPOLLIN with an INIT: parseInit binds the port while
\* it is listed and its p.cc is nil, and sendMsg answers ACK; otherwise
\* parseMsg's error path runs close(true): DISCONNECT, then the close.
HandleInit ==
  LET k == poller.fd IN
  /\ Alive /\ poller.pc = "ready" /\ k \in ToSet(ccList) /\ ~peer[k].gone
  /\ Head(peer[k].inbox) = "init"
  /\ peer' = [peer EXCEPT ![k].inbox = Tail(@)]
  /\ IF portListed /\ portCc = NoCc
     THEN /\ portCc' = k /\ ccPort' = [ccPort EXCEPT ![k] = TRUE]
          /\ Handled(FALSE)
          /\ UNCHANGED <<epoll, ccList, quit, exit>>
     ELSE /\ IF k \in epoll THEN CloseChannel(k, "poller")
                            ELSE UNCHANGED <<epoll, ccList, quit, portCc, exit>>
          /\ Handled(TRUE) /\ UNCHANGED ccPort
  /\ UNCHANGED <<epfdOpen, wake, portListed, stopChan, wg, errChan, app>>

\* cc.handleEvent, EPOLLIN with a DISCONNECT: parseDisconnect runs
\* close(false); when that fails, parseMsg's error path runs close(true),
\* whose epoll_ctl DEL fails as well, and the error is returned.
HandleDisconnect ==
  LET k == poller.fd IN
  /\ Alive /\ poller.pc = "ready" /\ k \in ToSet(ccList) /\ ~peer[k].gone
  /\ Head(peer[k].inbox) = "disconnect"
  /\ peer' = [peer EXCEPT ![k].inbox = Tail(@)]
  /\ IF k \in epoll
     THEN CloseChannel(k, "poller") /\ Handled(FALSE)
     ELSE Handled(TRUE) /\ UNCHANGED <<epoll, ccList, quit, portCc, exit>>
  /\ UNCHANGED <<epfdOpen, wake, ccPort, portListed, stopChan, wg, errChan, app>>

\* Fault variant: the loop returns after sending a handler's error.
PollSendReturns ==
  /\ Alive /\ poller.pc \in {"send", "sendExit"} /\ errChan < 1
  /\ errChan' = errChan + 1
  /\ SetPoller("done") /\ wg' = wg - 1
  /\ UNCHANGED <<sockVars, portVars, peer, stopChan, app, exit>>

\* Fault variant: wg.Done before the return, besides the deferred one.
PollSendDoneTwice ==
  /\ Alive /\ poller.pc \in {"send", "sendExit"} /\ errChan < 1
  /\ errChan' = errChan + 1
  /\ IF poller.pc = "send" THEN SetPoller("select") /\ UNCHANGED wg
                           ELSE SetPoller("done") /\ wg' = wg - 2
  /\ UNCHANGED <<sockVars, portVars, peer, stopChan, app, exit>>

\* socket.ErrChan <- err blocks while the channel holds an error; after an
\* EpollWait error the goroutine returns (deferred wg.Done).
PollSend ==
  /\ Alive /\ poller.pc \in {"send", "sendExit"} /\ errChan < 1
  /\ errChan' = errChan + 1
  /\ IF poller.pc = "send" THEN SetPoller("select") /\ UNCHANGED wg
                           ELSE SetPoller("done") /\ wg' = wg - 1
  /\ UNCHANGED <<sockVars, portVars, peer, stopChan, app, exit>>

Poller ==
  \/ PollSelect \/ \E fd \in Fds : PollWake(fd)
  \/ HandleWake \/ HandleAccept \/ HandleNotFound
  \/ HandleHangUp \/ HandleInit \/ HandleDisconnect \/ PollSend
-----------------------------------------------------------------------------
(* The application goroutine.                                              *)

Call == Script[app.i]
Calling(c) == Alive /\ app.pc = "idle" /\ app.i <= Len(Script) /\ Call = c
AfterCall == [app EXCEPT !.pc = "idle", !.i = @ + 1, !.cc = NoCc, !.caller = "none"]
Closing(k, caller) == [app EXCEPT !.pc = "closeSend", !.cc = k, !.caller = caller]

\* The examples' main loop: select on ErrChan.  They call logrus.Fatal on
\* the error; here the application goes on, which only adds behaviours.
ReadErr ==
  /\ Alive /\ app.pc = "idle" /\ errChan > 0
  /\ errChan' = errChan - 1
  /\ UNCHANGED <<sockVars, portVars, peer, stopChan, wg, poller, app, exit>>

\* A new stopPollChan, wg.Add(1), and the go statement.
StartPolling ==
  /\ Calling("StartPolling")
  /\ stopChan' = "open" /\ wg' = wg + 1
  /\ poller' = [pc |-> "select", fd |-> NoCc]
  /\ app' = AfterCall
  /\ UNCHANGED <<sockVars, portVars, peer, errChan, exit>>

\* While stopPollChan is set: close it (a panic if it is closed already),
\* write the wake eventfd, and wg.Wait.
StopPolling ==
  /\ Calling("StopPolling")
  /\ CASE stopChan = "nil" -> app' = AfterCall /\ UNCHANGED <<stopChan, wake, exit>>
       [] stopChan = "closed" -> exit' = "app" /\ UNCHANGED <<stopChan, wake, app>>
       [] OTHER -> /\ stopChan' = "closed" /\ wake' = TRUE
                   /\ app' = [app EXCEPT !.pc = "stopWait"] /\ UNCHANGED exit
  /\ UNCHANGED <<epoll, epfdOpen, ccList, portVars, peer, wg, poller, errChan>>

\* Fault variant: StopPolling without wg.Wait.
StopPollingNoWait ==
  /\ Alive /\ app.pc = "stopWait"
  /\ app' = AfterCall
  /\ UNCHANGED <<sockVars, portVars, peer, stopChan, wg, poller, errChan, exit>>

StopPollingWait ==
  /\ Alive /\ app.pc = "stopWait" /\ wg = 0
  /\ app' = AfterCall
  /\ UNCHANGED <<sockVars, portVars, peer, stopChan, wg, poller, errChan, exit>>

\* Port.Disconnect: close(true, ...) on p.cc, if set.
Disconnect ==
  /\ Calling("Disconnect")
  /\ app' = IF portCc = NoCc THEN AfterCall ELSE Closing(portCc, "Disconnect")
  /\ UNCHANGED <<sockVars, portVars, peer, stopChan, wg, poller, errChan, exit>>

\* Socket.Delete, the loop over ccList: close(true, ...) of the first
\* channel; its ccList.Remove makes elt.Next() nil, so the loop ends there.
Delete ==
  /\ Calling("Delete")
  /\ app' = IF ccList = <<>> THEN [app EXCEPT !.pc = "deletePorts"]
                             ELSE Closing(Head(ccList), "Delete")
  /\ UNCHANGED <<sockVars, portVars, peer, stopChan, wg, poller, errChan, exit>>

\* Where a close returns to: Port.Disconnect returns; Delete goes on to the
\* port list, or returns nil when the close failed; Port.Delete ignores
\* the error and removes the port from portList.
CloseReturns(ok) ==
  /\ portListed' = (portListed /\ app.caller # "PortDelete")
  /\ app' = CASE app.caller = "Delete" /\ ok -> [app EXCEPT !.pc = "deletePorts"]
              [] app.caller = "PortDelete" -> [app EXCEPT !.pc = "deleteRest"]
              [] OTHER -> AfterCall

\* close(true, ...) on the application goroutine: sendMsg of the
\* DISCONNECT (which fails once the peer is gone), epoll_ctl DEL (which
\* fails once the channel was deleted), then ccList.Remove and
\* Port.disconnect.
CloseSend ==
  /\ Alive /\ app.pc = "closeSend"
  /\ IF peer[app.cc].gone THEN CloseReturns(FALSE)
     ELSE app' = [app EXCEPT !.pc = "closeDel"] /\ UNCHANGED portListed
  /\ UNCHANGED <<sockVars, ccPort, portCc, quit, peer, stopChan, wg, poller, errChan, exit>>

CloseDel ==
  /\ Alive /\ app.pc = "closeDel"
  /\ IF app.cc \in epoll
     THEN epoll' = epoll \ {app.cc} /\ app' = [app EXCEPT !.pc = "closeRemove"]
          /\ UNCHANGED portListed
     ELSE CloseReturns(FALSE) /\ UNCHANGED epoll
  /\ UNCHANGED <<epfdOpen, wake, ccList, ccPort, portCc, quit, peer, stopChan, wg, poller, errChan, exit>>

CloseRemove ==
  /\ Alive /\ app.pc = "closeRemove"
  /\ ccList' = Remove(ccList, app.cc) /\ PortDisconnect(app.cc, "app")
  /\ CloseReturns(TRUE)
  /\ UNCHANGED <<epoll, epfdOpen, wake, ccPort, peer, stopChan, wg, poller, errChan>>

\* The loop over portList: Port.Delete runs Port.Disconnect and removes
\* the port; elt.Next() is then nil.
DeletePorts ==
  /\ Alive /\ app.pc = "deletePorts"
  /\ IF portCc # NoCc
     THEN app' = Closing(portCc, "PortDelete") /\ UNCHANGED portListed
     ELSE app' = [app EXCEPT !.pc = "deleteRest"] /\ portListed' = FALSE
  /\ UNCHANGED <<sockVars, ccPort, portCc, quit, peer, stopChan, wg, poller, errChan, exit>>

\* listener.close (epoll_ctl DEL, close), os.Remove of the socket file,
\* epoll_ctl DEL of the wake event, and close of epfd.
DeleteRest ==
  /\ Alive /\ app.pc = "deleteRest"
  /\ epoll' = epoll \ {"listener", "wake"} /\ epfdOpen' = FALSE
  /\ app' = AfterCall
  /\ UNCHANGED <<wake, ccList, portVars, peer, stopChan, wg, poller, errChan, exit>>

App ==
  \/ ReadErr \/ StartPolling \/ StopPolling \/ StopPollingWait
  \/ Disconnect \/ Delete \/ CloseSend \/ CloseDel \/ CloseRemove
  \/ DeletePorts \/ DeleteRest

Next ==
  \/ Poller \/ App
  \/ \E k \in Conns :
       \/ PeerConnect(k) \/ PeerHangUp(k)
       \/ \E m \in MsgKinds : PeerSend(k, m)

\* The Go scheduler runs every runnable goroutine: the polling goroutine's
\* and the application's steps are weakly fair.  epoll_wait returns the
\* level-triggered ready descriptors in turn (the kernel puts a returned
\* descriptor back at the tail of its ready list), so a descriptor that
\* stays ready is returned: strong fairness per descriptor.  Peers are not
\* fair.
Fairness ==
  /\ WF_vars(Poller) /\ WF_vars(App)
  /\ \A fd \in Fds : SF_vars(PollWake(fd))

Spec == Init /\ [][Next]_vars /\ Fairness

-----------------------------------------------------------------------------
PollerPcs == {"idle", "select", "wait", "ready", "send", "sendExit", "done"}
AppPcs == {"idle", "stopWait", "closeSend", "closeDel", "closeRemove",
           "deletePorts", "deleteRest"}

TypeOK ==
  /\ epoll \subseteq Fds /\ epfdOpen \in BOOLEAN /\ wake \in BOOLEAN
  /\ ccList \in Seq(Conns) /\ ccPort \in [Conns -> BOOLEAN]
  /\ portCc \in Conns \cup {NoCc} /\ portListed \in BOOLEAN /\ quit \in BOOLEAN
  /\ peer \in [Conns -> [st : {"idle", "backlog", "accepted"}, gone : BOOLEAN,
                         inbox : Seq(MsgKinds), sent : 0 .. MaxMsgs]]
  /\ stopChan \in {"nil", "open", "closed"} /\ wg \in Nat
  /\ poller \in [pc : PollerPcs, fd : Fds \cup {NoCc}]
  /\ errChan \in 0 .. 1
  /\ app \in [pc : AppPcs, i : 1 .. Len(Script) + 1, cc : Conns \cup {NoCc},
              caller : {"none", "Disconnect", "Delete", "PortDelete"}]
  /\ exit \in {"none", "app", "poller"}

\* Port.Disconnect on the application goroutine and the polling goroutine's
\* handlers both run controlChannel.close on the port's channel, with
\* nothing to serialise them.  Whatever the interleaving, the port stays
\* bound to exactly the listed channel parseInit gave it: a channel of
\* ccList whose cc.port is the port is p.cc, and p.cc is such a channel.
PortBoundToListedChannel ==
  Alive => \A k \in Conns : (ccPort[k] /\ k \in ToSet(ccList)) <=> portCc = k

\* StopPolling returns only once the polling goroutine has returned, so
\* no event is handled after it until the next StartPolling.
PollerStoppedAfterStop ==
  (Alive /\ stopChan = "closed" /\ app.pc # "stopWait") => poller.pc = "done"

\* A client's connection is eventually accepted while the socket polls:
\* handler errors hold the polling goroutine in its send on ErrChan only
\* until the application's loop reads them.
Polling == stopChan = "open" /\ "listener" \in epoll
ConnectionsAccepted ==
  \A k \in Conns :
    peer[k].st = "backlog" ~> (peer[k].st = "accepted" \/ ~Polling \/ ~Alive)
====
