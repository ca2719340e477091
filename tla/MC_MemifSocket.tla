---------------------------- MODULE MC_MemifSocket ----------------------------
(* A server socket with two client connections.                             *)
EXTENDS MemifSocket

CONSTANTS c1, c2

MCConns == {c1, c2}

\* A server that polls, disconnects its port, restarts polling after a
\* stop, and deletes the socket while the restarted poller runs.
Lifecycle == <<"StartPolling", "Disconnect", "StopPolling", "StartPolling", "Delete">>
==============================================================================
