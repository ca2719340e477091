--------------------------- MODULE MC_MemifControl ---------------------------
(* Port configurations for MemifControl: ids, secrets and queue-pair       *)
(* counts of the client and the server port.                               *)
EXTENDS MemifControl

PortCfg(id, secret, n) == [Id |-> id, Secret |-> secret, NumQueuePairs |-> n]
Pair(c, s) == [client |-> c, server |-> s]

\* Matching peers with the server offering as many or more queue pairs,
\* a wrong secret, and a wrong id.
Compatible ==
  { Pair(PortCfg(1, 1, 1), PortCfg(1, 1, 1)),
    Pair(PortCfg(1, 1, 1), PortCfg(1, 1, 2)),
    Pair(PortCfg(1, 1, 2), PortCfg(1, 1, 2)),
    Pair(PortCfg(1, 2, 1), PortCfg(1, 1, 1)),
    Pair(PortCfg(2, 1, 1), PortCfg(1, 1, 1)) }

OneToOne == { Pair(PortCfg(1, 1, 1), PortCfg(1, 1, 1)) }
==============================================================================
