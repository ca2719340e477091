--------------------------- MODULE MC_MemifWorkers ---------------------------
(* The goroutines the examples' ConnectedFunc start.                        *)
EXTENDS MemifWorkers

\* example/simple_echo/client: go sendpkt(p); go recvpkt(p).
EchoClient == <<"sender", "receiver">>
\* example/simple_echo/server and bw_test/reciever: receivers only.
EchoServer == <<"receiver">>
\* example/dpdk_co_worker/sender with queueNum = 1: one sendpkt.
Sender == <<"sender">>
==============================================================================
