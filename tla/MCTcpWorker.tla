---------------------------- MODULE MCTcpWorker ----------------------------
(* Three descriptor numbers for clients and upstream sockets, so that numbers *)
(* are reused soon.                                                           *)
EXTENDS TcpWorker
=============================================================================
