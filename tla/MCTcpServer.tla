------------------------------ MODULE MCTcpServer ------------------------------
(* TcpServer with a pool that is larger than the table of clients.          *)
EXTENDS TcpServer
===============================================================================
