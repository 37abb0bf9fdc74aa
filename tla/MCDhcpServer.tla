------------------------------ MODULE MCDhcpServer ------------------------------
(* DhcpServer with a client more than there are addresses. *)
EXTENDS DhcpServer
=================================================================================
