---------------------------- MODULE MCCommunication ----------------------------
(* Communication with a FIFO, a buffer and a list that all overflow.        *)
EXTENDS Communication
===============================================================================
