------------------------------ MODULE MCTcpServer ------------------------------
(* Instances of TcpServer for TLC: clients as model values, buffers of a byte   *)
(* or two, so that they fill.                                                    *)
EXTENDS TcpServer
=============================================================================
