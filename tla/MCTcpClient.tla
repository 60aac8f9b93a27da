---------------------------- MODULE MCTcpClient ----------------------------
(***************************************************************************)
(* TcpClient for TLC.  Sockets, and calls of close(), are interchangeable. *)
(***************************************************************************)
EXTENDS TcpClient, TLC

SockSymmetry == Permutations(Sock) \union Permutations(CloseCall)
=============================================================================
