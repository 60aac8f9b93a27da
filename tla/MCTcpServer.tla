---------------------------- MODULE MCTcpServer ----------------------------
(***************************************************************************)
(* TcpServer for TLC.  Connections and names are interchangeable.          *)
(***************************************************************************)
EXTENDS TcpServer, TLC

ConnSymmetry == Permutations(Conn) \union Permutations(Name)
=============================================================================
