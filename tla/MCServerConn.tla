---------------------------- MODULE MCServerConn ----------------------------
(* ServerConn with three connections; handles are interchangeable. *)
EXTENDS ServerConn, TLC

Symmetry == Permutations(Conn)
=============================================================================
