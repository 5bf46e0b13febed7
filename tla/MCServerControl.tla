--------------------------- MODULE MCServerControl ---------------------------
(* ServerControl with a client that talks and clients that come and go. *)
EXTENDS ServerControl, TLC

Symmetry == Permutations(Conn \ Talker)
=============================================================================
