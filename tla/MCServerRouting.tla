---------------------------- MODULE MCServerRouting ----------------------------
EXTENDS ServerRouting, TLC

Symmetry == Permutations(Conn)
=============================================================================
