------------------------- MODULE MCSenderConnection -------------------------
(* Model-checking instances of SenderConnection.                            *)
EXTENDS SenderConnection, TLC

\* Connection objects are interchangeable (sound for safety only).
ConnSymmetry == Permutations(Conns)
=============================================================================
