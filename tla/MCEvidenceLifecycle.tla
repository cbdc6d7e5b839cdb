------------------------- MODULE MCEvidenceLifecycle -------------------------
(* Model values of EvidenceLifecycle for TLC. *)
EXTENDS EvidenceLifecycle, TLC

CONSTANTS l1, l2, p1, p2

Symmetry == Permutations({l1, l2}) \cup Permutations({p1, p2})
=============================================================================
