---------------------------- MODULE MCMatrixRuns ----------------------------
(* The matrix runner, the sealed runs around it and the R01 validators,     *)
(* checked in one run: in each behaviour one of the three moves.            *)
EXTENDS MatrixRun, SealedMatrix, R01Evidence

VARIABLE part

\* No evidence root to validate.
R01Idle ==
    /\ tool = "fresh" /\ checkout = "tuple" /\ evidence = <<>> /\ request = NoRequest
    /\ writes = 0 /\ at = 0 /\ asked = NoRequest /\ seen = <<>> /\ failed = FALSE
    /\ result = NoResult /\ validations = 0

MCInit ==
    /\ part \in {"matrix", "sealed", "r01"}
    /\ MatrixInit /\ SealedInit
    /\ IF part = "r01" THEN R01Init ELSE R01Idle
    /\ part # "sealed" => mode = "production" /\ source = Nothing
    /\ part # "matrix" => committed = [r \in Repos |-> "expected"]

MCNext ==
    \/ part = "matrix" /\ MatrixNext /\ UNCHANGED <<part, sealedVars, r01Vars>>
    \/ part = "sealed" /\ SealedNext /\ UNCHANGED <<part, matrixVars, r01Vars>>
    \/ part = "r01" /\ R01Next /\ UNCHANGED <<part, matrixVars, sealedVars>>

MCSpec == MCInit /\ [][MCNext]_<<part, matrixVars, sealedVars, r01Vars>>
=============================================================================
