--------------------------- MODULE MCProbePipeline ---------------------------
(* Instances of ProbePipeline for TLC.                                     *)
EXTENDS ProbePipeline, TLC

CONSTANTS w1, w2   \* model values

MCWorker == {w1, w2}

WorkerSymmetry == Permutations(MCWorker)
=============================================================================
