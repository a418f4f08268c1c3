---------------------------- MODULE MCPipelineRun ----------------------------
(* Small instances of PipelineRun: the server of each thread, and symmetry.  *)
EXTENDS PipelineRun, TLC

CONSTANTS i1, i2, c1, c2, w1, w2, k1

\* Every thread on the only server.
HomeOne == [t \in Threads |-> i1]

\* Two servers: the second one runs the second caller and the second worker.
HomeTwo == [t \in Threads |-> IF t \in {c2, w2} THEN i2 ELSE i1]

\* On one server the runs, the callers and the workers are interchangeable.
OneServerSymmetry == Permutations(Runs) \cup Permutations(Callers) \cup Permutations(Workers)
=============================================================================
