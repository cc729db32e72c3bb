---------------------------- MODULE MCScanAgents ----------------------------
(* The scan, and an agent that needs every grant there is. *)
EXTENDS ScanAgents, TLC

CONSTANTS c1, c2

\* the scan passes none; of the others each is missing once
Passed == {{}, {"region"}, {"basis"}, {"basis", "region"}, {"basis", "region", "hitl"},
           {"basis", "region", "hitl", "second"}}

Symmetry == Permutations(Caller)
=============================================================================
