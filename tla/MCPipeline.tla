----------------------------- MODULE MCPipeline -----------------------------
(* The rules give the other verdicts; the model may call a phish low. *)
EXTENDS Pipeline, TLC

CONSTANTS p1, p2

Answers == {[verdict |-> "phish", severity |-> "low"],
            [verdict |-> "benign", severity |-> "low"]}
GeoSites == {2}
ArmedSites == {1}
Symmetry == Permutations(Proc)
=============================================================================
