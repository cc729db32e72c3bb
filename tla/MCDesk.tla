------------------------------- MODULE MCDesk -------------------------------
(* Instance of Identity and Desk for TLC. *)
EXTENDS Desk, TLC

MCSymmetry == Permutations(Worker) \cup Permutations(Tenant)
MCSeedRole == {"analyst"}
MCKeyScopes == {{"admin:*"}, {"alerts:triage", "brands:write"}}
=============================================================================
