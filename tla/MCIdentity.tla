----------------------------- MODULE MCIdentity -----------------------------
(* Instance of Identity alone for TLC. *)
EXTENDS Identity, TLC

SeededRoles == {"analyst"}
=============================================================================
