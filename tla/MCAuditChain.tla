---------------------------- MODULE MCAuditChain ----------------------------
(* Small instances of AuditChain: model values come from the configurations. *)
EXTENDS AuditChain, TLC

CONSTANT Acme

\* A deployment without the older writer: decisions and the middleware.
ChainedRoutes == {Acme} \X {"decision", "middleware"}

\* Workers are interchangeable.
Symmetry == Permutations(Process)
=============================================================================
