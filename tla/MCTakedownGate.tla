--------------------------- MODULE MCTakedownGate ---------------------------
(* Small instances of TakedownGate: model values come from the configurations. *)
EXTENDS TakedownGate, TLC

CONSTANT Acme

\* takedowns record under the tenant, the middleware under the token's account
TakedownRoutes == Account \X {"submission", "middleware"}

\* acme is written by review decisions only; nobody, the account of every other
\* request, by all of them.
MixedRoutes == {<<Acme, "decision">>} \cup ({Nobody} \X Path)

Symmetry == Permutations(Process)
=============================================================================
