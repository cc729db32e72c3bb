---------------------------- MODULE MCReviewQueue ---------------------------
(* Small instances of ReviewQueue: model values come from the configurations. *)
EXTENDS ReviewQueue, TLC

\* Workers are interchangeable, and so are items and assignees.
Symmetry == Permutations(Worker) \cup Permutations(Item) \cup Permutations(User)
=============================================================================
