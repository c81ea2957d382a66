--------------------------- MODULE MCReviewOutbox ---------------------------
(***************************************************************************)
(* Values and symmetry for the model checking of ReviewOutbox.             *)
(***************************************************************************)
EXTENDS ReviewOutbox, TLC

\* Heads, administrators and threads are interchangeable.
Symmetry == Permutations(Head) \cup Permutations(Admin) \cup Permutations(Thread)

=============================================================================
