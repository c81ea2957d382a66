---------------------------- MODULE MCStepBudget ----------------------------
(***************************************************************************)
(* Step configurations for the model checking of StepBudget: a soft limit  *)
(* below, at and above the hard one, extensions that overshoot it, and     *)
(* both a short and a longer loop threshold.                               *)
(***************************************************************************)
EXTENDS StepBudget

L(soft, hard, extension, threshold) ==
    [soft |-> soft, hard |-> hard, extension |-> extension, threshold |-> threshold]

MCLimits == {L(2, 7, 2, 3), L(3, 7, 1, 2), L(1, 6, 9, 2), L(6, 7, 1, 3), L(4, 4, 2, 3), L(5, 3, 2, 3)}

=============================================================================
