------------------------- MODULE MCApprovalWorkflow -------------------------
(***************************************************************************)
(* Finite instances of ApprovalWorkflow for TLC.                           *)
(***************************************************************************)
EXTENDS ApprovalWorkflow

CONSTANTS r1, r2, alice

MCRequests == {r1, r2}

(* No property tells the people who answer apart. *)
MCOnePerson == {alice}
=============================================================================
