---------------------------- MODULE MCOwnerWizard ----------------------------
(* A small instance of OwnerWizard for TLC.                                *)
EXTENDS OwnerWizard, TLC

Symmetry == Permutations(Key) \cup Permutations(Server) \cup Permutations(Call)
=============================================================================
