---------------------------- MODULE MCOnboarding ----------------------------
(* Two flows over two machines.                                              *)
EXTENDS Onboarding, TLC

Symmetry == Permutations(Flows) \cup Permutations(Machines)
=============================================================================
