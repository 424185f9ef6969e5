----------------------------- MODULE NightwatchMC -----------------------------
(* Instances of Nightwatch for TLC. *)
EXTENDS NightwatchInv, TLC

\* Controllers are interchangeable.
ControllerSymmetry == Permutations(Controllers)
=============================================================================
