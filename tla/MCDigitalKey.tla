---------------------------- MODULE MCDigitalKey ----------------------------
(* Instance of UnlockCall for TLC: requests and keys are interchangeable.  *)
EXTENDS UnlockCall, TLC

Symmetry == Permutations(Requests) \cup Permutations(Keys)
=============================================================================
