--------------------------- MODULE MCAuthScreens ---------------------------
(* Symmetry for model checking AuthScreens.                                *)
EXTENDS AuthScreens, TLC

Symmetry == Permutations(Ops) \cup Permutations(Logins) \cup Permutations(Registrations)
              \cup Permutations(Resets)
=============================================================================
