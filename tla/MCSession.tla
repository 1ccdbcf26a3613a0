----------------------------- MODULE MCSession -----------------------------
EXTENDS Session, TLC

\* Users and attempts to sign in are interchangeable.
Symmetry == Permutations(Users) \cup Permutations(Flows)
=============================================================================
