--------------------------- MODULE MCEditProfile ---------------------------
EXTENDS EditProfile, TLC

\* Edit screens and pictures are interchangeable.
Symmetry == Permutations(Sessions) \cup Permutations(Uploads)
=============================================================================
