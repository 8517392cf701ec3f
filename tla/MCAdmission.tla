----------------------------- MODULE MCAdmission -----------------------------
EXTENDS Admission, TLC

Symmetry == Permutations(Conn) \cup Permutations(Kid)
=============================================================================
