----------------------------- MODULE MCAuthority -----------------------------
\* Model values and bounds of Authority are in the .cfg files of its runs.
EXTENDS Authority, TLC

\* Servo threads and marking threads are interchangeable.
Symmetry == Permutations(Loops) \cup Permutations(Marks) \cup Permutations(Operators)
=============================================================================
