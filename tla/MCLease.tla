------------------------------ MODULE MCLease ------------------------------
\* Instances of Lease for TLC; the constants are in the .cfg files.
EXTENDS Lease
=============================================================================
