------------------------------ MODULE MCPolicy ------------------------------
EXTENDS Policy
=============================================================================
