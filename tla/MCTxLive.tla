------------------------------ MODULE MCTxLive ------------------------------
\* The bounds of TxOwner's liveness run are in its .cfg file.
EXTENDS TxOwner
=============================================================================
