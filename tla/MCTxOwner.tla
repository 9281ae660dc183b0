------------------------------ MODULE MCTxOwner ------------------------------
\* TxOwner's behaviours for TLC, in two groups that share a run and its constants: the realtime
\* stream alone, with MIT batches, transitions and trimming, and the queue next to a short CPV
\* stream. A group only takes away what the threads outside of the owner do.
EXTENDS TxOwner, TLC

VARIABLE group

\* The calls are interchangeable.
Symmetry == Permutations(Calls)

NoCall == envState' = envState
ShortStream ==
  /\ revision' <= 2 /\ barrier' = barrier
  /\ mailbox' # None => mailbox'.mode = "cpv" /\ mailbox'.gen = 0

MCInit == Init /\ group \in {"stream", "queue"}
MCNext ==
  /\ Next /\ UNCHANGED group
  /\ \/ group = "stream" /\ NoCall
     \/ group = "queue" /\ ShortStream
MCSpec == MCInit /\ [][MCNext]_<<vars, group>>
=============================================================================
