----------------------------- MODULE LatestValue -----------------------------
(***************************************************************************)
(* What the realtime position stream is promised: a channel of capacity    *)
(* one.  A newer value replaces an unsent one, a value is sent at most     *)
(* once and only if no newer value was sent before, and every published    *)
(* value is accounted for exactly once.  TxOwner implements it.            *)
(***************************************************************************)
EXTENDS Integers

VARIABLES
  revision,   \* values published so far
  waiting,    \* the value in the slot, 0 when it is empty
  sending,    \* the value being sent, 0 when there is none
  last,       \* the newest value sent successfully
  settled     \* values whose fate is decided

vars == <<revision, waiting, sending, last, settled>>

Init == revision = 0 /\ waiting = 0 /\ sending = 0 /\ last = 0 /\ settled = 0

Publish ==
  /\ revision' = revision + 1
  /\ waiting' = revision + 1
  /\ settled' = IF waiting = 0 THEN settled ELSE settled + 1
  /\ UNCHANGED <<sending, last>>

\* The slot is emptied from outside: the value will not be sent.
Withdraw ==
  /\ waiting # 0
  /\ waiting' = 0 /\ settled' = settled + 1
  /\ UNCHANGED <<revision, sending, last>>

Start ==
  /\ waiting # 0 /\ sending = 0
  /\ sending' = waiting /\ waiting' = 0
  /\ UNCHANGED <<revision, last, settled>>

Finish ==
  /\ sending # 0
  /\ sending' = 0 /\ settled' = settled + 1
  /\ last' \in {last, sending}
  /\ UNCHANGED <<revision, waiting>>

Next == Publish \/ Withdraw \/ Start \/ Finish

Spec == Init /\ [][Next]_vars

-----------------------------------------------------------------------------
Open == (IF waiting = 0 THEN 0 ELSE 1) + (IF sending = 0 THEN 0 ELSE 1)

\* Values move forward only: what was sent is older than what is being sent,
\* which is older than what waits; and no published value is unaccounted for.
Ordered ==
  /\ revision \in Nat /\ waiting \in Nat /\ sending \in Nat /\ last \in Nat
  /\ settled \in Nat
  /\ last =< revision /\ sending =< revision
  /\ waiting # 0 => waiting = revision /\ sending < waiting /\ last < waiting
  /\ sending # 0 => last < sending
  /\ settled + Open = revision
=============================================================================
