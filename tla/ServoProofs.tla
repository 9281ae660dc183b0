----------------------------- MODULE ServoProofs -----------------------------
(***************************************************************************)
(* Theorems about Servo for every number of sessions, target sequences and *)
(* generations.  TypeOK and DoorsAgree are inductive; StrictHold,          *)
(* HoldIsQuiet and FaultLatched need to know how far a tick can be behind  *)
(* the trajectory, which HoldInv, OwnerInv and QuietInv say.               *)
(***************************************************************************)
EXTENDS Servo, TLAPS

\* Generations: nothing known is newer than the counter, and what was taken up
\* before a hardware hold is older than the barrier it raised.
HoldInv ==
  /\ barrier <= generation
  /\ command # None => command.gen <= generation
  /\ tick.command # None => tick.command.gen <= generation
  /\ tick.held /\ tick.command # None => tick.command.gen < barrier
  /\ tick.at = "publish" /\ tick.command # None => tick.gen = tick.command.gen
  /\ verdict = "pending" /\ batch.held => batch.blind \/ batch.gen < barrier

\* Authority: only hardware sessions write, and a tick knows whose it is.
OwnerInv ==
  /\ Active => session.mode \in {"hardware", "shadow"}
  /\ Active /\ granted => Hardware
  /\ Active /\ tick.at \notin {"none", "idle"} /\ tick.hw => Hardware
  /\ tick.at \in {"taking", "consuming", "input", "plan", "publish", "published", "final"}
       /\ ~tick.hw => ~granted
  /\ tick.at \in {"revoke", "freeze"} => tick.hw
  /\ tick.at = "freeze" => ~granted

\* Rest: a tick that ends with no publication to wait for leaves none pending,
\* and a tick that may still publish does not do so in HOLD_READY.
QuietInv ==
  /\ tick.at = "final" /\ tick.hw /\ ~hasBatch => verdict # "pending"
  /\ tick.at \in {"plan", "publish"} /\ granted => trajectory # "HOLD_READY"

\* The step FaultLatched allows.
LatchStep ==
  Active /\ Active' /\ trajectory = "FAULT" /\ trajectory' # "FAULT"
    => barrier' > barrier \/ (Hardware /\ ~granted')

Sessions == [id : 0..MaxSession, state : States, mode : ExecutionModes \cup {"none"},
             seq : 0..MaxSeq]
Snapshots == [id : 0..MaxSession, state : States, trajectory : Trajectories, seq : 0..MaxSeq]

-----------------------------------------------------------------------------
\* What the longer actions come to.

LEMMA NextGenerationType ==
  ASSUME generation \in 0..MaxGeneration, NextGeneration
  PROVE  generation' \in 0..MaxGeneration /\ generation' >= generation
  BY CounterAssumption DEF NextGeneration

\* Consume: the tick goes on with the command there is now, or ends.
LEMMA ConsumeEffect ==
  ASSUME TypeOK, NEW same \in BOOLEAN, NEW fresh \in BOOLEAN, Consume(same, fresh)
  PROVE  /\ tick.at = "consuming"
         /\ DOMAIN tick' = DOMAIN NewTick
         /\ \/ tick'.at = "idle" /\ tick'.command = None
            \/ tick'.at = "input" /\ tick'.command = command' /\ Active
         /\ ~tick'.held
         /\ tick'.at = "input" => (tick'.hw <=> Hardware)
         /\ UNCHANGED <<verdict, batch, barrier, granted, failed, hasBatch, mailbox>>
         /\ session'.state = session.state /\ session'.mode = session.mode
         /\ session'.id = session.id
<1>1. CASE Active
  BY <1>1 DEF Consume, Apply, lockVars, NewTick, TypeOK, LockType
<1>2. CASE ~Active
  BY <1>2 DEF Consume, Apply, lockVars, NewTick, TypeOK, LockType
<1> QED BY <1>1, <1>2

\* Input: the tick goes on to plan unless the trajectory is at rest.
LEMMA InputEffect ==
  ASSUME TypeOK, NEW expired \in BOOLEAN, NEW hard_stale \in BOOLEAN,
         Input(expired, hard_stale)
  PROVE  /\ tick.at = "input"
         /\ \/ tick' = NewTick
            \/ /\ tick'.at = "plan" /\ trajectory' # "HOLD_READY"
               /\ tick'.command = tick.command /\ tick'.held = tick.held /\ tick'.hw = tick.hw
         /\ command' \in {command, None} /\ generation' >= generation
         /\ UNCHANGED <<verdict, batch, barrier, granted, session>>
         /\ trajectory = "HOLD_READY" => trajectory' = "HOLD_READY"
<1>1. command' \in {command, None} /\ generation' >= generation
  BY NextGenerationType DEF Input, Drop, TypeOK, LockType
<1>2. trajectory = "HOLD_READY" => trajectory' = "HOLD_READY"
  BY DEF Input, InMotion
<1>3. \/ tick' = NewTick
      \/ /\ tick' = [tick EXCEPT !.at = "plan", !.state = trajectory', !.settled = ~moving]
         /\ trajectory' # "HOLD_READY"
  BY DEF Input
<1>4. tick.at = "input" /\ UNCHANGED <<verdict, batch, barrier, granted, session>>
  BY DEF Input, sendVars
<1> QED BY <1>1, <1>2, <1>3, <1>4 DEF TypeOK, TickType, NewTick

\* Final: the tick ends, or raises.
LEMMA FinalEffect ==
  ASSUME TypeOK, NEW arrived \in BOOLEAN, Final(arrived)
  PROVE  /\ tick.at = "final"
         /\ tick' = NewTick \/ Raise
         /\ tick'.at \in {"idle", "fault"} /\ tick'.command = None /\ ~tick'.held
         /\ tick'.at = "fault" => (tick'.hw <=> session.mode # "shadow")
         /\ command' \in {command, None} /\ generation' >= generation
         /\ UNCHANGED <<verdict, batch, barrier, granted, session>>
<1>1. command' \in {command, None} /\ generation' >= generation
  BY NextGenerationType DEF Final, Drop, TypeOK, LockType
<1>2. tick' = NewTick \/ Raise
  BY DEF Final
<1>3. tick.at = "final" /\ UNCHANGED <<verdict, batch, barrier, granted, session>>
  BY DEF Final, sendVars
<1>4. CASE tick' = NewTick
  BY <1>1, <1>2, <1>3, <1>4 DEF NewTick
<1>5. CASE Raise
  BY <1>1, <1>2, <1>3, <1>5 DEF Raise, NewTick
<1> QED BY <1>2, <1>4, <1>5

-----------------------------------------------------------------------------
\* Types.

LEMMA InitType == Init => TypeOK
<1> SUFFICES ASSUME Init PROVE TypeOK OBVIOUS
<1>1. 0 \in 0..MaxGeneration /\ 0 \in 0..MaxSession /\ 0 \in 0..MaxSeq
  BY CounterAssumption
<1>2. LockType
  <2>1. session \in Sessions
    BY <1>1 DEF Init, NoSession, States, Sessions
  <2>2. trajectory \in Trajectories /\ generation \in 0..MaxGeneration /\ command = None
    BY <1>1 DEF Init, Trajectories
  <2>3. target \in BOOLEAN /\ hasBatch \in BOOLEAN
    BY DEF Init
  <2> QED BY <2>1, <2>2, <2>3 DEF LockType, Sessions
<1>3. MailType
  BY <1>1 DEF Init, MailType, States, Trajectories
<1>4. TickType
  <2>1. tick.gen \in 0..MaxGeneration
    BY <1>1 DEF Init, NewTick
  <2> QED BY <2>1 DEF Init, TickType, NewTick, Trajectories
<1>5. SendType
  <2>1. barrier \in 0..MaxGeneration
    BY <1>1 DEF Init
  <2> QED BY <2>1 DEF Init, SendType
<1> QED BY <1>2, <1>3, <1>4, <1>5 DEF TypeOK

\* A target that is applied keeps the types under self.lock.
LEMMA ApplyType ==
  ASSUME TypeOK, NEW seq \in 1..MaxSeq, NEW osc_mode \in {"move_tcp", "track_tcp"},
         NEW same \in BOOLEAN, Apply(seq, osc_mode, same)
  PROVE  LockType'
<1>1. generation' \in 0..MaxGeneration
  BY NextGenerationType DEF TypeOK, LockType, Apply
<1>2. command' \in Commands
  BY <1>1 DEF Apply, Commands
<1>3. session' \in Sessions
  BY DEF TypeOK, LockType, Apply, Sessions
<1>4. trajectory' \in Trajectories
  BY DEF TypeOK, LockType, Apply, Trajectories
<1> QED BY <1>1, <1>2, <1>3, <1>4 DEF TypeOK, LockType, Apply, Sessions

\* So does a brake.
LEMMA InvalidateType ==
  ASSUME TypeOK, Invalidate
  PROVE  LockType'
<1>1. generation' \in 0..MaxGeneration
  BY NextGenerationType DEF TypeOK, LockType, Invalidate, Drop
<1> QED BY <1>1 DEF TypeOK, LockType, Invalidate, Drop, Trajectories

\* One step per action for each group of variables: those under self.lock,
LEMMA LockStep ==
  ASSUME TypeOK, [Next]_vars
  PROVE  LockType'
<1> USE DEF TypeOK, LockType
<1>1. ASSUME NEW mode \in ExecutionModes, Activate(mode)
      PROVE  LockType'
  <2>1. generation' \in 0..MaxGeneration
    BY <1>1, NextGenerationType DEF Activate
  <2>2. session' \in Sessions
    BY <1>1, CounterAssumption DEF Activate, Sessions, States
  <2> QED BY <1>1, <2>1, <2>2 DEF Activate, Sessions, Trajectories
<1>2. ASSUME NEW seq \in 1..MaxSeq, PublishTarget(seq)
      PROVE  LockType'
  BY <1>2 DEF PublishTarget, lockVars
<1>3. ASSUME NEW seq \in 1..MaxSeq, NEW same \in BOOLEAN, NEW fresh \in BOOLEAN,
             SubmitTarget(seq, same, fresh)
      PROVE  LockType'
  BY <1>3, ApplyType DEF SubmitTarget
<1>4. CASE ShadowHold
  BY <1>4, InvalidateType DEF ShadowHold
<1>5. CASE HardwareHold
  <2>1. generation' \in 0..MaxGeneration
    BY <1>5, NextGenerationType DEF HardwareHold
  <2> QED BY <1>5, <2>1 DEF HardwareHold, Trajectories
<1>6. CASE AuthorityLost
  BY <1>6 DEF AuthorityLost, lockVars
<1>7. CASE StopBrakes
  BY <1>7, InvalidateType DEF StopBrakes
<1>8. CASE StopSignals
  BY <1>8 DEF StopSignals, States
<1>9. CASE StopEnds
  BY <1>9, CounterAssumption DEF StopEnds, NoSession, States
<1>10. CASE AbandonSignals
  BY <1>10 DEF AbandonSignals, States, Trajectories
<1>11. CASE AbandonEnds
  BY <1>11, CounterAssumption DEF AbandonEnds, NoSession, States
<1>12. CASE LoopExit
  BY <1>12 DEF LoopExit, lockVars
<1>13. CASE Snapshot
  BY <1>13 DEF Snapshot, lockVars
<1>14. CASE TakeMailbox
  BY <1>14 DEF TakeMailbox, lockVars
<1>15. ASSUME NEW same \in BOOLEAN, NEW fresh \in BOOLEAN, Consume(same, fresh)
       PROVE  LockType'
  <2>1. tick.entry \in Entries
    BY <1>15 DEF Consume, TickType
  <2>2. tick.entry.seq \in 1..MaxSeq
    BY <2>1 DEF Entries
  <2>3. CASE Apply(tick.entry.seq, "track_tcp", same)
    BY <2>2, <2>3, ApplyType
  <2>4. CASE UNCHANGED lockVars
    BY <2>4 DEF lockVars
  <2> QED BY <1>15, <2>3, <2>4 DEF Consume
<1>16. ASSUME NEW expired \in BOOLEAN, NEW hard_stale \in BOOLEAN, Input(expired, hard_stale)
       PROVE  LockType'
  <2>1. generation' \in 0..MaxGeneration /\ command' \in Commands \cup {None}
    BY <1>16, NextGenerationType DEF Input, Drop
  <2>2. trajectory' \in Trajectories
    BY <1>16 DEF Input, Trajectories
  <2>3. target' \in BOOLEAN /\ hasBatch' \in BOOLEAN
    BY <1>16 DEF Input, Drop
  <2> QED BY <1>16, <2>1, <2>2, <2>3 DEF Input
<1>17. CASE FeedbackMissing
  BY <1>17 DEF FeedbackMissing, lockVars
<1>18. CASE LoopRaises
  BY <1>18 DEF LoopRaises, lockVars
<1>19. CASE PlanFrozen
  BY <1>19 DEF PlanFrozen, Trajectories
<1>20. ASSUME NEW solved \in BOOLEAN, NEW gate_ok \in BOOLEAN, Plan(solved, gate_ok)
       PROVE  LockType'
  BY <1>20 DEF Plan, Trajectories
<1>21. CASE Publish
  BY <1>21 DEF Publish, lockVars
<1>22. CASE PublishRefused
  BY <1>22 DEF PublishRefused, Trajectories
<1>23. CASE SetResult
  BY <1>23 DEF SetResult, Trajectories
<1>24. ASSUME NEW rest \in BOOLEAN, ShadowPublish(rest)
       PROVE  LockType'
  BY <1>24 DEF ShadowPublish, Trajectories
<1>25. ASSUME NEW arrived \in BOOLEAN, Final(arrived)
       PROVE  LockType'
  <2>1. generation' \in 0..MaxGeneration /\ command' \in Commands \cup {None}
    BY <1>25, NextGenerationType DEF Final, Drop
  <2>2. trajectory' \in Trajectories
    BY <1>25 DEF Final, Trajectories
  <2>3. target' \in BOOLEAN /\ hasBatch' \in BOOLEAN
    BY <1>25 DEF Final, Drop
  <2> QED BY <1>25, <2>1, <2>2, <2>3 DEF Final
<1>26. CASE Fault
  BY <1>26 DEF Fault, Trajectories
<1>27. CASE FaultRevokes
  BY <1>27 DEF FaultRevokes, lockVars
<1>28. CASE FaultFreezes
  <2>1. generation' \in 0..MaxGeneration
    BY <1>28, NextGenerationType DEF FaultFreezes
  <2> QED BY <1>28, <2>1 DEF FaultFreezes, Trajectories
<1>29. ASSUME NEW rest \in BOOLEAN, Send(rest)
       PROVE  LockType'
  BY <1>29 DEF Send, lockVars, Dispatched
<1>30. CASE SendFails
  BY <1>30 DEF SendFails, lockVars, Dispatched
<1>31. CASE SendRefused
  BY <1>31 DEF SendRefused, lockVars, Dispatched
<1>32. CASE UNCHANGED vars
  BY <1>32 DEF vars, lockVars, mailVars, sendVars, stopVars
<1> QED BY <1>1, <1>2, <1>3, <1>4, <1>5, <1>6, <1>7, <1>8, <1>9, <1>10, <1>11, <1>12,
       <1>13, <1>14, <1>15, <1>16, <1>17, <1>18, <1>19, <1>20, <1>21, <1>22, <1>23,
       <1>24, <1>25, <1>26, <1>27, <1>28, <1>29, <1>30, <1>31, <1>32
       DEF Next, Adapters, Loop, Transport

\* the mailbox and the snapshot,
LEMMA MailStep ==
  ASSUME TypeOK, LockType', [Next]_vars
  PROVE  MailType'
<1> USE DEF TypeOK, MailType
<1>1. ASSUME NEW mode \in ExecutionModes, Activate(mode)
      PROVE  MailType'
  BY <1>1 DEF Activate, PublishFastState, LockType
<1>2. ASSUME NEW seq \in 1..MaxSeq, PublishTarget(seq)
      PROVE  MailType'
  BY <1>2 DEF PublishTarget, Entries
<1>3. ASSUME NEW seq \in 1..MaxSeq, NEW same \in BOOLEAN, NEW fresh \in BOOLEAN,
             SubmitTarget(seq, same, fresh)
      PROVE  MailType'
  BY <1>3 DEF SubmitTarget, PublishFastState, LockType
<1>4. CASE ShadowHold
  BY <1>4 DEF ShadowHold, Invalidate, Drop, Trajectories
<1>5. CASE HardwareHold
  BY <1>5 DEF HardwareHold, mailVars
<1>6. CASE AuthorityLost
  BY <1>6 DEF AuthorityLost, mailVars
<1>7. CASE StopBrakes
  BY <1>7 DEF StopBrakes, Invalidate, Drop, Trajectories
<1>8. CASE StopSignals
  BY <1>8 DEF StopSignals, PublishFastState, LockType
<1>9. CASE StopEnds
  BY <1>9 DEF StopEnds, PublishFastState, LockType
<1>10. CASE AbandonSignals
  BY <1>10 DEF AbandonSignals, mailVars
<1>11. CASE AbandonEnds
  BY <1>11 DEF AbandonEnds, mailVars
<1>12. CASE LoopExit
  BY <1>12 DEF LoopExit, mailVars
<1>13. CASE Snapshot
  BY <1>13 DEF Snapshot, mailVars
<1>14. CASE TakeMailbox
  BY <1>14 DEF TakeMailbox
<1>15. ASSUME NEW same \in BOOLEAN, NEW fresh \in BOOLEAN, Consume(same, fresh)
       PROVE  MailType'
  <2>1. tick.entry \in Entries
    BY <1>15 DEF Consume, TickType
  <2>2. tick.entry.seq \in 0..MaxSeq
    BY <2>1 DEF Entries
  <2>3. CASE fast' = [fast EXCEPT !.trajectory = trajectory', !.seq = tick.entry.seq]
    <3>1. [fast EXCEPT !.trajectory = trajectory'] \in Snapshots
      BY DEF LockType, Snapshots
    <3>2. fast' = [[fast EXCEPT !.trajectory = trajectory'] EXCEPT !.seq = tick.entry.seq]
      BY <2>3
    <3>3. fast' \in Snapshots
      BY <2>2, <3>1, <3>2 DEF Snapshots
    <3> QED BY <1>15, <3>3 DEF Consume, Snapshots
  <2>4. CASE UNCHANGED fast
    BY <1>15, <2>4 DEF Consume
  <2> QED BY <1>15, <2>3, <2>4 DEF Consume
<1>16. ASSUME NEW expired \in BOOLEAN, NEW hard_stale \in BOOLEAN, Input(expired, hard_stale)
       PROVE  MailType'
  BY <1>16 DEF Input, Drop, PublishFastState, LockType, Trajectories
<1>17. CASE FeedbackMissing
  BY <1>17 DEF FeedbackMissing, mailVars
<1>18. CASE LoopRaises
  BY <1>18 DEF LoopRaises, mailVars
<1>19. CASE PlanFrozen
  BY <1>19 DEF PlanFrozen, mailVars
<1>20. ASSUME NEW solved \in BOOLEAN, NEW gate_ok \in BOOLEAN, Plan(solved, gate_ok)
       PROVE  MailType'
  BY <1>20 DEF Plan, PublishFastState, LockType
<1>21. CASE Publish
  BY <1>21 DEF Publish, mailVars
<1>22. CASE PublishRefused
  BY <1>22 DEF PublishRefused, mailVars
<1>23. CASE SetResult
  BY <1>23 DEF SetResult, mailVars
<1>24. ASSUME NEW rest \in BOOLEAN, ShadowPublish(rest)
       PROVE  MailType'
  BY <1>24 DEF ShadowPublish, mailVars
<1>25. ASSUME NEW arrived \in BOOLEAN, Final(arrived)
       PROVE  MailType'
  BY <1>25 DEF Final, Drop, Trajectories
<1>26. CASE Fault
  BY <1>26 DEF Fault, PublishFastState, LockType
<1>27. CASE FaultRevokes
  BY <1>27 DEF FaultRevokes, mailVars
<1>28. CASE FaultFreezes
  BY <1>28 DEF FaultFreezes, mailVars
<1>29. ASSUME NEW rest \in BOOLEAN, Send(rest)
       PROVE  MailType'
  BY <1>29 DEF Send, Dispatched, mailVars
<1>30. CASE SendFails
  BY <1>30 DEF SendFails, Dispatched, mailVars
<1>31. CASE SendRefused
  BY <1>31 DEF SendRefused, Dispatched, mailVars
<1>32. CASE UNCHANGED vars
  BY <1>32 DEF vars, lockVars, mailVars, sendVars, stopVars
<1> QED BY <1>1, <1>2, <1>3, <1>4, <1>5, <1>6, <1>7, <1>8, <1>9, <1>10, <1>11, <1>12,
       <1>13, <1>14, <1>15, <1>16, <1>17, <1>18, <1>19, <1>20, <1>21, <1>22, <1>23,
       <1>24, <1>25, <1>26, <1>27, <1>28, <1>29, <1>30, <1>31, <1>32
       DEF Next, Adapters, Loop, Transport

\* the loop's tick,
LEMMA TickStep ==
  ASSUME TypeOK, LockType', [Next]_vars
  PROVE  TickType'
<1> USE DEF TypeOK, TickType
<1>1. ASSUME NEW mode \in ExecutionModes, Activate(mode)
      PROVE  TickType'
  <2>1. 0 \in 0..MaxGeneration
    BY CounterAssumption
  <2> QED BY <1>1, <2>1 DEF Activate, NewTick, Trajectories
<1>2. ASSUME NEW seq \in 1..MaxSeq, PublishTarget(seq)
      PROVE  TickType'
  BY <1>2 DEF PublishTarget, stopVars
<1>3. ASSUME NEW seq \in 1..MaxSeq, NEW same \in BOOLEAN, NEW fresh \in BOOLEAN,
             SubmitTarget(seq, same, fresh)
      PROVE  TickType'
  BY <1>3 DEF SubmitTarget, stopVars
<1>4. CASE ShadowHold
  BY <1>4 DEF ShadowHold, stopVars
<1>5. CASE HardwareHold
  BY <1>5 DEF HardwareHold, NewTick, stopVars
<1>6. CASE AuthorityLost
  BY <1>6 DEF AuthorityLost, stopVars
<1>7. CASE StopBrakes
  BY <1>7 DEF StopBrakes
<1>8. CASE StopSignals
  BY <1>8 DEF StopSignals
<1>9. CASE StopEnds
  BY <1>9 DEF StopEnds
<1>10. CASE AbandonSignals
  BY <1>10 DEF AbandonSignals
<1>11. CASE AbandonEnds
  BY <1>11 DEF AbandonEnds
<1>12. CASE LoopExit
  BY <1>12, CounterAssumption DEF LoopExit, NewTick, Trajectories, stopVars
<1>13. CASE Snapshot
  <2>1. 0 \in 0..MaxGeneration
    BY CounterAssumption
  <2>2. tick' = [NewTick EXCEPT !.at = "taking", !.command = command, !.hw = Hardware]
    BY <1>13 DEF Snapshot
  <2>3. tick'.hw \in BOOLEAN
    BY <2>2 DEF NewTick, Hardware
  <2>4. command \in Commands \cup {None} /\ UNCHANGED stopVars
    BY <1>13 DEF Snapshot, LockType
  <2> QED BY <2>1, <2>2, <2>3, <2>4 DEF NewTick, Trajectories, stopVars
<1>14. CASE TakeMailbox
  BY <1>14 DEF TakeMailbox, NewTick, stopVars, MailType
<1>15. ASSUME NEW same \in BOOLEAN, NEW fresh \in BOOLEAN, Consume(same, fresh)
       PROVE  TickType'
  <2>1. 0 \in 0..MaxGeneration
    BY CounterAssumption
  <2>2. command' \in Commands \cup {None} /\ UNCHANGED stopVars
    BY <1>15 DEF Consume, LockType
  <2>3. CASE tick' = NewTick
    BY <2>1, <2>2, <2>3 DEF NewTick, Trajectories, stopVars
  <2>4. CASE tick' = [NewTick EXCEPT !.at = "input", !.command = command', !.hw = Hardware]
    <3>1. tick'.hw \in BOOLEAN
      BY <2>4 DEF NewTick, Hardware
    <3> QED BY <2>1, <2>2, <2>4, <3>1 DEF NewTick, Trajectories, stopVars
  <2> QED BY <1>15, <2>3, <2>4 DEF Consume
<1>16. ASSUME NEW expired \in BOOLEAN, NEW hard_stale \in BOOLEAN, Input(expired, hard_stale)
       PROVE  TickType'
  <2>1. 0 \in 0..MaxGeneration
    BY CounterAssumption
  <2>2. trajectory' \in Trajectories /\ moving \in BOOLEAN /\ UNCHANGED stopVars
    BY <1>16 DEF Input, LockType, SendType
  <2>3. CASE tick' = NewTick
    BY <2>1, <2>2, <2>3 DEF NewTick, Trajectories, stopVars
  <2>4. CASE tick' = [tick EXCEPT !.at = "plan", !.state = trajectory', !.settled = ~moving]
    <3>1. tick'.settled \in BOOLEAN
      BY <2>2, <2>4 DEF NewTick
    <3> QED BY <2>2, <2>4, <3>1 DEF NewTick, stopVars
  <2> QED BY <1>16, <2>3, <2>4 DEF Input
<1>17. CASE FeedbackMissing
  BY <1>17, CounterAssumption DEF FeedbackMissing, NewTick, Trajectories, stopVars
<1>18. CASE LoopRaises
  BY <1>18, CounterAssumption DEF LoopRaises, Raise, NewTick, Trajectories, stopVars
<1>19. CASE PlanFrozen
  BY <1>19, CounterAssumption DEF PlanFrozen, NewTick, Trajectories, stopVars
<1>20. ASSUME NEW solved \in BOOLEAN, NEW gate_ok \in BOOLEAN, Plan(solved, gate_ok)
       PROVE  TickType'
  <2>1. tick' = [tick EXCEPT !.at = "publish",
                   !.gen = IF tick.command = None THEN generation ELSE tick.command.gen,
                   !.track = gate_ok /\ Tracks(tick.state, solved), !.gate_ok = gate_ok]
        /\ UNCHANGED stopVars
    BY <1>20 DEF Plan
  <2>2. tick'.gen \in 0..MaxGeneration
    BY <2>1 DEF NewTick, LockType, Commands
  <2>3. tick'.track \in BOOLEAN /\ tick'.gate_ok \in BOOLEAN
    BY <1>20, <2>1 DEF NewTick
  <2> QED BY <2>1, <2>2, <2>3 DEF NewTick, stopVars
<1>21. CASE Publish
  <2>1. tick' = [tick EXCEPT !.at = "published"] /\ UNCHANGED stopVars
    BY <1>21 DEF Publish
  <2> QED BY <2>1 DEF NewTick, stopVars
<1>22. CASE PublishRefused
  BY <1>22, CounterAssumption DEF PublishRefused, NewTick, Trajectories, stopVars
<1>23. CASE SetResult
  BY <1>23, CounterAssumption DEF SetResult, FinalTick, NewTick, Trajectories, stopVars
<1>24. ASSUME NEW rest \in BOOLEAN, ShadowPublish(rest)
       PROVE  TickType'
  BY <1>24, CounterAssumption DEF ShadowPublish, FinalTick, NewTick, Trajectories,
     stopVars
<1>25. ASSUME NEW arrived \in BOOLEAN, Final(arrived)
       PROVE  TickType'
  <2>1. 0 \in 0..MaxGeneration
    BY CounterAssumption
  <2>2. UNCHANGED stopVars
    BY <1>25 DEF Final
  <2>3. CASE tick' = NewTick
    BY <2>1, <2>2, <2>3 DEF NewTick, Trajectories, stopVars
  <2>4. CASE Raise
    BY <2>1, <2>2, <2>4 DEF Raise, NewTick, Trajectories, stopVars
  <2> QED BY <1>25, <2>3, <2>4 DEF Final
<1>26. CASE Fault
  <2>1. 0 \in 0..MaxGeneration
    BY CounterAssumption
  <2>2. UNCHANGED stopVars
    BY <1>26 DEF Fault
  <2>3. CASE tick' = NewTick
    BY <2>1, <2>2, <2>3 DEF NewTick, Trajectories, stopVars
  <2>4. CASE tick' = [tick EXCEPT !.at = "revoke"]
    BY <2>2, <2>4 DEF NewTick, stopVars
  <2> QED BY <1>26, <2>3, <2>4 DEF Fault
<1>27. CASE FaultRevokes
  BY <1>27 DEF FaultRevokes, NewTick, stopVars
<1>28. CASE FaultFreezes
  BY <1>28, CounterAssumption DEF FaultFreezes, NewTick, Trajectories, stopVars
<1>29. ASSUME NEW rest \in BOOLEAN, Send(rest)
       PROVE  TickType'
  BY <1>29 DEF Send, Dispatched, stopVars
<1>30. CASE SendFails
  BY <1>30 DEF SendFails, Dispatched, stopVars
<1>31. CASE SendRefused
  BY <1>31 DEF SendRefused, Dispatched, stopVars
<1>32. CASE UNCHANGED vars
  BY <1>32 DEF vars, lockVars, mailVars, sendVars, stopVars
<1> QED BY <1>1, <1>2, <1>3, <1>4, <1>5, <1>6, <1>7, <1>8, <1>9, <1>10, <1>11, <1>12,
       <1>13, <1>14, <1>15, <1>16, <1>17, <1>18, <1>19, <1>20, <1>21, <1>22, <1>23,
       <1>24, <1>25, <1>26, <1>27, <1>28, <1>29, <1>30, <1>31, <1>32
       DEF Next, Adapters, Loop, Transport

\* the transport, the authority and the reference.
LEMMA SendStep ==
  ASSUME TypeOK, LockType', [Next]_vars
  PROVE  SendType'
<1> USE DEF TypeOK, SendType
<1>1. ASSUME NEW mode \in ExecutionModes, Activate(mode)
      PROVE  SendType'
  <2>1. 0 \in 0..MaxGeneration
    BY CounterAssumption
  <2>2. granted' \in BOOLEAN /\ moving' \in BOOLEAN /\ failed' \in BOOLEAN
    BY <1>1 DEF Activate
  <2> QED BY <1>1, <2>1, <2>2 DEF Activate
<1>2. ASSUME NEW seq \in 1..MaxSeq, PublishTarget(seq)
      PROVE  SendType'
  BY <1>2 DEF PublishTarget, sendVars
<1>3. ASSUME NEW seq \in 1..MaxSeq, NEW same \in BOOLEAN, NEW fresh \in BOOLEAN,
             SubmitTarget(seq, same, fresh)
      PROVE  SendType'
  BY <1>3 DEF SubmitTarget, Apply
<1>4. CASE ShadowHold
  BY <1>4 DEF ShadowHold, sendVars
<1>5. CASE HardwareHold
  BY <1>5 DEF HardwareHold, LockType
<1>6. CASE AuthorityLost
  BY <1>6 DEF AuthorityLost
<1>7. CASE StopBrakes
  BY <1>7 DEF StopBrakes, sendVars
<1>8. CASE StopSignals
  BY <1>8 DEF StopSignals, sendVars
<1>9. CASE StopEnds
  BY <1>9 DEF StopEnds, sendVars
<1>10. CASE AbandonSignals
  BY <1>10 DEF AbandonSignals, sendVars
<1>11. CASE AbandonEnds
  BY <1>11 DEF AbandonEnds, sendVars
<1>12. CASE LoopExit
  BY <1>12 DEF LoopExit, sendVars
<1>13. CASE Snapshot
  BY <1>13 DEF Snapshot, sendVars
<1>14. CASE TakeMailbox
  BY <1>14 DEF TakeMailbox, sendVars
<1>15. ASSUME NEW same \in BOOLEAN, NEW fresh \in BOOLEAN, Consume(same, fresh)
       PROVE  SendType'
  <2>1. moving' \in BOOLEAN
    BY <1>15 DEF Consume, Apply
  <2> QED BY <1>15, <2>1 DEF Consume
<1>16. ASSUME NEW expired \in BOOLEAN, NEW hard_stale \in BOOLEAN, Input(expired, hard_stale)
       PROVE  SendType'
  BY <1>16 DEF Input, sendVars
<1>17. CASE FeedbackMissing
  BY <1>17 DEF FeedbackMissing, sendVars
<1>18. CASE LoopRaises
  BY <1>18 DEF LoopRaises, sendVars
<1>19. CASE PlanFrozen
  BY <1>19 DEF PlanFrozen, sendVars
<1>20. ASSUME NEW solved \in BOOLEAN, NEW gate_ok \in BOOLEAN, Plan(solved, gate_ok)
       PROVE  SendType'
  BY <1>20 DEF Plan, sendVars
<1>21. CASE Publish
  BY <1>21 DEF Publish, Batches, TickType
<1>22. CASE PublishRefused
  BY <1>22 DEF PublishRefused, sendVars
<1>23. CASE SetResult
  BY <1>23 DEF SetResult, sendVars
<1>24. ASSUME NEW rest \in BOOLEAN, ShadowPublish(rest)
       PROVE  SendType'
  BY <1>24 DEF ShadowPublish, Moves, TickType
<1>25. ASSUME NEW arrived \in BOOLEAN, Final(arrived)
       PROVE  SendType'
  BY <1>25 DEF Final, sendVars
<1>26. CASE Fault
  BY <1>26 DEF Fault, sendVars
<1>27. CASE FaultRevokes
  BY <1>27 DEF FaultRevokes
<1>28. CASE FaultFreezes
  BY <1>28 DEF FaultFreezes, sendVars
<1>29. ASSUME NEW rest \in BOOLEAN, Send(rest)
       PROVE  SendType'
  BY <1>29 DEF Send, Dispatched, Sendable, Moves, Batches
<1>30. CASE SendFails
  BY <1>30 DEF SendFails, Dispatched, Sendable
<1>31. CASE SendRefused
  BY <1>31 DEF SendRefused, Dispatched, Sendable
<1>32. CASE UNCHANGED vars
  BY <1>32 DEF vars, lockVars, mailVars, sendVars, stopVars
<1> QED BY <1>1, <1>2, <1>3, <1>4, <1>5, <1>6, <1>7, <1>8, <1>9, <1>10, <1>11, <1>12,
       <1>13, <1>14, <1>15, <1>16, <1>17, <1>18, <1>19, <1>20, <1>21, <1>22, <1>23,
       <1>24, <1>25, <1>26, <1>27, <1>28, <1>29, <1>30, <1>31, <1>32
       DEF Next, Adapters, Loop, Transport

LEMMA TypeStep ==
  ASSUME TypeOK, [Next]_vars
  PROVE  TypeOK'
<1>1. LockType' BY LockStep
<1>2. MailType' BY <1>1, MailStep
<1>3. TickType' BY <1>1, TickStep
<1>4. SendType' BY <1>1, SendStep
<1> QED BY <1>1, <1>2, <1>3, <1>4 DEF TypeOK

\* Every variable of the servo keeps its type, and whatever waits for a verdict
\* in the transport is a batch.
THEOREM TypeCorrect == Spec => []TypeOK
<1>1. Init => TypeOK
  BY InitType
<1>2. TypeOK /\ [Next]_vars => TypeOK'
  BY TypeStep
<1> QED BY <1>1, <1>2, PTL DEF Spec

-----------------------------------------------------------------------------
\* Generations.

\* HoldInv is inductive: a hardware hold raises the generation above whatever the
\* tick has read, and the barrier to it.
LEMMA HoldStep ==
  ASSUME TypeOK, TypeOK', HoldInv, [Next]_vars
  PROVE  HoldInv'
<1> USE DEF HoldInv, TypeOK, LockType, MailType, TickType, SendType, lockVars, mailVars,
            sendVars, stopVars, Commands, Batches
<1>1. ASSUME NEW mode \in ExecutionModes, Activate(mode)
      PROVE  HoldInv'
  BY <1>1 DEF Activate, NoSession, NewTick, PublishFastState, NextGeneration, Active
<1>2. ASSUME NEW seq \in 1..MaxSeq, PublishTarget(seq)
      PROVE  HoldInv'
  BY <1>2 DEF PublishTarget
<1>3. ASSUME NEW seq \in 1..MaxSeq, NEW same \in BOOLEAN, NEW fresh \in BOOLEAN,
             SubmitTarget(seq, same, fresh)
      PROVE  HoldInv'
  BY <1>3 DEF SubmitTarget, Apply, NextGeneration, PublishFastState
<1>4. CASE ShadowHold
  BY <1>4 DEF ShadowHold, Invalidate, Drop, NextGeneration
<1>5. CASE HardwareHold
  BY <1>5 DEF HardwareHold, NextGeneration
<1>6. CASE AuthorityLost
  BY <1>6 DEF AuthorityLost
<1>7. CASE StopBrakes
  BY <1>7 DEF StopBrakes, Invalidate, Drop, NextGeneration
<1>8. CASE StopSignals
  BY <1>8 DEF StopSignals, PublishFastState
<1>9. CASE StopEnds
  BY <1>9 DEF StopEnds, NoSession, PublishFastState
<1>10. CASE AbandonSignals
  BY <1>10 DEF AbandonSignals
<1>11. CASE AbandonEnds
  BY <1>11 DEF AbandonEnds, NoSession
<1>12. CASE LoopExit
  BY <1>12 DEF LoopExit, NewTick
<1>13. CASE Snapshot
  BY <1>13 DEF Snapshot, NewTick
<1>14. CASE TakeMailbox
  BY <1>14 DEF TakeMailbox
<1>15. ASSUME NEW same \in BOOLEAN, NEW fresh \in BOOLEAN, Consume(same, fresh)
       PROVE  HoldInv'
  <2>1. CASE Apply(tick.entry.seq, "track_tcp", same)
    <3>1. generation' >= generation
      BY <2>1, NextGenerationType DEF Apply
    <3>2. command' # None => command'.gen = generation'
      BY <2>1 DEF Apply
    <3> QED BY <1>15, <3>1, <3>2, ConsumeEffect
  <2>2. CASE UNCHANGED lockVars
    BY <1>15, <2>2, ConsumeEffect
  <2> QED BY <1>15, <2>1, <2>2 DEF Consume
<1>16. ASSUME NEW expired \in BOOLEAN, NEW hard_stale \in BOOLEAN, Input(expired, hard_stale)
       PROVE  HoldInv'
  BY <1>16, InputEffect DEF Commands, Batches, NewTick
<1>17. CASE FeedbackMissing
  BY <1>17 DEF FeedbackMissing, NewTick
<1>18. CASE LoopRaises
  BY <1>18 DEF LoopRaises, Raise, NewTick
<1>19. CASE PlanFrozen
  BY <1>19 DEF PlanFrozen, NewTick
<1>20. ASSUME NEW solved \in BOOLEAN, NEW gate_ok \in BOOLEAN, Plan(solved, gate_ok)
       PROVE  HoldInv'
  BY <1>20 DEF Plan, PublishFastState
<1>21. CASE Publish
  BY <1>21 DEF Publish
<1>22. CASE PublishRefused
  BY <1>22 DEF PublishRefused, NewTick
<1>23. CASE SetResult
  BY <1>23 DEF SetResult, FinalTick, NewTick
<1>24. ASSUME NEW rest \in BOOLEAN, ShadowPublish(rest)
       PROVE  HoldInv'
  BY <1>24 DEF ShadowPublish, FinalTick, NewTick, Moves
<1>25. ASSUME NEW arrived \in BOOLEAN, Final(arrived)
       PROVE  HoldInv'
  BY <1>25, FinalEffect DEF Commands, Batches
<1>26. CASE Fault
  BY <1>26 DEF Fault, PublishFastState, NewTick
<1>27. CASE FaultRevokes
  BY <1>27 DEF FaultRevokes
<1>28. CASE FaultFreezes
  BY <1>28 DEF FaultFreezes, NextGeneration, NewTick
<1>29. ASSUME NEW rest \in BOOLEAN, Send(rest)
       PROVE  HoldInv'
  BY <1>29 DEF Send, Sendable, Moves, Dispatched
<1>30. CASE SendFails
  BY <1>30 DEF SendFails, Sendable, Dispatched
<1>31. CASE SendRefused
  BY <1>31 DEF SendRefused, Sendable, Dispatched
<1>32. CASE UNCHANGED vars
  BY <1>32 DEF vars, lockVars, mailVars, sendVars, stopVars
<1> QED BY <1>1, <1>2, <1>3, <1>4, <1>5, <1>6, <1>7, <1>8, <1>9, <1>10, <1>11, <1>12,
       <1>13, <1>14, <1>15, <1>16, <1>17, <1>18, <1>19, <1>20, <1>21, <1>22, <1>23,
       <1>24, <1>25, <1>26, <1>27, <1>28, <1>29, <1>30, <1>31, <1>32
       DEF Next, Adapters, Loop, Transport

LEMMA HoldInvariant == Spec => [](TypeOK /\ HoldInv)
<1>1. Init => TypeOK /\ HoldInv
  BY InitType DEF Init, HoldInv, NewTick
<1>2. TypeOK /\ HoldInv /\ [Next]_vars => (TypeOK /\ HoldInv)'
  BY TypeStep, HoldStep
<1> QED BY <1>1, <1>2, PTL DEF Spec

\* request_hardware_hold revokes strictly: whatever follows a target taken up
\* before the hold, wherever the loop was in its tick, is older than the
\* barrier, and _dispatch_cpv does not send it.
THEOREM HoldRevokes == Spec => []StrictHold
<1>1. TypeOK /\ HoldInv => StrictHold
  BY DEF TypeOK, HoldInv, StrictHold, Sendable, SendType, Batches
<1> QED BY <1>1, HoldInvariant, PTL

-----------------------------------------------------------------------------
\* Authority.

\* OwnerInv is inductive: no session begins while a tick is in progress, and
\* authority is not regained within one.
LEMMA OwnerStep ==
  ASSUME TypeOK, TypeOK', OwnerInv, [Next]_vars
  PROVE  OwnerInv'
<1> USE DEF OwnerInv, Active, Hardware, TypeOK, LockType, MailType, TickType, SendType,
            lockVars, mailVars, sendVars, stopVars
<1>1. ASSUME NEW mode \in ExecutionModes, Activate(mode)
      PROVE  OwnerInv'
  BY <1>1, ModeAssumption DEF Activate, NoSession, NewTick, PublishFastState,
     NextGeneration, Active
<1>2. ASSUME NEW seq \in 1..MaxSeq, PublishTarget(seq)
      PROVE  OwnerInv'
  BY <1>2 DEF PublishTarget
<1>3. ASSUME NEW seq \in 1..MaxSeq, NEW same \in BOOLEAN, NEW fresh \in BOOLEAN,
             SubmitTarget(seq, same, fresh)
      PROVE  OwnerInv'
  BY <1>3 DEF SubmitTarget, Apply, NextGeneration, PublishFastState
<1>4. CASE ShadowHold
  BY <1>4 DEF ShadowHold, Invalidate, Drop, NextGeneration
<1>5. CASE HardwareHold
  BY <1>5 DEF HardwareHold, NextGeneration
<1>6. CASE AuthorityLost
  BY <1>6 DEF AuthorityLost
<1>7. CASE StopBrakes
  BY <1>7 DEF StopBrakes, Invalidate, Drop, NextGeneration
<1>8. CASE StopSignals
  BY <1>8 DEF StopSignals, PublishFastState
<1>9. CASE StopEnds
  BY <1>9 DEF StopEnds, NoSession, PublishFastState
<1>10. CASE AbandonSignals
  BY <1>10 DEF AbandonSignals
<1>11. CASE AbandonEnds
  BY <1>11 DEF AbandonEnds, NoSession
<1>12. CASE LoopExit
  BY <1>12 DEF LoopExit, NewTick
<1>13. CASE Snapshot
  BY <1>13 DEF Snapshot, NewTick
<1>14. CASE TakeMailbox
  BY <1>14 DEF TakeMailbox
<1>15. ASSUME NEW same \in BOOLEAN, NEW fresh \in BOOLEAN, Consume(same, fresh)
       PROVE  OwnerInv'
  BY <1>15, ConsumeEffect
<1>16. ASSUME NEW expired \in BOOLEAN, NEW hard_stale \in BOOLEAN, Input(expired, hard_stale)
       PROVE  OwnerInv'
  BY <1>16, InputEffect DEF NewTick
<1>17. CASE FeedbackMissing
  BY <1>17 DEF FeedbackMissing, NewTick
<1>18. CASE LoopRaises
  BY <1>18 DEF LoopRaises, Raise, NewTick
<1>19. CASE PlanFrozen
  BY <1>19 DEF PlanFrozen, NewTick
<1>20. ASSUME NEW solved \in BOOLEAN, NEW gate_ok \in BOOLEAN, Plan(solved, gate_ok)
       PROVE  OwnerInv'
  BY <1>20 DEF Plan, PublishFastState
<1>21. CASE Publish
  BY <1>21 DEF Publish
<1>22. CASE PublishRefused
  BY <1>22 DEF PublishRefused, NewTick
<1>23. CASE SetResult
  BY <1>23 DEF SetResult, FinalTick, NewTick
<1>24. ASSUME NEW rest \in BOOLEAN, ShadowPublish(rest)
       PROVE  OwnerInv'
  BY <1>24 DEF ShadowPublish, FinalTick, NewTick, Moves
<1>25. ASSUME NEW arrived \in BOOLEAN, Final(arrived)
       PROVE  OwnerInv'
  BY <1>25, FinalEffect DEF NewTick
<1>26. CASE Fault
  BY <1>26 DEF Fault, PublishFastState, NewTick
<1>27. CASE FaultRevokes
  BY <1>27 DEF FaultRevokes
<1>28. CASE FaultFreezes
  BY <1>28 DEF FaultFreezes, NextGeneration, NewTick
<1>29. ASSUME NEW rest \in BOOLEAN, Send(rest)
       PROVE  OwnerInv'
  BY <1>29 DEF Send, Sendable, Moves, Dispatched
<1>30. CASE SendFails
  BY <1>30 DEF SendFails, Sendable, Dispatched
<1>31. CASE SendRefused
  BY <1>31 DEF SendRefused, Sendable, Dispatched
<1>32. CASE UNCHANGED vars
  BY <1>32 DEF vars, lockVars, mailVars, sendVars, stopVars
<1> QED BY <1>1, <1>2, <1>3, <1>4, <1>5, <1>6, <1>7, <1>8, <1>9, <1>10, <1>11, <1>12,
       <1>13, <1>14, <1>15, <1>16, <1>17, <1>18, <1>19, <1>20, <1>21, <1>22, <1>23,
       <1>24, <1>25, <1>26, <1>27, <1>28, <1>29, <1>30, <1>31, <1>32
       DEF Next, Adapters, Loop, Transport

-----------------------------------------------------------------------------
\* Rest.

\* QuietInv is inductive: only a hold forgets the publication within a tick, and
\* the hold has revoked it.
LEMMA QuietStep ==
  ASSUME TypeOK, OwnerInv, QuietInv, [Next]_vars
  PROVE  QuietInv'
<1> USE DEF QuietInv, OwnerInv, Active, Hardware, TypeOK, LockType, MailType, TickType,
            SendType, lockVars, mailVars, sendVars, stopVars
<1>1. ASSUME NEW mode \in ExecutionModes, Activate(mode)
      PROVE  QuietInv'
  BY <1>1 DEF Activate, NoSession, NewTick, PublishFastState, NextGeneration, Active
<1>2. ASSUME NEW seq \in 1..MaxSeq, PublishTarget(seq)
      PROVE  QuietInv'
  BY <1>2 DEF PublishTarget
<1>3. ASSUME NEW seq \in 1..MaxSeq, NEW same \in BOOLEAN, NEW fresh \in BOOLEAN,
             SubmitTarget(seq, same, fresh)
      PROVE  QuietInv'
  BY <1>3 DEF SubmitTarget, Apply, NextGeneration, PublishFastState
<1>4. CASE ShadowHold
  BY <1>4 DEF ShadowHold, Invalidate, Drop, NextGeneration
<1>5. CASE HardwareHold
  BY <1>5 DEF HardwareHold, NextGeneration
<1>6. CASE AuthorityLost
  BY <1>6 DEF AuthorityLost
<1>7. CASE StopBrakes
  BY <1>7 DEF StopBrakes, Invalidate, Drop, NextGeneration
<1>8. CASE StopSignals
  BY <1>8 DEF StopSignals, PublishFastState
<1>9. CASE StopEnds
  BY <1>9 DEF StopEnds, NoSession, PublishFastState
<1>10. CASE AbandonSignals
  BY <1>10 DEF AbandonSignals
<1>11. CASE AbandonEnds
  BY <1>11 DEF AbandonEnds, NoSession
<1>12. CASE LoopExit
  BY <1>12 DEF LoopExit, NewTick
<1>13. CASE Snapshot
  BY <1>13 DEF Snapshot, NewTick
<1>14. CASE TakeMailbox
  BY <1>14 DEF TakeMailbox
<1>15. ASSUME NEW same \in BOOLEAN, NEW fresh \in BOOLEAN, Consume(same, fresh)
       PROVE  QuietInv'
  BY <1>15, ConsumeEffect
<1>16. ASSUME NEW expired \in BOOLEAN, NEW hard_stale \in BOOLEAN, Input(expired, hard_stale)
       PROVE  QuietInv'
  BY <1>16, InputEffect DEF NewTick
<1>17. CASE FeedbackMissing
  BY <1>17 DEF FeedbackMissing, NewTick
<1>18. CASE LoopRaises
  BY <1>18 DEF LoopRaises, Raise, NewTick
<1>19. CASE PlanFrozen
  BY <1>19 DEF PlanFrozen, NewTick
<1>20. ASSUME NEW solved \in BOOLEAN, NEW gate_ok \in BOOLEAN, Plan(solved, gate_ok)
       PROVE  QuietInv'
  BY <1>20 DEF Plan, PublishFastState
<1>21. CASE Publish
  BY <1>21 DEF Publish
<1>22. CASE PublishRefused
  BY <1>22 DEF PublishRefused, NewTick
<1>23. CASE SetResult
  BY <1>23 DEF SetResult, FinalTick, NewTick
<1>24. ASSUME NEW rest \in BOOLEAN, ShadowPublish(rest)
       PROVE  QuietInv'
  BY <1>24 DEF ShadowPublish, FinalTick, NewTick, Moves
<1>25. ASSUME NEW arrived \in BOOLEAN, Final(arrived)
       PROVE  QuietInv'
  BY <1>25, FinalEffect DEF NewTick
<1>26. CASE Fault
  BY <1>26 DEF Fault, PublishFastState, NewTick
<1>27. CASE FaultRevokes
  BY <1>27 DEF FaultRevokes
<1>28. CASE FaultFreezes
  BY <1>28 DEF FaultFreezes, NextGeneration, NewTick
<1>29. ASSUME NEW rest \in BOOLEAN, Send(rest)
       PROVE  QuietInv'
  BY <1>29 DEF Send, Sendable, Moves, Dispatched
<1>30. CASE SendFails
  BY <1>30 DEF SendFails, Sendable, Dispatched
<1>31. CASE SendRefused
  BY <1>31 DEF SendRefused, Sendable, Dispatched
<1>32. CASE UNCHANGED vars
  BY <1>32 DEF vars, lockVars, mailVars, sendVars, stopVars
<1> QED BY <1>1, <1>2, <1>3, <1>4, <1>5, <1>6, <1>7, <1>8, <1>9, <1>10, <1>11, <1>12,
       <1>13, <1>14, <1>15, <1>16, <1>17, <1>18, <1>19, <1>20, <1>21, <1>22, <1>23,
       <1>24, <1>25, <1>26, <1>27, <1>28, <1>29, <1>30, <1>31, <1>32
       DEF Next, Adapters, Loop, Transport

\* The steps to HOLD_READY, and the publications, keep it quiet.
LEMMA SilenceStep ==
  ASSUME TypeOK, OwnerInv, QuietInv, HoldIsQuiet, [Next]_vars
  PROVE  HoldIsQuiet'
<1> USE DEF HoldIsQuiet, Sendable, QuietInv, OwnerInv, Active, Hardware, Waits, TypeOK,
            LockType, MailType, TickType, SendType, lockVars, mailVars, sendVars,
            stopVars
<1>1. ASSUME NEW mode \in ExecutionModes, Activate(mode)
      PROVE  HoldIsQuiet'
  BY <1>1 DEF Activate, NoSession, NewTick, PublishFastState, NextGeneration, Active
<1>2. ASSUME NEW seq \in 1..MaxSeq, PublishTarget(seq)
      PROVE  HoldIsQuiet'
  BY <1>2 DEF PublishTarget
<1>3. ASSUME NEW seq \in 1..MaxSeq, NEW same \in BOOLEAN, NEW fresh \in BOOLEAN,
             SubmitTarget(seq, same, fresh)
      PROVE  HoldIsQuiet'
  BY <1>3 DEF SubmitTarget, Apply, NextGeneration, PublishFastState
<1>4. CASE ShadowHold
  BY <1>4 DEF ShadowHold, Invalidate, Drop, NextGeneration
<1>5. CASE HardwareHold
  BY <1>5 DEF HardwareHold, NextGeneration
<1>6. CASE AuthorityLost
  BY <1>6 DEF AuthorityLost
<1>7. CASE StopBrakes
  BY <1>7 DEF StopBrakes, Invalidate, Drop, NextGeneration
<1>8. CASE StopSignals
  BY <1>8 DEF StopSignals, PublishFastState
<1>9. CASE StopEnds
  BY <1>9 DEF StopEnds, NoSession, PublishFastState
<1>10. CASE AbandonSignals
  BY <1>10 DEF AbandonSignals
<1>11. CASE AbandonEnds
  BY <1>11 DEF AbandonEnds, NoSession
<1>12. CASE LoopExit
  BY <1>12 DEF LoopExit, NewTick
<1>13. CASE Snapshot
  BY <1>13 DEF Snapshot, NewTick
<1>14. CASE TakeMailbox
  BY <1>14 DEF TakeMailbox
<1>15. ASSUME NEW same \in BOOLEAN, NEW fresh \in BOOLEAN, Consume(same, fresh)
       PROVE  HoldIsQuiet'
  BY <1>15 DEF Consume, Apply, NextGeneration, NewTick, Applicable
<1>16. ASSUME NEW expired \in BOOLEAN, NEW hard_stale \in BOOLEAN, Input(expired, hard_stale)
       PROVE  HoldIsQuiet'
  BY <1>16 DEF Input, Drop, NextGeneration, PublishFastState, NewTick
<1>17. CASE FeedbackMissing
  BY <1>17 DEF FeedbackMissing, NewTick
<1>18. CASE LoopRaises
  BY <1>18 DEF LoopRaises, Raise, NewTick
<1>19. CASE PlanFrozen
  BY <1>19 DEF PlanFrozen, NewTick
<1>20. ASSUME NEW solved \in BOOLEAN, NEW gate_ok \in BOOLEAN, Plan(solved, gate_ok)
       PROVE  HoldIsQuiet'
  BY <1>20 DEF Plan, PublishFastState
<1>21. CASE Publish
  BY <1>21 DEF Publish
<1>22. CASE PublishRefused
  BY <1>22 DEF PublishRefused, NewTick
<1>23. CASE SetResult
  BY <1>23 DEF SetResult, FinalTick, NewTick
<1>24. ASSUME NEW rest \in BOOLEAN, ShadowPublish(rest)
       PROVE  HoldIsQuiet'
  BY <1>24 DEF ShadowPublish, FinalTick, NewTick, Moves
<1>25. ASSUME NEW arrived \in BOOLEAN, Final(arrived)
       PROVE  HoldIsQuiet'
  BY <1>25 DEF Final, Drop, NextGeneration, Raise, NewTick
<1>26. CASE Fault
  BY <1>26 DEF Fault, PublishFastState, NewTick
<1>27. CASE FaultRevokes
  BY <1>27 DEF FaultRevokes
<1>28. CASE FaultFreezes
  BY <1>28 DEF FaultFreezes, NextGeneration, NewTick
<1>29. ASSUME NEW rest \in BOOLEAN, Send(rest)
       PROVE  HoldIsQuiet'
  BY <1>29 DEF Send, Sendable, Moves, Dispatched
<1>30. CASE SendFails
  BY <1>30 DEF SendFails, Sendable, Dispatched
<1>31. CASE SendRefused
  BY <1>31 DEF SendRefused, Sendable, Dispatched
<1>32. CASE UNCHANGED vars
  BY <1>32 DEF vars, lockVars, mailVars, sendVars, stopVars
<1> QED BY <1>1, <1>2, <1>3, <1>4, <1>5, <1>6, <1>7, <1>8, <1>9, <1>10, <1>11, <1>12,
       <1>13, <1>14, <1>15, <1>16, <1>17, <1>18, <1>19, <1>20, <1>21, <1>22, <1>23,
       <1>24, <1>25, <1>26, <1>27, <1>28, <1>29, <1>30, <1>31, <1>32
       DEF Next, Adapters, Loop, Transport

LEMMA QuietInvariant == Spec => [](TypeOK /\ OwnerInv /\ QuietInv /\ HoldIsQuiet)
<1> DEFINE IInv == TypeOK /\ OwnerInv /\ QuietInv /\ HoldIsQuiet
<1>1. Init => IInv
  BY InitType DEF Init, OwnerInv, QuietInv, HoldIsQuiet, Sendable, Active, NoSession, NewTick
<1>2. IInv /\ [Next]_vars => IInv'
  BY TypeStep, OwnerStep, QuietStep, SilenceStep
<1> QED BY <1>1, <1>2, PTL DEF Spec

\* HOLD_READY is quiet: once stop_session's wait for it ends, nothing that
\* follows a target is left for the servo to write, because the tick that ends
\* the brake has waited for the newest publication's result.
THEOREM QuietAtRest == Spec => []HoldIsQuiet
  BY QuietInvariant, PTL

-----------------------------------------------------------------------------
\* FAULT.

\* Each action that leaves FAULT does it in one of the two ways.
LEMMA LatchHolds ==
  ASSUME TypeOK, TypeOK', OwnerInv, HoldInv, [Next]_vars
  PROVE  LatchStep
<1> USE DEF LatchStep, OwnerInv, HoldInv, Active, Hardware, InMotion, TypeOK, LockType,
            MailType, TickType, SendType, lockVars, mailVars, sendVars, stopVars
<1>1. ASSUME NEW mode \in ExecutionModes, Activate(mode)
      PROVE  LatchStep
  BY <1>1 DEF Activate, NoSession, NewTick, PublishFastState, NextGeneration, Active
<1>2. ASSUME NEW seq \in 1..MaxSeq, PublishTarget(seq)
      PROVE  LatchStep
  BY <1>2 DEF PublishTarget
<1>3. ASSUME NEW seq \in 1..MaxSeq, NEW same \in BOOLEAN, NEW fresh \in BOOLEAN,
             SubmitTarget(seq, same, fresh)
      PROVE  LatchStep
  BY <1>3 DEF SubmitTarget, Apply, NextGeneration, PublishFastState
<1>4. CASE ShadowHold
  BY <1>4 DEF ShadowHold, Invalidate, Drop, NextGeneration
<1>5. CASE HardwareHold
  BY <1>5 DEF HardwareHold, NextGeneration
<1>6. CASE AuthorityLost
  BY <1>6 DEF AuthorityLost
<1>7. CASE StopBrakes
  BY <1>7 DEF StopBrakes, Invalidate, Drop, NextGeneration
<1>8. CASE StopSignals
  BY <1>8 DEF StopSignals, PublishFastState
<1>9. CASE StopEnds
  BY <1>9 DEF StopEnds, NoSession, PublishFastState
<1>10. CASE AbandonSignals
  BY <1>10 DEF AbandonSignals
<1>11. CASE AbandonEnds
  BY <1>11 DEF AbandonEnds, NoSession
<1>12. CASE LoopExit
  BY <1>12 DEF LoopExit, NewTick
<1>13. CASE Snapshot
  BY <1>13 DEF Snapshot, NewTick
<1>14. CASE TakeMailbox
  BY <1>14 DEF TakeMailbox
<1>15. ASSUME NEW same \in BOOLEAN, NEW fresh \in BOOLEAN, Consume(same, fresh)
       PROVE  LatchStep
  BY <1>15 DEF Consume, Apply, NextGeneration, NewTick, Applicable
<1>16. ASSUME NEW expired \in BOOLEAN, NEW hard_stale \in BOOLEAN, Input(expired, hard_stale)
       PROVE  LatchStep
  BY <1>16 DEF Input, Drop, NextGeneration, PublishFastState, NewTick
<1>17. CASE FeedbackMissing
  BY <1>17 DEF FeedbackMissing, NewTick
<1>18. CASE LoopRaises
  BY <1>18 DEF LoopRaises, Raise, NewTick
<1>19. CASE PlanFrozen
  BY <1>19 DEF PlanFrozen, NewTick
<1>20. ASSUME NEW solved \in BOOLEAN, NEW gate_ok \in BOOLEAN, Plan(solved, gate_ok)
       PROVE  LatchStep
  BY <1>20 DEF Plan, PublishFastState
<1>21. CASE Publish
  BY <1>21 DEF Publish
<1>22. CASE PublishRefused
  BY <1>22 DEF PublishRefused, NewTick
<1>23. CASE SetResult
  BY <1>23 DEF SetResult, FinalTick, NewTick
<1>24. ASSUME NEW rest \in BOOLEAN, ShadowPublish(rest)
       PROVE  LatchStep
  BY <1>24 DEF ShadowPublish, FinalTick, NewTick, Moves
<1>25. ASSUME NEW arrived \in BOOLEAN, Final(arrived)
       PROVE  LatchStep
  BY <1>25 DEF Final, Drop, NextGeneration, Raise, NewTick
<1>26. CASE Fault
  BY <1>26 DEF Fault, PublishFastState, NewTick
<1>27. CASE FaultRevokes
  BY <1>27 DEF FaultRevokes
<1>28. CASE FaultFreezes
  BY <1>28 DEF FaultFreezes, NextGeneration, NewTick
<1>29. ASSUME NEW rest \in BOOLEAN, Send(rest)
       PROVE  LatchStep
  BY <1>29 DEF Send, Sendable, Moves, Dispatched
<1>30. CASE SendFails
  BY <1>30 DEF SendFails, Sendable, Dispatched
<1>31. CASE SendRefused
  BY <1>31 DEF SendRefused, Sendable, Dispatched
<1>32. CASE UNCHANGED vars
  BY <1>32 DEF vars, lockVars, mailVars, sendVars, stopVars
<1> QED BY <1>1, <1>2, <1>3, <1>4, <1>5, <1>6, <1>7, <1>8, <1>9, <1>10, <1>11, <1>12,
       <1>13, <1>14, <1>15, <1>16, <1>17, <1>18, <1>19, <1>20, <1>21, <1>22, <1>23,
       <1>24, <1>25, <1>26, <1>27, <1>28, <1>29, <1>30, <1>31, <1>32
       DEF Next, Adapters, Loop, Transport

\* FAULT is latched: within a session it is left only by losing the write
\* authority, or by request_hardware_hold.
THEOREM FaultStays == Spec => FaultLatched
<1>1. TypeOK /\ TypeOK' /\ OwnerInv /\ HoldInv /\ [Next]_vars => [LatchStep]_vars
  BY LatchHolds
<1>2. [][LatchStep]_vars <=> FaultLatched
  BY PTL DEF FaultLatched, LatchStep
<1> QED BY <1>1, <1>2, HoldInvariant, QuietInvariant, PTL DEF Spec

-----------------------------------------------------------------------------
\* The two doors.

\* DoorsAgree is inductive as it stands.
LEMMA DoorsStep ==
  ASSUME TypeOK, TypeOK', DoorsAgree, [Next]_vars
  PROVE  DoorsAgree'
<1> USE DEF DoorsAgree, Active, Entries, TypeOK, LockType, MailType, TickType, SendType,
            lockVars, mailVars, sendVars, stopVars
<1>1. ASSUME NEW mode \in ExecutionModes, Activate(mode)
      PROVE  DoorsAgree'
  BY <1>1 DEF Activate, NoSession, NewTick, PublishFastState, NextGeneration, Active
<1>2. ASSUME NEW seq \in 1..MaxSeq, PublishTarget(seq)
      PROVE  DoorsAgree'
  BY <1>2 DEF PublishTarget
<1>3. ASSUME NEW seq \in 1..MaxSeq, NEW same \in BOOLEAN, NEW fresh \in BOOLEAN,
             SubmitTarget(seq, same, fresh)
      PROVE  DoorsAgree'
  BY <1>3 DEF SubmitTarget, Apply, NextGeneration, PublishFastState
<1>4. CASE ShadowHold
  BY <1>4 DEF ShadowHold, Invalidate, Drop, NextGeneration
<1>5. CASE HardwareHold
  BY <1>5 DEF HardwareHold, NextGeneration
<1>6. CASE AuthorityLost
  BY <1>6 DEF AuthorityLost
<1>7. CASE StopBrakes
  BY <1>7 DEF StopBrakes, Invalidate, Drop, NextGeneration
<1>8. CASE StopSignals
  BY <1>8 DEF StopSignals, PublishFastState
<1>9. CASE StopEnds
  BY <1>9 DEF StopEnds, NoSession, PublishFastState
<1>10. CASE AbandonSignals
  BY <1>10 DEF AbandonSignals
<1>11. CASE AbandonEnds
  BY <1>11 DEF AbandonEnds, NoSession
<1>12. CASE LoopExit
  BY <1>12 DEF LoopExit, NewTick
<1>13. CASE Snapshot
  BY <1>13 DEF Snapshot, NewTick
<1>14. CASE TakeMailbox
  BY <1>14 DEF TakeMailbox
<1>15. ASSUME NEW same \in BOOLEAN, NEW fresh \in BOOLEAN, Consume(same, fresh)
       PROVE  DoorsAgree'
  <2>1. CASE Apply(tick.entry.seq, "track_tcp", same)
             /\ fast' = [fast EXCEPT !.trajectory = trajectory', !.seq = tick.entry.seq]
    <3>1. tick.entry.seq \in 0..MaxSeq
      BY <1>15 DEF Consume, Entries
    <3>2. session'.id = session.id /\ session'.state = session.state
          /\ session'.seq = tick.entry.seq
      BY <2>1 DEF Apply
    <3>3. fast'.id = fast.id /\ fast'.state = fast.state /\ fast'.seq = tick.entry.seq
      BY <2>1
    <3>4. Applicable(tick.entry, fresh) => trajectory' # "FAULT"
      BY <2>1 DEF Apply, Applicable
    <3>5. trajectory' = "FAULT" => trajectory = "FAULT"
      BY <2>1 DEF Apply
    <3> QED BY <1>15, <2>1, <3>1, <3>2, <3>3, <3>4, <3>5 DEF Apply
  <2>2. CASE UNCHANGED <<lockVars, fast>>
    BY <2>2
  <2> QED BY <1>15, <2>1, <2>2 DEF Consume
<1>16. ASSUME NEW expired \in BOOLEAN, NEW hard_stale \in BOOLEAN, Input(expired, hard_stale)
       PROVE  DoorsAgree'
  BY <1>16 DEF Input, Drop, NextGeneration, PublishFastState, NewTick
<1>17. CASE FeedbackMissing
  BY <1>17 DEF FeedbackMissing, NewTick
<1>18. CASE LoopRaises
  BY <1>18 DEF LoopRaises, Raise, NewTick
<1>19. CASE PlanFrozen
  BY <1>19 DEF PlanFrozen, NewTick
<1>20. ASSUME NEW solved \in BOOLEAN, NEW gate_ok \in BOOLEAN, Plan(solved, gate_ok)
       PROVE  DoorsAgree'
  BY <1>20 DEF Plan, PublishFastState
<1>21. CASE Publish
  BY <1>21 DEF Publish
<1>22. CASE PublishRefused
  BY <1>22 DEF PublishRefused, NewTick
<1>23. CASE SetResult
  BY <1>23 DEF SetResult, FinalTick, NewTick
<1>24. ASSUME NEW rest \in BOOLEAN, ShadowPublish(rest)
       PROVE  DoorsAgree'
  BY <1>24 DEF ShadowPublish, FinalTick, NewTick, Moves
<1>25. ASSUME NEW arrived \in BOOLEAN, Final(arrived)
       PROVE  DoorsAgree'
  BY <1>25 DEF Final, Drop, NextGeneration, Raise, NewTick
<1>26. CASE Fault
  BY <1>26 DEF Fault, PublishFastState, NewTick
<1>27. CASE FaultRevokes
  BY <1>27 DEF FaultRevokes
<1>28. CASE FaultFreezes
  BY <1>28 DEF FaultFreezes, NextGeneration, NewTick
<1>29. ASSUME NEW rest \in BOOLEAN, Send(rest)
       PROVE  DoorsAgree'
  BY <1>29 DEF Send, Sendable, Moves, Dispatched
<1>30. CASE SendFails
  BY <1>30 DEF SendFails, Sendable, Dispatched
<1>31. CASE SendRefused
  BY <1>31 DEF SendRefused, Sendable, Dispatched
<1>32. CASE UNCHANGED vars
  BY <1>32 DEF vars, lockVars, mailVars, sendVars, stopVars
<1> QED BY <1>1, <1>2, <1>3, <1>4, <1>5, <1>6, <1>7, <1>8, <1>9, <1>10, <1>11, <1>12,
       <1>13, <1>14, <1>15, <1>16, <1>17, <1>18, <1>19, <1>20, <1>21, <1>22, <1>23,
       <1>24, <1>25, <1>26, <1>27, <1>28, <1>29, <1>30, <1>31, <1>32
       DEF Next, Adapters, Loop, Transport

\* publish_target_nonblocking and submit_absolute_target agree: the snapshot the
\* one reads is never behind the session the other reads, and shows FAULT.
THEOREM DoorsMatch == Spec => []DoorsAgree
<1>1. Init => TypeOK /\ DoorsAgree
  BY InitType DEF Init, DoorsAgree, Active, NoSession
<1>2. TypeOK /\ DoorsAgree /\ [Next]_vars => (TypeOK /\ DoorsAgree)'
  BY TypeStep, DoorsStep
<1> QED BY <1>1, <1>2, PTL DEF Spec

==============================================================================
