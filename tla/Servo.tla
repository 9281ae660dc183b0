-------------------------------- MODULE Servo --------------------------------
(***************************************************************************)
(* motion/osc.py, class _OperationalSpaceServo with the CPV output: how    *)
(* targets enter a session through two doors (submit_absolute_target under *)
(* self.lock, publish_target_nonblocking through a one-slot mailbox and an *)
(* admission snapshot), how the 50 Hz loop consumes, plans and publishes   *)
(* them, and how holds, stops and faults bring the trajectory to rest.     *)
(*                                                                         *)
(* One step is one critical section of self.lock or of the mailbox lock,   *)
(* or a stretch of the tick between two of them.  The transport is reduced *)
(* to the newest publication and its verdict (see TxOwner), the write      *)
(* authority to `granted` (see Authority, which also has the case of an    *)
(* old loop that outlives its session).                                    *)
(***************************************************************************)
EXTENDS Integers

CONSTANTS
  ExecutionModes,           \* "hardware" and "shadow"
  MaxSession, MaxSeq,       \* bounds on sessions and target sequences
  MaxGeneration,            \* bound on the target generation
  None

ASSUME CounterAssumption ==
  MaxSession \in Nat \ {0} /\ MaxSeq \in Nat \ {0} /\ MaxGeneration \in Nat \ {0}
ASSUME ModeAssumption == ExecutionModes \subseteq {"hardware", "shadow"}

VARIABLES
  session,      \* self.session: identity, state, execution mode, sequence
  trajectory,   \* trajectory_state
  generation,   \* target_generation
  command,      \* self.command: its generation and osc_mode
  target,       \* _target_pose is set
  hasBatch,     \* last_result names the newest publication (cpv_mailbox)
  mailbox,      \* _target_mailbox
  fast,         \* _fast_input_state
  stopEvent,    \* stop_event
  stopper,      \* the thread inside stop_session or abandon_session...
  tick,         \* the loop: its place in the tick and what the tick has read
  batch,        \* the newest publication while the transport holds it
  verdict,      \* its result
  failed,       \* the transport's last dispatch failed (last_result)
  barrier,      \* generation barrier of the transport
  granted,      \* servo_can_write
  moving        \* the sender's reference (shadow: the plant's) is not at rest

lockVars == <<session, trajectory, generation, command, target, hasBatch>>
mailVars == <<mailbox, fast>>
sendVars == <<batch, verdict, failed, barrier, granted, moving>>
stopVars == <<stopEvent, stopper>>
vars == <<lockVars, mailVars, sendVars, stopVars, tick>>

NoSession == [id |-> 0, state |-> "none", mode |-> "none", seq |-> 0]
NewTick == [at |-> "idle", entry |-> None, command |-> None, state |-> "HOLD_READY",
            gen |-> 0, track |-> FALSE, gate_ok |-> TRUE, settled |-> FALSE, held |-> FALSE, hw |-> FALSE]

Init ==
  /\ session = NoSession /\ trajectory = "HOLD_READY" /\ generation = 0
  /\ command = None /\ target = FALSE /\ hasBatch = FALSE
  /\ mailbox = None
  /\ fast = [id |-> 0, state |-> "none", trajectory |-> "HOLD_READY", seq |-> 0]
  /\ stopEvent = FALSE /\ stopper = "idle"
  /\ tick = [NewTick EXCEPT !.at = "none"]
  /\ batch = None /\ verdict = "none" /\ failed = FALSE
  /\ barrier = 0 /\ granted = FALSE /\ moving = FALSE

Active == session.state = "ACTIVE"
Hardware == session.mode = "hardware"

\* _publish_fast_input_state_locked, from the new session and trajectory.
PublishFastState ==
  fast' = [id |-> session'.id, state |-> session'.state,
           trajectory |-> trajectory', seq |-> session'.seq]

\* Only the barrier of a hardware hold is compared with generations, so at the
\* bound the ones that follow the last such hold need not differ.
NextGeneration == generation' = IF generation < MaxGeneration THEN generation + 1 ELSE generation

\* What a brake throws away: the command and the waiting target.
Drop == command' = None /\ target' = FALSE /\ NextGeneration /\ mailbox' = None

\* Mutant: a latched FAULT is treated as any other state.
InvalidateAlways ==
  /\ Drop
  /\ fast' = [fast EXCEPT !.trajectory = "BRAKING"]
  /\ trajectory' = IF trajectory = "HOLD_READY" THEN trajectory ELSE "BRAKING"
  /\ UNCHANGED <<session, hasBatch>>

\* _invalidate_motion.  The CPV output does not revoke what is published; the
\* thread that marks the authority is in Authority.
Invalidate ==
  /\ Drop
  /\ fast' = [fast EXCEPT !.trajectory = "BRAKING"]
  /\ trajectory' = IF trajectory \in {"HOLD_READY", "FAULT"} THEN trajectory ELSE "BRAKING"
  /\ UNCHANGED <<session, hasBatch>>

\* A target of sequence seq is applied; one that repeats the reference keeps
\* the generation.  From HOLD_READY it resumes the trajectory.
Apply(seq, osc_mode, same) ==
  /\ same => target
  /\ session' = [session EXCEPT !.seq = seq]
  /\ IF same THEN UNCHANGED generation ELSE NextGeneration
  /\ command' = [gen |-> generation', osc_mode |-> osc_mode]
  /\ target' = TRUE
  /\ trajectory' = IF trajectory = "HOLD_READY" THEN "RUNNING" ELSE trajectory
  /\ moving' = IF trajectory = "HOLD_READY" THEN FALSE ELSE moving
  /\ UNCHANGED hasBatch

\* _resume_from_hold_locked: measured state and authority, for hardware.
CanResume(fresh) == ~Hardware \/ (fresh /\ granted)

-----------------------------------------------------------------------------
\* The adapters.

\* start_session, its final critical section.
Activate(mode) ==
  /\ ~Active /\ session.id < MaxSession
  /\ tick.at = "none"
  /\ session' = [id |-> session.id + 1, state |-> "ACTIVE", mode |-> mode, seq |-> 0]
  /\ trajectory' = "HOLD_READY" /\ NextGeneration
  /\ command' = None /\ target' = TRUE /\ hasBatch' = FALSE
  /\ PublishFastState
  /\ stopEvent' = FALSE
  /\ tick' = NewTick
  /\ granted' = (mode = "hardware") /\ moving' = FALSE
  /\ batch' = None /\ verdict' = "none" /\ barrier' = 0
  /\ UNCHANGED <<mailbox, stopper, failed>>

\* publish_target_nonblocking: admission against the snapshot alone.
PublishTarget(seq) ==
  /\ fast.state = "ACTIVE"
  /\ seq > fast.seq /\ (IF mailbox = None THEN TRUE ELSE seq > mailbox.seq)
  /\ fast.trajectory \in {"RUNNING", "HOLD_READY"}
  /\ mailbox' = [id |-> fast.id, seq |-> seq]
  /\ fast' = [fast EXCEPT !.seq = seq]
  /\ UNCHANGED <<lockVars, sendVars, stopVars, tick>>

\* Mutant: the snapshot is not republished.
SubmitTargetQuietly(seq, same, fresh) ==
  /\ Active /\ seq > session.seq /\ trajectory # "FAULT"
  /\ trajectory = "HOLD_READY" => CanResume(fresh)
  /\ Apply(seq, "move_tcp", same)
  /\ UNCHANGED <<mailVars, batch, verdict, failed, barrier, granted, stopVars, tick>>

\* submit_absolute_target.  osc_command sends every track_tcp through the
\* mailbox, so only move_tcp comes this way.
SubmitTarget(seq, same, fresh) ==
  /\ Active /\ seq > session.seq /\ trajectory # "FAULT"
  /\ trajectory = "HOLD_READY" => CanResume(fresh)
  /\ Apply(seq, "move_tcp", same)
  /\ PublishFastState
  /\ UNCHANGED <<mailbox, batch, verdict, failed, barrier, granted, stopVars, tick>>

\* request_shadow_hold.
ShadowHold ==
  /\ Active /\ ~Hardware
  /\ Invalidate
  /\ UNCHANGED <<sendVars, stopVars, tick>>

\* Mutant: the publication that waits in the transport survives the hold.
HardwareHoldUnrevoked ==
  /\ Active /\ Hardware /\ generation < MaxGeneration
  /\ command' = None /\ target' = FALSE /\ NextGeneration
  /\ trajectory' = "BRAKING" /\ hasBatch' = FALSE
  /\ batch' = IF batch = None THEN None ELSE [batch EXCEPT !.held = TRUE]
  /\ tick' = [tick EXCEPT !.held = TRUE]
  /\ UNCHANGED <<session, mailVars, verdict, failed, barrier, granted, moving, stopVars>>

\* request_hardware_hold, with revoke_cpv_before_generation.  It raises the
\* transport's barrier, replaces last_result, and leaves the mailbox and the
\* snapshot alone.
HardwareHold ==
  /\ Active /\ Hardware /\ generation < MaxGeneration
  /\ command' = None /\ target' = FALSE /\ NextGeneration
  /\ trajectory' = "BRAKING" /\ hasBatch' = FALSE
  /\ barrier' = generation'
  /\ batch' = None /\ verdict' = IF verdict = "pending" THEN "revoked" ELSE verdict
  /\ tick' = [tick EXCEPT !.held = TRUE]
  /\ UNCHANGED <<session, mailVars, failed, granted, moving, stopVars>>

\* stop_session, in three steps; the wait for the brake and the join of the
\* loop have timeouts.
StopBrakes ==
  /\ stopper = "idle" /\ Active
  /\ Invalidate
  /\ stopper' = "braking"
  /\ UNCHANGED <<sendVars, stopEvent, tick>>

StopSignals ==
  /\ stopper = "braking"
  /\ session' = IF session.state = "none" THEN session ELSE [session EXCEPT !.state = "STOPPING"]
  /\ command' = None /\ stopEvent' = TRUE /\ stopper' = "joining"
  /\ UNCHANGED <<trajectory, generation, target, hasBatch>>
  /\ PublishFastState
  /\ UNCHANGED <<mailbox, sendVars, tick>>

\* Mutant: the session is kept under a state of its own.
StopEndsKept ==
  /\ stopper = "joining"
  /\ session' = [session EXCEPT !.state = "STOPPED"]
  /\ stopper' = "idle"
  /\ UNCHANGED <<trajectory, generation, command, target, hasBatch>>
  /\ PublishFastState
  /\ UNCHANGED <<mailbox, sendVars, stopEvent, tick>>

StopEnds ==
  /\ stopper = "joining"
  /\ session' = [NoSession EXCEPT !.id = session.id]
  /\ stopper' = "idle"
  /\ UNCHANGED <<trajectory, generation, command, target, hasBatch>>
  /\ PublishFastState
  /\ UNCHANGED <<mailbox, sendVars, stopEvent, tick>>

\* abandon_session_without_braking, after its caller has revoked the servo.
\* Neither step publishes the snapshot.
AbandonSignals ==
  /\ stopper = "idle" /\ Active /\ ~granted
  /\ session' = [session EXCEPT !.state = "STOPPING"]
  /\ command' = None /\ trajectory' = "HOLD_READY"
  /\ stopEvent' = TRUE /\ stopper' = "abandoning"
  /\ UNCHANGED <<generation, target, hasBatch, mailVars, sendVars, tick>>

AbandonEnds ==
  /\ stopper = "abandoning"
  /\ session' = [NoSession EXCEPT !.id = session.id]
  /\ stopper' = "idle"
  /\ UNCHANGED <<trajectory, generation, command, target, hasBatch, mailVars, sendVars,
                 stopEvent, tick>>

\* Some ownership change revokes the servo (see Authority).
AuthorityLost ==
  /\ granted /\ granted' = FALSE
  /\ UNCHANGED <<lockVars, mailVars, batch, verdict, failed, barrier, moving, stopVars, tick>>

-----------------------------------------------------------------------------
\* The loop.

LoopExit ==
  /\ tick.at = "idle" /\ stopEvent
  /\ tick' = [NewTick EXCEPT !.at = "none"]
  /\ UNCHANGED <<lockVars, mailVars, sendVars, stopVars>>

\* The snapshot of session and command; without an active session the tick ends.
Snapshot ==
  /\ tick.at = "idle" /\ ~stopEvent /\ Active
  /\ tick' = [NewTick EXCEPT !.at = "taking", !.command = command, !.hw = Hardware]
  /\ UNCHANGED <<lockVars, mailVars, sendVars, stopVars>>

\* _take_target_mailbox.
TakeMailbox ==
  /\ tick.at = "taking"
  /\ mailbox' = None
  /\ tick' = [tick EXCEPT !.entry = mailbox, !.at = IF mailbox = None THEN "input" ELSE "consuming"]
  /\ UNCHANGED <<fast, lockVars, sendVars, stopVars>>

\* _consume_target_mailbox_locked, and the second snapshot.
Applicable(entry, fresh) ==
  /\ Active /\ session.id = entry.id /\ entry.seq > session.seq
  /\ trajectory # "FAULT"
  /\ trajectory = "HOLD_READY" => CanResume(fresh)

Consume(same, fresh) ==
  /\ tick.at = "consuming"
  /\ \/ /\ Applicable(tick.entry, fresh)
        /\ Apply(tick.entry.seq, "track_tcp", same)
        /\ fast' = [fast EXCEPT !.trajectory = trajectory', !.seq = tick.entry.seq]
     \/ /\ ~Applicable(tick.entry, fresh)
        /\ UNCHANGED <<lockVars, fast, moving>>
  /\ tick' = IF Active
             THEN [NewTick EXCEPT !.at = "input", !.command = command', !.hw = Hardware]
             ELSE NewTick
  /\ UNCHANGED <<mailbox, batch, verdict, failed, barrier, granted, stopVars>>

\* The critical section that looks at the heartbeat and at the feedback's age.
\* HOLD_READY ends the tick with a result of its own.
InMotion == IF trajectory = "RUNNING" THEN tick.command # None
            ELSE trajectory = "BRAKING" /\ moving

Input(expired, hard_stale) ==
  LET brakes == expired /\ trajectory = "RUNNING"
      faults == hard_stale /\ InMotion
  IN
  /\ tick.at = "input"
  /\ IF brakes THEN Drop ELSE UNCHANGED <<command, target, generation, mailbox>>
  /\ trajectory' = IF faults THEN "FAULT" ELSE IF brakes THEN "BRAKING" ELSE trajectory
  /\ UNCHANGED session
  /\ IF faults THEN PublishFastState
     ELSE fast' = IF brakes THEN [fast EXCEPT !.trajectory = "BRAKING"] ELSE fast
  /\ IF trajectory' = "HOLD_READY" THEN hasBatch' = FALSE /\ tick' = NewTick
     ELSE /\ UNCHANGED hasBatch
          /\ tick' = [tick EXCEPT !.at = "plan", !.state = trajectory', !.settled = ~moving]
  /\ UNCHANGED <<sendVars, stopVars>>

\* Without seven-joint feedback, or when the interval is absurd, _fault_zero.
FeedbackMissing ==
  /\ tick.at = "input"
  /\ tick' = [NewTick EXCEPT !.at = "fault", !.hw = tick.hw]
  /\ UNCHANGED <<lockVars, mailVars, sendVars, stopVars>>

\* Anything else that raises, with the mode of the session there is by then.
Raise == tick' = [NewTick EXCEPT !.at = "fault", !.hw = (session.mode # "shadow")]

LoopRaises ==
  /\ tick.at \in {"plan", "publish"}
  /\ Raise
  /\ UNCHANGED <<lockVars, mailVars, sendVars, stopVars>>

\* Without write authority the trajectory is frozen.
PlanFrozen ==
  /\ tick.at = "plan" /\ tick.hw /\ ~granted
  /\ trajectory' = "HOLD_READY" /\ hasBatch' = FALSE /\ tick' = NewTick
  /\ UNCHANGED <<session, generation, command, target, mailVars, sendVars, stopVars>>

\* The batch follows the target, or slows down.
Tracks(state, solved) == state = "RUNNING" /\ solved

\* The solver's answer, the supervisor's limits and the final gate.
Plan(solved, gate_ok) ==
  /\ tick.at = "plan" /\ (tick.hw => granted)
  /\ tick' = [tick EXCEPT !.at = "publish",
                !.gen = IF tick.command = None THEN generation ELSE tick.command.gen,
                !.track = gate_ok /\ Tracks(tick.state, solved), !.gate_ok = gate_ok]
  /\ trajectory' = IF gate_ok THEN trajectory ELSE "FAULT"
  /\ UNCHANGED <<session, generation, command, target, hasBatch, mailbox>>
  /\ IF gate_ok THEN UNCHANGED fast ELSE PublishFastState
  /\ UNCHANGED <<sendVars, stopVars>>

\* publish_servo_position, and publish_cpv, which replaces a waiting publication.
Publish ==
  /\ tick.at = "publish" /\ tick.hw /\ granted
  /\ batch' = [gen |-> tick.gen, track |-> tick.track, gate_ok |-> tick.gate_ok,
               held |-> tick.held, blind |-> tick.command = None]
  /\ verdict' = "pending"
  /\ tick' = [tick EXCEPT !.at = "published"]
  /\ UNCHANGED <<lockVars, mailVars, failed, barrier, granted, moving, stopVars>>

\* PermissionError: an expected handoff.
PublishRefused ==
  /\ tick.at = "publish" /\ tick.hw /\ ~granted
  /\ trajectory' = IF trajectory = "FAULT" THEN "FAULT" ELSE "HOLD_READY"
  /\ hasBatch' = FALSE /\ tick' = NewTick
  /\ UNCHANGED <<session, generation, command, target, mailVars, sendVars, stopVars>>

\* What the last critical section still needs.
FinalTick == tick' = [NewTick EXCEPT !.at = "final", !.command = tick.command,
                        !.settled = tick.settled, !.hw = tick.hw]

SetResult ==
  /\ tick.at = "published"
  /\ hasBatch' = TRUE
  /\ FinalTick
  /\ UNCHANGED <<session, trajectory, generation, command, target, mailVars, sendVars, stopVars>>

\* A batch moves the reference, or leaves it at rest; one that slows down may
\* need several periods to bring it there.
Moves(track, rest) == moving' = IF rest THEN FALSE ELSE track \/ moving

ShadowPublish(rest) ==
  /\ tick.at = "publish" /\ ~tick.hw
  /\ Moves(tick.track, rest)
  /\ hasBatch' = FALSE /\ FinalTick
  /\ UNCHANGED <<session, trajectory, generation, command, target, mailVars,
                 batch, verdict, failed, barrier, granted, stopVars>>

\* The last critical section of a tick: arrival of a move_tcp whose reference
\* no later target has replaced, failures of the transport, and the step from
\* BRAKING to HOLD_READY, which may wait for the newest publication's result.
Arrives(arrived) ==
  /\ arrived /\ tick.command # None
  /\ tick.command.osc_mode = "move_tcp"
  /\ IF command = None THEN TRUE ELSE command.gen = tick.command.gen

\* Mutant: nothing to wait for.
WaitsNever(settles) == FALSE

Waits(settles) == settles /\ tick.hw /\ hasBatch

Final(arrived) ==
  LET brakes  == Arrives(arrived)
      braking == trajectory = "BRAKING" \/ (brakes /\ trajectory = "RUNNING")
      waits   == Waits(braking /\ tick.settled)
      fails   == tick.hw /\ (failed \/ (waits /\ verdict \notin {"sent", "revoked"}))
      revoked == waits /\ verdict = "revoked"
      holds   == braking /\ tick.settled /\ ~fails /\ ~revoked
  IN
  /\ tick.at = "final"
  /\ IF brakes THEN Drop ELSE UNCHANGED <<command, target, generation, mailbox>>
  /\ fast' = IF brakes THEN [fast EXCEPT !.trajectory = "BRAKING"] ELSE fast
  /\ trajectory' = IF holds THEN "HOLD_READY" ELSE IF braking THEN "BRAKING" ELSE trajectory
  /\ hasBatch' = (hasBatch /\ ~revoked)
  /\ IF fails THEN Raise ELSE tick' = NewTick
  /\ UNCHANGED <<session, sendVars, stopVars>>

\* _fault_zero, and the part of trigger_safety_fault it runs for hardware: the
\* authority is revoked first and freeze_for_authority_change follows.
Fault ==
  /\ tick.at = "fault"
  /\ trajectory' = "FAULT"
  /\ UNCHANGED <<session, generation, command, target>>
  /\ PublishFastState
  /\ IF tick.hw THEN tick' = [tick EXCEPT !.at = "revoke"] /\ UNCHANGED hasBatch
     ELSE tick' = NewTick /\ hasBatch' = FALSE
  /\ UNCHANGED <<mailbox, sendVars, stopVars>>

FaultRevokes ==
  /\ tick.at = "revoke"
  /\ granted' = FALSE
  /\ tick' = [tick EXCEPT !.at = "freeze"]
  /\ UNCHANGED <<lockVars, mailVars, batch, verdict, failed, barrier, moving, stopVars>>

FaultFreezes ==
  /\ tick.at = "freeze"
  /\ trajectory' = "HOLD_READY" /\ command' = None /\ NextGeneration
  /\ hasBatch' = FALSE /\ tick' = NewTick
  /\ UNCHANGED <<session, target, mailVars, sendVars, stopVars>>

-----------------------------------------------------------------------------
\* The transport owner (see TxOwner).

\* Mutant: the barrier excludes the generation it was set to.
SendableAfter == IF verdict = "pending" THEN granted /\ batch.gen > barrier ELSE FALSE

\* The checks of _dispatch_cpv, which revoke what does not pass.
Sendable == IF verdict = "pending" THEN granted /\ batch.gen >= barrier ELSE FALSE

Dispatched(outcome) ==
  /\ verdict' = outcome /\ failed' = (outcome = "failed") /\ batch' = None
  /\ UNCHANGED <<lockVars, mailVars, barrier, granted, stopVars, tick>>

Send(rest) == Sendable /\ batch.gate_ok /\ Moves(batch.track, rest) /\ Dispatched("sent")

\* Also what the final gate rejected fails, and only now.
SendFails == Sendable /\ UNCHANGED moving /\ Dispatched("failed")

SendRefused == verdict = "pending" /\ ~Sendable /\ UNCHANGED moving /\ Dispatched("revoked")

-----------------------------------------------------------------------------
Adapters ==
  \/ \E mode \in ExecutionModes : Activate(mode)
  \/ \E seq \in 1..MaxSeq : PublishTarget(seq)
  \/ \E seq \in 1..MaxSeq, same \in BOOLEAN, fresh \in BOOLEAN : SubmitTarget(seq, same, fresh)
  \/ ShadowHold \/ HardwareHold \/ AuthorityLost
  \/ StopBrakes \/ StopSignals \/ StopEnds \/ AbandonSignals \/ AbandonEnds

Loop ==
  \/ LoopExit \/ Snapshot \/ TakeMailbox
  \/ \E same \in BOOLEAN, fresh \in BOOLEAN : Consume(same, fresh)
  \/ \E expired \in BOOLEAN, hard_stale \in BOOLEAN : Input(expired, hard_stale)
  \/ FeedbackMissing \/ LoopRaises \/ PlanFrozen
  \/ \E solved \in BOOLEAN, gate_ok \in BOOLEAN : Plan(solved, gate_ok)
  \/ Publish \/ PublishRefused \/ SetResult
  \/ \E rest \in BOOLEAN : ShadowPublish(rest)
  \/ \E arrived \in BOOLEAN : Final(arrived)
  \/ Fault \/ FaultRevokes \/ FaultFreezes

Transport == (\E rest \in BOOLEAN : Send(rest)) \/ SendFails \/ SendRefused

Next == Adapters \/ Loop \/ Transport

Spec == Init /\ [][Next]_vars

\* The loop and the transport owner run; a stop that began goes on (its wait
\* and its join have timeouts); and a reference that is slowed down again and
\* again comes to rest, since every braking batch takes off a fixed amount.
FairSpec ==
  /\ Spec
  /\ WF_vars(Loop) /\ WF_vars(Transport)
  /\ WF_vars(StopSignals) /\ WF_vars(StopEnds) /\ WF_vars(AbandonEnds)
  /\ SF_vars(Send(TRUE)) /\ SF_vars(ShadowPublish(TRUE))

-----------------------------------------------------------------------------
States == {"none", "ACTIVE", "STOPPING"}
Trajectories == {"HOLD_READY", "RUNNING", "BRAKING", "FAULT"}
Commands == [gen : 0..MaxGeneration, osc_mode : {"move_tcp", "track_tcp"}]
Entries == [id : 0..MaxSession, seq : 1..MaxSeq]

LockType ==
  /\ session \in [id : 0..MaxSession, state : States, mode : ExecutionModes \cup {"none"},
                  seq : 0..MaxSeq]
  /\ trajectory \in Trajectories
  /\ generation \in 0..MaxGeneration
  /\ command \in Commands \cup {None}
  /\ target \in BOOLEAN /\ hasBatch \in BOOLEAN

MailType ==
  /\ mailbox \in Entries \cup {None}
  /\ fast \in [id : 0..MaxSession, state : States, trajectory : Trajectories, seq : 0..MaxSeq]

TickType ==
  /\ DOMAIN tick = DOMAIN NewTick
  /\ tick.at \in {"none", "idle", "taking", "consuming", "input", "plan", "publish",
                 "published", "final", "fault", "revoke", "freeze"}
  /\ tick.entry \in Entries \cup {None} /\ tick.command \in Commands \cup {None}
  /\ tick.state \in Trajectories /\ tick.gen \in 0..MaxGeneration
  /\ tick.track \in BOOLEAN /\ tick.gate_ok \in BOOLEAN /\ tick.settled \in BOOLEAN
  /\ tick.held \in BOOLEAN /\ tick.hw \in BOOLEAN
  /\ tick.at = "consuming" => tick.entry # None
  /\ stopEvent \in BOOLEAN /\ stopper \in {"idle", "braking", "joining", "abandoning"}

Batches == [gen : 0..MaxGeneration, track : BOOLEAN, gate_ok : BOOLEAN, held : BOOLEAN,
            blind : BOOLEAN]

SendType ==
  /\ batch \in Batches \cup {None} /\ (verdict = "pending" => batch \in Batches)
  /\ verdict \in {"none", "pending", "sent", "failed", "revoked"} /\ failed \in BOOLEAN
  /\ barrier \in 0..MaxGeneration /\ granted \in BOOLEAN /\ moving \in BOOLEAN

\* Every variable keeps its type, and whatever waits for a verdict is a batch.
TypeOK == LockType /\ MailType /\ TickType /\ SendType

\* "HOLD/stop/epoch paths retain strict revocation" (submit_absolute_target):
\* no batch that follows a target taken up before request_hardware_hold can be
\* sent after it, wherever in its tick the loop was when the hold came.  Exempt
\* is a tick that began without a command: its generation is read after the
\* hold.  (A write that has passed the checks is TxOwner's stale write.)
StrictHold ==
  Sendable /\ batch.track /\ batch.held => batch.blind

\* Once the trajectory is HOLD_READY, which ends the wait of stop_session and
\* allows the output to be switched, nothing that follows a target is left in
\* the transport for the servo to write.
HoldIsQuiet ==
  trajectory = "HOLD_READY" /\ Sendable => ~batch.track

\* The two doors agree: the mailbox admits no sequence that submit_absolute_target
\* or the loop has applied, and nothing at all while the trajectory is in FAULT.
DoorsAgree ==
  Active =>
    /\ fast.id = session.id /\ fast.state = "ACTIVE"
    /\ fast.seq >= session.seq
    /\ trajectory = "FAULT" => fast.trajectory \notin {"RUNNING", "HOLD_READY"}

\* "FAULT must also never be demoted by a later stop request" (_invalidate_motion):
\* within a session FAULT is left only by losing the write authority, and by
\* request_hardware_hold, which does demote it.
FaultLatched ==
  [][Active /\ Active' /\ trajectory = "FAULT" /\ trajectory' # "FAULT"
     => barrier' > barrier \/ (Hardware /\ ~granted')]_vars

\* A brake ends: in HOLD_READY, FAULT, or with the session.
BrakeEnds == (trajectory = "BRAKING" /\ Active) ~> (trajectory # "BRAKING" \/ ~Active)

\* "The session remains active so a deadman-style input adapter can resume from
\* a fresh absolute target" (request_shadow_hold): in a shadow session that is
\* in HOLD_READY between two ticks, and that nobody is stopping, the mailbox
\* admits the next target.  The code does not do this.
HoldAdmits ==
  /\ Active /\ session.mode = "shadow" /\ stopper = "idle"
  /\ trajectory = "HOLD_READY" /\ tick.at = "idle"
  => fast.trajectory \in {"RUNNING", "HOLD_READY"}

=============================================================================
