------------------------------ MODULE Authority ------------------------------
(***************************************************************************)
(* Who may move the arm: ControlSupervisor (supervisor/authority.py), the  *)
(* transitions of OperationalSpaceController (supervisor/control.py) and   *)
(* what the OSC servo (motion/osc.py) does to take part in them, for a     *)
(* hardware session with the CPV output.                                   *)
(*                                                                         *)
(* Threads: HTTP threads inside handoff_to_console, freedrive or           *)
(* stop_session; the one inside start_session; servo loops; and the        *)
(* daemon threads that run mark_osc_stopping.  Three locks matter:         *)
(* _handoff_lock is `handoff`, _authority_epoch_lock is `promoted`, and    *)
(* the servo's self.lock is held across steps only while `resume` is set.  *)
(***************************************************************************)
EXTENDS Integers, FiniteSets

CONSTANTS
  Operators,    \* HTTP threads that stop, hand off or enter FREEDRIVE
  Loops,        \* servo threads a behaviour may start
  Marks,        \* outstanding mark_osc_stopping threads
  MaxEpoch,     \* bound on the epochs a behaviour may open
  None

ASSUME EpochAssumption == MaxEpoch \in Nat

Epochs   == 0..MaxEpoch
Writers  == {"NONE", "SERVO", "MODE_TRANSITION", "SAFETY"}
Modes    == {"SUSPENDED", "TRACKING", "STOPPING", "HOLDING"}
Kinds    == {"handoff", "freedrive", "stop"}
Actors   == Operators \cup Loops \cup {"starter"}
Held     == [by : Actors, writer : Writers, mode : Modes]
Exclusives == {"follower_hold_transition", "freedrive_transition"}

\* None, Python's None, is no value of another kind.
ASSUME ActorAssumption ==
  /\ None \notin Actors /\ None \notin Nat /\ None \notin Kinds
  /\ None \notin Exclusives /\ None \notin Held
  /\ Operators \cap Loops = {} /\ "starter" \notin Operators \cup Loops

VARIABLES
  auth,         \* ControlSupervisor._state
  txEpoch,      \* HardwareTxOwner._epoch
  exclusive,    \* HardwareTxOwner._exclusive_category
  box,          \* epoch of the servo target in the transport's mailbox
  promoted,     \* a _set_authority between advance_epoch and transition
  handoff,      \* holder of _handoff_lock
  op,           \* what each HTTP thread is doing
  starter,      \* the thread inside start_session
  loop,         \* each servo thread, and the epoch its tick has read
  thread,       \* self.thread: the servo thread stop_session would join
  session, trajectory, motionEpoch, stopEvent,   \* servo state of those names
  resume,       \* epoch for which _resume_from_hold_locked holds self.lock
  mark,         \* the mark_osc_stopping threads
  leader,       \* the arm's control mode is FREEDRIVE
  opened,       \* epochs opened or reserved so far, for the bound
  fenced,       \* history: the last ownership change revoked the servo
  straddled     \* history: it fell between a check and its assignment

authVars  == <<auth, txEpoch, exclusive, promoted, fenced, straddled>>
servoVars == <<session, trajectory, motionEpoch, stopEvent, thread>>
vars == <<authVars, servoVars, box, handoff, op, starter, loop, resume, mark, leader, opened>>

Init ==
  /\ auth = [writer |-> "NONE", mode |-> "SUSPENDED", epoch |-> 0]
  /\ txEpoch = 0 /\ exclusive = None /\ promoted = None
  /\ box = None /\ handoff = None
  /\ op = [o \in Operators |-> [kind |-> None, at |-> "idle", epoch |-> 0]]
  /\ starter = [at |-> "idle", epoch |-> 0]
  /\ loop = [l \in Loops |-> [at |-> "none", epoch |-> 0]]
  /\ thread = None
  /\ session = "none" /\ trajectory = "HOLD_READY" /\ motionEpoch = 0
  /\ stopEvent = FALSE /\ resume = None
  /\ mark = [m \in Marks |-> [at |-> "none", epoch |-> 0]]
  /\ leader = FALSE /\ opened = 0
  /\ fenced = FALSE /\ straddled = FALSE

-----------------------------------------------------------------------------
\* ControlSupervisor and _set_authority.

AllowsServo(e) ==
  /\ auth.writer = "SERVO" /\ auth.mode \in {"TRACKING", "STOPPING", "HOLDING"}
  /\ auth.epoch = e

\* A grant, mark, resume or hold latch that rests on the old state and has
\* not yet assigned.
Pending ==
  \/ resume # None
  \/ starter.at = "granting"
  \/ \E l \in Loops : loop[l].at = "final"
  \/ \E m \in Marks : mark[m].at = "checked"

\* Mutant: the transport keeps its epoch.
PromoteSameEpoch(actor, writer, mode, category) ==
  /\ promoted = None
  /\ exclusive' = category /\ UNCHANGED txEpoch
  /\ promoted' = [by |-> actor, writer |-> writer, mode |-> mode]
  /\ UNCHANGED <<auth, fenced, straddled>>

\* An advancing _set_authority takes the lock and promotes the transport ...
Promote(actor, writer, mode, category) ==
  /\ promoted = None
  /\ txEpoch' = auth.epoch + 1 /\ exclusive' = category
  /\ promoted' = [by |-> actor, writer |-> writer, mode |-> mode]
  /\ UNCHANGED <<auth, fenced, straddled>>

\* ... then lets the supervisor follow, and releases the lock.
Install ==
  /\ promoted # None
  /\ auth' = [writer |-> promoted.writer, mode |-> promoted.mode, epoch |-> auth.epoch + 1]
  /\ promoted' = None
  /\ fenced' = (promoted.writer # "SERVO") /\ straddled' = Pending
  /\ UNCHANGED <<txEpoch, exclusive, servoVars, box, handoff, op, starter, loop, resume,
                 mark, leader, opened>>

\* A _set_authority that stays in the epoch, whatever epoch that is by now.
Assign(writer, mode) ==
  /\ promoted = None
  /\ auth' = [auth EXCEPT !.writer = writer, !.mode = mode]
  /\ UNCHANGED <<txEpoch, exclusive, promoted, fenced, straddled>>

\* complete_epoch_transition: only the epoch and category it was opened with.
Complete(e, category) ==
  /\ exclusive' = IF txEpoch = e /\ exclusive = category THEN None ELSE exclusive
  /\ UNCHANGED <<auth, txEpoch, promoted, fenced, straddled>>

\* actor is past the _set_authority it began.
Installed(actor) == IF promoted = None THEN TRUE ELSE promoted.by # actor
Unlocked == resume = None

Reserve(n) == opened + n =< MaxEpoch /\ opened' = opened + n

\* mark_osc_stopping in a thread of its own.
Spawn ==
  LET free == {m \in Marks : mark[m].at = "none"}
  IN  IF free = {} THEN UNCHANGED mark
      ELSE mark' = [mark EXCEPT ![CHOOSE m \in free : TRUE] =
                                 [at |-> "spawned", epoch |-> motionEpoch]]

\* Mutant: only the epoch is compared.
MayAssignAnyWriter(e) == auth.epoch = e

\* grant_osc_tracking and mark_osc_stopping first look ...
MayAssign(e) == auth.writer = "SERVO" /\ auth.epoch = e

MarkCheck(m) ==
  /\ mark[m].at = "spawned"
  /\ mark' = [mark EXCEPT ![m].at = IF MayAssign(mark[m].epoch) THEN "checked" ELSE "none"]
  /\ UNCHANGED <<authVars, servoVars, box, handoff, op, starter, loop, resume, leader, opened>>

\* ... and then assign.
MarkAct(m) ==
  /\ mark[m].at = "checked"
  /\ Assign("SERVO", "STOPPING")
  /\ mark' = [mark EXCEPT ![m].at = "none"]
  /\ UNCHANGED <<servoVars, box, handoff, op, starter, loop, resume, leader, opened>>

\* _invalidate_motion.
Invalidate ==
  /\ Spawn
  /\ trajectory' = IF trajectory \in {"HOLD_READY", "FAULT"} THEN trajectory ELSE "BRAKING"

-----------------------------------------------------------------------------
\* _resume_from_hold_locked, from submit_absolute_target or from the servo
\* loop when it consumes its target mailbox; both hold self.lock throughout.

ResumeCheck ==
  /\ Unlocked
  /\ session = "ACTIVE" /\ trajectory = "HOLD_READY" /\ AllowsServo(motionEpoch)
  /\ resume' = motionEpoch
  /\ UNCHANGED <<authVars, servoVars, box, handoff, op, starter, loop, mark, leader, opened>>

ResumeAct ==
  /\ ~Unlocked
  /\ Assign("SERVO", "TRACKING")
  /\ trajectory' = "RUNNING" /\ resume' = None
  /\ UNCHANGED <<session, motionEpoch, stopEvent, thread, box, handoff, op, starter, loop,
                 mark, leader, opened>>

-----------------------------------------------------------------------------
\* One servo thread, _loop.

Goes(l, place) == loop' = [loop EXCEPT ![l].at = place]

LoopExit(l) ==
  /\ loop[l].at = "idle" /\ stopEvent
  /\ Goes(l, "none")
  /\ UNCHANGED <<authVars, servoVars, box, handoff, op, starter, resume, mark, leader, opened>>

\* The tick reads trajectory_state and motion_epoch; the owner's heartbeat
\* may have expired, and a HOLD_READY tick ends here.
LoopRead(l, expired) ==
  /\ loop[l].at = "idle" /\ ~stopEvent /\ Unlocked
  /\ session = "ACTIVE" /\ trajectory # "HOLD_READY"
  /\ IF expired /\ trajectory = "RUNNING" THEN Invalidate ELSE UNCHANGED <<trajectory, mark>>
  /\ loop' = [loop EXCEPT ![l] = [at |-> "tick", epoch |-> motionEpoch]]
  /\ UNCHANGED <<authVars, session, motionEpoch, stopEvent, thread, box, handoff, op, starter,
                 resume, leader, opened>>

\* servo_can_write, before the solver runs.
LoopGate(l) ==
  /\ loop[l].at = "tick"
  /\ IF AllowsServo(loop[l].epoch)
     THEN Goes(l, "publish") /\ UNCHANGED trajectory
     ELSE Unlocked /\ Goes(l, "idle") /\ trajectory' = "HOLD_READY"
  /\ UNCHANGED <<authVars, session, motionEpoch, stopEvent, thread, box, handoff, op, starter,
                 resume, mark, leader, opened>>

\* publish_servo_position; a PermissionError freezes the trajectory.
LoopPublish(l) ==
  /\ loop[l].at = "publish"
  /\ IF AllowsServo(loop[l].epoch)
     THEN Goes(l, "final") /\ box' = loop[l].epoch /\ UNCHANGED trajectory
     ELSE /\ Unlocked /\ Goes(l, "idle") /\ UNCHANGED box
          /\ trajectory' = IF trajectory = "FAULT" THEN trajectory ELSE "HOLD_READY"
  /\ UNCHANGED <<authVars, session, motionEpoch, stopEvent, thread, handoff, op, starter,
                 resume, mark, leader, opened>>

\* The final section under self.lock: a settled brake latches the hold.
LoopFinal(l, settled) ==
  /\ loop[l].at = "final" /\ Unlocked
  /\ Goes(l, "idle")
  /\ IF trajectory = "BRAKING" /\ settled
     THEN Assign("SERVO", "HOLDING") /\ trajectory' = "HOLD_READY"
     ELSE UNCHANGED <<authVars, trajectory>>
  /\ UNCHANGED <<session, motionEpoch, stopEvent, thread, box, handoff, op, starter,
                 resume, mark, leader, opened>>

\* _fault_zero: any tick may find its feedback, solver or transport broken.
LoopFault(l) ==
  /\ loop[l].at \in {"tick", "publish", "final"} /\ Unlocked
  /\ Reserve(1)
  /\ Goes(l, "fault") /\ trajectory' = "FAULT"
  /\ UNCHANGED <<authVars, session, motionEpoch, stopEvent, thread, box, handoff, op, starter,
                 resume, mark, leader>>

\* trigger_safety_fault, one step per lock or call.
FaultTakesOver(l) ==
  /\ loop[l].at = "fault" /\ handoff = None
  /\ handoff' = l /\ Goes(l, "promoted")
  /\ Promote(l, "SAFETY", "STOPPING", None)
  /\ UNCHANGED <<servoVars, box, op, starter, resume, mark, leader, opened>>

\* freeze_for_authority_change.
FaultFreezes(l) ==
  /\ loop[l].at = "promoted" /\ Installed(l) /\ Unlocked
  /\ motionEpoch' = auth.epoch /\ trajectory' = "HOLD_READY"
  /\ Goes(l, "frozen")
  /\ UNCHANGED <<authVars, session, stopEvent, thread, box, handoff, op, starter,
                 resume, mark, leader, opened>>

\* The P0 hold has returned, failed or timed out.
FaultEnds(l) ==
  /\ loop[l].at = "frozen"
  /\ Assign("SAFETY", "HOLDING")
  /\ Goes(l, "idle") /\ handoff' = None
  /\ UNCHANGED <<servoVars, box, op, starter, resume, mark, leader, opened>>

\* The transport owner takes the mailbox entry.
Dispatch ==
  /\ box # None /\ box' = None
  /\ UNCHANGED <<authVars, servoVars, handoff, op, starter, loop, resume, mark, leader, opened>>

-----------------------------------------------------------------------------
\* handoff_to_console, freedrive, and stop_session on its own.

Stage(o, place) == op' = [op EXCEPT ![o].at = place]
Category(kind) == IF kind = "handoff" THEN "follower_hold_transition" ELSE "freedrive_transition"
Release(o) == handoff' = IF handoff = o THEN None ELSE handoff
Dead(l) == IF l = None THEN TRUE ELSE loop[l].at = "none"

OpBegin(o, kind) ==
  /\ op[o].at = "idle"
  /\ IF kind = "stop" THEN UNCHANGED <<handoff, opened>>
     ELSE handoff = None /\ handoff' = o /\ Reserve(1)
  /\ op' = [op EXCEPT ![o] = [kind |-> kind, at |-> "begun", epoch |-> 0]]
  /\ UNCHANGED <<authVars, servoVars, box, starter, loop, resume, mark, leader>>

\* stop_session: brake ...
StopBrakes(o) ==
  /\ op[o].at = "begun" /\ Unlocked
  /\ IF session = "ACTIVE" THEN Invalidate ELSE UNCHANGED <<trajectory, mark>>
  /\ Stage(o, "braking")
  /\ UNCHANGED <<authVars, session, motionEpoch, stopEvent, thread, box, handoff, starter, loop,
                 resume, leader, opened>>

\* ... wait, settled or not after 1.5 s, then signal the loop ...
StopSignals(o) ==
  /\ op[o].at = "braking" /\ Unlocked
  /\ session' = IF session = "none" THEN session ELSE "STOPPING"
  /\ stopEvent' = TRUE
  /\ Stage(o, "joining")
  /\ UNCHANGED <<authVars, trajectory, motionEpoch, thread, box, handoff, starter, loop,
                 resume, mark, leader, opened>>

\* Mutant: join without a timeout.
StopJoinsForever(o, timeout) ==
  /\ op[o].at = "joining" /\ Unlocked
  /\ ~timeout /\ Dead(thread)
  /\ session' = "none" /\ thread' = None
  /\ IF op[o].kind = "stop" THEN Stage(o, "idle") /\ Release(o)
     ELSE Stage(o, "stopped") /\ UNCHANGED handoff
  /\ UNCHANGED <<authVars, trajectory, motionEpoch, stopEvent, box, starter, loop,
                 resume, mark, leader, opened>>

\* ... and join it for at most 1 s.  A handoff gives up when it still lives.
StopJoins(o, timeout) ==
  /\ op[o].at = "joining" /\ Unlocked
  /\ timeout # Dead(thread)
  /\ session' = "none"
  /\ thread' = IF timeout THEN thread ELSE None
  /\ IF timeout \/ op[o].kind = "stop" THEN Stage(o, "idle") /\ Release(o)
     ELSE Stage(o, "stopped") /\ UNCHANGED handoff
  /\ UNCHANGED <<authVars, trajectory, motionEpoch, stopEvent, box, starter, loop,
                 resume, mark, leader, opened>>

\* stop_cpv_for_mode_transition failed.
OpGivesUp(o) ==
  /\ op[o].at = "stopped"
  /\ Stage(o, "idle") /\ Release(o)
  /\ UNCHANGED <<authVars, servoVars, box, starter, loop, resume, mark, leader, opened>>

\* It succeeded: the exclusive transition opens a new epoch.
OpPromotes(o) ==
  /\ op[o].at = "stopped"
  /\ Promote(o, "MODE_TRANSITION", "SUSPENDED", Category(op[o].kind))
  /\ op' = [op EXCEPT ![o] =
               [kind |-> op[o].kind, at |-> "transition", epoch |-> auth.epoch + 1]]
  /\ UNCHANGED <<servoVars, box, handoff, starter, loop, resume, mark, leader, opened>>

\* abandon_session_without_braking, up to the join.
OpAbandons(o) ==
  /\ op[o].at = "transition" /\ Installed(o) /\ Unlocked
  /\ motionEpoch' = op[o].epoch /\ trajectory' = "HOLD_READY" /\ stopEvent' = TRUE
  /\ session' = IF session = "none" THEN session ELSE "STOPPING"
  /\ Stage(o, "abandoned")
  /\ UNCHANGED <<authVars, thread, box, handoff, starter, loop, resume, mark, leader, opened>>

OpJoins(o, timeout) ==
  /\ op[o].at = "abandoned" /\ Unlocked
  /\ timeout # Dead(thread)
  /\ session' = "none" /\ thread' = IF timeout THEN thread ELSE None
  /\ Stage(o, IF timeout THEN "aborted" ELSE "calling")
  /\ UNCHANGED <<authVars, trajectory, motionEpoch, stopEvent, box, handoff, starter, loop,
                 resume, mark, leader, opened>>

\* Mutant: complete_epoch_transition is not in the finally clause.
OpCallReturnsNoFinally(o, outcome) ==
  /\ op[o].at = "calling"
  /\ IF outcome = "raised" THEN UNCHANGED authVars ELSE Complete(op[o].epoch, Category(op[o].kind))
  /\ IF outcome = "raised" THEN Stage(o, "idle") /\ Release(o)
     ELSE Stage(o, outcome) /\ UNCHANGED handoff
  /\ leader' = (outcome = "ok" /\ op[o].kind = "freedrive")
  /\ UNCHANGED <<servoVars, box, starter, loop, resume, mark, opened>>

\* The P2 call of the transition returns ok or not, or raises; an exception
\* leaves MODE_TRANSITION behind.  It is rejected outside its epoch.
OpCallReturns(o, outcome) ==
  /\ op[o].at = "calling"
  /\ outcome = "ok" => txEpoch = op[o].epoch
  /\ Complete(op[o].epoch, Category(op[o].kind))
  /\ IF outcome = "raised" THEN Stage(o, "idle") /\ Release(o)
     ELSE Stage(o, outcome) /\ UNCHANGED handoff
  /\ leader' \in IF outcome = "ok" THEN {op[o].kind = "freedrive"} ELSE {leader, FALSE}
  /\ UNCHANGED <<servoVars, box, starter, loop, resume, mark, opened>>

\* The workers did not stop: the exclusivity ends without a call.
OpAborts(o) ==
  /\ op[o].at = "aborted"
  /\ Complete(op[o].epoch, Category(op[o].kind))
  /\ Stage(o, "surrender")
  /\ UNCHANGED <<servoVars, box, handoff, starter, loop, resume, mark, leader, opened>>

\* The verdict, in whatever epoch the supervisor is.
OpEnds(o) ==
  /\ op[o].at \in {"ok", "failed", "surrender"}
  /\ CASE op[o].kind = "freedrive" \/ op[o].at = "surrender" -> Assign("NONE", "SUSPENDED")
       [] op[o].kind = "handoff" /\ op[o].at = "ok"          -> Assign("SERVO", "HOLDING")
       [] op[o].kind = "handoff" /\ op[o].at = "failed"      -> Assign("SAFETY", "HOLDING")
  /\ Stage(o, "idle") /\ Release(o)
  /\ UNCHANGED <<servoVars, box, starter, loop, resume, mark, leader, opened>>

-----------------------------------------------------------------------------
\* start_session for the hardware, and prepare_osc_hardware in it.

Starts(place) == starter' = [starter EXCEPT !.at = place]

\* Only an ACTIVE session is in the way, not one that is still stopping.
StartBegin ==
  /\ starter.at = "idle" /\ session # "ACTIVE"
  /\ session' = "STARTING" /\ Starts("begun")
  /\ UNCHANGED <<authVars, trajectory, motionEpoch, stopEvent, thread, box, handoff, op, loop,
                 resume, mark, leader, opened>>

PrepareBegins ==
  /\ starter.at = "begun" /\ handoff = None
  /\ handoff' = "starter"
  /\ Reserve(IF leader THEN 3 ELSE 2)
  /\ IF leader THEN Promote("starter", "MODE_TRANSITION", "SUSPENDED", None) /\ Starts("exiting")
     ELSE Starts("preparing") /\ UNCHANGED authVars
  /\ UNCHANGED <<servoVars, box, op, loop, resume, mark, leader>>

\* hold_follower_without_position_target, on the way out of FREEDRIVE.
ExitReturns(ok) ==
  /\ starter.at = "exiting" /\ Installed("starter")
  /\ IF ok THEN UNCHANGED authVars ELSE Assign("NONE", "SUSPENDED")
  /\ leader' \in IF ok THEN {FALSE} ELSE {leader, FALSE}
  /\ Starts(IF ok THEN "preparing" ELSE "failed")
  /\ UNCHANGED <<servoVars, box, handoff, op, loop, resume, mark, opened>>

PreparePromotes ==
  /\ starter.at = "preparing"
  /\ Promote("starter", "SERVO", "HOLDING", None)
  /\ starter' = [at |-> "priming", epoch |-> auth.epoch + 1]
  /\ UNCHANGED <<servoVars, box, handoff, op, loop, resume, mark, leader, opened>>

\* prime_cpv_position_from_feedback; revoke_preparation when it fails.
PrimeReturns(ok) ==
  /\ starter.at = "priming" /\ Installed("starter")
  /\ IF ok
     THEN /\ AllowsServo(starter.epoch) /\ txEpoch = starter.epoch /\ exclusive = None
          /\ Starts("prepared") /\ handoff' = None
          /\ UNCHANGED authVars
     ELSE /\ IF MayAssign(starter.epoch) THEN Promote("starter", "NONE", "SUSPENDED", None)
             ELSE promoted = None /\ UNCHANGED authVars
          /\ Starts("failed") /\ UNCHANGED handoff
  /\ UNCHANGED <<servoVars, box, op, loop, resume, mark, leader, opened>>

\* The firmware profile, the feedback or the grant was refused.
StartRefused ==
  /\ starter.at \in {"begun", "preparing", "prepared"}
  /\ Starts("failed")
  /\ UNCHANGED <<authVars, servoVars, box, handoff, op, loop, resume, mark, leader, opened>>

\* The failed session is forgotten.
StartFails ==
  /\ starter.at = "failed" /\ Installed("starter") /\ Unlocked
  /\ session' = "none" /\ Starts("idle") /\ Release("starter")
  /\ UNCHANGED <<authVars, trajectory, motionEpoch, stopEvent, thread, box, op, loop,
                 resume, mark, leader, opened>>

\* grant_osc_tracking.
GrantCheck ==
  /\ starter.at = "prepared" /\ MayAssign(starter.epoch)
  /\ Starts("granting")
  /\ UNCHANGED <<authVars, servoVars, box, handoff, op, loop, resume, mark, leader, opened>>

GrantAct ==
  /\ starter.at = "granting"
  /\ Assign("SERVO", "TRACKING")
  /\ Starts("granted")
  /\ UNCHANGED <<servoVars, box, handoff, op, loop, resume, mark, leader, opened>>

\* The session goes ACTIVE in the epoch of its preparation.
Activate(l) ==
  /\ starter.at = "granted" /\ Unlocked
  /\ loop[l].at = "none"
  /\ session' = "ACTIVE" /\ trajectory' = "HOLD_READY"
  /\ motionEpoch' = starter.epoch /\ stopEvent' = FALSE
  /\ thread' = l /\ Goes(l, "idle")
  /\ Starts("idle")
  /\ UNCHANGED <<authVars, box, handoff, op, resume, mark, leader, opened>>

-----------------------------------------------------------------------------
Resuming == ResumeCheck \/ ResumeAct

Marking == \E m \in Marks : MarkCheck(m) \/ MarkAct(m)

Servo(l) ==
  \/ LoopExit(l)
  \/ \E expired \in BOOLEAN : LoopRead(l, expired)
  \/ LoopGate(l)
  \/ LoopPublish(l)
  \/ \E settled \in BOOLEAN : LoopFinal(l, settled)
  \/ LoopFault(l)
  \/ FaultTakesOver(l)
  \/ FaultFreezes(l)
  \/ FaultEnds(l)

OpRuns(o) ==
  \/ StopBrakes(o)
  \/ StopSignals(o)
  \/ \E timeout \in BOOLEAN : StopJoins(o, timeout)
  \/ OpGivesUp(o)
  \/ OpPromotes(o)
  \/ OpAbandons(o)
  \/ \E timeout \in BOOLEAN : OpJoins(o, timeout)
  \/ \E outcome \in {"ok", "failed", "raised"} : OpCallReturns(o, outcome)
  \/ OpAborts(o)
  \/ OpEnds(o)

StartRuns ==
  \/ PrepareBegins
  \/ \E ok \in BOOLEAN : ExitReturns(ok)
  \/ PreparePromotes
  \/ \E ok \in BOOLEAN : PrimeReturns(ok)
  \/ StartRefused
  \/ StartFails
  \/ GrantCheck
  \/ GrantAct
  \/ \E l \in Loops : Activate(l)

Next ==
  \/ Install
  \/ Resuming
  \/ Marking
  \/ \E l \in Loops : Servo(l)
  \/ Dispatch
  \/ \E o \in Operators, kind \in Kinds : OpBegin(o, kind)
  \/ \E o \in Operators : OpRuns(o)
  \/ StartBegin
  \/ StartRuns

Spec == Init /\ [][Next]_vars

\* Threads run and calls return.  A step that waits for one of the short
\* locks gets it (strong fairness); nobody has to call, resume or fault.
Fairness ==
  /\ WF_vars(Install) /\ WF_vars(ResumeAct)
  /\ SF_vars(StartRuns)
  /\ \A m \in Marks : WF_vars(MarkCheck(m)) /\ SF_vars(MarkAct(m))
  /\ \A o \in Operators : SF_vars(OpRuns(o))
  /\ \A l \in Loops : SF_vars(FaultFreezes(l)) /\ SF_vars(FaultEnds(l))

FairSpec == Spec /\ Fairness

-----------------------------------------------------------------------------
\* Type invariant.
TypeOK ==
  /\ auth \in [writer : Writers, mode : Modes, epoch : Epochs]
  /\ txEpoch \in Epochs /\ box \in Epochs \cup {None}
  /\ exclusive \in Exclusives \cup {None}
  /\ promoted \in Held \cup {None}
  /\ handoff \in Actors \cup {None}
  /\ op \in [Operators -> [kind : Kinds \cup {None}, epoch : Epochs,
               at : {"idle", "begun", "braking", "joining", "stopped", "transition", "abandoned",
                     "aborted", "surrender", "calling", "ok", "failed"}]]
  /\ starter \in [epoch : Epochs, at : {"idle", "begun", "exiting", "preparing", "priming",
                                        "prepared", "granting", "granted", "failed"}]
  /\ loop \in [Loops -> [epoch : Epochs, at : {"none", "idle", "tick", "publish", "final",
                                               "fault", "promoted", "frozen"}]]
  /\ thread \in Loops \cup {None}
  /\ session \in {"none", "STARTING", "ACTIVE", "STOPPING"}
  /\ trajectory \in {"HOLD_READY", "RUNNING", "BRAKING", "FAULT"}
  /\ motionEpoch \in Epochs /\ stopEvent \in BOOLEAN /\ resume \in Epochs \cup {None}
  /\ mark \in [Marks -> [at : {"none", "spawned", "checked"}, epoch : Epochs]]
  /\ leader \in BOOLEAN /\ opened \in 0..MaxEpoch
  /\ fenced \in BOOLEAN /\ straddled \in BOOLEAN

\* "Supervisor and Transport Owner epoch diverged" (_set_authority) cannot be
\* raised: the transport is one epoch ahead exactly while a promotion is under
\* way, whichever threads hand over, fault and start at the same time.
EpochsAgree == txEpoch = IF promoted = None THEN auth.epoch ELSE auth.epoch + 1

\* The checks of _dispatch_cpv that the servo's target in the mailbox must
\* pass: epoch, exclusivity and the guard of publish_servo_position.
Admitted == box # None /\ box = txEpoch /\ exclusive = None /\ AllowsServo(box)

\* After a handoff, FREEDRIVE, fault or failed start has taken the arm away,
\* no servo target is admitted until a new session is prepared, unless the
\* ownership change fell between somebody's check and assignment; and an arm in
\* FREEDRIVE is never the servo's to write, with the same proviso.
FenceHolds ==
  ~straddled => /\ fenced => ~Admitted
                /\ leader => auth.writer # "SERVO"

\* An exclusive transition is somebody's: whoever opened it still runs and
\* will close it, so the transport is never left refusing everybody.
ExclusiveOwned ==
  exclusive # None =>
    \E o \in Operators : /\ handoff = o /\ op[o].epoch = txEpoch
                         /\ op[o].at \in {"transition", "abandoned", "aborted", "calling"}

\* _handoff_lock is always given back: by a handoff that gives up, is refused
\* or raises, by a start that fails, and by a fault in the middle of either.
HandoffReleased == handoff # None ~> handoff = None

\* Each stop, handoff or FREEDRIVE returns, whatever the servo thread does.
OperatorReturns == \A o \in Operators : op[o].at # "idle" ~> op[o].at = "idle"

\* The join timeouts and the order of the locks keep everybody moving.
NobodyStuck == HandoffReleased /\ OperatorReturns

=============================================================================
