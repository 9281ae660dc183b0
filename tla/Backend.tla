------------------------------ MODULE Backend ------------------------------
\* What the robot backend believes of the controller, and what the controller is in
\* (nero_backend/robot.py, osc_impedance.py). Methods run one at a time on the transport owner's
\* thread; only request_preempt comes from other threads. A frame to the controller may be lost, and
\* a confirmation may come too late. The gripper, configuration and the data of a target are left out.
EXTENDS Naturals

CONSTANTS
  Attempts,   \* emergency_recovery_attempts
  Lossy,      \* frames to the controller may be lost
  Emergency,  \* the electronic emergency stop is allowed
  Starts      \* what the controller may be in when the service starts

Roles == {"follower", "leader", "drag"}
Motions == {"other", "cpv", "mit"}
Arms == [role : Roles, motion : Motions, enabled : BOOLEAN, latch : BOOLEAN]

\* connect() never reads the motion mode, so a controller found in MIT is left out.
BackendAssumption ==
  /\ Attempts \in Nat \ {0} /\ {Lossy, Emergency} \subseteq BOOLEAN
  /\ Starts \subseteq {a \in Arms : a.motion # "mit"} /\ Starts # {}

VARIABLES
  mode,       \* _control_mode
  via,        \* _freedrive_backend
  latched,    \* _emergency_latched
  cpv, mit,   \* _cpv_stream_started, and `active' of the MIT adapter
  auto, kept, \* the SDK sets motion modes by itself; what that was before the stream
  linked,     \* robot # None
  superseded, \* the preemption epoch moved since the transition began
  op,         \* the method that runs: name, place, mode or setting before, attempts left
  arm         \* the controller

vars == <<mode, via, latched, cpv, mit, auto, kept, linked, superseded, op, arm>>

Idle == [m |-> "none", pc |-> "idle", prev |-> "none", left |-> 0]
Runs(m, pc) == [Idle EXCEPT !.m = m, !.pc = pc]
At(m, pc) == op.m = m /\ op.pc = pc
Goto(pc) == op' = [op EXCEPT !.pc = pc]
Ready == op = Idle
Return == op' = Idle

\* A frame that sets something of the controller, or is lost.
Told(new) == arm' \in IF Lossy THEN {arm, new} ELSE {new}
Enabled(a) == [a EXCEPT !.enabled = TRUE]

Init ==
  /\ mode = "DISCONNECTED" /\ via = "none" /\ latched = FALSE /\ cpv = FALSE /\ mit = FALSE
  /\ auto = "on" /\ kept = "none" /\ linked = FALSE /\ superseded = FALSE
  /\ op = Runs("connect", "connect") /\ arm \in Starts

\* What connecting makes of the controller it finds; Leader feedback is taken to be seen if there is
\* some. Without fresh feedback, or with an error in the status, it is a fault.
Connected(a) ==
  \/ /\ a.role # "follower" /\ mode' = "FREEDRIVE" /\ via' = a.role /\ UNCHANGED latched
  \/ /\ a.role = "follower" /\ UNCHANGED via
     /\ \/ a.latch /\ mode' = "EMERGENCY_DAMPING" /\ latched' = TRUE
        \/ ~a.latch /\ mode' = "HOLD" /\ latched' = FALSE
        \/ mode' = "FAULT" /\ UNCHANGED latched

\* connect, when the service starts.
Connect ==
  /\ At("connect", "connect") /\ Connected(arm) /\ linked' = TRUE /\ auto' = "on" /\ Return
  /\ UNCHANGED <<cpv, mit, kept, superseded, arm>>

\* request_preempt, by another thread.
Preempt ==
  /\ op.m \in {"hold", "freedrive"} /\ superseded' = TRUE
  /\ UNCHANGED <<mode, via, latched, cpv, mit, auto, kept, linked, op, arm>>

\* ------------------------------------------------------------ MIT exit
\* Leaving MIT: ask for CPV as the motion mode, see it confirmed, hold the measured position in it.
ExitAsk ==
  /\ op.pc = "exit" /\ Goto("confirm") /\ Told([arm EXCEPT !.motion = "cpv"])
  /\ UNCHANGED <<mode, via, latched, cpv, mit, auto, kept, linked, superseded>>

ExitDone ==
  /\ op.pc = "confirm" /\ arm.motion = "cpv"
  /\ mit' = FALSE /\ mode' = "HOLD" /\ auto' = kept /\ kept' = "none"
  /\ IF op.m = "disconnect" THEN Goto("drop") ELSE Return
  /\ UNCHANGED <<via, latched, cpv, linked, superseded, arm>>

\* No confirmation, no stable feedback, or no valid hold frame: `active' stays.
ExitFail ==
  /\ op.pc = "confirm" /\ mode' = "FAULT" /\ Return
  /\ UNCHANGED <<via, latched, cpv, mit, auto, kept, linked, superseded, arm>>

\* exit_impedance_mode of its own, and before a disconnection.
Exit ==
  /\ Ready /\ linked /\ mit /\ op' = Runs("exit", "exit")
  /\ UNCHANGED <<mode, via, latched, cpv, mit, auto, kept, linked, superseded, arm>>

Disconnect ==
  /\ Ready /\ linked /\ op' = Runs("disconnect", IF mit THEN "exit" ELSE "drop")
  /\ UNCHANGED <<mode, via, latched, cpv, mit, auto, kept, linked, superseded, arm>>

Drop ==
  /\ At("disconnect", "drop") /\ linked' = FALSE /\ mode' = "DISCONNECTED" /\ cpv' = FALSE
  /\ kept' = "none" /\ Return
  /\ UNCHANGED <<via, latched, mit, auto, superseded, arm>>

\* ------------------------------------------------------------ CPV
\* Seven position frames of the measured joints, and a wait until they stand still. Whatever comes of
\* it the SDK's setting is put back; only missing feedback stops it before the frames. With that
\* setting on the SDK asks for the mode itself.
Quiet ==
  /\ cpv' = FALSE /\ kept' = "none"
  /\ auto' = IF kept = "none" THEN auto ELSE kept
  /\ IF auto = "on" THEN Told([arm EXCEPT !.motion = "cpv"]) ELSE UNCHANGED arm

\* stop_cpv_for_mode_transition.
Stop ==
  /\ Ready /\ linked
  /\ IF mit THEN op' = Runs("stop", "exit") /\ UNCHANGED <<cpv, auto, kept, arm>>
     ELSE (cpv \/ mode = "OSC_CPV") /\ Quiet /\ UNCHANGED op
  /\ UNCHANGED <<mode, via, latched, mit, linked, superseded>>

\* send_cpv_position, from the servo or as the prime of a session; FREEDRIVE is left before. The
\* drives are enabled and the motion mode is asked for, without the SDK's help.
Send ==
  /\ Ready /\ linked /\ mode # "FREEDRIVE" /\ ~mit
  /\ \/ /\ cpv /\ mode' \in {"OSC_CPV", mode} /\ UNCHANGED <<auto, op, arm>>
     \/ /\ ~cpv /\ auto' = "off" /\ op' = [Runs("send", "mode") EXCEPT !.prev = auto]
        /\ Told([Enabled(arm) EXCEPT !.motion = "cpv"]) /\ UNCHANGED mode
  /\ UNCHANGED <<via, latched, cpv, mit, kept, linked, superseded>>

\* The mode is confirmed; the frames may still fail.
SendEntered ==
  /\ At("send", "mode") /\ arm.motion = "cpv"
  /\ cpv' = TRUE /\ kept' = op.prev /\ mode' \in {"OSC_CPV", mode} /\ Return
  /\ UNCHANGED <<via, latched, mit, auto, linked, superseded, arm>>

SendFail ==
  /\ At("send", "mode") /\ auto' = op.prev /\ Return
  /\ UNCHANGED <<mode, via, latched, cpv, mit, kept, linked, superseded, arm>>

\* ------------------------------------------------------------ MIT
\* prepare_impedance, by a caller that has seen no fault and has left FREEDRIVE: what may have
\* changed the controller is marked before it is asked.
Enter ==
  /\ Ready /\ linked /\ ~mit /\ ~cpv
  /\ mode \notin {"FREEDRIVE", "FAULT", "EMERGENCY_DAMPING"} /\ ~latched
  /\ kept' = auto /\ auto' = "off" /\ mit' = TRUE /\ op' = Runs("enter", "ask")
  /\ arm' = Enabled(arm)
  /\ UNCHANGED <<mode, via, latched, cpv, linked, superseded>>

\* The mode and the first batch go out; the guard may refuse before, between or after them.
EnterAsk ==
  /\ At("enter", "ask") /\ Told([arm EXCEPT !.motion = "mit"]) /\ Goto("sent")
  /\ UNCHANGED <<mode, via, latched, cpv, mit, auto, kept, linked, superseded>>

EnterDone ==
  /\ At("enter", "sent") /\ arm.motion = "mit" /\ mode' = "OSC_MIT" /\ Return
  /\ UNCHANGED <<via, latched, cpv, mit, auto, kept, linked, superseded, arm>>

EnterFail ==
  /\ op.m = "enter" /\ op.pc \in {"ask", "sent"} /\ Goto("exit")
  /\ UNCHANGED <<mode, via, latched, cpv, mit, auto, kept, linked, superseded, arm>>

\* ------------------------------------------------------------ hold
Failed == mode' = IF latched THEN "EMERGENCY_DAMPING" ELSE "FAULT"

\* hold_follower_without_position_target. It preempts whatever ran, and leaves MIT if that is active.
Hold ==
  /\ Ready /\ superseded' = FALSE
  /\ \/ /\ mit /\ op' = Runs("hold", "exit") /\ UNCHANGED mode
     \/ /\ ~mit /\ linked
        /\ IF mode = "EMERGENCY_DAMPING" \/ latched
           THEN Failed /\ UNCHANGED op
           ELSE mode' = "TRANSITIONING" /\ op' = [Runs("hold", "stream") EXCEPT !.prev = mode]
  /\ UNCHANGED <<via, latched, cpv, mit, auto, kept, linked, arm>>

HoldStream ==
  /\ At("hold", "stream") /\ Goto("role")
  /\ IF cpv \/ op.prev = "OSC_CPV" THEN Quiet ELSE UNCHANGED <<cpv, auto, kept, arm>>
  /\ UNCHANGED <<mode, via, latched, mit, linked, superseded>>

\* From FREEDRIVE the follower mode is asked for, after the end of drag teaching.
HoldRole ==
  /\ At("hold", "role") /\ Goto(IF op.prev = "FREEDRIVE" /\ via = "drag" THEN "drag" ELSE "stable")
  /\ IF op.prev = "FREEDRIVE" THEN Told([arm EXCEPT !.role = "follower"]) ELSE UNCHANGED arm
  /\ UNCHANGED <<mode, via, latched, cpv, mit, auto, kept, linked, superseded>>

\* Only the end of drag teaching is confirmed.
HoldDrag ==
  /\ At("hold", "drag") /\ arm.role # "drag" /\ Goto("stable")
  /\ UNCHANGED <<mode, via, latched, cpv, mit, auto, kept, linked, superseded, arm>>

\* The drives are enabled, the joints stand still, and nobody has preempted the transition.
HoldDone ==
  /\ At("hold", "stable") /\ ~superseded
  /\ arm' = Enabled(arm) /\ mode' = "HOLD" /\ cpv' = FALSE /\ via' = "none" /\ Return
  /\ UNCHANGED <<latched, mit, auto, kept, linked, superseded>>

HoldFail ==
  /\ op.m = "hold" /\ op.pc \in {"stream", "role", "drag", "stable"} /\ Failed /\ Return
  /\ UNCHANGED <<via, latched, cpv, mit, auto, kept, linked, superseded, arm>>

\* ------------------------------------------------------------ FREEDRIVE
\* enter_freedrive, after its caller has stopped the stream. It has nothing to do if the Leader's
\* feedback comes in; a latched emergency needs the request to recover from it.
Freedrive ==
  /\ Ready /\ linked /\ ~cpv /\ ~mit /\ superseded' = FALSE
  /\ \/ mode = "FREEDRIVE" /\ arm.role = "leader" /\ UNCHANGED <<mode, op>>
     \/ latched /\ Failed /\ UNCHANGED op
     \/ /\ mode' = "TRANSITIONING"
        /\ op' = IF latched THEN [Runs("freedrive", "reset") EXCEPT !.left = Attempts]
                 ELSE Runs("freedrive", "leader")
  /\ UNCHANGED <<via, latched, cpv, mit, auto, kept, linked, arm>>

FreedriveAsk ==
  /\ At("freedrive", "leader") /\ Goto("feedback")
  /\ Told([Enabled(arm) EXCEPT !.role = "leader"])
  /\ UNCHANGED <<mode, via, latched, cpv, mit, auto, kept, linked, superseded>>

\* Mutant: the Leader mode is taken for granted.
FreedriveDoneBlind ==
  /\ op.m = "freedrive" /\ op.pc \in {"feedback", "sustained"} /\ via' = "leader" /\ Return
  /\ IF superseded THEN Failed /\ UNCHANGED latched ELSE mode' = "FREEDRIVE" /\ latched' = FALSE
  /\ UNCHANGED <<cpv, mit, auto, kept, linked, superseded, arm>>

\* Sustained Leader feedback is seen. A preemption meanwhile fails the transition all the same.
FreedriveDone ==
  /\ op.m = "freedrive" /\ op.pc \in {"feedback", "sustained"} /\ arm.role = "leader"
  /\ via' = "leader" /\ Return
  /\ IF superseded THEN Failed /\ UNCHANGED latched ELSE mode' = "FREEDRIVE" /\ latched' = FALSE
  /\ UNCHANGED <<cpv, mit, auto, kept, linked, superseded, arm>>

\* The drives cannot be enabled; or no feedback is seen, and the follower mode is asked for.
FreedriveFail ==
  /\ op.m = "freedrive" /\ op.pc \in {"leader", "feedback"} /\ Failed /\ Return
  /\ IF op.pc = "feedback" THEN Told([arm EXCEPT !.role = "follower"]) ELSE UNCHANGED arm
  /\ UNCHANGED <<via, latched, cpv, mit, auto, kept, linked, superseded>>

\* An attempt to recover from the emergency: reset the controller and connect again,
RecoverReset ==
  /\ At("freedrive", "reset") /\ linked
  /\ Told([arm EXCEPT !.role = "follower", !.motion = "other", !.enabled = FALSE, !.latch = FALSE])
  /\ \/ Connected(arm') /\ auto' = "on" /\ Goto("lead") /\ UNCHANGED linked
     \/ linked' = FALSE /\ UNCHANGED <<mode, via, latched, auto, op>>
  /\ UNCHANGED <<cpv, mit, kept, superseded>>

\* see that it is out of the emergency and ask for the Leader mode,
RecoverLead ==
  /\ At("freedrive", "lead") /\ ~arm.latch /\ arm.role # "drag"
  /\ Told([arm EXCEPT !.role = "leader"]) /\ Goto("enable")
  /\ UNCHANGED <<mode, via, latched, cpv, mit, auto, kept, linked, superseded>>

\* enable the drives.
RecoverEnable ==
  /\ At("freedrive", "enable") /\ arm' = Enabled(arm) /\ Goto("sustained")
  /\ UNCHANGED <<mode, via, latched, cpv, mit, auto, kept, linked, superseded>>

\* Any of this fails: another attempt, or none is left.
RecoverFail ==
  /\ op.m = "freedrive" /\ op.pc \in {"reset", "lead", "enable", "sustained"}
  /\ IF op.left > 1 THEN op' = [op EXCEPT !.left = @ - 1, !.pc = "reset"] /\ UNCHANGED mode
     ELSE Failed /\ Return
  /\ UNCHANGED <<via, latched, cpv, mit, auto, kept, linked, superseded, arm>>

\* ------------------------------------------------------------ emergency stop
EStop ==
  /\ Ready /\ Emergency
  /\ \/ /\ linked /\ Told([arm EXCEPT !.latch = TRUE])
        /\ mode' = "EMERGENCY_DAMPING" /\ latched' = TRUE
     \/ mode' = "FAULT" /\ latched' = FALSE /\ UNCHANGED arm
  /\ UNCHANGED <<via, cpv, mit, auto, kept, linked, superseded, op>>

Next ==
  \/ Connect \/ Preempt \/ ExitAsk \/ ExitDone \/ ExitFail \/ Exit \/ Disconnect \/ Drop
  \/ Stop \/ Send \/ SendEntered \/ SendFail \/ Enter \/ EnterAsk \/ EnterDone \/ EnterFail
  \/ Hold \/ HoldStream \/ HoldRole \/ HoldDrag \/ HoldDone \/ HoldFail
  \/ Freedrive \/ FreedriveAsk \/ FreedriveDone \/ FreedriveFail
  \/ RecoverReset \/ RecoverLead \/ RecoverEnable \/ RecoverFail \/ EStop

Spec == Init /\ [][Next]_vars

\* ------------------------------------------------------------ properties
\* The types of the state.
TypeOK ==
  /\ mode \in {"DISCONNECTED", "TRANSITIONING", "HOLD", "FREEDRIVE", "OSC_CPV", "OSC_MIT",
               "EMERGENCY_DAMPING", "FAULT"}
  /\ via \in {"none", "leader", "drag"} /\ auto \in {"on", "off"} /\ kept \in {"none", "on", "off"}
  /\ {latched, cpv, mit, linked, superseded} \subseteq BOOLEAN
  /\ arm \in Arms /\ op.left \in 0 .. Attempts

\* Between two methods a mode that gives somebody else the arm is the controller's too, whatever was
\* lost, late, preempted or failed: FREEDRIVE is not claimed of a follower, nor a stream of a
\* controller that is in another motion mode (robot.py:425-533, 964-1078, osc_impedance.py:72-112).
\* HOLD is not among them, see HoldIsFollower.
ModeIsTrue == Ready =>
  /\ mode = "FREEDRIVE" => arm.role # "follower"
  /\ mode = "OSC_MIT" => arm.motion = "mit" /\ mit
  /\ mode = "OSC_CPV" /\ cpv => arm.motion = "cpv"

\* Only one stream is open, the controller is not left in MIT by one that has given it up, and with
\* none open the SDK's own setting is as it was (robot.py:1015-1065, 1150-1171,
\* osc_impedance.py:72-112, 141-185).
StreamsReturned ==
  /\ ~(cpv /\ mit) /\ (arm.motion = "mit" => mit)
  /\ Ready /\ linked /\ ~cpv /\ ~mit => auto = "on"

\* FREEDRIVE is left for HOLD by the follower mode: `FREEDRIVE/Leader -> set_follower_mode() ->
\* conditional per-joint enable -> HOLD' (README.md:106, robot.py:378-407).
HoldIsFollower == Ready /\ mode = "HOLD" => arm.role = "follower"
=============================================================================
