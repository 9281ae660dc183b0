# A verification project for the NERO control console

The console drives a seven-joint arm from a PC: a browser, a Pico headset or a
policy sends TCP targets, an operational-space servo turns them into joint
targets fifty times a second, and one thread writes them to the vendor SDK.
Meanwhile the operator may hold the arm, put it into FREEDRIVE (Leader), or a
fault may. What can go wrong is hardly ever in one function: it is in the order
in which threads, processes and messages meet. The modules here model that
part: first the control path, then the components around it.

## 1. Inventory

Line numbers are those of the repository's files; paths are relative to its
root (`src/` of the map).

| Component | State | Operations | Hard behaviour |
|---|---|---|---|
| **Transport owner** `HardwareTxOwner`, `supervisor/authority.py` | priority queue, one-slot position mailbox with revisions and results, epoch, exclusive category, generation barriers | `call`, `publish_cpv`, `revoke_cpv_before_generation`, `advance_epoch`, `complete_epoch_transition`, `close`; the owner loop | any thread may revoke between a check and the SDK call; two work sources share one thread; result trimming; partially sent MIT batches |
| **Write authority** `ControlSupervisor`, `_set_authority` and its callers, `supervisor/control.py` | writer, servo mode, epoch; handoff lock; epoch lock | `prepare_osc_hardware`, `grant_osc_tracking`, `mark_osc_stopping`, `latch_osc_hold`, `trigger_safety_fault`, `handoff_to_console`, `freedrive` | check-then-act over two locks; the epoch lives twice; joins under a lock; timed-out workers; failed calls |
| **OSC servo** `_OperationalSpaceServo`, `motion/osc.py` | session, trajectory state, target mailbox, fast admission snapshot, generation, motion epoch | `start_session`, `stop_session`, `submit_absolute_target`, `publish_target_nonblocking`, holds, heartbeat; the 50 Hz loop | lock-free admission against a snapshot; the final braking batch; resume after hold; two loops after a timed-out join |
| **Leases, jobs, watchdog** `supervisor/control.py` | lease and expiry, job table, active action | `acquire`, `renew`, `release`, `submit_action_job`, `_watchdog_loop` | expiry against renewal, time-out against completion, the watchdog's own failure |
| **Output switch, impedance output** `motion/osc.py`, `supervisor/control.py`, `nero_backend/osc_impedance.py` | selected output, impedance output, two locks | `select_output_mode`, `prepare_osc_impedance`, `exit_osc_impedance` | leaving MIT without the handoff lock; lock order; an exit that fails |
| **Robot backend** `nero_backend/robot.py` | control mode, latched emergency, CPV and MIT streams, the SDK's automatic mode setting | connect, enable, hold, FREEDRIVE, recover, emergency stop, CPV and MIT entry, frames and exit | what it believes against what the controller is in; lost frames, late confirmations, preemption |
| **Kinematics** `motion/osc.py`, `motion/osc_kinematics_server.py` | process, outstanding request, last reply, epoch and generation | ask, take, discard, close, start; two threads per process | late replies; threads of the last process |
| **Backend proxy** `scripts/nero_control_server.py` | request numbers and a pipe per channel | call, serve, end | answers left behind by a call that gave up |
| **Service life** `nero_control_server.py`, `nero_control_watchdog.py`, `nero_control_service_restart.py`, `instance_lock.py` | lock file, ports, processes | start, close, reset by service or watchdog, helper | two starts, overlapping resets, a stale lock, orphans |
| **Pico teleoperation** `supervisor/pico_adapter.py` and the gateway in the server | connections, queue of Grip edges, latest frame, anchor | frames, press, release, loss, session replacement | edges and poses travel separately; a reconnect; a failed HOLD |
| **Policy runs** `supervisor/pi05_adapter.py`, `inference_rtc.py` | run revision, run object, control stop, row and HOLD locks, gripper job; the timeline | start, stop, fail, reject, commit, splice, complete | HOLD against a command on its way; two records of the last HOLD; answers that come late |
| **Policy connection** `pi05_adapter.py`, `inference_preview.py` | client, generation, connection revision, preview worker | connect, infer, configure, close | handshakes and joins that outlast a switch |
| **CPV profile** `control.py`, `hardware_maintenance.py`, `robot.py` | profile of every motor, profile set since the start, saved profile | requests for the whole profile, acceleration, speed or limits; start; session entry | sequential writes that fail half-way, failed read-backs and saves, a firmware that puts its default back |
| **Observations** `inference_feedback.py`, `inference_gripper_feedback.py`, `pi05_adapter.py`, `inference_rtc.py` | feed of measured poses, cache of the gripper, snapshot of the session | feed, state loop, gripper read, assembling | three paces, sessions that end meanwhile, a wall clock that is set |
| **Recorders** `tcp_vla_dataset_recorder.py`, `camera_resource.py`, `osc_input_journal.py`, `inference_recording.py` | episode, bounded histories with cursors; event queue | start, drain, stop, finish, export | overrun between drains, late threads, two stops |
| Adapter runtime, HTTP routes, browser | construction, routing | | none of their own |
| Safety limits, governors, dynamics | one command | | floating point |

How they interact. HTTP threads, the gateway and the policy's threads call the
controller in the backend's process through `BackendProcessProxy`. The
controller changes ownership in `_set_authority`, which promotes the transport
first and the supervisor second. The servo loop asks the supervisor before it
plans and before it publishes, and passes a guard with every target, which the
owner thread evaluates again before the SDK call. A session start prepares the
hardware under the handoff lock, is granted tracking, and only then activates.
A handoff stops the session, opens an exclusive epoch, abandons what is left
and calls the robot. A fault comes from the loop itself and takes the same
lock. Adapters see of all this a session, a sequence number and a verdict;
recorders see the journal of inputs, the camera and the feedback.

What makes each part correct:

- transport: nothing is sent twice or out of order, every published revision
  gets one verdict, a revocation is missed by at most one write, an exclusive
  transition is alone, P0 and P2 both get through;
- authority: one epoch in both places, a servo that lost the arm stays out, an
  arm in FREEDRIVE is never the servo's, locks and exclusivity come back;
- servo: a target is applied at most once and in order, motion stops before a
  hold is reported, a hold survives targets published before it, one loop;
- leases: an expired lease leads to a hold, one job at a time, verdicts that
  are final once both of their writers are through;
- outputs: an output is changed only when nothing drives the arm through the
  old one, and its locks are taken in one order;
- backend: a mode that gives somebody the arm is the controller's mode, and a
  stream that ends gives the SDK back as it was;
- kinematics and proxy: an answer belongs to the question;
- service life: one service owns the hardware, a reset leaves one;
- teleoperation: motion belongs to one press of the Grip and ends with it;
- policy: HOLD has the last word on a run, a run starts alone, what was sent
  stands in the plan, what is published belongs to the configuration in force;
- CPV profile: a session runs with the profile that requests have promised, on
  every joint, and only what was on every joint is saved;
- observations: what the policy is shown is its own session's, measured, and as
  fresh as it says;
- recorders: a log that calls itself complete is, an accepted episode has what its
  producers took in, with the exceptions of section 5, and no file is closed under
  the threads of the episode that a `stop()` ends.

The hazards of `PROJECT.json` list these at their lines.

## 2. Modules

| Module | Models | Proved in |
|---|---|---|
| `LatestValue` | what the realtime stream promises: a channel of capacity one | `TxOwnerProofs` |
| `TxOwner` | `HardwareTxOwner` | `TxOwnerProofs` |
| `Authority` | supervisor, `_set_authority`, handoff, FREEDRIVE, start, stop, fault, marks | `AuthorityProofs` |
| `Servo` | `_OperationalSpaceServo` with the CPV output: targets, loop, holds, stop, fault | `ServoProofs` |
| `Lease` | the lease, the operator jobs, the watchdog and the P2 calls they make | `LeaseProofs` |
| `Output` | the switch between CPV and impedance against start, stop, handoff, FREEDRIVE and fault | `AdapterProofs` |
| `Backend` | the robot backend, its two streams, and the controller | `AdapterProofs` |
| `Kinematics` | solver process and client | `AdapterProofs` |
| `Rpc` | calls into the backend's process | `RpcProofs` |
| `Restart` | services, backends, lock, watchdog and reset helpers as processes | `RpcProofs` |
| `Pico` | gateway, dispatcher and adapter of the headset | `AdapterProofs` |
| `Policy` | runs of the policy adapter and their HOLD | `PolicyProofs` |
| `Timeline` | the plan inside one real-time run | `RpcProofs` |
| `Connection` | policy client and preview worker | `AdapterProofs` |
| `Profile` | the CPV profile from request to motor, memory and file | `RpcProofs` |
| `Feedback` | feed, gripper cache, snapshot and what is read from them | `AdapterProofs` |
| `RunCapture`, `Recorder` | the event log of a run; an episode | `RpcProofs` |
| `MCTxOwner`, `MCTxLive`, `MCAuthority`, `MCServo`, `MCLease`, `MCPolicy`, `MCBackend` | instances for TLC | |
| `MCAdapters` | instances of the components beside the control loop, side by side | `PartsProofs` |

**TxOwner.** One step is one critical section (`_epoch_lock`, the CPV condition
or the queue's mutex), or the start or the end of one SDK call. `advance_epoch`
is therefore two actions, `AdvanceEpoch` and `PurgeMailbox`, with `purge`
between them, and `call` is `CallBegin` and `CallEnqueue`. The owner thread has
a program counter `pc`: `high`, `cpv`, `any`, `cpv2` are the four places where
`_loop` looks for work, `entry` to `sdk` are `_dispatch_cpv`, `envelope` to
`backend` are `_dispatch_envelope` and `_execute`. An `execute_guard` is a free
Boolean: the guard belongs to `Authority`. A CPV batch is one write, a MIT batch
`Joints` writes. `stale`, `overtaken`, `served` and `broken` are history
variables that no action reads.

**Authority.** `auth` is the supervisor's state, `txEpoch` and `exclusive` the
transport's. `promoted` stands for `_authority_epoch_lock` between
`advance_epoch` and `transition`; `handoff` is the holder of `_handoff_lock`;
`resume` is set while `_resume_from_hold_locked` holds the servo's lock between
its check and its assignment. `grant_osc_tracking`, `mark_osc_stopping` and the
resume are two steps each because the code reads a snapshot first.
`handoff_to_console`, `freedrive` and `stop_session` are one program run by each
of `Operators`; waiting loops and joins may always time out. The servo loop is
reduced to what it reads, checks, publishes and latches. `Dispatch` empties the
transport's mailbox; `Admitted` is what the owner thread would decide about it.
`fenced` remembers whether the last ownership change took the arm from the
servo, `straddled` whether that change fell between someone's check and
assignment.

Left out of `Authority`: the impedance output (see `Output`), shadow sessions,
the watchdog (see `Lease`), and `begin_osc_stop` and `suspend_arm_writes`,
which have no callers. `start()` sets the authority once
before any of these threads exists.

**Servo.** `tick` is the loop: `tick.at` names the place between two critical
sections, the other fields are what the tick has read so far (`entry` from the
mailbox, `command` from the snapshot, `state` and `settled` from the input check,
`gen`, `track` and `gate_ok` from planning). `Input` and `Final` are the two long
critical sections of `_loop`, from the heartbeat check to the HOLD_READY return
and from the arrival check to the latch. Feedback age, heartbeat age, the
solver's answer, the final gate and arrival are free Booleans. `fast` and
`mailbox` are the second door; `submit_absolute_target` is only reached with
`move_tcp`, because `osc_command` sends `track_tcp` through the mailbox. The
transport appears as the newest publication (`batch`) until `_dispatch_cpv` has
decided about it (`verdict`, `failed`), the authority as `granted`, which is
lost at any time and not regained within a session. `moving` abstracts the
sender's reference velocity: a tracking batch may set it, a braking batch may or
may not clear it. `held` (a hold fell after the tick read its command) and
`blind` (the tick had none) are history and are read by `StrictHold` only. `stop_session` is
`StopBrakes`, `StopSignals`, `StopEnds`, since its wait and its join both time
out; two loops at once are `Authority`'s case, so `Activate` here waits for
`LoopExit`. Generations saturate at the bound except in `HardwareHold`, the only
place that compares them.

**Lease.** `at` is the place of each job thread and of the watchdog. `lease`
carries `live` in place of a clock: a lease, a job or a heartbeat may run out at
any moment, and a renewal sets `live` again. `job`, `run` and `active` are
`_jobs`, the locals of the thread's `run` function and `_active_action`; jobs
are numbered in the order of their submission. The verdict is `JobLooks` and
`JobWrites`, the mark `DogLooks` and `DogMarks`, because the watchdog writes the
status outside `_jobs_lock`; `Settled` says that neither of the two is between its
look and its write. `call` is the envelope an actor waits for: `current`
says that its epoch is the transport's, `superseded` that the robot's preempt
epoch has changed since the transition began, which is all that a comparison of
the two counters can tell. `Handoff` is `handoff_to_console` and `freedrive` for
a job and for the watchdog (a silent heartbeat); `TakesOver` to `RecoveryEnds`
is the recovery of a stale leader, which takes no `_handoff_lock`. The authority
changes inside a handoff are `Authority`'s; here they are an epoch (`Outdated`)
and an exclusive category. `seen` and `run.hit` are history. A job thread
publishes `_active_action` a few statements after its status; `Stalls` says that
it may lose its whole time-out, of a second at least, between the two, and every
run says it does not: with `Stalls` the watchdog could time a job out before the
thread has set `_active_action`, and a second job would start beside it.
Left out of `Lease`: gripper and emergency-damping jobs, handoffs that clients
request outside a job, `shutdown`, and the epochs of safety faults and stops.

**Output.** Four HTTP threads (`start`, `select`, `hand`, `stop`) and the servo
thread share the two locks that are held across hardware calls. What
`Authority` shows of the CPV output in detail is a step or two here, so that the
MIT entry and exit, which change the authority without the handoff lock, can
meet everything else. `arm` is what moves the arm; `fault` is a MIT exit that
was not confirmed. An exit whose output another thread has closed meanwhile
raises (`ExitOk`, `failed`).

**Backend.** One method runs at a time, on the owner thread; `op` is its place.
`arm` is the controller: its role, motion mode, drives and error latch. With
`Lossy`, every frame may be lost; a confirmation may always fail to come, or be
late. Only `Preempt` comes from outside. A batch of the streams is a step that
the guard or the SDK may refuse. The state a service finds when it starts is
`Starts`; a controller that is already in MIT is left out because `connect`
never reads the motion mode.

**Kinematics.** A request has a number `n` that the code does not have, so that
"the answer to this request" can be said; the code compares sample, epoch and
target generation. Each process has its own writer and reader, which may outlive
it. `Close` and `CloseDrain` are the two halves of a restart. Forward kinematics
is a call of its own with no name in its reply; `late` excuses it after one gave
up. `AskRestarts` is the restart inside `submit()`.

**Rpc.** One lock, one counter and one pipe pair per channel. A call that times
out leaves its request or answer in the pipe (`behind`). What the methods do is
the other modules' business. The process may end between any two steps.

**Restart.** A process is named by its number; a service is `create`, `read`,
`stale`, `write` (the steps of `InstanceLock.acquire`), `bind`, `serve`,
`closing`, `unlock`, `exit`; `tries` counts the locks it has removed, and at two it has
given up. A query of the process table answers with the table
or with nothing. Windows differs from POSIX in what the table shows, in
`SO_REUSEADDR` and in the removal of open files. `robbed` and `late` are history.

**Pico.** The hand is counted by Grip edges, an odd phase is a press; a pose is
the phase it was taken in. The gateway's thread puts edges into a queue of
`Depth` and keeps the newest frame; the dispatcher's worker takes edges before
frames. HOLD and target are calls of the OSC that may be refused. `disp.marred`
marks connections whose queue overflowed, whose session was replaced, or that
came before the last one was cleaned up; the properties exempt them and say so.
`ResetBegin` to `ResetMake` are the console's reset of the anchor, whose press is
not told apart (`ByConsole`). `excused` says of an arm that follows a target that
nobody is bound to stop it: its HOLD failed, a connection that is not received any
more or is marred sent the target, or the session was replaced, for which no HOLD
is asked (`Unheld`).

**Policy.** Threads have a place, the revision and the session they work with.
`row` is the lock around every command, `run` the real-time runs' objects, named
by the revision `start()` gave them, each with its HOLD lock in `hold`, because a
thread keeps the object of its run when `_rtc_run` (`current`) is another's
already. `card` is what `state` shows of the run, `ctl` is `control_stop`. `last`
remembers the last command of each run that the OSC has accepted. `start()` goes
by the capture to tell that the last run has exited; `bare` remembers that a run
was active without one, because its log did not open or because somebody late
closed it (section 5), and `NewRunAlone` is about histories without that.

**Timeline.** The clock counts half slots. A target is named by the inference it
comes from. `Bootstrap` compares the answer from HOLD with its freeze line (`seen`)
and chooses its first slot later, as the code reads its clock anew in between; what
the first request may call in time counts from the comparison. `Answer` is the splice with its refusals (`Refusal`), each with a name
in `failed`; `Commit`, the send and `Complete` are the executor's. An
observation is `tardy` if it was made later than due.

**Connection.** A client is its generation and the revision it was made under.
Handshake, inference and join are pairs of steps with anything in between.

**RunCapture, Recorder.** Events, inputs and frames are named by their place in
time. Histories are bounded, cursors are the code's, and every drain happens
under the producer's lock. In `Recorder` the camera may be activated again
(`mixed`), two preview loops may run, two `stop()` may meet. A `stop()` joins the
threads of the episode it found, stamps the end, and judges whatever episode it finds
when it has the lock again: the second of two may drain, commit and close the next
episode beside its threads (`torn`), which then go on, and serve the episode after
that as well. What such an episode or one that began with threads of an earlier one
holds is left open (`shared`). A final drain may fail with the files open, having read
nothing, all, or up to a row it could not write, and the request be repeated; the rows
it has passed over are `missed`. Once a file is closed, no retry can succeed.

**Profile.** `motor` is what the motors have, `running` and `defaults` what the
controller keeps for the next entry and the next start, `file` what is on disk.
`configure_cpv_profile` is `Snapshot`, then one `WriteNext` for each parameter of
each joint (`todo`), which includes the read-back and the single second write;
either may be lost. `Settle` is the firmware: it takes the CV of a joint back,
once after every connect or mode entry, between any two steps. `late` remembers
the joints it did that to since the last comparison, and `ProfileKept` exempts
their CV: the code only logs such a difference (`control.py:555-587`). A restart
keeps `file`. The gains, the ranges and the checks before a request are left out.

**Feedback.** The feed thread reads its context, refreshes, and stores in a step
of its own, after it has looked at the context again; the state thread fetches
the session in one step and publishes in another. A read of the observation
changes nothing modelled, so it is a condition (`Usable`) on the moment it
happens, which the property quantifies over. A frame of the gripper carries the
wall clock's stamp, when it really came and how far the clock was ahead then;
the last two are history. Joint samples and camera frames are free choices
within the age their readers accept.

## 3. Runs

| Run | Instance | Shows |
|---|---|---|
| `tx_safety` | two groups of behaviours. Stream: 3 revisions, 1 epoch change, 1 generation, both modes, 2 joints, trimming at 2/1. Queue: 2 calls of P0/P2, 2 CPV revisions, 1 epoch change, 1 category | types; pending results are held; at most one stale write per dispatch; no MIT after a failed batch; P0 and P1 see at most one CPV dispatch and P2 is not starved (`TurnsKept`); verdicts final; refinement of `LatestValue`; exclusive transitions are alone |
| `tx_live` | 2 calls, 1 revision of either mode, 1 epoch change, close | every queued call and every revision is decided |
| `authority_safety` | 2 operators, 2 loops, 1 mark, 4 epochs | one epoch in both places; the fence and FREEDRIVE; exclusivity has an owner |
| `authority_live` | 1 operator, 1 loop, 4 epochs | locks are returned, requests end |
| `servo_safety` | 2 sessions, 2 sequences, 2 generations, both modes | holds revoke what the tick has taken up; HOLD_READY is quiet; the two doors agree; FAULT is latched but for a hardware hold; a brake ends |
| `servo_admission` | 1 session, 1 sequence | **violation**: after a shadow HOLD the mailbox stays shut |
| `lease_check` | 1 client, 1 lease, 2 jobs (FREEDRIVE, recovery), watchdog | one action at a time; a takeover leaves no lease from before it; a verdict is final once both writers are through, and a transition preempted while it changed the mode is not reported completed; jobs end and expired leases are collected |
| `lease_hold` | 1 client, 2 leases, 1 FREEDRIVE job, watchdog | **violation**: a revoked HOLD ends the watchdog, the next expired lease is never collected |
| `policy` | 1 request thread, both modes, shadow and hardware sessions, 3 revisions, 1 session, all worker threads | a run starts alone; a run that ended is held or reported; HOLD has the last word |
| `policy_stop` | the same with chunks, hardware, 2 revisions | **violation**: a stop in the middle of a gripper fault leaves a target standing |
| `adapters` | nineteen small instances side by side, below | one or two properties per component, below |
| `backend_hold` | `Backend` without losses or emergency, any start but MIT | **violation**: HOLD is reported of an arm in Leader |

The instances of `adapters`. `part` says which component a behaviour runs, and
all of them keep their variables in the same slots, so the states add up and do
not multiply:

| `part` | Instance | Properties |
|---|---|---|
| `timeline` | 6 rows, delay 1, execute 2, bridge 0 or 1, 14 half slots | `PlanContinues` |
| `connection` | 2 modes, 2 endpoints, 2 runs, 3 clients | `InForce` |
| `headset` | 1 connection (any number in the proof), queue of 2, 3 edges, 4 frames, 2 sessions | `SamePress`, `DeadMan` |
| `log` | 2 emitters (one is the sampler), queue of 2, 4 events | `RecordsComplete` |
| `film`, `inputs`, `twice` | 3 frames; 2 inputs and 2 stoppers; 2 stoppers and 2 episodes; histories of 1 | `RecordsComplete`, `ClosedWhenIdle` |
| `resets`, `byhand`, `posix` | 3 services and 2 helpers; 3 services, 1 helper, 1 start by hand; 2 services on POSIX | `OneOwner`, `ResetLeavesOne` |
| `pipe`, `pipes` | 3 calls on one channel; 2 calls on two | `AnswersMatch` |
| `arm` | 2 attempts, losses, emergency, any start but MIT | `ArmAsReported` |
| `solver` | 2 processes, 2 requests, 2 generations, 1 epoch | `AnswersMatch` |
| `switch`, `takeover` | start, select and handoff; start, select and stop; 3 epochs | `SwitchIsSafe` |
| `cpv` | 2 joints, 1 value, 2 requests or entries, 2 starts | `ProfileKept` |
| `poses`, `widths` | both modes, 2 sessions, 1 tick; hardware, 1 session, 2 ticks, the clock set ahead by 2 | `ObservationIsOwn` |

Why the bounds are enough. In `TxOwner` three revisions let one be on the bus,
one wait and one supersede it; one epoch change is enough to separate old from
new, since only equality of epochs is compared; two joints are a batch with an
inside; two calls are one that waits and one that overtakes. The two groups of
`tx_safety` only take away what the threads around the owner do. The proofs do
not depend on these numbers. In `Authority` four epochs are a start (two, one of
them reserved for its revocation), a fault and a handoff, or a FREEDRIVE
followed by a start that leaves it; two loops are needed for an old thread to
survive a timed-out join, two operators for a plain stop to race with a
handoff. A further mark thread than `Marks` is simply never scheduled.
In `Servo` two sequences
let one target be in the loop's hand and a newer one in the mailbox, two
generations are a target and the hold that revokes it, or a hold repeated while
it brakes, and a second session meets what the first one left behind.
In `Lease` two jobs are the one that is timed out and the next one, which its
late preemption may hit; the watchdog's own handoff is the rival for
`_handoff_lock`. The kind `hold` differs from `freedrive` in its category only,
and the watchdog's handoffs are of that kind. One lease can expire once; the
second lease of `lease_hold` is the one a dead watchdog leaves lying.
In `Policy` three revisions are a run, its end and the next run, while a
rejection may take one more; one HTTP thread makes requests one after the other,
against all the threads of the runs. What two concurrent requests add is section
5's for `RestIsHeld`, and proved for the other two properties.
In `Timeline` fourteen half slots let a second
answer be spliced onto the first and the plan run out; the horizons satisfy `Fits`: what
is left of the plan when the next inference is due outlasts the delay and the age of its
observation. For others `PlanContinues` asks nothing (section 5). In `Connection` two
endpoints are the old and the new, three clients one more than endpoints. In
`Pico` three edges are a press, a release and the next press; the queue of two
can overflow. In the recorders a history of one overruns at the second entry, a
queue of two fills at the third event. In `Restart` three services are the old
one and one per helper; four helpers add a case that `ResetLeavesOne` exempts (section 5,
Service life), and the proofs are for every number of them. Three calls are one that gave up, the one that finds its
answer, and the one after it. Two solvers are the old session's and the new
one's. In `Output` three epochs are a prepare, an exit and a handoff. In `Profile`
two joints are one that was written and one that was not; two operations are a
request and the entry after it, and two starts a save and the restore. In
`Feedback` two sessions are the one a pose was measured in and the one it must
not be shown in; two ticks make a gripper's frame (limit 1) stale.

Deadlock is not checked where the bounds on calls, epochs, frames and processes
let the model stop; `tx_safety`, `policy` and `policy_stop` check it.

Fairness. `tx_live` assumes that the owner thread, a thread inside
`advance_epoch` and one inside `call` keep running: they hold no lock while
they wait for each other. An SDK call is assumed to return, which the vendor
does not promise; the code itself can only schedule a reset then.
`authority_live` assumes that calls of the transport return (`tx_live`) and that
a thread waiting for one of the short locks (`_authority_epoch_lock`, the
servo's lock) eventually gets it; both are held for a few statements without
blocking. No user action, fault or resume is fair.
For `BrakeEnds`, `servo_safety` assumes that the loop and the owner thread run and that a stop
that began goes on. Strong fairness of a braking batch that brings the reference
to rest stands for arithmetic: each one that is sent takes a fixed amount off the
velocity (`CpvReference.prepare`), so only finitely many are needed.
The runs of `Lease` assume that the owner thread, the watchdog and the thread of
the job under way run; that job threads are one actor here is `SingleFlight`.
Taking `_handoff_lock` is strongly fair: the only rival is the watchdog, which
sleeps 0.1 s between its rounds. No client, expiry, heartbeat or time-out is.
The modules beside the control loop state safety only and assume no fairness.

## 4. Proofs

`TxOwnerProofs` proves, for every number of calls, revisions, epochs,
generations, joints and every trimming limit:

- `TypeCorrect`: the type invariant;
- `StreamCorrect`: the inductive invariant of the stream. Revisions in hand are
  ordered (sent, on the bus, waiting, published), the four counters plus what is
  held add up to the revisions published, and the results of held revisions
  read pending. The order is needed for the trimming: only then is the mailbox's
  revision among the newest, which trimming keeps;
- `PendingIsAlwaysHeld`: no waiter waits for a revision that was dropped;
- `OwnerImplementsChannel`: every step of the owner is a step of `LatestValue`
  or a stutter; and `StreamIsOrdered`: what the channel promises (in order, at most
  once, nothing unaccounted for) therefore holds of the owner's stream;
- `AtMostOneStaleWrite`: every write is preceded by a check of its own;
- `FailedMitStaysLatched` from `LatchInv`: past its check an entry belongs to the
  newest epoch in which a MIT batch failed or to a later one, so the one epoch
  the latch remembers is enough;
- `TurnsAreKept` from `TurnInv` and `UrgentInv`: how often a call was overtaken
  is bounded by how often the queue was served since, and the owner that has
  served the stream owes the queue a turn until it looks there;
- `VerdictsAreFinal` from `VerdictInv`: what is being dispatched has no verdict
  yet, though trimming may forget its entry;
- `TransitionsAreIsolated` from `IsolationInv`: a dispatch past its check belongs
  to the newest epoch in which anything has run, and a category that is not its
  own came with a later epoch.

`ServoProofs` proves, for every number of sessions, sequences and generations:

- `TypeCorrect`, group by group: the variables under `self.lock`, the mailbox
  and the snapshot, the tick, the transport;
- `HoldRevokes` from `HoldInv`: the generation a tick has read is never newer
  than the counter, so a hold, which increments the counter and makes it the
  barrier, leaves everything the tick may still publish below the barrier;
- `QuietAtRest` from `OwnerInv` and `QuietInv`: a tick that ends with no
  publication to wait for leaves none pending, a tick that may still publish
  does not do so in HOLD_READY, and a shadow tick never meets the authority;
- `FaultStays` from `OwnerInv` (the freeze that leaves FAULT comes after the
  revocation) and `HoldInv` (the other way raises the barrier);
- `DoorsMatch`, which is inductive with the types alone.

`AuthorityProofs` proves, for every number of operator threads, loops, marks,
sessions and epochs:

- `EpochsStayTogether` from `HandInv`, `PromotedInv` and `EpochInv`: who holds
  `_handoff_lock` and where that thread may be, that only that thread is between
  the two halves of `_set_authority`, and that nobody's epoch is ahead of the
  supervisor's but for the one being opened. The divergence `_set_authority`
  raises for is therefore unreachable;
- `TransitionsAreOwned` from `ExclusiveInv`: an exclusive category is the one of
  the operation that holds the lock, which will end it;
- `RevokedServoIsFenced` from `PermitInv`, `CleanInv` and `LeaderInv`: after a
  revocation that fell between nobody's check and assignment no permission to
  assign an old target is left; a servo that is given the arm back finds nothing
  of the new epoch; FREEDRIVE is left before that. The steps that assign on an
  old check are the ones that need `straddled` to be excluded.

The epochs are naturals there: that they stay below `MaxEpoch` is a bound of the
runs, and `Authority!TypeOK`, which names it, is not a theorem.

`LeaseProofs` proves, for every number of clients, jobs, leases and operators:

- `TypeCorrect` from `QueueInv` (the transport's queue holds each actor with an
  unanswered call once, and only the call at its head has begun), `WaitInv`
  (whoever has one waits for it), `StartInv`, `MarkInv` and `KindInv`;
- `OneJobActs` from `FlightInv`: from submission to its last line a job keeps the
  slot, also when it has been marked as timed out. The hypothesis `~Stalls` says
  that no thread needs its whole time-out between two lines before it has set
  `_active_action`; without it the watchdog frees the slot of a thread that then
  begins (section 2);
- `TakeoversRevoke` from `TakeoverInv`: the tokens a takeover has counted when it
  began are no more than there are, and from its revocation on none of them is
  the lease;
- `VerdictsAreKept` from `VerdictInv` and `CallInv`: before its verdict is written
  a job is neither completed nor failed, a thread that finds `timed_out` does not
  write, and a transition that was preempted after it had changed the mode has
  not come to a success. The theorem does not say that the verdict is the right
  one while the two writers race (section 5).

`PolicyProofs` proves, for every number of HTTP threads, requests and sessions, in
both modes, with a shadow or a hardware OSC, and whether or not logs open:

- `HoldHasTheLastWord`: no target of a run is accepted after its HOLD was confirmed
  or its authority found gone. `HeldInv` says why: a held run is over (its revision
  is passed, it is inactive, its session is not the OSC's, or its object is
  cancelled), and whoever still has a command of it in hand has it for another
  session than the one there is. The row lock makes this true when HOLD is
  confirmed (`RowInv`: who sends has it, so has who holds); the second look under
  the lock keeps it true, because it refuses a run that is over. The primer sends
  without the lock: its target is refused by the session instead, which a hardware
  HOLD ends (`SpeakInv` relates the sessions of a HOLD and of a primer, `PrimerInv`
  its time to the output);
- `RunsStartAlone` from `CaptureInv` (an active run has its capture, but for the
  moment before a finished real-time run is held), `AloneInv`, `StartInv` and
  `SendInv`: a `start()` that may still be accepted has seen no capture, and without
  a capture no thread of an earlier run is past its second look.

Both rest on `PlaceInv` (which thread may be where), `DateInv` (nobody is ahead of
the revision or the session there is; who works for the current run has its
session) and `CancelInv` (who stops a run has its object, and has cancelled it).

`RpcProofs` proves, for every set of channels and calls (`RpcAssumption`: "general"
is a channel, and 0 is nobody's number):

- `AnswersAreOwn`: a result belongs to the caller's own request, which was executed
  once, and a channel on which nobody has given up has no mismatch and no error of
  somebody else. The first half rests on `Numbered`, `Asked`, `Served`, `Answered`
  and `Once`: what is in the pipes carries the number of the call it is of, a number
  is used once in a channel, and a request leaves the pipe when it is executed. The
  second half needs the lock (`Holding`, `Orderly`: while nobody has given up, what
  is under way belongs to the holder) and the end of the process (`Farewell`: the
  failed start that an interrupted process reports is the last thing it says on the
  general channel, where nobody is served any more, so that the requests left there
  answer nobody);
- `TypeCorrect`.

It goes on with the components that need no more of a module than these do. About
`Restart`, on Windows and on POSIX, for every number of services, helpers and starts:

- `ServiceIsAlone` from `OwnerInv`. No service has a backend before it listens
  (`Starting`); whoever is past the lock, or lives with a backend, owns the lock
  (`Locked`), and gives it back only when the backend is gone (`Emptied`). Both
  exceptions of `OneOwner` are steps that break `Locked`, and no other step does;
- `ResetsEndInService` from `HopeInv`. Somebody is at work on a start, or a service is
  neither unborn nor dead (`Hopeful`): a start that gives way to a lock gives way to its
  living owner, who cannot be itself (`Owned`), and one that may not listen to the
  service that does (`Listening`); a service that is to end, and those that the watchdog
  is to kill, have a helper that has not come to its own start (`Leaving`, `Killing`).
  What is left is a start that has met two stale locks: the first form of
  `ResetLeavesOne` did not know it and is false with four helpers (section 5).

About `Profile`, for every number of joints, values, requests and starts,
`ProfilesAreKept` from `ProfileInv`. While a request writes, each parameter it asks for
is on the motor or still to do (`Writing`), and afterwards it is on all of them and kept
for the next entry (`Written`), but for a CV that the firmware has put back. The next
entry writes what was promised, unless a request that is about to promise something else
is under way (`Promises`), and what the request for the whole profile would take back is
as good as what it replaces (`Keeping`).

About `Recorder`, for every set of stoppers, bounds and number of episodes,
`FilesCloseLast` from `FilesInv`: no `stop()` waits for an episode that is still being
started (`Younger`), one that has joined its episode's threads leaves none of them
behind, and one that judges another episode than its own makes it `torn`, so that every
running thread has its own episode's files open or belongs to an episode that is `torn`
(`Attended`). The theorem says nothing of the latter, because the code does close their
files (section 5). About `RunCapture`, for every set of emitters and size of the
queue, `ExportsAreComplete` from `LogInv`: while nothing was lost and nothing failed, the
file, the event in the writer's hand and the queue are one row of numbers with the
sentinel behind it (`Row`), so that a writer that has seen the sentinel has written all.

About `Timeline`, for every horizon, delay, set of bridges and age of an observation that
`__post_init__` admits:

- `PlanStands`: what a slot has been sent is what the plan keeps for it, from `StandInv`;
- `PlanIsSpliced` from `PlanInv`, where `Fits`: the plan reaches without a gap from the
  slot that is next to a slot `e` that is at least `Spare` behind the one where the next
  inference is due (`Reaches`), the executor takes up no slot before it begins
  (`InTime`), and a request made in time puts its freeze line where the old plan, the
  new one and the guided rows all reach (`Meets`). `Fits` is what makes the last step
  true for every number of rows; TLC found the two inequalities necessary.

`AdapterProofs` has the components that take fewer steps to prove. About `Output`, for
every set of requests with "start" and "select" in it (`OutputAssumption`):

- `LocksNeverCross` from `Locked`, which says who holds which lock at which place of
  its code; two who waited for each other would each be where it has no lock;
- `SwitchesAreClean` from `Switching`: what a selection has stopped stays stopped.
  The session is kept away by the session lock, which a start needs as well, and the
  output object by `MitHasOutput`, since only a start makes it; that the arm is moved
  by nothing after the handoff is kept by the handoff lock, which a prime needs;
- `OutputTypeCorrect`.

About `Connection`, for every set of modes and number of switches, runs and clients,
`ConnectionInForce`: types and `InForce`, which is inductive with them and `Room` (a
client is made only below the bound). It is, because a switch drops the client and the
prediction in the step that counts the revision, and whoever publishes compares the
revision in the step that publishes.

About `Kinematics`, for every number of processes, requests, targets and epochs,
`AnswersAreAsked`, from `SolverInv`. The code compares a reply's sample, generation and
epoch, never the request itself; that this is enough is `Dated`: no request in a
mailbox, a pipe, a slot or a thread's hand is of a later generation than the client's,
nor of a later sample in its generation, so that a new question can have no answer on
its way (`AskKept`). A start of a session counts the samples from 0 again and is safe
only because it takes a new generation (`KnownLater`). A reply of forward kinematics
carries no identity at all: while no such call has given up, there is one request, of
the call that waits (`Waited`), in one place (`FkAlone`), so that taking it leaves none
behind (`AnsweredKept`).

About `Feedback`, for every age allowed, set of modes and clock jumps and number of
sessions, `ShownToThePolicy`: the key an observation is kept under is the one it was made
for (`ViewsMade`), although the feed reads it, makes the observation and stores it in three
steps; a key with a number has a mode (`KeysNumbered`); and while the wall clock stands as
it stood when a frame came, the moment its reader has counted for it is the moment it came
(`FramesAged`).

About `Backend`, for every number of attempts at an enable, with and without lost frames
and an emergency stop, and for every controller that `connect()` finds but one that
follows MIT commands (`BackendAssumption`: nothing in `connect()` reads the motion mode,
so a process that died in MIT leaves the next one not knowing), `ArmIsAsReported`:
`ModeIsTrue` and `StreamsReturned`. Neither is inductive: both speak of a backend at rest,
and what is true at rest is made by methods that run for several steps. `OneStream` says
that with a stream open the SDK's own setting is the one put aside (`kept`), and is the
SDK's again without one but for a target on its way into CPV; `MethodsRun` says which
methods go on with a stream and which without; `Claims` says what the mode promises of the
controller while a method runs (OSC_MIT of a stream that is being left, FREEDRIVE of a
role that only FREEDRIVE changes).

About `Pico`, for every set of connections, every queue of at least one edge and every
number of frames, presses and sessions, `GripIsDeadMan`: `SamePress` and `DeadMan`. A
connection whose queue never overflowed and that is the one received (`Clean`) is alone:
whoever else was there has left and its worker has ended (`GateAt`), which is what the
second of the two exceptions buys. Its edges are numbered without a gap and end with the
phase of the hand (`QueueAt`), so that the frame taken last and what is queued together
say where the hand is, although only the newest frame of each phase was kept. An anchor
and an arm that follows a target belong to the frame taken last or, while its worker has
an edge in hand, to the press before it (`PressAt`); a worker that has read the anchor
goes on with it whatever happens, so the anchor it has read is of the press of the frame
in its hand (`AnchorAt`). `DeadMan` also needs to know that a HOLD reaches the session in
which the arm moves: whoever is going to stop it, the connection or a request, finds the
adapter still bound to it (`Answered`). The first version of this invariant was not
inductive for good reasons: the model had left out `reset_anchor`, and a replaced
session asks for no HOLD (section 5).

`PartsProofs` carries these results, and those of `RpcProofs`, over to what the run
`adapters` checks: `OutputSwitchesSafely`, `PublishedIsInForce`, `CallersGetTheirs`,
`ShownIsItsOwn`, `ReportsAreTrue`, `AnchorsAreOfThePress`, `ReleaseStops`,
`OneServiceOwns`, `ResetsLeaveOne`, `SessionsKeepTheirProfile`, `FilesCloseWhenIdle` and
`PlansContinue` state `SwitchIsSafe`, `InForce`, `AnswersMatch`, `ObservationIsOwn`,
`ArmAsReported`, `SamePress`, `DeadMan`, `OneOwner`, `ResetLeavesOne`, `ProfileKept`,
`ClosedWhenIdle` and `PlanContinues` of `MCAdapters` for every value of its constants that satisfies
`BoundsAssumption`. A behaviour of one part is a behaviour of the component (`SwitchPart`
and the like); that the component of the run and the one of the proofs are the same under
two names is said by `SwitchSame` and the like.

None of these follows from the one-line property: each needs what a thread has
read to be related to what happened since.

Assumptions are the named ones of the modules, which TLC evaluates on each run.

Only model-checked: liveness; `BrakeEnds`; `RestIsHeld` of `Policy`, which holds
with one HTTP thread and not with two (section 5), so that a theorem for every number
of them would be false; `TypeOK` of `MCAdapters`, which puts the types of its parts side
by side; and `RecordsComplete`, whose half about the log of a run is
`ExportsAreComplete`, while its half about episodes compares two sequences that were
filtered and folded step by step, which needs induction over them.
Liveness under fairness and ENABLED are out of the prover's reach,
and so is what a recursive definition computes for every input.

## 5. Findings

- `servo_admission`: `_invalidate_motion` leaves BRAKING in the admission
  snapshot, and the loop's step to HOLD_READY does not publish it again. After a
  HOLD the mailbox rejects every `track_tcp`, until a `move_tcp` or a new
  session publishes the snapshot.
- `lease_hold`: the HOLD for an expired lease is an ordinary P2 call of the epoch
  it was made in, and the watchdog does not expect its `CommandRevoked`: the
  thread ends, and with it every later collection, mark and heartbeat check.
- `policy_stop`: a gripper fault takes the output away first and asks for the
  row lock later (`pi05_adapter.py:1272`). A `stop()` in between finds nothing
  active, sends no HOLD, and its new revision outdates the fault's own HOLD: the
  last target of the run is left standing.
- `backend_hold`: a transition that failed or was preempted leaves the mode
  FAULT; the next hold asks the mode whether the arm is in FREEDRIVE, skips
  `set_follower_mode()` and reports HOLD of a controller that is still in Leader
  (`robot.py:384`). The controller's guard against a cached FAULT
  (`control.py:2432`) does not exclude it: the cache may be stale, the HOLD for
  an expired lease does not pass it, and a hold may wait for `_handoff_lock`
  while the transition before it fails.

Seen while modelling, in the models and without a run of their own:

*Transport and authority.* `_execute` and `_dispatch_cpv` check the epoch,
release its lock and start the SDK call, so a write of the old epoch may begin
after `advance_epoch` (`authority.py:659`; the comment at 342-344 promises
more); `StaleBound` bounds the gap by one write. `mark_osc_stopping`,
`grant_osc_tracking` and `latch_osc_hold` assign SERVO in whatever epoch is
current (`control.py:828`); after a fault that is the SAFETY epoch, and the
frozen loop already carries it. `FenceHolds` shows that this gap is the only one.

*Servo.* `request_hardware_hold` sets BRAKING whatever the state was, and so
demotes a FAULT (`osc.py:1627`); `FaultLatched` shows that it is the only call
that does. A target that waits in the mailbox during a hardware hold is applied
after it (`HardwareHold` leaves `mailbox` alone). A brake that begins after a
tick has published and before its last critical section may take that tick's
sample for its final one (which is why `HoldIsQuiet` needs the wait for the
newest publication). A failed dispatch outlives its session (`failed`), because
`last_result` is the transport's. A tick that began without a command reads the
generation after a hold (`blind`).

*Leases.* `JobWrites` and `DogMarks` can overwrite each other's verdict, because
the one locks and the other does not: a job that has ended in time may be
reported timed_out, one that was marked may be reported completed. `VerdictFinal`
exempts exactly these two windows (`Settled`), and holds from their end on. The preemption of an overdue job (`DogBlames`) names
no job: it has no effect on a transition that is still queued, and may meet the
next job's. `leases.require` is called by `renew` alone, so no motion path asks
for a token, although `docs/ARCHITECTURE.md:80` calls one "necessary but not
sufficient to move". The HOLD for an expired lease changes no authority: a
session that is still active publishes again, and `robot.py:1015` takes the arm
back into CPV whatever the mode is.

*Output.* `exit_osc_impedance` during a handoff outdates the handoff's epoch, so
that its call is refused; after a FREEDRIVE it assigns SERVO/HOLDING with the
arm in Leader. A second `stop_session` closes an output that is gone
and raises. A MIT start whose failure handling raises leaves the session in
STARTING.

*Backend.* Leaving MIT sets HOLD or FAULT even while the emergency is latched;
a failing `e_stop` clears the latch; a CPV target is sent whatever the mode is;
an unconfirmed MIT exit keeps the adapter active, so that CPV cannot be primed;
follower mode is never confirmed, and recovery enables the drives without
looking at the role; a reconnect inside recovery may leave no robot at all.

*Kinematics.* A solver that dies during a session cannot be restarted by
`submit()`, which holds the lock that the reader of the new process needs
(`AskRestarts`): every call waits out its time and fails until the next session.
A writer takes a request before it looks whether its process is still in use,
and may swallow one of the new session. Forward kinematics replies carry no
name, so after one time-out the next call may get the late reply.

*Proxy.* After one time-out every later call on that channel finds the answer
before its own and fails, until the service is reset; a request that timed out
is executed nevertheless; errors are not compared with the request's number.

*Service life.* Windows admits a second listener on the port, and the helper
removes whatever lock it finds: after two overlapping resets two services may
run. A failed query leaves an orphaned backend. Ctrl-C during `initialize()`
leaves the backend unterminated (`late`), and so does a recorder that does not
stop, because `adapters.close()` then raises and neither the backend is
terminated nor the lock released (`CloseBackend`). Two starts that find a stale
lock may remove each other's fresh one (`robbed`). `acquire()` makes two attempts
(`instance_lock.py:22-48`): a start that meets two locks of services that have just been
killed ends although nobody holds the lock, and if it was the last of several resets no
service is left. TLC shows it with four helpers: two locks to meet, and one helper that counts
the start as alive and so ends without a start of its own (`failed`). `ResetLeavesOne`
exempts a start that has given up in this way (`tries` 2).

*Policy.* In real-time mode a HOLD that fails after a gripper fault leaves
HOLD_UNCONFIRMED, which `stop()` does not retry, so `start()` refuses for good
(`pi05_adapter.py:809`). `start()` accepts a run once no capture is open, so
whoever closes the capture of a run that is not his lets `start()` in while a row
of that run is in hand, against `inference_rtc.py:767` ("start() rejects until this
run has exited"): a `stop()` that comes to its last lines late
(`pi05_adapter.py:930`), a late rejection, the primer (899), the `finally` of a
chunked run (1531); a log that did not open does the same. That is `bare`. The
`finally` of a chunked run may also end a newer one, and so does a row that is
refused late: `_reject_chunk` is called without a revision (1514), ends whatever
run is active by now, and looks for the old run's session, so that `control_stop`
may say RELEASED of a run that nobody has held. Of two concurrent `stop()`, the
later one's outcome is shown without regard to its run (918-924): HOLD for an
earlier run then covers the HOLD_UNCONFIRMED of the newer one, and `RestIsHeld`,
which the runs check with one HTTP thread, is false with two: the earlier run fails
by itself, the worker's joins time out, a `stop()` waits for its HOLD lock, a new
run starts, fails and is not held, and only then the `stop()` reports.
With delay and execute horizon close to the action horizon no
answer can ever be spliced, (H, D, E) = (6, 2, 2) for one, although
`inference_rtc_timing.py:24-25` admits them (`inference_rtc.py:301`); `Fits` of
`Timeline` says which do leave room.
`_ensure_worker` may start a worker with a fresh stop event during `close()`.

*CPV profile.* A request for acceleration, speed or limits that fails after its
write keeps its value in `_cpv_running_profile` (`control.py:613`), and the next
session entry writes it to every joint; so does the whole profile when only
saving it fails. `Profile` promises nothing for such values.

*Observations.* A gripper frame that came before the wall clock was set and is
first read after it gets the wrong age (`inference_gripper_feedback.py:66`); if
that is between 0 and 150 ms it is taken for fresh, which `GripperIsFresh`
exempts.

*Teleoperation.* The gateway admits a new headset before `connection_lost` has
dropped the old anchor, so a Grip held across the reconnect starts motion
without a fresh press (README.md:73 of the repository asks for one). A HOLD that
raises on release is not repeated. The ninth edge drops the oldest. A session that
is replaced drops the anchor without a HOLD (`pico_adapter.py:386-415`), and a
connection that its request has detached is not the owner when it ends, so that
nobody asks for one: an arm that follows a target goes on to it (`Unheld`).
`reset_anchor` makes an anchor with the Grip released as well, and the next press
keeps it, since it makes one only where there is none (`pico_adapter.py:647`): the
arm then follows the way the hand went before the press (`ByConsole`).

*Recorders.* Frames and inputs that a final drain does not reach are missing
without a mark: those returned after it, and frames between the start and the
first snapshot. Dropped frames give no reason to reject. A camera that is
activated again starts its sequence anew (`mixed`). `_drain_inputs` moves the cursor to
a row before it writes it (`tcp_vla_dataset_recorder.py:324`, 329): a final drain that
fails there has passed the row, nothing counts that, and the repeated `stop()` accepts
the episode without it (`missed`); so it does when a repeated `stop()` ends later than
the first and the first has passed over inputs of the time between.
Two `stop()` calls may meet: both join the threads without the lock, the first ends the
episode, a new one starts, and the second reads `active` anew (672) and drains, commits
and closes the files of the new episode while its threads write them, although line 668
promises open files while a thread runs. It may accept that episode; the threads go on
without one, and with the next (`torn`, `shared`). `ClosedWhenIdle` and
`AcceptedComplete` exempt these episodes and no others; if the new one is not there yet,
the second `stop()` fails.

## 6. Plan

1. The half of `RecordsComplete` about episodes as a theorem: the drains would have to
   be stated as intervals of numbers in place of filtered sequences.
2. The life of `ServiceRuntime` and the adapter runtime (a construction that
   fails leaves a backend nobody may command), and `Servo` with two loops and
   with impedance ticks.
3. Fairness for `Policy` and `Recorder`: a stop that was asked for ends.

Not modelled, and why: control laws, reference governors, limits and parsing
are floating-point computations on one value, which TLC cannot evaluate;
telemetry, logging, the legacy recorder, the browser and the probes hold no
state that control reads; configuration, routes and the layout of records are
translation without state; the adapter runtime only constructs and routes;
`vendor/` is not this repository's code.
