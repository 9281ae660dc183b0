------------------------------- MODULE Policy -------------------------------
\* The policy adapter (src/supervisor/pi05_adapter.py, RtcRun of inference_rtc.py): HTTP requests
\* start and stop a model-driven run; a worker infers; an executor, a health thread, a gripper
\* worker, a feedback loop and a priming thread act beside it. They share the run revision, the
\* row lock around every TCP command, the run's HOLD lock, and two records of how the last run
\* was held: the run object and ctl. A run is named by the revision start() gave it; a thread
\* of a run keeps the run's object, also when another run has taken its place in _rtc_run.
\* The plan inside a real-time run is module Timeline; the worker's lifetime and the policy
\* connection are module Connection.
EXTENDS Naturals

CONSTANTS
  Http,          \* threads of the HTTP server
  Modes,         \* subset of {"rtc", "chunk"}: config.execution.mode
  OscModes,      \* subset of {"shadow", "hardware"}: execution mode of the OSC's sessions
  Captures,      \* outcomes of opening a run's capture: {TRUE}, or BOOLEAN if the disk may refuse
  MaxRev,        \* bound on the run revisions requests make (a rejection makes one more)
  MaxSession     \* bound on OSC sessions

Services == {"worker", "exec", "health", "grip", "observer", "prime"}
Threads == Http \cup Services
Free == "free"

ASSUME PolicyAssumption ==
  /\ Modes \subseteq {"rtc", "chunk"} /\ OscModes \subseteq {"shadow", "hardware"}
  /\ Captures \subseteq BOOLEAN /\ MaxRev \in Nat /\ MaxSession \in Nat \ {0}
  /\ Http \cap (Services \cup {Free}) = {}

VARIABLES
  mode,      \* execution mode of the configuration
  oscMode,   \* execution mode of the OSC's sessions
  session,   \* the OSC's current session, 0 if none
  opened,    \* sessions opened so far
  last,      \* history: the last command of each run the OSC accepted
  rev,       \* _run_revision
  enabled, priming,  \* state["execution_enabled"], state["priming"]
  owner,     \* state["session_id"]: session of the latest run
  capture,   \* _capture is not None
  ctl,       \* state["control_stop"]["state"]
  bare,      \* history: a run was without a capture while it was active
  current,   \* the run that is _rtc_run, 0 for None
  run,       \* the real-time runs' objects
  card,      \* state["rtc"]["state"]
  row,       \* owner of _row_lock
  hold,      \* owner of each run's _hold_lock
  job,       \* _gripper_job: the revision it was queued under, 0 if none
  pending,   \* _pending_gripper: its revision, 0 if none
  th         \* per thread: its place, the revision and the session it works with, where to return

kind == <<mode, oscMode>>
osc == <<session, opened, last>>
state == <<rev, enabled, priming, owner, capture, bare>>
rtc == <<current, run, card>>
locks == <<row, hold>>
grip == <<job, pending>>
vars == <<kind, osc, state, ctl, rtc, locks, grip, th>>

Unsettled == {"PENDING", "UNCONFIRMED"}
Runs == 0..MaxRev
NoRun == [session |-> 0, cancel |-> TRUE, finished |-> TRUE, confirmed |-> TRUE]

Active == enabled \/ priming
Live(e) == ~run[e].cancel /\ e = rev /\ Active
Cancels(e) == run' = [run EXCEPT ![e].cancel = TRUE]
\* The OSC takes a TCP target of run e while the session is the run's.
Track(e, s) == last' = IF session = s THEN [last EXCEPT ![e] = "track"] ELSE last
\* HOLD ends a hardware session, confirmed or not; a shadow session goes on.
OscHold == session' = IF oscMode = "hardware" THEN 0 ELSE session
Quiet(e) == [f \in DOMAIN last |-> IF f <= e THEN "held" ELSE last[f]]

Resting == {"idle", "loop"}
At(l) == [pc |-> l, ep |-> 0, at |-> 0, ret |-> "idle"]
Works(l, e, s) == [pc |-> l, ep |-> e, at |-> s, ret |-> "idle"]
\* A thread goes on at l, forgetting its locals where it rests; calls l, to return to back; or
\* enters l for revision e and session s, to return to back.
Goto(t, l) == th' = [th EXCEPT ![t] = IF l \in Resting THEN At(l) ELSE [@ EXCEPT !.pc = l]]
Enter(t, l, e, s, back) == th' = [th EXCEPT ![t] = [pc |-> l, ep |-> e, at |-> s, ret |-> back]]
Call(t, l, back) == Enter(t, l, th[t].ep, th[t].at, back)
\* The worker goes on at l, and thread t begins at m for the same run.
Spawn(l, t, m) ==
  th' = [th EXCEPT !["worker"] = [@ EXCEPT !.pc = l],
                   ![t] = Works(m, th["worker"].ep, th["worker"].at)]
In(t, places) == th[t].pc \in places

Init ==
  /\ mode \in Modes /\ oscMode \in OscModes /\ session = 1 /\ opened = 1
  /\ last = [e \in 1..MaxRev |-> "none"]
  /\ rev = 0 /\ enabled = FALSE /\ priming = FALSE /\ owner = 0 /\ capture = FALSE /\ bare = FALSE
  /\ ctl = "none" /\ current = 0 /\ run = [e \in Runs |-> NoRun] /\ card = "none"
  /\ row = Free /\ hold = [e \in Runs |-> Free]
  /\ job = 0 /\ pending = 0
  /\ th = [t \in Threads |-> At(IF t = "worker" THEN "loop" ELSE "idle")]

\* The OSC's session ends, which holds the arm, or another client's replaces it.
OscSession ==
  /\ \/ session # 0 /\ session' = 0 /\ UNCHANGED opened
     \/ opened < MaxSession /\ opened' = opened + 1 /\ session' = opened'
  /\ last' = Quiet(rev)
  /\ UNCHANGED <<kind, state, ctl, rtc, locks, grip, th>>

\* ------------------------------------------------------------ start()
\* Mutant: only the HOLD card is asked, not whether the last run is over and held.
StartCheckCardOnly(h) ==
  /\ In(h, {"idle"}) /\ ctl \notin Unsettled /\ ~capture /\ Enter(h, "read", rev, 0, "idle")
  /\ UNCHANGED <<kind, osc, state, ctl, rtc, locks, grip>>

\* The first checks, and the revision they were made under.
StartCheck(h) ==
  /\ In(h, {"idle"}) /\ ctl \notin Unsettled /\ run[current].finished /\ run[current].confirmed
  /\ ~capture /\ Enter(h, "read", rev, 0, "idle")
  /\ UNCHANGED <<kind, osc, state, ctl, rtc, locks, grip>>

\* The OSC's state is read outside the lock.
StartRead(h) ==
  /\ In(h, {"read"}) /\ Enter(h, "commit", th[h].ep, session, "idle")
  /\ UNCHANGED <<kind, osc, state, ctl, rtc, locks, grip>>

MayStart(h) == th[h].ep = rev /\ ctl \notin Unsettled /\ ~capture /\ th[h].at # 0

StartRefused(h) ==
  /\ In(h, {"commit"}) /\ ~MayStart(h) /\ Goto(h, "idle")
  /\ UNCHANGED <<kind, osc, state, ctl, rtc, locks, grip>>

\* The checks again, then the run exists. A hardware run of chunks is primed by a thread.
StartCommit(h) ==
  /\ In(h, {"commit"}) /\ MayStart(h) /\ rev < MaxRev
  /\ rev' = rev + 1 /\ owner' = th[h].at /\ job' = 0
  /\ capture' \in Captures /\ bare' = (bare \/ ~capture')
  /\ priming' = (mode = "rtc" \/ oscMode = "hardware") /\ enabled' = ~priming'
  /\ LET p == [th EXCEPT ![h] = At("idle")]
     IN th' = IF priming' /\ mode # "rtc" /\ In("prime", {"idle"})
              THEN [p EXCEPT !["prime"] = Works("prime", rev', owner')]
              ELSE p
  /\ UNCHANGED <<kind, osc, ctl, rtc, locks, pending>>

\* ------------------------------------------------------------ stop()
\* The run is revoked under the lock; a real-time run not yet held is stopped itself, first.
StopBegin(h) ==
  /\ In(h, {"idle"}) /\ rev < MaxRev
  /\ rev' = rev + 1 /\ enabled' = FALSE /\ priming' = FALSE /\ pending' = 0 /\ job' = 0
  /\ LET tail == IF Active THEN "tail" ELSE "retry"
     IN IF run[current].confirmed THEN Enter(h, tail, rev, owner, "idle")
                                  ELSE Enter(h, "cancel", current, owner, tail)
  /\ UNCHANGED <<kind, osc, owner, capture, bare, ctl, rtc, locks>>

StopCancel(h) ==
  /\ In(h, {"cancel"}) /\ Goto(h, "stop") /\ card' = "STOPPING" /\ Cancels(th[h].ep)
  /\ UNCHANGED <<kind, osc, state, ctl, current, locks, grip>>

\* The ordinary HOLD follows an active run, or retries an unsettled one; not in real-time mode
\* once a real-time run exists.
StopTail(h) ==
  /\ In(h, {"tail", "retry"})
  /\ IF (In(h, {"tail"}) \/ ctl \in Unsettled) /\ (current = 0 \/ mode # "rtc")
     THEN Call(h, "pend", "finish") ELSE Goto(h, "finish")
  /\ UNCHANGED <<kind, osc, state, ctl, rtc, locks, grip>>

\* By now the capture may be another run's.
StopFinish(h) ==
  /\ In(h, {"finish"}) /\ row = Free /\ capture' = FALSE /\ bare' = (bare \/ Active)
  /\ Enter(h, "stopped", 0, 0, "idle")
  /\ UNCHANGED <<kind, osc, rev, enabled, priming, owner, ctl, rtc, locks, grip>>

StopReturn(h) ==
  /\ In(h, {"stopped"}) /\ Goto(h, "idle")
  /\ UNCHANGED <<kind, osc, state, ctl, rtc, locks, grip>>

\* ------------------------------------------------------------ RtcRun.fail and RtcRun.stop
\* A run fails once; whoever fails it holds it.
FailEnter(t) ==
  /\ In(t, {"fail"})
  /\ IF run[th[t].ep].cancel
     THEN Goto(t, th[t].ret) /\ UNCHANGED run
     ELSE Goto(t, "failed") /\ Cancels(th[t].ep)
  /\ UNCHANGED <<kind, osc, state, ctl, current, card, locks, grip>>

\* Mutant: a failed run is reported, not held.
FailPublishOnly(t) ==
  /\ In(t, {"failed"}) /\ Goto(t, th[t].ret)
  /\ IF th[t].ep # rev THEN UNCHANGED <<enabled, priming, card>>
     ELSE enabled' = FALSE /\ priming' = FALSE /\ card' = "HOLD_PENDING"
  /\ UNCHANGED <<kind, osc, rev, owner, capture, bare, ctl, current, run, locks, grip>>

FailPublish(t) ==
  /\ In(t, {"failed"})
  /\ IF th[t].ep # rev
     THEN Goto(t, th[t].ret) /\ UNCHANGED <<enabled, priming, card>>
     ELSE /\ enabled' = FALSE /\ priming' = FALSE /\ card' = "HOLD_PENDING" /\ Goto(t, "stop")
  /\ UNCHANGED <<kind, osc, rev, owner, capture, bare, ctl, current, run, locks, grip>>

\* stop(): the HOLD lock, then the row lock, so that the command in flight settles first. fail()
\* publishes the outcome for its own revision only; an HTTP stop() always does, and raises.
Outcome(t, ok) ==
  /\ card' = IF t \notin Http /\ th[t].ep # rev THEN card
             ELSE IF ok THEN "HOLD" ELSE "HOLD_UNCONFIRMED"
  /\ Goto(t, IF t \in Http /\ ~ok THEN "idle" ELSE th[t].ret)

\* The run is known to be held, or to have lost its authority; the HOLD lock is released.
Confirms(t) ==
  /\ run' = [run EXCEPT ![th[t].ep].confirmed = TRUE] /\ last' = Quiet(th[t].ep)
  /\ hold' = [hold EXCEPT ![th[t].ep] = Free]

RunStop(t) ==
  /\ In(t, {"stop"}) /\ hold[th[t].ep] = Free
  /\ IF run[th[t].ep].confirmed
     THEN Outcome(t, TRUE) /\ UNCHANGED hold
     ELSE Goto(t, "stopRow") /\ hold' = [hold EXCEPT ![th[t].ep] = t] /\ UNCHANGED card
  /\ UNCHANGED <<kind, osc, state, ctl, current, run, row, grip>>

\* Mutant: HOLD is sent without waiting for the command that has the row lock.
RunStopRowAtOnce(t) ==
  /\ In(t, {"stopRow"})
  /\ IF session # run[th[t].ep].session
     THEN Confirms(t) /\ Outcome(t, TRUE) /\ UNCHANGED row
     ELSE row' = t /\ Goto(t, "stopHold") /\ UNCHANGED <<run, card, hold, last>>
  /\ UNCHANGED <<kind, session, opened, state, ctl, current, grip>>

\* Another session than the run's is not held: the run's authority is gone already.
RunStopRow(t) ==
  /\ In(t, {"stopRow"}) /\ row = Free
  /\ IF session # run[th[t].ep].session
     THEN Confirms(t) /\ Outcome(t, TRUE) /\ UNCHANGED row
     ELSE row' = t /\ Goto(t, "stopHold") /\ UNCHANGED <<run, card, hold, last>>
  /\ UNCHANGED <<kind, session, opened, state, ctl, current, grip>>

RunStopHold(t) ==
  /\ In(t, {"stopHold"}) /\ OscHold /\ row' = Free
  /\ \/ Confirms(t) /\ Outcome(t, TRUE)
     \/ /\ hold' = [hold EXCEPT ![th[t].ep] = Free] /\ Outcome(t, FALSE)
        /\ UNCHANGED <<run, last>>
  /\ UNCHANGED <<kind, opened, state, ctl, current, grip>>

\* ------------------------------------------------------------ _reject_chunk, _confirm_nonrtc_hold
\* The run is over, and its revision; a caller that names its revision may come too late. One
\* that does not may end a later run, in another session: the HOLD is then for its own run.
Reject(t) ==
  /\ In(t, {"reject", "rejectAny"})
  /\ IF In(t, {"reject"}) /\ th[t].ep # rev
     THEN Goto(t, th[t].ret) /\ UNCHANGED <<rev, enabled, priming, pending>>
     ELSE /\ rev' = rev + 1 /\ enabled' = FALSE /\ priming' = FALSE /\ pending' = 0
          /\ Enter(t, "pend", IF th[t].at = owner THEN rev ELSE th[t].ep, th[t].at, th[t].ret)
  /\ UNCHANGED <<kind, osc, owner, capture, bare, ctl, rtc, locks, job>>

HoldPending(t) ==
  /\ In(t, {"pend"}) /\ ctl' = "PENDING" /\ Goto(t, "holdRow")
  /\ UNCHANGED <<kind, osc, state, rtc, locks, grip>>

\* _reject_chunk closes the capture whatever became of the HOLD; stop() raises if it failed.
HoldOver(t, ok) ==
  /\ Goto(t, IF t \in Http /\ ~ok THEN "idle" ELSE th[t].ret)
  /\ capture' = (capture /\ t \in Http) /\ bare' = (bare \/ (Active /\ t \notin Http))

\* The row lock is re-entrant: the feedback loop already has it.
HoldRow(t) ==
  /\ In(t, {"holdRow"}) /\ row \in {Free, t}
  /\ IF session = th[t].at /\ session # 0
     THEN row' = t /\ Goto(t, "holdSent") /\ UNCHANGED <<ctl, last, capture, bare>>
     ELSE ctl' = "RELEASED" /\ last' = Quiet(th[t].ep) /\ HoldOver(t, TRUE) /\ UNCHANGED row
  /\ UNCHANGED <<kind, session, opened, rev, enabled, priming, owner, rtc, hold, grip>>

HoldSent(t) ==
  /\ In(t, {"holdSent"}) /\ OscHold
  /\ row' = IF th[t].ret = "unlock" THEN row ELSE Free
  /\ \/ ctl' = "HOLD" /\ last' = Quiet(th[t].ep) /\ HoldOver(t, TRUE)
     \/ ctl' = "UNCONFIRMED" /\ HoldOver(t, FALSE) /\ UNCHANGED last
  /\ UNCHANGED <<kind, opened, rev, enabled, priming, owner, rtc, hold, grip>>

\* ------------------------------------------------------------ the worker: a real-time run
\* run_adapter: the run object is published only if its revision is still the current one.
RtcPick ==
  /\ In("worker", {"loop"}) /\ mode = "rtc" /\ Active /\ current # rev
  /\ Enter("worker", "make", rev, owner, "idle")
  /\ UNCHANGED <<kind, osc, state, ctl, rtc, locks, grip>>

RtcMake ==
  /\ In("worker", {"make"})
  /\ IF th["worker"].ep # rev \/ ~Active
     THEN Goto("worker", "loop") /\ UNCHANGED rtc
     ELSE /\ current' = rev
          /\ run' = [run EXCEPT ![rev] = [session |-> th["worker"].at, cancel |-> FALSE,
                                           finished |-> FALSE, confirmed |-> FALSE]]
          /\ card' = "BOOTSTRAP" /\ Goto("worker", "boot")
  /\ UNCHANGED <<kind, osc, state, ctl, locks, grip>>

\* The first observation is there: the health thread starts.
RtcObserve ==
  /\ In("worker", {"boot"}) /\ Live(th["worker"].ep) /\ In("health", {"idle"})
  /\ Spawn("infer", "health", "beat")
  /\ UNCHANGED <<kind, osc, state, ctl, rtc, locks, grip>>

\* The bootstrap plan is accepted: output is enabled and the executor starts.
RtcEnable ==
  /\ In("worker", {"infer"}) /\ Live(th["worker"].ep) /\ In("exec", {"idle"})
  /\ enabled' = TRUE /\ priming' = FALSE /\ Spawn("plan", "exec", "wait")
  /\ UNCHANGED <<kind, osc, rev, owner, capture, bare, ctl, rtc, locks, grip>>

\* Observation, inference, the checks or the splice raise.
RtcError ==
  /\ In("worker", {"boot", "infer", "plan"}) /\ Call("worker", "fail", "exit")
  /\ UNCHANGED <<kind, osc, state, ctl, rtc, locks, grip>>

\* The run is not live any more, or has failed.
RtcExit ==
  /\ In("worker", {"boot", "infer", "plan", "exit"})
  /\ ~In("worker", {"exit"}) => ~Live(th["worker"].ep)
  /\ Cancels(th["worker"].ep) /\ Goto("worker", "joined")
  /\ UNCHANGED <<kind, osc, state, ctl, current, card, locks, grip>>

\* The two joins end, or time out with the threads still running.
RtcFinish ==
  /\ In("worker", {"joined"}) /\ Goto("worker", "loop")
  /\ LET e == th["worker"].ep
     IN run' = [run EXCEPT ![e].finished = TRUE] /\ capture' = (capture /\ e # rev)
  /\ UNCHANGED <<kind, osc, rev, enabled, priming, owner, bare, ctl, current, card, locks, grip>>

\* ------------------------------------------------------------ executor and health thread
ExecGone ==
  /\ In("exec", {"wait", "row", "sent"}) /\ ~Live(th["exec"].ep) /\ Goto("exec", "idle")
  /\ row' = IF row = "exec" THEN Free ELSE row
  /\ UNCHANGED <<kind, osc, state, ctl, rtc, hold, grip>>

ExecFail ==
  /\ Call("exec", "fail", "idle") /\ row' = IF row = "exec" THEN Free ELSE row
  /\ UNCHANGED <<kind, osc, state, ctl, rtc, hold, grip>>

\* A slot is missed or the queue is exhausted.
ExecError ==
  /\ In("exec", {"wait", "row", "sent"})
  /\ In("exec", {"wait"}) \/ Live(th["exec"].ep)
  /\ ExecFail

\* The target was refused.
ExecRefused == ExecFail /\ In("exec", {"refused"})

\* The executor has slept until its slot and takes the row lock.
ExecRow ==
  /\ In("exec", {"wait"}) /\ row = Free /\ row' = "exec" /\ Goto("exec", "row")
  /\ UNCHANGED <<kind, osc, state, ctl, rtc, hold, grip>>

\* live() under the row lock, then the command: the revision may change in between.
ExecLive ==
  /\ In("exec", {"row"}) /\ Live(th["exec"].ep) /\ Goto("exec", "send")
  /\ UNCHANGED <<kind, osc, state, ctl, rtc, locks, grip>>

ExecSend ==
  /\ In("exec", {"send"}) /\ Track(th["exec"].ep, th["exec"].at)
  /\ Goto("exec", IF session = th["exec"].at THEN "sent" ELSE "refused")
  /\ UNCHANGED <<kind, session, opened, state, ctl, rtc, locks, grip>>

\* A gripper target may follow: a physical one is queued, under whatever revision is current.
QueuesGripper == job' \in {job} \cup (IF oscMode = "hardware" THEN {rev} ELSE {})

ExecDone ==
  /\ In("exec", {"sent"}) /\ Live(th["exec"].ep) /\ QueuesGripper
  /\ row' = Free /\ Goto("exec", "wait")
  /\ UNCHANGED <<kind, osc, state, ctl, rtc, hold, pending>>

HealthStep ==
  /\ In("health", {"beat"})
  /\ \/ run[th["health"].ep].cancel /\ Goto("health", "idle")
     \/ Call("health", "fail", "idle")
  /\ UNCHANGED <<kind, osc, state, ctl, rtc, locks, grip>>

\* ------------------------------------------------------------ the worker: chunks
ChunkAsk ==
  /\ In("worker", {"loop"}) /\ mode = "chunk" /\ Active
  /\ Enter("worker", "asked", rev, owner, IF enabled THEN "rows" ELSE "loop")
  /\ UNCHANGED <<kind, osc, state, ctl, rtc, locks, grip>>

\* The answer is lost or obsolete, refused by its checks, or a chunk to execute.
ChunkAnswer ==
  /\ In("worker", {"asked"})
  /\ \/ Goto("worker", "loop")
     \/ /\ th["worker"].ep = rev
        /\ \/ Call("worker", "reject", "final")
           \/ Goto("worker", th["worker"].ret)
  /\ UNCHANGED <<kind, osc, state, ctl, rtc, locks, grip>>

ChunkLive == enabled /\ th["worker"].ep = rev

ChunkRow ==
  /\ In("worker", {"rows"})
  /\ IF ChunkLive THEN row = Free /\ row' = "worker" /\ Goto("worker", "row")
                  ELSE Goto("worker", "loop") /\ UNCHANGED row
  /\ UNCHANGED <<kind, osc, state, ctl, rtc, hold, grip>>

\* The second look, under the row lock.
ChunkCheck ==
  /\ In("worker", {"row"})
  /\ IF ChunkLive THEN Goto("worker", "send") /\ UNCHANGED row
                  ELSE Goto("worker", "loop") /\ row' = Free
  /\ UNCHANGED <<kind, osc, state, ctl, rtc, hold, grip>>

ChunkSend ==
  /\ In("worker", {"send"}) /\ Track(th["worker"].ep, th["worker"].at)
  /\ IF session = th["worker"].at THEN Goto("worker", "sent") /\ UNCHANGED row
                                  ELSE Goto("worker", "refused") /\ row' = Free
  /\ UNCHANGED <<kind, session, opened, state, ctl, rtc, hold, grip>>

\* The next row, or the next chunk.
ChunkDone ==
  /\ In("worker", {"sent"}) /\ row' = Free
  /\ IF ChunkLive THEN QueuesGripper ELSE UNCHANGED job
  /\ Goto("worker", "rows") \/ Goto("worker", "loop")
  /\ UNCHANGED <<kind, osc, state, ctl, rtc, hold, pending>>

\* A refused row rejects the chunk of whatever run is active by now.
ChunkRefused ==
  /\ In("worker", {"refused"})
  /\ IF enabled THEN Call("worker", "rejectAny", "loop") ELSE Goto("worker", "loop")
  /\ UNCHANGED <<kind, osc, state, ctl, rtc, locks, grip>>

\* The finally block of _run_normal closes the capture, then ends and holds whatever run is
\* active by then.
ChunkFinal ==
  /\ In("worker", {"final"}) /\ Goto("worker", "ended")
  /\ capture' = FALSE /\ bare' = (bare \/ Active)
  /\ UNCHANGED <<kind, osc, rev, enabled, priming, owner, ctl, rtc, locks, grip>>

ChunkEnded ==
  /\ In("worker", {"ended"}) /\ enabled' = FALSE /\ priming' = FALSE
  /\ IF Active THEN ctl' = "PENDING" /\ Enter("worker", "pend", rev, owner, "loop")
               ELSE Goto("worker", "loop") /\ UNCHANGED ctl
  /\ UNCHANGED <<kind, osc, rev, owner, capture, bare, rtc, locks, grip>>

\* ------------------------------------------------------------ priming, gripper and feedback
\* A hardware run of chunks starts with one zero-motion target, sent without the row lock.
PrimeReady ==
  /\ In("prime", {"prime"})
  /\ IF priming /\ th["prime"].ep = rev
     THEN Goto("prime", "send") \/ Goto("prime", "error") ELSE Goto("prime", "idle")
  /\ UNCHANGED <<kind, osc, state, ctl, rtc, locks, grip>>

PrimeSend ==
  /\ In("prime", {"send"}) /\ Track(th["prime"].ep, th["prime"].at)
  /\ Goto("prime", IF session = th["prime"].at THEN "settle" ELSE "error")
  /\ UNCHANGED <<kind, session, opened, state, ctl, rtc, locks, grip>>

\* Output is enabled, or the start is given up, if the run is still the one being primed.
PrimeDone ==
  /\ In("prime", {"settle", "error"})
  /\ LET mine == th["prime"].ep = rev
         ok == In("prime", {"settle"}) /\ mine /\ priming
         over == In("prime", {"error"}) /\ mine
     IN /\ enabled' = (ok \/ (enabled /\ ~over)) /\ priming' = (priming /\ ~ok /\ ~over)
        /\ Goto("prime", IF over THEN "close" ELSE "idle")
  /\ UNCHANGED <<kind, osc, rev, owner, capture, bare, ctl, rtc, locks, grip>>

PrimeClose ==
  /\ In("prime", {"close"}) /\ Goto("prime", "idle")
  /\ capture' = FALSE /\ bare' = (bare \/ Active)
  /\ UNCHANGED <<kind, osc, rev, enabled, priming, owner, ctl, rtc, locks, grip>>

GripTake ==
  /\ In("grip", {"idle"}) /\ job # 0 /\ job' = 0 /\ Enter("grip", "check", job, owner, "idle")
  /\ UNCHANGED <<kind, osc, state, ctl, rtc, locks, pending>>

GripCheck ==
  /\ In("grip", {"check"})
  /\ Goto("grip", IF th["grip"].ep = rev /\ enabled THEN "send" ELSE "idle")
  /\ UNCHANGED <<kind, osc, state, ctl, rtc, locks, grip>>

\* The call's outcome counts only while the run is live. A failure of a real-time run goes
\* through fail(), any other through _reject_chunk.
GripReturn ==
  /\ In("grip", {"send"})
  /\ IF th["grip"].ep # rev \/ ~enabled
     THEN Goto("grip", "idle") /\ UNCHANGED pending
     ELSE \/ pending' = rev /\ Goto("grip", "idle")
          \/ /\ Call("grip", IF mode = "rtc" /\ current = rev THEN "fail" ELSE "reject", "idle")
             /\ UNCHANGED pending
  /\ UNCHANGED <<kind, osc, state, ctl, rtc, locks, job>>

\* The gripper's feedback shows a fault: output stops at once, the HOLD follows. A target of
\* another run or session is forgotten.
GripFault ==
  /\ In("observer", {"idle"}) /\ pending # 0 /\ pending' = 0
  /\ IF enabled /\ pending = rev /\ session = owner
     THEN enabled' = FALSE /\ Enter("observer", "fault", rev, owner, "unlock")
     ELSE UNCHANGED <<enabled, th>>
  /\ UNCHANGED <<kind, osc, rev, priming, owner, capture, bare, ctl, rtc, locks, job>>

GripFaultRow ==
  /\ In("observer", {"fault"}) /\ row = Free
  /\ IF th["observer"].ep # rev
     THEN Goto("observer", "idle") /\ UNCHANGED row
     ELSE Goto("observer", "rejectAny") /\ row' = "observer"
  /\ UNCHANGED <<kind, osc, state, ctl, rtc, hold, grip>>

GripFaultEnd ==
  /\ In("observer", {"unlock"}) /\ row' = Free /\ Goto("observer", "idle")
  /\ UNCHANGED <<kind, osc, state, ctl, rtc, hold, grip>>

\* ------------------------------------------------------------ the specification
\* Nobody asks for anything more; a start() at the bound on revisions is cut off.
Rest ==
  /\ \A t \in Threads : In(t, Resting \cup {"commit"})
  /\ UNCHANGED vars

Request(h) == StartCheck(h) \/ StartRead(h) \/ StartRefused(h) \/ StartCommit(h) \/ StopBegin(h)
StopSteps(h) == StopCancel(h) \/ StopTail(h) \/ StopFinish(h) \/ StopReturn(h)
HoldSteps(t) ==
  \/ FailEnter(t) \/ FailPublish(t) \/ RunStop(t) \/ RunStopRow(t) \/ RunStopHold(t)
  \/ Reject(t) \/ HoldPending(t) \/ HoldRow(t) \/ HoldSent(t)
WorkerSteps ==
  \/ RtcPick \/ RtcMake \/ RtcObserve \/ RtcEnable \/ RtcExit \/ RtcFinish
  \/ ChunkAsk \/ ChunkAnswer \/ ChunkRow \/ ChunkCheck \/ ChunkSend \/ ChunkDone \/ ChunkRefused
  \/ ChunkFinal \/ ChunkEnded
ExecSteps == ExecGone \/ ExecRow \/ ExecLive \/ ExecSend \/ ExecDone \/ ExecRefused
SideSteps ==
  \/ GripTake \/ GripCheck \/ GripReturn \/ GripFaultRow \/ GripFaultEnd
  \/ PrimeReady \/ PrimeSend \/ PrimeDone \/ PrimeClose
Failures == RtcError \/ ExecError \/ HealthStep \/ GripFault
Progress ==
  \/ \E h \in Http : StopSteps(h)
  \/ \E t \in Threads : HoldSteps(t)
  \/ WorkerSteps \/ ExecSteps \/ SideSteps

Next == OscSession \/ Rest \/ Failures \/ (\E h \in Http : Request(h)) \/ Progress

Spec == Init /\ [][Next]_vars

\* ------------------------------------------------------------ properties
Places ==
  {"idle", "read", "commit", "cancel", "tail", "retry", "finish", "stopped", "fail", "failed",
   "stop", "stopRow", "stopHold", "reject", "rejectAny", "pend", "holdRow", "holdSent", "loop",
   "final", "ended", "make", "boot", "infer", "plan", "exit", "joined", "wait", "row", "send", "sent",
   "refused", "beat", "asked", "rows", "prime", "settle", "error", "close", "check", "fault", "unlock"}

\* The types of the state.
TypeOK ==
  /\ mode \in Modes /\ oscMode \in OscModes /\ session \in 0..MaxSession /\ opened \in 1..MaxSession
  /\ last \in [1..MaxRev -> {"none", "track", "held"}]
  /\ rev \in 0..(MaxRev + 2) /\ {enabled, priming, capture, bare} \subseteq BOOLEAN
  /\ owner \in 0..MaxSession
  /\ ctl \in Unsettled \cup {"none", "HOLD", "RELEASED"}
  /\ current \in Runs
  /\ run \in [Runs -> [session : 0..MaxSession, cancel : BOOLEAN, finished : BOOLEAN,
                       confirmed : BOOLEAN]]
  /\ card \in {"none", "BOOTSTRAP", "STOPPING", "HOLD_PENDING", "HOLD", "HOLD_UNCONFIRMED"}
  /\ row \in Threads \cup {Free} /\ hold \in [Runs -> Threads \cup {Free}]
  /\ job \in 0..(MaxRev + 2) /\ pending \in 0..(MaxRev + 2)
  /\ th \in [Threads -> [pc : Places, ep : 0..(MaxRev + 2), at : 0..MaxSession, ret : Places]]

\* HOLD has the last word: once stop(), fail() or a rejection has had a run's HOLD confirmed, or
\* has found its authority gone, the OSC accepts no TCP target of that run any more, whichever
\* thread still has one in hand (RtcRun.stop's row-lock barrier, inference_rtc.py:448-467).
HoldIsLast == [][\A e \in DOMAIN last : last[e] = "held" => last'[e] = "held"]_last

\* A run starts alone: unless a run has gone without its capture, which is what start() goes by,
\* no thread is about to send a target of an earlier run while a run is active
\* (pi05_adapter.py:809-843; "start() rejects until this run has exited", inference_rtc.py:767).
NewRunAlone ==
  Active /\ ~bare => \A t \in {"worker", "exec"} : In(t, {"send"}) => th[t].ep = rev

\* When every thread rests and no run is active, no real-time target is left standing: HOLD followed
\* it, or the missing HOLD is reported, whichever of stop(), fail(), the gripper's rejection and
\* the end of the worker came first (inference_rtc.py:448-485, 750-768; pi05_adapter.py:901-956).
Rests == \A t \in Threads : In(t, Resting)
RestIsHeld ==
  mode = "rtc" /\ Rests /\ ~Active /\ (\E e \in DOMAIN last : last[e] = "track") =>
    card = "HOLD_UNCONFIRMED" \/ ctl = "UNCONFIRMED"

\* "normal stop ... still confirms hold" (tests/test_inference_preview.py:153): once stop() has
\* succeeded and the other threads rest, no target of a stopped run is left standing.
StopConfirmsHold ==
  \A h \in Http :
    In(h, {"stopped"}) /\ (\A t \in Threads \ {h} : In(t, Resting)) =>
      \A e \in DOMAIN last : last[e] # "track"
=============================================================================
