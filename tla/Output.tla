------------------------------- MODULE Output -------------------------------
\* Choosing between the CPV and the impedance (MIT) output of hardware sessions, while sessions
\* start, stop, fault and are handed over: select_output_mode, start_session and stop_session in
\* motion/osc.py, exit_osc_impedance, prepare_osc_impedance, handoff_to_console, freedrive and
\* trigger_safety_fault in supervisor/control.py. Two locks are held across calls to the hardware,
\* the session transition lock and the handoff lock; leaving MIT needs neither. What Authority models
\* of the CPV output in detail is a step or two here. The hardware's cached mode is taken as current.
EXTENDS Naturals

CONSTANTS
  Actors,      \* the HTTP threads: "start" and "select", "hand" (handoff, freedrive) and "stop"
  MaxEpoch     \* control epochs

OutputAssumption ==
  /\ {"start", "select"} \subseteq Actors /\ Actors \subseteq {"start", "select", "hand", "stop"}
  /\ MaxEpoch \in Nat

VARIABLES
  at,          \* what a thread does next
  kind,        \* of a hand over: "handoff" or "freedrive"; of the others "none"
  mine,        \* the epoch a thread has opened
  locks,       \* holders of _session_transition_lock and _handoff_lock, or "none"
  session,     \* "none", "STARTING", "ACTIVE", "STOPPING" or "FAULT"
  loop,        \* the servo thread: "none", "run", "fault" or "holds" (the P0 call of a fault)
  out,         \* impedance_output exists
  arm,         \* what moves the arm: "hold", "cpv", "mit", "leader", "fault" (MIT not left)
  auth,        \* the supervisor's writer, mode and epoch
  selected     \* output_selection.mode

vars == <<at, kind, mine, locks, session, loop, out, arm, auth, selected>>

Init ==
  /\ at = [a \in Actors |-> "idle"] /\ kind = [a \in Actors |-> "none"]
  /\ mine = [a \in Actors |-> 0] /\ locks = [session |-> "none", handoff |-> "none"]
  /\ session = "none" /\ loop = "none" /\ out = FALSE /\ arm = "hold"
  /\ auth = [writer |-> "SERVO", mode |-> "HOLDING", epoch |-> 0] /\ selected = "impedance"

Goes(a, place) == at' = [at EXCEPT ![a] = place]
Take(a, lock) == locks[lock] = "none" /\ locks' = [locks EXCEPT ![lock] = a]
Dropped(a) == locks' = [l \in DOMAIN locks |-> IF locks[l] = a THEN "none" ELSE locks[l]]
Owns(writer, mode) == auth' = [auth EXCEPT !.writer = writer, !.mode = mode]
Opens(writer, mode) ==
  auth.epoch < MaxEpoch /\ auth' = [writer |-> writer, mode |-> mode, epoch |-> auth.epoch + 1]

\* ------------------------------------------------------------ begin and end of a request
Begin(a) ==
  /\ at[a] = "idle"
  /\ Goes(a, IF a = "stop" THEN "stop" ELSE "first")
  /\ \E k \in IF a = "hand" THEN {"handoff", "freedrive"} ELSE {"none"} : kind' = [kind EXCEPT ![a] = k]
  /\ UNCHANGED <<mine, locks, session, loop, out, arm, auth, selected>>

End(a) ==
  /\ at[a] \in {"done", "failed"} /\ Goes(a, "idle") /\ Dropped(a)
  /\ UNCHANGED <<kind, mine, session, loop, out, arm, auth, selected>>

\* ------------------------------------------------------------ stop_session
StopSignal(a) ==
  /\ at[a] = "stop" /\ Goes(a, "join")
  /\ session' = IF session = "none" THEN session ELSE "STOPPING"
  /\ UNCHANGED <<kind, mine, locks, loop, out, arm, auth, selected>>

\* Where a thread is when stop_session has returned; a selection that found a hardware session
\* (kind) hands the arm over next.
Stopped(a) ==
  CASE a = "start" -> "starting" [] a = "hand" -> "stopped" [] a = "stop" -> "done"
    [] a = "select" -> IF kind[a] = "none" THEN "save" ELSE "stopped"

\* Mutant: a thread that has not ended is taken for stopped.
StopJoinIgnored(a, timeout) ==
  /\ at[a] = "join" /\ (timeout => loop # "none") /\ (~timeout => loop = "none")
  /\ IF ~timeout /\ out THEN Goes(a, "exit") /\ UNCHANGED session
     ELSE session' = "none" /\ Goes(a, Stopped(a))
  /\ UNCHANGED <<kind, mine, locks, loop, out, arm, auth, selected>>

\* A second is given to the thread; MIT is left only after it has ended.
StopJoin(a, timeout) ==
  /\ at[a] = "join" /\ (timeout => loop # "none") /\ (~timeout => loop = "none")
  /\ IF ~timeout /\ out THEN Goes(a, "exit") /\ UNCHANGED session
     ELSE /\ session' = "none"
          /\ Goes(a, IF ~timeout THEN Stopped(a) ELSE IF a = "start" THEN "starting" ELSE "failed")
  /\ UNCHANGED <<kind, mine, locks, loop, out, arm, auth, selected>>

\* exit_osc_impedance: the authority changes without the handoff lock, the call goes out of turn.
ExitBegin(a) ==
  /\ at[a] \in {"exit", "undo"} /\ Opens("MODE_TRANSITION", "SUSPENDED")
  /\ Goes(a, IF at[a] = "exit" THEN "exiting" ELSE "undoing")
  /\ UNCHANGED <<kind, mine, locks, session, loop, out, arm, selected>>

\* Another thread may have closed the output meanwhile, so that closing it again raises.
ExitOk(a) ==
  /\ at[a] \in {"exiting", "undoing"}
  /\ arm' = IF arm \in {"mit", "fault"} THEN "hold" ELSE arm
  /\ Owns("SERVO", "HOLDING") /\ out' = FALSE
  /\ session' = IF out THEN "none" ELSE session
  /\ Goes(a, IF ~out \/ at[a] = "undoing" THEN "failed" ELSE Stopped(a))
  /\ UNCHANGED <<kind, mine, locks, loop, selected>>

ExitFails(a) ==
  /\ at[a] \in {"exiting", "undoing"}
  /\ arm' = IF arm = "mit" THEN "fault" ELSE arm
  /\ Owns("SAFETY", "HOLDING") /\ out' = FALSE
  /\ session' = IF session = "none" \/ at[a] = "undoing" THEN session ELSE "FAULT"
  /\ Goes(a, "failed")
  /\ UNCHANGED <<kind, mine, locks, loop, selected>>

\* ------------------------------------------------------------ select_output_mode
SelectLocks == <<"session", "handoff">>

\* The lock a thread waits for.
WaitsFor(a) ==
  CASE at[a] = "first"   -> [start |-> "session", select |-> SelectLocks[1], hand |-> "handoff"][a]
    [] at[a] = "second"  -> SelectLocks[2]
    [] at[a] = "prepare" -> "handoff"
    [] OTHER             -> "none"

Lock(a) ==
  /\ at[a] \in {"first", "second"} /\ Take(a, WaitsFor(a))
  /\ Goes(a, CASE a = "start" -> "locked" [] a = "hand" -> "stop"
               [] a = "select" -> IF at[a] = "first" THEN "second" ELSE "guard")
  /\ UNCHANGED <<kind, mine, session, loop, out, arm, auth, selected>>

\* The switch is refused in a transition, while tracking, after a fault and unless the hardware
\* holds; whether a hardware session has to be handed over is remembered.
Allowed == /\ session \in {"none", "ACTIVE"} /\ auth.writer \notin {"MODE_TRANSITION", "SAFETY"}
           /\ auth.mode = "HOLDING" /\ arm \in {"hold", "mit"}

Guard ==
  /\ at["select"] = "guard"
  /\ Goes("select", IF Allowed THEN "stop" ELSE "failed")
  /\ kind' = [kind EXCEPT !["select"] = IF session = "ACTIVE" THEN "handoff" ELSE "none"]
  /\ UNCHANGED <<mine, locks, session, loop, out, arm, auth, selected>>

Save ==
  /\ at["select"] = "save" /\ Goes("select", "done")
  /\ selected' \in {"cpv", "impedance"} \ {selected}
  /\ UNCHANGED <<kind, mine, locks, session, loop, out, arm, auth>>

\* ------------------------------------------------------------ handoff_to_console, freedrive
\* handoff_to_console stops the session again, which is over when a selection calls it.
\* stop_cpv_for_mode_transition leaves MIT, too, if it has to.
Quiet(a, ok) ==
  /\ at[a] = "stopped" /\ Goes(a, IF ok THEN "promote" ELSE "failed")
  /\ arm' = IF ok /\ arm # "leader" THEN "hold" ELSE IF arm = "mit" THEN "fault" ELSE arm
  /\ UNCHANGED <<kind, mine, locks, session, loop, out, auth, selected>>

\* A new epoch, and abandon_session_without_braking.
Promote(a, timeout) ==
  /\ at[a] = "promote" /\ Opens("MODE_TRANSITION", "SUSPENDED")
  /\ (timeout => loop # "none") /\ (~timeout => loop = "none")
  /\ mine' = [mine EXCEPT ![a] = auth.epoch + 1]
  /\ session' = "none" /\ Goes(a, IF timeout THEN "surrender" ELSE "call")
  /\ UNCHANGED <<kind, locks, loop, out, arm, selected>>

\* The call of the transition is admitted only in its own epoch.
Call(a, ok) ==
  /\ at[a] = "call" /\ (ok => auth.epoch = mine[a])
  /\ arm' = IF ~ok THEN arm ELSE IF kind[a] = "freedrive" THEN "leader" ELSE "hold"
  /\ Goes(a, IF ok THEN "ok" ELSE "refused")
  /\ UNCHANGED <<kind, mine, locks, session, loop, out, auth, selected>>

Verdict(a) ==
  /\ at[a] \in {"ok", "refused", "surrender"}
  /\ IF at[a] = "surrender" \/ kind[a] = "freedrive" THEN Owns("NONE", "SUSPENDED")
     ELSE Owns(IF at[a] = "ok" THEN "SERVO" ELSE "SAFETY", "HOLDING")
  /\ Goes(a, IF at[a] # "ok" THEN "failed" ELSE IF a = "select" THEN "save" ELSE "done")
  /\ UNCHANGED <<kind, mine, locks, session, loop, out, arm, selected>>

\* ------------------------------------------------------------ start_session
\* An active session is kept, or stopped when its heartbeat has expired.
StartSession ==
  /\ at["start"] = "locked"
  /\ \E place \in IF session = "ACTIVE" THEN {"done", "stop"} ELSE {"starting"} :
       Goes("start", place)
  /\ UNCHANGED <<kind, mine, locks, session, loop, out, arm, auth, selected>>

\* The output is created; that, the solver or the first feedback may fail.
Starting ==
  /\ at["start"] = "starting" /\ session' = "STARTING" /\ out' = (selected = "impedance")
  /\ \E place \in {"prepare", IF out' THEN "undo" ELSE "abort"} : Goes("start", place)
  /\ UNCHANGED <<kind, mine, locks, loop, arm, auth, selected>>

Prepare ==
  /\ at["start"] = "prepare" /\ Take("start", "handoff") /\ Opens("SERVO", "HOLDING")
  /\ mine' = [mine EXCEPT !["start"] = auth.epoch + 1] /\ Goes("start", "prime")
  /\ UNCHANGED <<kind, session, loop, out, arm, selected>>

\* The first frame, admitted while the epoch and the authority are those of the preparation.
Prime(ok) ==
  /\ at["start"] = "prime" /\ locks' = [locks EXCEPT !.handoff = "none"]
  /\ IF ok
     THEN /\ auth.writer = "SERVO" /\ auth.epoch = mine["start"] /\ arm # "fault"
          /\ arm' = IF out THEN "mit" ELSE "cpv"
          /\ Goes("start", "grant") /\ UNCHANGED auth
     ELSE /\ Opens("NONE", "SUSPENDED") /\ Goes("start", IF out THEN "undo" ELSE "abort")
          /\ UNCHANGED arm
  /\ UNCHANGED <<kind, mine, session, loop, out, selected>>

Grant ==
  /\ at["start"] = "grant"
  /\ IF auth.writer = "SERVO" /\ auth.epoch = mine["start"]
     THEN Owns("SERVO", "TRACKING") /\ Goes("start", "activate")
     ELSE Goes("start", IF out THEN "undo" ELSE "abort") /\ UNCHANGED auth
  /\ UNCHANGED <<kind, mine, locks, session, loop, out, arm, selected>>

\* A start while the last servo thread still lives is left to Authority.
Activate ==
  /\ at["start"] = "activate" /\ loop = "none"
  /\ session' = "ACTIVE" /\ loop' = "run" /\ Goes("start", "done")
  /\ UNCHANGED <<kind, mine, locks, out, arm, auth, selected>>

Abort ==
  /\ at["start"] = "abort" /\ session' = "none" /\ Goes("start", "failed")
  /\ UNCHANGED <<kind, mine, locks, loop, out, arm, auth, selected>>

\* ------------------------------------------------------------ the servo thread
LoopEnds ==
  /\ loop = "run" /\ session # "ACTIVE" /\ loop' = "none"
  /\ UNCHANGED <<at, kind, mine, locks, session, out, arm, auth, selected>>

\* A brake that settles latches the hold; a target resumes tracking.
LoopHolds ==
  /\ loop = "run" /\ session = "ACTIVE" /\ auth.writer = "SERVO"
  /\ \E mode \in {"HOLDING", "TRACKING"} \ {auth.mode} : Owns("SERVO", mode)
  /\ UNCHANGED <<at, kind, mine, locks, session, loop, out, arm, selected>>

LoopFaults ==
  /\ loop = "run" /\ loop' = "fault"
  /\ UNCHANGED <<at, kind, mine, locks, session, out, arm, auth, selected>>

\* trigger_safety_fault waits for the handoff lock.
FaultTakes ==
  /\ loop = "fault" /\ Take("loop", "handoff") /\ Opens("SAFETY", "STOPPING") /\ loop' = "holds"
  /\ UNCHANGED <<at, kind, mine, session, out, arm, selected>>

\* It leaves MIT, or holds with CPV; an impedance loop ends after a fault.
FaultEnds ==
  /\ loop = "holds" /\ Dropped("loop") /\ Owns("SAFETY", "HOLDING")
  /\ arm' \in IF arm = "mit" THEN {"hold", "fault"} ELSE {arm}
  /\ loop' = IF out THEN "none" ELSE "run"
  /\ UNCHANGED <<at, kind, mine, session, out, selected>>

Next ==
  \/ \E a \in Actors : \/ Begin(a) \/ End(a) \/ StopSignal(a) \/ ExitBegin(a) \/ ExitOk(a)
                       \/ ExitFails(a) \/ Lock(a) \/ Verdict(a)
                       \/ \E b \in BOOLEAN : StopJoin(a, b) \/ Quiet(a, b) \/ Promote(a, b) \/ Call(a, b)
  \/ Guard \/ Save
  \/ StartSession \/ Starting \/ Prepare \/ (\E ok \in BOOLEAN : Prime(ok)) \/ Grant \/ Activate \/ Abort
  \/ LoopEnds \/ LoopHolds \/ LoopFaults \/ FaultTakes \/ FaultEnds

Spec == Init /\ [][Next]_vars

\* ------------------------------------------------------------ properties
\* The types of the state.
TypeOK ==
  /\ \A l \in DOMAIN locks : locks[l] \in Actors \cup {"none", "loop"}
  /\ session \in {"none", "STARTING", "ACTIVE", "STOPPING", "FAULT"}
  /\ loop \in {"none", "run", "fault", "holds"} /\ out \in BOOLEAN
  /\ arm \in {"hold", "cpv", "mit", "leader", "fault"} /\ selected \in {"cpv", "impedance"}
  /\ auth \in [writer : {"NONE", "SERVO", "SAFETY", "MODE_TRANSITION"}, epoch : 0..MaxEpoch,
               mode : {"SUSPENDED", "HOLDING", "STOPPING", "TRACKING"}]

\* A session start and a choice of output never wait for each other's lock, while others hand over,
\* stop and fault ("Reversing this order can deadlock", osc.py:2563-2566, 1363; control.py:408), and
\* whoever is done holds neither.
LocksOrdered ==
  /\ ~\E a, b \in Actors : /\ a # b /\ WaitsFor(a) # "none" /\ WaitsFor(b) # "none"
                           /\ locks[WaitsFor(a)] = b /\ locks[WaitsFor(b)] = a
  /\ \A l \in DOMAIN locks : locks[l] \in Actors => at[locks[l]] # "idle"

\* When the output is changed no servo thread and no session is left, and the arm is no longer
\* driven through the old one, whichever stop, fault or hand over came in between
\* (osc.py:2566-2596, 1526-1597; control.py:448-460, 1979-2033).
SwitchIsClean ==
  "select" \in Actors /\ at["select"] = "save" =>
    loop = "none" /\ session = "none" /\ arm \notin {"cpv", "mit"}
=============================================================================
