------------------------------ MODULE Profile ------------------------------
\* The CPV profile (speed, acceleration, deceleration of every joint): how requests of the operator,
\* the start of the service and the entry of a session write it to the motors, read it back, keep it
\* for the next entry and save it for the next start (control.py, hardware_maintenance.py, robot.py).
\* Requests come over the general channel and run one at a time. Between two frames the firmware may
\* put a joint's CV back to its default: it does so some time after the service has connected or CPV
\* mode was entered.
\* The checks of HOLD, session and ranges before a request, the gains (pp, kp, ki) and the transport
\* are left out: a request that is refused at once is no step.
EXTENDS Naturals

CONSTANTS
  Joints,      \* joints are 1..Joints (7 in the code)
  Limits,      \* cpv_limits() of the operational-space configuration, per name
  Wanted,      \* values an operator asks for
  MaxOp, MaxStart   \* bounds: requests and entries, starts of the service

Firmware == "firmware"
Unset == "unset"
Names == {"acc", "dcc", "cv"}
Joint == 1..Joints
Values == Wanted \cup {Firmware} \cup {Limits[n] : n \in Names}
Profiles == [Names -> Values \cup {Unset}]

ProfileAssumption ==
  /\ {Joints, MaxOp, MaxStart} \subseteq Nat /\ Joints > 0
  /\ Limits \in [Names -> {"limit"}] /\ Unset \notin Wanted

VARIABLES
  motor,      \* the profile each motor has
  settling,   \* joints whose CV the firmware may still put back
  late,       \* history: joints it has put back since their CV was last compared
  running,    \* _cpv_running_profile
  defaults,   \* _cpv_profile_defaults
  file,       \* cpv_profile_defaults of the runtime configuration on disk
  promised,   \* history: what requests have answered to have set, since the start
  session,    \* a hardware CPV session has been granted
  op,         \* the request that is being executed
  ops, starts

vars == <<motor, settling, late, running, defaults, file, promised, session, op, ops,
          starts>>
kept == <<running, defaults, file, promised>>

Nothing == [n \in Names |-> Unset]
Idle == [kind |-> "none", pc |-> "idle", ask |-> Nothing, save |-> FALSE, was |-> <<>>,
         snap |-> <<>>, todo |-> {}, prev |-> Nothing]
Overlay(base, top) == [n \in Names |-> IF top[n] = Unset THEN base[n] ELSE top[n]]
At(pc) == op.pc = pc
Goto(pc) == op' = [op EXCEPT !.pc = pc]

\* A start restores the saved profile, if there is one and the arm is in HOLD.
Starting(saved) ==
  {Idle} \cup {o \in {[Idle EXCEPT !.kind = "startup", !.pc = "snap", !.ask = saved]} :
               saved # Nothing}

Init ==
  /\ motor \in {[j \in Joint |-> [n \in Names |-> v]] : v \in {Firmware, "limit"}}
  /\ settling = Joint /\ late = {}
  /\ file \in {Nothing, Limits} /\ defaults = file /\ running = Nothing /\ promised = Nothing
  /\ session = FALSE /\ ops = 0 /\ starts = 1
  /\ op \in Starting(file)

\* ------------------------------------------------------------ requests
\* _effective_cpv_profile: the limits, what is saved, what was set since the start.
Effective == Overlay(Overlay(Limits, defaults), running)

Only(names, v) == [n \in Names |-> IF n \in names THEN v ELSE Unset]

\* What a request asks to be written; the whole profile has one value for ACC and DCC.
Ask(kind) ==
  CASE kind = "entry" -> {Effective}
    [] kind = "sync" -> {Limits}
    [] kind = "speed" -> {Only({"cv"}, c) : c \in Wanted}
    [] kind = "acceleration" -> {Only({"acc", "dcc"}, a) : a \in Wanted}
    [] kind = "group" -> {Overlay(Only({"acc", "dcc"}, w[1]), Only({"cv"}, w[2])) :
                           w \in Wanted \X Wanted}

\* osc_set_cpv_parameters, osc_set_cpv_acceleration, osc_set_cpv_speed,
\* sync_cpv_profile_to_osc_limits, or prepare_osc_hardware. All but sync read the motors first.
Request ==
  /\ op = Idle /\ ~session /\ ops < MaxOp /\ ops' = ops + 1
  /\ \E kind \in {"group", "acceleration", "speed", "sync", "entry"} : \E ask \in Ask(kind) :
       op' \in {[Idle EXCEPT !.kind = kind, !.pc = IF kind = "sync" THEN "snap" ELSE "before",
                             !.ask = ask, !.save = save] :
                save \in IF kind = "group" THEN BOOLEAN ELSE {kind # "entry"}}
  /\ UNCHANGED <<motor, settling, late, kept, session, starts>>

\* A request that fails after the motors are written: only the whole profile takes back what it had
\* kept for the next entry, and not when it fails to be saved. What it keeps it no longer promises.
TakesBack == op.kind = "group" /\ At("after")
Stays == At("save") \/ (At("after") /\ op.kind \in {"acceleration", "speed", "sync"})

Fail ==
  /\ op' = Idle
  /\ running' = IF TakesBack THEN op.prev ELSE running
  /\ promised' = [n \in Names |-> IF Stays /\ op.ask[n] # Unset THEN Unset ELSE promised[n]]
  /\ UNCHANGED <<defaults, file>>

\* A request that has succeeded; an entry promises nothing of its own.
Done ==
  /\ op' = Idle
  /\ promised' = IF op.kind = "entry" THEN promised ELSE Overlay(promised, op.ask)

\* The motors are read; without a complete answer the request fails, whatever it is. An entry then
\* primes CPV: the mode is entered, or the entry fails.
Before ==
  /\ At("before")
  /\ \/ Fail
     \/ op' = [op EXCEPT !.pc = IF op.kind = "entry" THEN "prime" ELSE "snap", !.was = motor,
                         !.prev = running]
        /\ UNCHANGED kept
  /\ UNCHANGED <<motor, settling, late, session, ops, starts>>

Prime ==
  /\ At("prime") /\ settling' = Joint
  /\ \/ Fail
     \/ Goto("snap") /\ UNCHANGED kept
  /\ UNCHANGED <<motor, late, session, ops, starts>>

\* ------------------------------------------------------------ configure_cpv_profile
\* It reads what the motors have, then goes through the names and for each through the joints.
Places == [n : Names, j : Joint]
Rank(p) == Joints * (CASE p.n = "acc" -> 0 [] p.n = "dcc" -> 1 [] p.n = "cv" -> 2) + p.j

Snapshot ==
  /\ At("snap")
  /\ op' = [op EXCEPT !.pc = "write", !.snap = motor,
                      !.todo = {p \in Places : op.ask[p.n] # Unset}]
  /\ UNCHANGED <<motor, settling, late, kept, session, ops, starts>>

\* Mutant: what the motor had at the snapshot needs no comparison.
SureUnread(p, m) == m[p.j][p.n] = op.ask[p.n] \/ op.snap[p.j][p.n] = op.ask[p.n]

\* The value read back after the write, or instead of it, is the one asked for.
Sure(p, m) == m[p.j][p.n] = op.ask[p.n]

\* One parameter of one joint. A motor that had the value at the snapshot is not written to, unless
\* it reads back another one; the frame may be lost, and so may the answer to the read-back.
WriteNext ==
  /\ At("write")
  /\ \E p \in op.todo : \E m \in {motor, [motor EXCEPT ![p.j][p.n] = op.ask[p.n]]} :
       /\ \A q \in op.todo : Rank(p) <= Rank(q)
       /\ op.snap[p.j][p.n] = op.ask[p.n] /\ motor[p.j][p.n] = op.ask[p.n] => m = motor
       /\ motor' = m
       /\ \/ Fail /\ UNCHANGED late
          \/ /\ Sure(p, m) /\ op' = [op EXCEPT !.todo = @ \ {p}] /\ UNCHANGED kept
             /\ late' = IF p.n = "cv" THEN late \ {p.j} ELSE late
  /\ UNCHANGED <<settling, session, ops, starts>>

\* _configure_cpv_profile keeps what it has written for the next entry.
Configured ==
  /\ At("write") /\ op.todo = {}
  /\ running' = Overlay(running, op.ask)
  /\ Goto("after") /\ UNCHANGED <<motor, settling, late, defaults, file, promised, session,
                               ops, starts>>

\* ------------------------------------------------------------ after it
\* The motors are read again. An operator's request compares every joint, and what it has not asked
\* for with what was read before; the others want a complete answer only.
Agrees ==
  op.kind \in {"group", "acceleration", "speed"} =>
    \A j \in Joint : \A n \in Names :
       motor[j][n] = IF op.ask[n] = Unset THEN op.was[j][n] ELSE op.ask[n]

After ==
  /\ At("after")
  /\ \/ Fail /\ UNCHANGED <<late, session>>
     \/ /\ Agrees /\ UNCHANGED <<running, defaults, file>>
        /\ IF op.save THEN Goto("save") /\ UNCHANGED promised ELSE Done
        /\ session' = (op.kind = "entry")
        /\ late' = IF op.kind \in {"group", "acceleration", "speed"} THEN {} ELSE late
  /\ UNCHANGED <<motor, settling, ops, starts>>

\* _persist_cpv_profile_defaults: the file is replaced as a whole, then memory follows; or neither.
Save ==
  /\ At("save")
  /\ \/ Fail
     \/ /\ defaults' = Overlay(defaults, op.ask) /\ file' = defaults'
        /\ Done /\ UNCHANGED running
  /\ UNCHANGED <<motor, settling, late, session, ops, starts>>

SessionEnds ==
  /\ session /\ op = Idle /\ session' = FALSE
  /\ UNCHANGED <<motor, settling, late, kept, op, ops, starts>>

\* ------------------------------------------------------------ firmware and process
\* The firmware puts the CV of a joint back to its default, once.
Settle ==
  /\ \E j \in settling :
       /\ motor' = [motor EXCEPT ![j]["cv"] = Firmware]
       /\ settling' = settling \ {j} /\ late' = late \cup {j}
  /\ UNCHANGED <<kept, session, op, ops, starts>>

\* The process dies and another one starts; the controller may have lost its profile meanwhile.
Restart ==
  /\ starts < MaxStart /\ starts' = starts + 1
  /\ motor' \in {motor, [j \in Joint |-> [n \in Names |-> Firmware]]}
  /\ settling' = Joint /\ late' = {}
  /\ running' = Nothing /\ promised' = Nothing /\ defaults' = file /\ session' = FALSE
  /\ op' \in Starting(file) /\ UNCHANGED <<file, ops>>

Next ==
  \/ Request \/ Before \/ Prime \/ Snapshot \/ WriteNext \/ Configured \/ After \/ Save
  \/ SessionEnds \/ Settle \/ Restart

Spec == Init /\ [][Next]_vars

\* ------------------------------------------------------------ properties
TypeOK ==
  /\ motor \in [Joint -> [Names -> Values]] /\ settling \subseteq Joint /\ late \subseteq Joint
  /\ {running, defaults, file, promised} \subseteq Profiles /\ session \in BOOLEAN
  /\ op.kind \in {"none", "startup", "group", "acceleration", "speed", "sync", "entry"}
  /\ op.pc \in {"idle", "before", "prime", "snap", "write", "after", "save"}
  /\ ops \in 0..MaxOp /\ starts \in 1..MaxStart

\* Every joint has the profile, but for a CV the firmware has put back after it was compared.
Has(profile) ==
  \A j \in Joint : \A n \in Names :
    profile[n] # Unset => motor[j][n] = profile[n] \/ (n = "cv" /\ j \in late)

\* A session runs with what the last requests to succeed have promised, on every joint, whatever
\* requests failed half-way in between, and whatever the firmware did between the snapshot and the
\* read-back (control.py:316-358, 589-616, 618-747, robot.py:1262-1350).
SessionHasProfile == session => Has(Effective) /\ Has(promised)

\* What is saved for the next start has been on every joint: a profile written to some joints only
\* is never saved (control.py:618-747).
SavedWasApplied == At("save") => Has(op.ask)

ProfileKept == SessionHasProfile /\ SavedWasApplied
=============================================================================
