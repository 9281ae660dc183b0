--------------------------- MODULE AdapterProofs ---------------------------
(***************************************************************************)
(* Proofs about components that MCAdapters runs side by side, for every    *)
(* value of their constants: Output (types, LocksOrdered, SwitchIsClean),  *)
(* Connection (types, InForce), Kinematics (AnswerIsAsked), Feedback       *)
(* (types, ObservationIsOwn), Backend (ModeIsTrue, StreamsReturned) and    *)
(* Pico (SamePress, DeadMan).                                              *)
(***************************************************************************)
EXTENDS Integers, Sequences, TLAPS

-----------------------------------------------------------------------------
\* The choice of output.

CONSTANTS Actors, MaxEpoch
VARIABLES at, kind, mine, locks, session, loop, out, arm, auth, selected

O == INSTANCE Output

OutputPlaces ==
  {"idle", "first", "second", "locked", "guard", "stop", "join", "exit", "exiting", "undo",
   "undoing", "stopped", "promote", "call", "ok", "refused", "surrender", "save", "starting",
   "prepare", "prime", "grant", "activate", "abort", "done", "failed"}

OutputTypes ==
  /\ at \in [Actors -> OutputPlaces] /\ mine \in [Actors -> Nat]
  /\ kind \in [Actors -> {"none", "handoff", "freedrive"}]
  /\ locks \in [{"session", "handoff"} -> Actors \cup {"none", "loop"}]
  /\ session \in {"none", "STARTING", "ACTIVE", "STOPPING", "FAULT"}
  /\ loop \in {"none", "run", "fault", "holds"} /\ out \in BOOLEAN
  /\ arm \in {"hold", "cpv", "mit", "leader", "fault"} /\ selected \in {"cpv", "impedance"}
  /\ auth \in [writer : {"NONE", "SERVO", "SAFETY", "MODE_TRANSITION"}, epoch : 0..MaxEpoch,
               mode : {"SUSPENDED", "HOLDING", "STOPPING", "TRACKING"}]

\* Where the threads may be.
Stopping == {"stop", "join", "exit", "exiting"}
Handing  == {"stopped", "promote", "call", "ok", "refused", "surrender"}
Ending   == {"idle", "done", "failed"}

MayBe(a, place) ==
  \/ place \in Stopping \cup Ending
  \/ a = "start" /\ place \in {"first", "locked", "undo", "undoing", "starting", "prepare", "prime",
                               "grant", "activate", "abort"}
  \/ a = "select" /\ place \in {"first", "second", "guard", "save"} \cup Handing
  \/ a = "hand" /\ place \in {"first"} \cup Handing

OutputPlaced == \A a \in Actors : MayBe(a, at[a])

\* Which locks a thread holds where.
HasSession(a, place) == a \in {"start", "select"} /\ place \notin {"idle", "first"}
HasHandoff(a, place) ==
  \/ a = "start" /\ place = "prime"
  \/ a = "select" /\ place \notin {"idle", "first", "second"}
  \/ a = "hand" /\ place \notin {"idle", "first"}

Locked ==
  /\ \A a \in Actors : (locks["session"] = a) <=> HasSession(a, at[a])
  /\ \A a \in Actors : (locks["handoff"] = a) <=> HasHandoff(a, at[a])
  /\ locks["session"] # "loop" /\ ((locks["handoff"] = "loop") <=> (loop = "holds"))

\* MIT has its output, and the output is the selected one.
MitHasOutput == (arm = "mit" => out) /\ (out => selected = "impedance")

\* While a selection goes on, no session starts: what it has stopped stays so.
Switching ==
  "select" \in Actors =>
    /\ at["select"] \in {"exit", "exiting", "save"} \cup Handing => loop = "none"
    /\ at["select"] \in {"save"} \cup Handing => session = "none" /\ ~out
    /\ kind["select"] = "none" /\ at["select"] \in Stopping => arm # "cpv"
    /\ at["select"] \in {"ok", "save"} => arm \notin {"cpv", "mit"}

OutputInv == OutputTypes /\ OutputPlaced /\ Locked /\ MitHasOutput /\ Switching

\* ------------------------------------------------------------ initial states

LEMMA OutputInit == ASSUME O!OutputAssumption, O!Init PROVE OutputInv
<1>1. "loop" \notin Actors /\ "none" \notin Actors
  BY DEF O!OutputAssumption
<1>2. OutputTypes
  <2>1. locks \in [{"session", "handoff"} -> Actors \cup {"none", "loop"}]
    BY DEF O!Init
  <2>2. /\ at \in [Actors -> OutputPlaces] /\ mine \in [Actors -> Nat]
        /\ kind \in [Actors -> {"none", "handoff", "freedrive"}]
    BY DEF O!Init, OutputPlaces
  <2>3. auth \in [writer : {"NONE", "SERVO", "SAFETY", "MODE_TRANSITION"}, epoch : 0..MaxEpoch,
                  mode : {"SUSPENDED", "HOLDING", "STOPPING", "TRACKING"}]
    BY DEF O!OutputAssumption, O!Init
  <2> QED
    BY <2>1, <2>2, <2>3 DEF O!Init, OutputTypes
<1>3. OutputPlaced
  BY DEF O!Init, OutputPlaced, MayBe, Ending
<1>4. Locked
  BY <1>1 DEF O!Init, Locked, HasSession, HasHandoff
<1>5. MitHasOutput /\ Switching
  BY DEF O!Init, MitHasOutput, Switching, Stopping, Handing
<1> QED
  BY <1>2, <1>3, <1>4, <1>5 DEF OutputInv

\* ------------------------------------------------------------ where threads go

\* A thread that keeps the locks it has.
LEMMA PlaceKept ==
  ASSUME O!OutputAssumption, OutputInv, NEW a \in Actors,
         NEW place \in OutputPlaces, O!Goes(a, place),
         MayBe(a, place), HasSession(a, place) <=> HasSession(a, at[a]),
         HasHandoff(a, place) <=> HasHandoff(a, at[a]), locks' = locks,
         (loop' = "holds") <=> (loop = "holds")
  PROVE  /\ at' \in [Actors -> OutputPlaces] /\ at'[a] = place
         /\ \A b \in Actors : b # a => at'[b] = at[b]
         /\ OutputPlaced' /\ Locked'
<1>1. /\ at' \in [Actors -> OutputPlaces] /\ at'[a] = place
      /\ \A b \in Actors : b # a => at'[b] = at[b]
  BY DEF OutputInv, OutputTypes, O!Goes
<1>2. OutputPlaced'
  BY <1>1 DEF OutputInv, OutputPlaced
<1>3. Locked'
  <2>1. ASSUME NEW b \in Actors
        PROVE  /\ (locks["session"] = b) <=> HasSession(b, at'[b])
               /\ (locks["handoff"] = b) <=> HasHandoff(b, at'[b])
    BY <1>1 DEF OutputInv, Locked
  <2> QED
    BY <2>1 DEF OutputInv, Locked
<1> QED
  BY <1>1, <1>2, <1>3

\* Only a thread that has the session lock starts a session, and then no
\* selection has begun.
LEMMA StartsAlone ==
  ASSUME OutputInv, "start" \in Actors, "select" \in Actors, at["start"] \notin {"idle", "first"}
  PROVE  at["select"] \in {"idle", "first"}
BY DEF OutputInv, Locked, HasSession

\* What others do while a selection goes on.
LEMMA SwitchKept ==
  ASSUME OutputInv,
         "select" \in Actors =>
           at'["select"] = at["select"] /\ kind'["select"] = kind["select"],
         loop = "none" => loop' = "none", session = "none" => session' = "none", ~out => ~out',
         arm' \in {"cpv", "mit"} => arm' = arm
  PROVE  Switching'
BY DEF OutputInv, Switching

LEMMA SwitchNotBegun ==
  ASSUME "select" \in Actors => at'["select"] \in {"idle", "first", "second", "guard"} \cup Ending
  PROVE  Switching'
BY DEF Switching, Stopping, Handing, Ending

\* ------------------------------------------------------------ requests

LEMMA OutputBegin ==
  ASSUME O!OutputAssumption, OutputInv, NEW a \in Actors, O!Begin(a)
  PROVE  OutputInv'
<1> PICK place : place = IF a = "stop" THEN "stop" ELSE "first"
  OBVIOUS
<1>1. /\ at[a] = "idle" /\ O!Goes(a, place)
      /\ UNCHANGED <<mine, locks, session, loop, out, arm, auth, selected>>
  BY DEF O!Begin
<1>2. PICK k \in {"none", "handoff", "freedrive"} : kind' = [kind EXCEPT ![a] = k]
  BY DEF O!Begin
<1>3. /\ place \in OutputPlaces /\ MayBe(a, place)
      /\ HasSession(a, place) <=> HasSession(a, at[a])
      /\ HasHandoff(a, place) <=> HasHandoff(a, at[a])
  BY <1>1 DEF O!OutputAssumption, OutputPlaces, MayBe, Stopping, HasSession, HasHandoff
<1>4. /\ at' \in [Actors -> OutputPlaces] /\ at'[a] = place
      /\ \A b \in Actors : b # a => at'[b] = at[b]
      /\ OutputPlaced' /\ Locked'
  BY <1>1, <1>3, PlaceKept
<1>5. kind' \in [Actors -> {"none", "handoff", "freedrive"}]
      /\ \A b \in Actors : b # a => kind'[b] = kind[b]
  BY <1>2 DEF OutputInv, OutputTypes
<1>6. OutputTypes'
  BY <1>1, <1>4, <1>5 DEF OutputInv, OutputTypes
<1>7. MitHasOutput'
  BY <1>1 DEF OutputInv, MitHasOutput
<1>8. Switching'
  <2>1. CASE a = "select"
    BY <1>4, <2>1, SwitchNotBegun
  <2>2. CASE a # "select"
    BY <1>1, <1>4, <1>5, <2>2, SwitchKept
  <2> QED
    BY <2>1, <2>2
<1> QED
  BY <1>4, <1>6, <1>7, <1>8 DEF OutputInv

LEMMA OutputEnd == ASSUME O!OutputAssumption, OutputInv, NEW a \in Actors, O!End(a) PROVE OutputInv'
<1>1. /\ at[a] \in {"done", "failed"} /\ O!Goes(a, "idle") /\ O!Dropped(a)
      /\ UNCHANGED <<kind, mine, session, loop, out, arm, auth, selected>>
  BY DEF O!End
<1>2. /\ at' \in [Actors -> OutputPlaces] /\ at'[a] = "idle"
      /\ \A b \in Actors : b # a => at'[b] = at[b]
  BY <1>1 DEF OutputInv, OutputTypes, OutputPlaces, O!Goes
<1>3. /\ locks' \in [{"session", "handoff"} -> Actors \cup {"none", "loop"}]
      /\ \A l \in {"session", "handoff"} :
           locks'[l] = IF locks[l] = a THEN "none" ELSE locks[l]
  BY <1>1 DEF OutputInv, OutputTypes, O!Dropped
<1>4. OutputTypes'
  BY <1>1, <1>2, <1>3 DEF OutputInv, OutputTypes
<1>5. OutputPlaced'
  BY <1>2 DEF OutputInv, OutputPlaced, MayBe, Ending
<1>6. Locked'
  <2>1. a \notin {"none", "loop"} /\ "none" \notin Actors
    BY DEF O!OutputAssumption
  <2>2. ASSUME NEW b \in Actors
        PROVE  /\ (locks'["session"] = b) <=> HasSession(b, at'[b])
               /\ (locks'["handoff"] = b) <=> HasHandoff(b, at'[b])
    <3>1. CASE b = a
      BY <1>2, <1>3, <2>1, <3>1 DEF HasSession, HasHandoff
    <3>2. CASE b # a
      BY <1>2, <1>3, <2>1, <3>2 DEF OutputInv, Locked
    <3> QED
      BY <3>1, <3>2
  <2> QED
    BY <1>1, <1>3, <2>1, <2>2 DEF OutputInv, Locked
<1>7. MitHasOutput'
  BY <1>1 DEF OutputInv, MitHasOutput
<1>8. Switching'
  <2>1. CASE a = "select"
    BY <1>2, <2>1, SwitchNotBegun
  <2>2. CASE a # "select"
    BY <1>1, <1>2, <2>2, SwitchKept
  <2> QED
    BY <2>1, <2>2
<1> QED
  BY <1>4, <1>5, <1>6, <1>7, <1>8 DEF OutputInv

\* ------------------------------------------------------------ stop_session

LEMMA OutputStopSignal ==
  ASSUME O!OutputAssumption, OutputInv, NEW a \in Actors, O!StopSignal(a) PROVE OutputInv'
<1>1. /\ at[a] = "stop" /\ O!Goes(a, "join")
      /\ session' = IF session = "none" THEN session ELSE "STOPPING"
      /\ UNCHANGED <<kind, mine, locks, loop, out, arm, auth, selected>>
  BY DEF O!StopSignal
<1>2. /\ "join" \in OutputPlaces /\ MayBe(a, "join")
      /\ HasSession(a, "join") <=> HasSession(a, at[a])
      /\ HasHandoff(a, "join") <=> HasHandoff(a, at[a])
  BY <1>1 DEF OutputPlaces, MayBe, Stopping, HasSession, HasHandoff
<1>3. /\ at' \in [Actors -> OutputPlaces] /\ at'[a] = "join"
      /\ \A b \in Actors : b # a => at'[b] = at[b]
      /\ OutputPlaced' /\ Locked'
  BY <1>1, <1>2, PlaceKept
<1>4. OutputTypes'
  BY <1>1, <1>3 DEF OutputInv, OutputTypes
<1>5. MitHasOutput'
  BY <1>1 DEF OutputInv, MitHasOutput
<1>6. Switching'
  <2>1. CASE a = "select"
    BY <1>1, <1>3, <2>1 DEF OutputInv, Switching, Stopping, Handing
  <2>2. CASE a # "select"
    BY <1>1, <1>3, <2>2, SwitchKept
  <2> QED
    BY <2>1, <2>2
<1> QED
  BY <1>3, <1>4, <1>5, <1>6 DEF OutputInv

LEMMA OutputStopJoin ==
  ASSUME O!OutputAssumption, OutputInv, NEW a \in Actors, NEW timeout \in BOOLEAN,
         O!StopJoin(a, timeout)
  PROVE  OutputInv'
<1>1. /\ at[a] = "join" /\ (~timeout => loop = "none")
      /\ UNCHANGED <<kind, mine, locks, loop, out, arm, auth, selected>>
  BY DEF O!StopJoin
<1>2. PICK place \in OutputPlaces :
        /\ O!Goes(a, place)
        /\ \/ place = "exit" /\ ~timeout /\ out /\ session' = session
           \/ /\ session' = "none" /\ (~timeout => ~out)
              /\ \/ place = O!Stopped(a) /\ ~timeout
                 \/ place = "starting" /\ a = "start" /\ timeout
                 \/ place = "failed" /\ a # "start" /\ timeout
  <2>1. O!Stopped(a) \in OutputPlaces
    BY DEF O!OutputAssumption, O!Stopped, OutputPlaces
  <2>2. "exit" \in OutputPlaces /\ "starting" \in OutputPlaces /\ "failed" \in OutputPlaces
    BY DEF OutputPlaces
  <2>3. CASE ~timeout /\ out
    BY <2>2, <2>3 DEF O!StopJoin
  <2>4. CASE ~timeout /\ ~out
    BY <2>1, <2>4 DEF O!StopJoin
  <2>5. CASE timeout /\ a = "start"
    BY <2>2, <2>5 DEF O!StopJoin
  <2>6. CASE timeout /\ a # "start"
    BY <2>2, <2>6 DEF O!StopJoin
  <2> QED
    BY <2>3, <2>4, <2>5, <2>6
<1>3. /\ a = "start" => O!Stopped(a) = "starting"
      /\ a = "hand" => O!Stopped(a) = "stopped"
      /\ a = "stop" => O!Stopped(a) = "done"
      /\ a = "select" => O!Stopped(a) = IF kind[a] = "none" THEN "save" ELSE "stopped"
      /\ a \in {"start", "select", "hand", "stop"}
  BY DEF O!Stopped, O!OutputAssumption
<1>4. /\ MayBe(a, place)
      /\ HasSession(a, place) <=> HasSession(a, at[a])
      /\ HasHandoff(a, place) <=> HasHandoff(a, at[a])
  BY <1>1, <1>2, <1>3 DEF MayBe, Stopping, Handing, Ending, HasSession, HasHandoff
<1>5. /\ at' \in [Actors -> OutputPlaces] /\ at'[a] = place
      /\ \A b \in Actors : b # a => at'[b] = at[b]
      /\ OutputPlaced' /\ Locked'
  BY <1>1, <1>2, <1>4, PlaceKept
<1>6. OutputTypes'
  BY <1>1, <1>2, <1>5 DEF OutputInv, OutputTypes
<1>7. MitHasOutput'
  BY <1>1 DEF OutputInv, MitHasOutput
<1>8. Switching'
  <2>1. CASE a = "select"
    <3>1. place \in {"exit", "failed", "save", "stopped"}
          /\ (place # "failed" => loop = "none")
          /\ (place \in {"save", "stopped"} => session' = "none" /\ ~out)
          /\ (place = "save" => kind["select"] = "none")
      BY <1>1, <1>2, <1>3, <2>1
    <3>2. kind["select"] = "none" => arm # "cpv"
      BY <1>1, <2>1 DEF OutputInv, Switching, Stopping
    <3>3. ~out => arm # "mit"
      BY DEF OutputInv, MitHasOutput
    <3> QED
      BY <1>1, <1>5, <2>1, <3>1, <3>2, <3>3 DEF Switching, Stopping, Handing
  <2>2. CASE a # "select"
    BY <1>1, <1>2, <1>5, <2>2, SwitchKept
  <2> QED
    BY <2>1, <2>2
<1> QED
  BY <1>5, <1>6, <1>7, <1>8 DEF OutputInv

\* A new epoch is not beyond the bound.
LEMMA OpensTyped ==
  ASSUME O!OutputAssumption, OutputInv,
         NEW writer \in {"NONE", "SERVO", "SAFETY", "MODE_TRANSITION"},
         NEW mode \in {"SUSPENDED", "HOLDING", "STOPPING", "TRACKING"},
         O!Opens(writer, mode) \/ O!Owns(writer, mode)
  PROVE  /\ auth' \in [writer : {"NONE", "SERVO", "SAFETY", "MODE_TRANSITION"}, epoch : 0..MaxEpoch,
                       mode : {"SUSPENDED", "HOLDING", "STOPPING", "TRACKING"}]
         /\ auth.epoch + 1 \in Nat
<1>1. MaxEpoch \in Nat /\ auth.epoch \in 0..MaxEpoch
  BY DEF O!OutputAssumption, OutputInv, OutputTypes
<1>2. CASE O!Opens(writer, mode)
  BY <1>1, <1>2 DEF O!Opens
<1>3. CASE O!Owns(writer, mode)
  <2>1. auth \in [writer : {"NONE", "SERVO", "SAFETY", "MODE_TRANSITION"}, epoch : 0..MaxEpoch,
                  mode : {"SUSPENDED", "HOLDING", "STOPPING", "TRACKING"}]
    BY DEF OutputInv, OutputTypes
  <2>2. auth' = [auth EXCEPT !.writer = writer, !.mode = mode]
    BY <1>3 DEF O!Owns
  <2>3. auth' = [writer |-> writer, epoch |-> auth.epoch, mode |-> mode]
    BY <2>1, <2>2
  <2> QED
    BY <1>1, <2>3
<1> QED
  BY <1>2, <1>3

LEMMA OutputExitBegin ==
  ASSUME O!OutputAssumption, OutputInv, NEW a \in Actors, O!ExitBegin(a) PROVE OutputInv'
<1> PICK place : place = IF at[a] = "exit" THEN "exiting" ELSE "undoing"
  OBVIOUS
<1>1. /\ at[a] \in {"exit", "undo"} /\ O!Goes(a, place) /\ O!Opens("MODE_TRANSITION", "SUSPENDED")
      /\ UNCHANGED <<kind, mine, locks, session, loop, out, arm, selected>>
  BY DEF O!ExitBegin
<1>2. MayBe(a, at[a])
  BY DEF OutputInv, OutputPlaced
<1>3. /\ place \in OutputPlaces /\ MayBe(a, place)
      /\ HasSession(a, place) <=> HasSession(a, at[a])
      /\ HasHandoff(a, place) <=> HasHandoff(a, at[a])
      /\ (a = "select" => at[a] = "exit" /\ place = "exiting")
  BY <1>1, <1>2 DEF OutputPlaces, MayBe, Stopping, Handing, Ending, HasSession, HasHandoff
<1>4. /\ at' \in [Actors -> OutputPlaces] /\ at'[a] = place
      /\ \A b \in Actors : b # a => at'[b] = at[b]
      /\ OutputPlaced' /\ Locked'
  BY <1>1, <1>3, PlaceKept
<1>5. OutputTypes'
  BY <1>1, <1>4, OpensTyped DEF OutputInv, OutputTypes
<1>6. MitHasOutput'
  BY <1>1 DEF OutputInv, MitHasOutput
<1>7. Switching'
  <2>1. CASE a = "select"
    BY <1>1, <1>3, <1>4, <2>1 DEF OutputInv, Switching, Stopping, Handing
  <2>2. CASE a # "select"
    BY <1>1, <1>4, <2>2, SwitchKept
  <2> QED
    BY <2>1, <2>2
<1> QED
  BY <1>4, <1>5, <1>6, <1>7 DEF OutputInv

LEMMA OutputExitOk ==
  ASSUME O!OutputAssumption, OutputInv, NEW a \in Actors, O!ExitOk(a) PROVE OutputInv'
<1> PICK place : place = IF ~out \/ at[a] = "undoing" THEN "failed" ELSE O!Stopped(a)
  OBVIOUS
<1>1. /\ at[a] \in {"exiting", "undoing"} /\ O!Goes(a, place) /\ O!Owns("SERVO", "HOLDING")
      /\ arm' = (IF arm \in {"mit", "fault"} THEN "hold" ELSE arm) /\ out' = FALSE
      /\ session' = (IF out THEN "none" ELSE session)
      /\ UNCHANGED <<kind, mine, locks, loop, selected>>
  BY DEF O!ExitOk
<1>2. /\ a = "start" => O!Stopped(a) = "starting"
      /\ a = "hand" => O!Stopped(a) = "stopped"
      /\ a = "stop" => O!Stopped(a) = "done"
      /\ a = "select" => O!Stopped(a) = IF kind[a] = "none" THEN "save" ELSE "stopped"
      /\ a \in {"start", "select", "hand", "stop"}
  BY DEF O!Stopped, O!OutputAssumption
<1>3. MayBe(a, at[a])
  BY DEF OutputInv, OutputPlaced
<1>4. /\ place \in OutputPlaces /\ MayBe(a, place)
      /\ HasSession(a, place) <=> HasSession(a, at[a])
      /\ HasHandoff(a, place) <=> HasHandoff(a, at[a])
      /\ (a = "select" => at[a] = "exiting")
  BY <1>1, <1>2, <1>3 DEF OutputPlaces, MayBe, Stopping, Handing, Ending, HasSession, HasHandoff
<1>5. /\ at' \in [Actors -> OutputPlaces] /\ at'[a] = place
      /\ \A b \in Actors : b # a => at'[b] = at[b]
      /\ OutputPlaced' /\ Locked'
  BY <1>1, <1>4, PlaceKept
<1>6. OutputTypes'
  BY <1>1, <1>5, OpensTyped DEF OutputInv, OutputTypes
<1>7. MitHasOutput'
  BY <1>1 DEF MitHasOutput
<1>8. Switching'
  <2>1. CASE a = "select"
    <3>1. /\ place \in {"failed", "save", "stopped"}
          /\ (place \in {"save", "stopped"} => session' = "none")
          /\ (place = "save" => kind["select"] = "none")
      BY <1>1, <1>2, <2>1
    <3>2. loop = "none" /\ (kind["select"] = "none" => arm # "cpv")
      BY <1>4, <2>1 DEF OutputInv, Switching, Stopping
    <3> QED
      BY <1>1, <1>5, <2>1, <3>1, <3>2 DEF Switching, Stopping, Handing
  <2>2. CASE a # "select"
    BY <1>1, <1>5, <2>2, SwitchKept
  <2> QED
    BY <2>1, <2>2
<1> QED
  BY <1>5, <1>6, <1>7, <1>8 DEF OutputInv

LEMMA OutputExitFails ==
  ASSUME O!OutputAssumption, OutputInv, NEW a \in Actors, O!ExitFails(a) PROVE OutputInv'
<1>1. /\ at[a] \in {"exiting", "undoing"} /\ O!Goes(a, "failed") /\ O!Owns("SAFETY", "HOLDING")
      /\ arm' = (IF arm = "mit" THEN "fault" ELSE arm) /\ out' = FALSE
      /\ session' \in {session, "FAULT"} /\ (session = "none" => session' = "none")
      /\ UNCHANGED <<kind, mine, locks, loop, selected>>
  BY DEF O!ExitFails
<1>2. /\ "failed" \in OutputPlaces /\ MayBe(a, "failed")
      /\ HasSession(a, "failed") <=> HasSession(a, at[a])
      /\ HasHandoff(a, "failed") <=> HasHandoff(a, at[a])
  BY <1>1 DEF OutputPlaces, MayBe, Ending, HasSession, HasHandoff
<1>3. /\ at' \in [Actors -> OutputPlaces] /\ at'[a] = "failed"
      /\ \A b \in Actors : b # a => at'[b] = at[b]
      /\ OutputPlaced' /\ Locked'
  BY <1>1, <1>2, PlaceKept
<1>4. OutputTypes'
  BY <1>1, <1>3, OpensTyped DEF OutputInv, OutputTypes
<1>5. MitHasOutput'
  BY <1>1 DEF MitHasOutput
<1>6. Switching'
  <2>1. CASE a = "select"
    BY <1>3, <2>1, SwitchNotBegun DEF Ending
  <2>2. CASE a # "select"
    BY <1>1, <1>3, <2>2, SwitchKept
  <2> QED
    BY <2>1, <2>2
<1> QED
  BY <1>3, <1>4, <1>5, <1>6 DEF OutputInv

\* ------------------------------------------------------------ the selection

\* A thread that gets the lock it waits for.
LEMMA LockTaken ==
  ASSUME O!OutputAssumption, OutputInv, NEW a \in Actors, NEW place \in OutputPlaces,
         NEW l \in {"session", "handoff"}, O!Goes(a, place), O!Take(a, l), MayBe(a, place),
         HasSession(a, place) <=> (HasSession(a, at[a]) \/ l = "session"),
         HasHandoff(a, place) <=> (HasHandoff(a, at[a]) \/ l = "handoff"),
         loop' = loop
  PROVE  /\ at' \in [Actors -> OutputPlaces] /\ at'[a] = place
         /\ \A b \in Actors : b # a => at'[b] = at[b]
         /\ locks' \in [{"session", "handoff"} -> Actors \cup {"none", "loop"}]
         /\ OutputPlaced' /\ Locked'
<1>1. /\ at' \in [Actors -> OutputPlaces] /\ at'[a] = place
      /\ \A b \in Actors : b # a => at'[b] = at[b]
  BY DEF OutputInv, OutputTypes, O!Goes
<1>2. /\ locks' \in [{"session", "handoff"} -> Actors \cup {"none", "loop"}]
      /\ locks[l] = "none" /\ locks'[l] = a
      /\ \A k \in {"session", "handoff"} : k # l => locks'[k] = locks[k]
  BY DEF OutputInv, OutputTypes, O!Take
<1>3. OutputPlaced'
  BY <1>1 DEF OutputInv, OutputPlaced
<1>4. Locked'
  <2>1. "none" \notin Actors /\ a # "loop"
    BY DEF O!OutputAssumption
  <2>2. ASSUME NEW b \in Actors
        PROVE  /\ (locks'["session"] = b) <=> HasSession(b, at'[b])
               /\ (locks'["handoff"] = b) <=> HasHandoff(b, at'[b])
    <3>1. CASE b = a
      BY <1>1, <1>2, <2>1, <3>1 DEF OutputInv, Locked
    <3>2. CASE b # a
      BY <1>1, <1>2, <2>1, <3>2 DEF OutputInv, Locked
    <3> QED
      BY <3>1, <3>2
  <2> QED
    BY <1>2, <2>1, <2>2 DEF OutputInv, Locked
<1> QED
  BY <1>1, <1>2, <1>3, <1>4

LEMMA OutputLock ==
  ASSUME O!OutputAssumption, OutputInv, NEW a \in Actors, O!Lock(a) PROVE OutputInv'
<1>1. /\ at[a] \in {"first", "second"} /\ O!Take(a, O!WaitsFor(a))
      /\ UNCHANGED <<kind, mine, session, loop, out, arm, auth, selected>>
  BY DEF O!Lock
<1>2. MayBe(a, at[a]) /\ a \in {"start", "select", "hand", "stop"}
  BY DEF OutputInv, OutputPlaced, O!OutputAssumption
<1>3. PICK place \in OutputPlaces, l \in {"session", "handoff"} :
        /\ O!Goes(a, place) /\ O!WaitsFor(a) = l
        /\ \/ a = "start" /\ at[a] = "first" /\ place = "locked" /\ l = "session"
           \/ a = "hand" /\ at[a] = "first" /\ place = "stop" /\ l = "handoff"
           \/ a = "select" /\ at[a] = "first" /\ place = "second" /\ l = "session"
           \/ a = "select" /\ at[a] = "second" /\ place = "guard" /\ l = "handoff"
  <2>1. {"locked", "stop", "second", "guard"} \subseteq OutputPlaces
    BY DEF OutputPlaces
  <2>2. CASE a = "start"
    <3>1. at[a] = "first"
      BY <1>1, <1>2, <2>2 DEF MayBe, Stopping, Ending
    <3>2. O!WaitsFor(a) = "session" /\ O!Goes(a, "locked")
      BY <2>2, <3>1 DEF O!WaitsFor, O!SelectLocks, O!Lock
    <3> QED
      BY <2>1, <2>2, <3>1, <3>2
  <2>3. CASE a = "hand"
    <3>1. at[a] = "first"
      BY <1>1, <1>2, <2>3 DEF MayBe, Stopping, Ending, Handing
    <3>2. O!WaitsFor(a) = "handoff" /\ O!Goes(a, "stop")
      BY <2>3, <3>1 DEF O!WaitsFor, O!SelectLocks, O!Lock
    <3> QED
      BY <2>1, <2>3, <3>1, <3>2
  <2>4. CASE a = "select" /\ at[a] = "first"
    <3>1. O!WaitsFor(a) = "session" /\ O!Goes(a, "second")
      BY <2>4 DEF O!WaitsFor, O!SelectLocks, O!Lock
    <3> QED
      BY <2>1, <2>4, <3>1
  <2>5. CASE a = "select" /\ at[a] = "second"
    <3>1. O!WaitsFor(a) = "handoff" /\ O!Goes(a, "guard")
      BY <2>5 DEF O!WaitsFor, O!SelectLocks, O!Lock
    <3> QED
      BY <2>1, <2>5, <3>1
  <2>6. a # "stop"
    BY <1>1, <1>2 DEF MayBe, Stopping, Ending
  <2> QED
    BY <1>1, <1>2, <2>2, <2>3, <2>4, <2>5, <2>6
<1>4. /\ MayBe(a, place)
      /\ HasSession(a, place) <=> (HasSession(a, at[a]) \/ l = "session")
      /\ HasHandoff(a, place) <=> (HasHandoff(a, at[a]) \/ l = "handoff")
  BY <1>3 DEF MayBe, Stopping, HasSession, HasHandoff
<1>5. /\ at' \in [Actors -> OutputPlaces] /\ at'[a] = place
      /\ \A b \in Actors : b # a => at'[b] = at[b]
      /\ locks' \in [{"session", "handoff"} -> Actors \cup {"none", "loop"}]
      /\ OutputPlaced' /\ Locked'
  BY <1>1, <1>3, <1>4, LockTaken
<1>6. OutputTypes'
  BY <1>1, <1>5 DEF OutputInv, OutputTypes
<1>7. MitHasOutput'
  BY <1>1 DEF OutputInv, MitHasOutput
<1>8. Switching'
  <2>1. CASE a = "select"
    BY <1>3, <1>5, <2>1, SwitchNotBegun
  <2>2. CASE a # "select"
    BY <1>1, <1>5, <2>2, SwitchKept
  <2> QED
    BY <2>1, <2>2
<1> QED
  BY <1>5, <1>6, <1>7, <1>8 DEF OutputInv

LEMMA OutputGuard == ASSUME O!OutputAssumption, OutputInv, O!Guard PROVE OutputInv'
<1> PICK place : place = IF O!Allowed THEN "stop" ELSE "failed"
  OBVIOUS
<1> DEFINE k == IF session = "ACTIVE" THEN "handoff" ELSE "none"
<1>1. /\ at["select"] = "guard" /\ O!Goes("select", place) /\ kind' = [kind EXCEPT !["select"] = k]
      /\ UNCHANGED <<mine, locks, session, loop, out, arm, auth, selected>>
  BY DEF O!Guard
<1>2. "select" \in Actors
  BY DEF O!OutputAssumption
<1>3. /\ place \in OutputPlaces /\ MayBe("select", place)
      /\ HasSession("select", place) <=> HasSession("select", at["select"])
      /\ HasHandoff("select", place) <=> HasHandoff("select", at["select"])
  BY <1>1 DEF OutputPlaces, MayBe, Stopping, Ending, HasSession, HasHandoff
<1>4. /\ at' \in [Actors -> OutputPlaces] /\ at'["select"] = place
      /\ OutputPlaced' /\ Locked'
  BY <1>1, <1>2, <1>3, PlaceKept
<1>5. kind' \in [Actors -> {"none", "handoff", "freedrive"}]
  BY <1>1 DEF OutputInv, OutputTypes
<1>6. OutputTypes'
  BY <1>1, <1>4, <1>5 DEF OutputInv, OutputTypes
<1>7. MitHasOutput'
  BY <1>1 DEF OutputInv, MitHasOutput
<1>8. Switching'
  <2>1. place = "stop" => arm # "cpv"
    BY DEF O!Allowed
  <2>2. place \in {"stop", "failed"}
    OBVIOUS
  <2> QED
    BY <1>1, <1>4, <2>1, <2>2 DEF Switching, Stopping, Handing
<1> QED
  BY <1>4, <1>6, <1>7, <1>8 DEF OutputInv

LEMMA OutputSave == ASSUME O!OutputAssumption, OutputInv, O!Save PROVE OutputInv'
<1>1. /\ at["select"] = "save" /\ O!Goes("select", "done")
      /\ selected' \in {"cpv", "impedance"}
      /\ UNCHANGED <<kind, mine, locks, session, loop, out, arm, auth>>
  BY DEF O!Save
<1>2. "select" \in Actors
  BY DEF O!OutputAssumption
<1>3. /\ "done" \in OutputPlaces /\ MayBe("select", "done")
      /\ HasSession("select", "done") <=> HasSession("select", at["select"])
      /\ HasHandoff("select", "done") <=> HasHandoff("select", at["select"])
  BY <1>1 DEF OutputPlaces, MayBe, Ending, HasSession, HasHandoff
<1>4. /\ at' \in [Actors -> OutputPlaces] /\ at'["select"] = "done"
      /\ OutputPlaced' /\ Locked'
  BY <1>1, <1>2, <1>3, PlaceKept
<1>5. OutputTypes'
  BY <1>1, <1>4 DEF OutputInv, OutputTypes
<1>6. MitHasOutput'
  BY <1>1, <1>2 DEF OutputInv, Switching, MitHasOutput
<1>7. Switching'
  BY <1>4, SwitchNotBegun DEF Ending
<1> QED
  BY <1>4, <1>5, <1>6, <1>7 DEF OutputInv

\* ------------------------------------------------------------ hand over

LEMMA OutputQuiet ==
  ASSUME O!OutputAssumption, OutputInv, NEW a \in Actors, NEW ok \in BOOLEAN, O!Quiet(a, ok)
  PROVE  OutputInv'
<1> PICK place : place = IF ok THEN "promote" ELSE "failed"
  OBVIOUS
<1>1. /\ at[a] = "stopped" /\ O!Goes(a, place)
      /\ arm' \in {"hold", "fault", arm} /\ arm' # "mit"
      /\ UNCHANGED <<kind, mine, locks, session, loop, out, auth, selected>>
  BY DEF O!Quiet
<1>2. MayBe(a, at[a])
  BY DEF OutputInv, OutputPlaced
<1>3. /\ place \in OutputPlaces /\ MayBe(a, place)
      /\ HasSession(a, place) <=> HasSession(a, at[a])
      /\ HasHandoff(a, place) <=> HasHandoff(a, at[a])
  BY <1>1, <1>2 DEF OutputPlaces, MayBe, Stopping, Handing, Ending, HasSession, HasHandoff
<1>4. /\ at' \in [Actors -> OutputPlaces] /\ at'[a] = place
      /\ \A b \in Actors : b # a => at'[b] = at[b]
      /\ OutputPlaced' /\ Locked'
  BY <1>1, <1>3, PlaceKept
<1>5. OutputTypes'
  BY <1>1, <1>4 DEF OutputInv, OutputTypes
<1>6. MitHasOutput'
  BY <1>1 DEF OutputInv, MitHasOutput
<1>7. Switching'
  <2>1. CASE a = "select"
    BY <1>1, <1>4, <2>1 DEF OutputInv, Switching, Stopping, Handing
  <2>2. CASE a # "select"
    BY <1>1, <1>4, <2>2, SwitchKept
  <2> QED
    BY <2>1, <2>2
<1> QED
  BY <1>4, <1>5, <1>6, <1>7 DEF OutputInv

LEMMA OutputPromote ==
  ASSUME O!OutputAssumption, OutputInv, NEW a \in Actors, NEW timeout \in BOOLEAN,
         O!Promote(a, timeout)
  PROVE  OutputInv'
<1> PICK place : place = IF timeout THEN "surrender" ELSE "call"
  OBVIOUS
<1>1. /\ at[a] = "promote" /\ O!Goes(a, place) /\ O!Opens("MODE_TRANSITION", "SUSPENDED")
      /\ mine' = [mine EXCEPT ![a] = auth.epoch + 1] /\ session' = "none"
      /\ UNCHANGED <<kind, locks, loop, out, arm, selected>>
  BY DEF O!Promote
<1>2. MayBe(a, at[a])
  BY DEF OutputInv, OutputPlaced
<1>3. /\ place \in OutputPlaces /\ MayBe(a, place)
      /\ HasSession(a, place) <=> HasSession(a, at[a])
      /\ HasHandoff(a, place) <=> HasHandoff(a, at[a])
  BY <1>1, <1>2 DEF OutputPlaces, MayBe, Stopping, Handing, Ending, HasSession, HasHandoff
<1>4. /\ at' \in [Actors -> OutputPlaces] /\ at'[a] = place
      /\ \A b \in Actors : b # a => at'[b] = at[b]
      /\ OutputPlaced' /\ Locked'
  BY <1>1, <1>3, PlaceKept
<1>5. /\ mine' \in [Actors -> Nat]
      /\ auth' \in [writer : {"NONE", "SERVO", "SAFETY", "MODE_TRANSITION"}, epoch : 0..MaxEpoch,
                    mode : {"SUSPENDED", "HOLDING", "STOPPING", "TRACKING"}]
  BY <1>1, OpensTyped DEF OutputInv, OutputTypes
<1>6. OutputTypes'
  BY <1>1, <1>4, <1>5 DEF OutputInv, OutputTypes
<1>7. MitHasOutput'
  BY <1>1 DEF OutputInv, MitHasOutput
<1>8. Switching'
  <2>1. CASE a = "select"
    BY <1>1, <1>4, <2>1 DEF OutputInv, Switching, Stopping, Handing
  <2>2. CASE a # "select"
    BY <1>1, <1>4, <2>2, SwitchKept
  <2> QED
    BY <2>1, <2>2
<1> QED
  BY <1>4, <1>6, <1>7, <1>8 DEF OutputInv

LEMMA OutputCall ==
  ASSUME O!OutputAssumption, OutputInv, NEW a \in Actors, NEW ok \in BOOLEAN, O!Call(a, ok)
  PROVE  OutputInv'
<1> PICK place : place = IF ok THEN "ok" ELSE "refused"
  OBVIOUS
<1>1. /\ at[a] = "call" /\ O!Goes(a, place) /\ arm' \in {"hold", "leader", arm}
      /\ (place = "ok" => arm' \in {"hold", "leader"})
      /\ UNCHANGED <<kind, mine, locks, session, loop, out, auth, selected>>
  BY DEF O!Call
<1>2. MayBe(a, at[a]) /\ place \in {"ok", "refused"}
  BY DEF OutputInv, OutputPlaced
<1>3. /\ place \in OutputPlaces /\ MayBe(a, place)
      /\ HasSession(a, place) <=> HasSession(a, at[a])
      /\ HasHandoff(a, place) <=> HasHandoff(a, at[a])
  BY <1>1, <1>2 DEF OutputPlaces, MayBe, Stopping, Handing, Ending, HasSession, HasHandoff
<1>4. /\ at' \in [Actors -> OutputPlaces] /\ at'[a] = place
      /\ \A b \in Actors : b # a => at'[b] = at[b]
      /\ OutputPlaced' /\ Locked'
  BY <1>1, <1>3, PlaceKept
<1>5. OutputTypes'
  BY <1>1, <1>4 DEF OutputInv, OutputTypes
<1>6. MitHasOutput'
  BY <1>1 DEF OutputInv, MitHasOutput
<1>7. Switching'
  <2>1. CASE a = "select"
    BY <1>1, <1>2, <1>4, <2>1 DEF OutputInv, Switching, Stopping, Handing
  <2>2. CASE a # "select"
    BY <1>1, <1>4, <2>2, SwitchKept
  <2> QED
    BY <2>1, <2>2
<1> QED
  BY <1>4, <1>5, <1>6, <1>7 DEF OutputInv

LEMMA OutputVerdict ==
  ASSUME O!OutputAssumption, OutputInv, NEW a \in Actors, O!Verdict(a) PROVE OutputInv'
<1> PICK place : place = IF at[a] # "ok" THEN "failed" ELSE IF a = "select" THEN "save" ELSE "done"
  OBVIOUS
<1>1. /\ at[a] \in {"ok", "refused", "surrender"} /\ O!Goes(a, place)
      /\ UNCHANGED <<kind, mine, locks, session, loop, out, arm, selected>>
  BY DEF O!Verdict
<1>2. MayBe(a, at[a])
  BY DEF OutputInv, OutputPlaced
<1>3. /\ place \in OutputPlaces /\ MayBe(a, place)
      /\ HasSession(a, place) <=> HasSession(a, at[a])
      /\ HasHandoff(a, place) <=> HasHandoff(a, at[a])
  BY <1>1, <1>2 DEF OutputPlaces, MayBe, Stopping, Handing, Ending, HasSession, HasHandoff
<1>4. /\ at' \in [Actors -> OutputPlaces] /\ at'[a] = place
      /\ \A b \in Actors : b # a => at'[b] = at[b]
      /\ OutputPlaced' /\ Locked'
  BY <1>1, <1>3, PlaceKept
<1>5. auth' \in [writer : {"NONE", "SERVO", "SAFETY", "MODE_TRANSITION"}, epoch : 0..MaxEpoch,
                 mode : {"SUSPENDED", "HOLDING", "STOPPING", "TRACKING"}]
  <2>1. O!Owns("NONE", "SUSPENDED") \/ O!Owns("SERVO", "HOLDING") \/ O!Owns("SAFETY", "HOLDING")
    BY DEF O!Verdict
  <2> QED
    BY <2>1, OpensTyped
<1>6. OutputTypes'
  BY <1>1, <1>4, <1>5 DEF OutputInv, OutputTypes
<1>7. MitHasOutput'
  BY <1>1 DEF OutputInv, MitHasOutput
<1>8. Switching'
  <2>1. CASE a = "select"
    BY <1>1, <1>4, <2>1 DEF OutputInv, Switching, Stopping, Handing
  <2>2. CASE a # "select"
    BY <1>1, <1>4, <2>2, SwitchKept
  <2> QED
    BY <2>1, <2>2
<1> QED
  BY <1>4, <1>6, <1>7, <1>8 DEF OutputInv

\* ------------------------------------------------------------ start_session

\* A start that is past its lock has no selection beside it.
LEMMA StartSwitching ==
  ASSUME O!OutputAssumption, OutputInv, at["start"] \notin {"idle", "first"},
         \A b \in Actors : b # "start" => at'[b] = at[b]
  PROVE  Switching'
<1>1. "start" \in Actors /\ "select" \in Actors
  BY DEF O!OutputAssumption
<1>2. at["select"] \in {"idle", "first"}
  BY <1>1, StartsAlone
<1> QED
  BY <1>1, <1>2, SwitchNotBegun

\* Its steps that keep its locks.
LEMMA StartGoes ==
  ASSUME O!OutputAssumption, OutputInv, NEW place \in OutputPlaces, O!Goes("start", place),
         MayBe("start", place), place \notin {"idle", "first", "prime"},
         at["start"] \notin {"idle", "first", "prime"},
         locks' = locks, (loop' = "holds") <=> (loop = "holds")
  PROVE  at' \in [Actors -> OutputPlaces] /\ OutputPlaced' /\ Locked' /\ Switching'
<1>1. "start" \in Actors
  BY DEF O!OutputAssumption
<1>2. HasSession("start", place) <=> HasSession("start", at["start"])
  BY DEF HasSession
<1>3. HasHandoff("start", place) <=> HasHandoff("start", at["start"])
  BY DEF HasHandoff
<1>4. /\ at' \in [Actors -> OutputPlaces] /\ OutputPlaced' /\ Locked'
      /\ \A b \in Actors : b # "start" => at'[b] = at[b]
  BY <1>1, <1>2, <1>3, PlaceKept
<1> QED
  BY <1>4, StartSwitching

LEMMA OutputStart == ASSUME O!OutputAssumption, OutputInv, O!StartSession PROVE OutputInv'
<1>1. /\ at["start"] = "locked"
      /\ UNCHANGED <<kind, mine, locks, session, loop, out, arm, auth, selected>>
  BY DEF O!StartSession
<1>2. PICK place \in {"done", "stop", "starting"} : O!Goes("start", place)
  BY DEF O!StartSession
<1>3. place \in OutputPlaces /\ MayBe("start", place)
  BY DEF OutputPlaces, MayBe, Stopping, Ending
<1>4. at' \in [Actors -> OutputPlaces] /\ OutputPlaced' /\ Locked' /\ Switching'
  BY <1>1, <1>2, <1>3, StartGoes
<1> QED
  BY <1>1, <1>4 DEF OutputInv, OutputTypes, MitHasOutput

LEMMA OutputStarting == ASSUME O!OutputAssumption, OutputInv, O!Starting PROVE OutputInv'
<1>1. /\ at["start"] = "starting" /\ session' = "STARTING" /\ out' = (selected = "impedance")
      /\ UNCHANGED <<kind, mine, locks, loop, arm, auth, selected>>
  BY DEF O!Starting
<1>2. PICK place \in {"prepare", "undo", "abort"} : O!Goes("start", place)
  BY DEF O!Starting
<1>3. place \in OutputPlaces /\ MayBe("start", place)
  BY DEF OutputPlaces, MayBe
<1>4. at' \in [Actors -> OutputPlaces] /\ OutputPlaced' /\ Locked' /\ Switching'
  BY <1>1, <1>2, <1>3, StartGoes
<1>5. OutputTypes'
  BY <1>1, <1>4 DEF OutputInv, OutputTypes
<1>6. MitHasOutput'
  BY <1>1 DEF OutputInv, MitHasOutput
<1> QED
  BY <1>4, <1>5, <1>6 DEF OutputInv

LEMMA OutputPrepare == ASSUME O!OutputAssumption, OutputInv, O!Prepare PROVE OutputInv'
<1>1. /\ at["start"] = "prepare" /\ O!Goes("start", "prime") /\ O!Take("start", "handoff")
      /\ O!Opens("SERVO", "HOLDING") /\ mine' = [mine EXCEPT !["start"] = auth.epoch + 1]
      /\ UNCHANGED <<kind, session, loop, out, arm, selected>>
  BY DEF O!Prepare
<1>2. /\ "start" \in Actors /\ "prime" \in OutputPlaces /\ MayBe("start", "prime")
      /\ HasSession("start", "prime") <=> (HasSession("start", at["start"]) \/ FALSE)
      /\ HasHandoff("start", "prime")
  BY <1>1 DEF O!OutputAssumption, OutputPlaces, MayBe, HasSession, HasHandoff
<1>3. /\ at' \in [Actors -> OutputPlaces]
      /\ \A b \in Actors : b # "start" => at'[b] = at[b]
      /\ locks' \in [{"session", "handoff"} -> Actors \cup {"none", "loop"}]
      /\ OutputPlaced' /\ Locked'
  BY <1>1, <1>2, LockTaken
<1>4. /\ mine' \in [Actors -> Nat]
      /\ auth' \in [writer : {"NONE", "SERVO", "SAFETY", "MODE_TRANSITION"}, epoch : 0..MaxEpoch,
                    mode : {"SUSPENDED", "HOLDING", "STOPPING", "TRACKING"}]
  BY <1>1, OpensTyped DEF OutputInv, OutputTypes
<1>5. OutputTypes'
  BY <1>1, <1>3, <1>4 DEF OutputInv, OutputTypes
<1>6. MitHasOutput'
  BY <1>1 DEF OutputInv, MitHasOutput
<1>7. Switching'
  BY <1>1, <1>3, StartSwitching
<1> QED
  BY <1>3, <1>5, <1>6, <1>7 DEF OutputInv

LEMMA OutputPrime ==
  ASSUME O!OutputAssumption, OutputInv, NEW ok \in BOOLEAN, O!Prime(ok) PROVE OutputInv'
<1>1. /\ at["start"] = "prime" /\ locks' = [locks EXCEPT !.handoff = "none"]
      /\ arm' \in {arm, "mit", "cpv"} /\ (arm' # arm => arm' = IF out THEN "mit" ELSE "cpv")
      /\ auth' = auth \/ O!Opens("NONE", "SUSPENDED")
      /\ UNCHANGED <<kind, mine, session, loop, out, selected>>
  BY DEF O!Prime
<1>2. PICK place \in {"grant", "undo", "abort"} : O!Goes("start", place)
  BY DEF O!Prime
<1>3. "start" \in Actors
  BY DEF O!OutputAssumption
<1>4. /\ at' \in [Actors -> OutputPlaces] /\ at'["start"] = place
      /\ \A b \in Actors : b # "start" => at'[b] = at[b]
  BY <1>2, <1>3 DEF OutputInv, OutputTypes, OutputPlaces, O!Goes
<1>5. /\ locks' \in [{"session", "handoff"} -> Actors \cup {"none", "loop"}]
      /\ locks'["session"] = locks["session"] /\ locks'["handoff"] = "none"
  BY <1>1 DEF OutputInv, OutputTypes
<1>6. OutputPlaced'
  BY <1>4 DEF OutputInv, OutputPlaced, MayBe
<1>7. Locked'
  <2>1. locks["session"] = "start" /\ locks["handoff"] = "start" /\ "none" \notin Actors
        /\ "loop" # "start"
    BY <1>1, <1>3 DEF OutputInv, Locked, HasSession, HasHandoff, O!OutputAssumption
  <2>2. ASSUME NEW b \in Actors
        PROVE  /\ (locks'["session"] = b) <=> HasSession(b, at'[b])
               /\ (locks'["handoff"] = b) <=> HasHandoff(b, at'[b])
    <3>1. CASE b = "start"
      BY <1>4, <1>5, <2>1, <3>1 DEF HasSession, HasHandoff
    <3>2. CASE b # "start"
      BY <1>4, <1>5, <2>1, <3>2 DEF OutputInv, Locked
    <3> QED
      BY <3>1, <3>2
  <2> QED
    BY <1>1, <1>5, <2>1, <2>2 DEF OutputInv, Locked
<1>8. OutputTypes'
  <2>1. auth' \in [writer : {"NONE", "SERVO", "SAFETY", "MODE_TRANSITION"}, epoch : 0..MaxEpoch,
                   mode : {"SUSPENDED", "HOLDING", "STOPPING", "TRACKING"}]
    BY <1>1, OpensTyped DEF OutputInv, OutputTypes
  <2> QED
    BY <1>1, <1>4, <1>5, <2>1 DEF OutputInv, OutputTypes
<1>9. MitHasOutput'
  BY <1>1 DEF OutputInv, MitHasOutput
<1>10. Switching'
  BY <1>1, <1>4, StartSwitching
<1> QED
  BY <1>6, <1>7, <1>8, <1>9, <1>10 DEF OutputInv

LEMMA OutputGrant == ASSUME O!OutputAssumption, OutputInv, O!Grant PROVE OutputInv'
<1>1. /\ at["start"] = "grant" /\ (auth' = auth \/ O!Owns("SERVO", "TRACKING"))
      /\ UNCHANGED <<kind, mine, locks, session, loop, out, arm, selected>>
  BY DEF O!Grant
<1>2. PICK place \in {"activate", "undo", "abort"} : O!Goes("start", place)
  BY DEF O!Grant
<1>3. place \in OutputPlaces /\ MayBe("start", place)
  BY DEF OutputPlaces, MayBe
<1>4. at' \in [Actors -> OutputPlaces] /\ OutputPlaced' /\ Locked' /\ Switching'
  BY <1>1, <1>2, <1>3, StartGoes
<1>5. auth' \in [writer : {"NONE", "SERVO", "SAFETY", "MODE_TRANSITION"}, epoch : 0..MaxEpoch,
                 mode : {"SUSPENDED", "HOLDING", "STOPPING", "TRACKING"}]
  BY <1>1, OpensTyped DEF OutputInv, OutputTypes
<1> QED
  BY <1>1, <1>4, <1>5 DEF OutputInv, OutputTypes, MitHasOutput

LEMMA OutputActivate == ASSUME O!OutputAssumption, OutputInv, O!Activate PROVE OutputInv'
<1>1. /\ at["start"] = "activate" /\ O!Goes("start", "done") /\ session' = "ACTIVE"
      /\ loop = "none" /\ loop' = "run"
      /\ UNCHANGED <<kind, mine, locks, out, arm, auth, selected>>
  BY DEF O!Activate
<1>2. "done" \in OutputPlaces /\ MayBe("start", "done")
  BY DEF OutputPlaces, MayBe, Ending
<1>3. at' \in [Actors -> OutputPlaces] /\ OutputPlaced' /\ Locked' /\ Switching'
  BY <1>1, <1>2, StartGoes
<1> QED
  BY <1>1, <1>3 DEF OutputInv, OutputTypes, MitHasOutput

LEMMA OutputAbort == ASSUME O!OutputAssumption, OutputInv, O!Abort PROVE OutputInv'
<1>1. /\ at["start"] = "abort" /\ O!Goes("start", "failed") /\ session' = "none"
      /\ UNCHANGED <<kind, mine, locks, loop, out, arm, auth, selected>>
  BY DEF O!Abort
<1>2. "failed" \in OutputPlaces /\ MayBe("start", "failed")
  BY DEF OutputPlaces, MayBe, Ending
<1>3. at' \in [Actors -> OutputPlaces] /\ OutputPlaced' /\ Locked' /\ Switching'
  BY <1>1, <1>2, StartGoes
<1> QED
  BY <1>1, <1>3 DEF OutputInv, OutputTypes, MitHasOutput

\* ------------------------------------------------------------ the servo thread

\* A thread that has ended does not come back, and a fault has the lock.
LEMMA OutputLoop ==
  ASSUME O!OutputAssumption, OutputInv,
         O!LoopEnds \/ O!LoopHolds \/ O!LoopFaults \/ O!FaultTakes \/ O!FaultEnds
  PROVE  OutputInv'
<1>1. UNCHANGED <<at, kind, mine, session, out, selected>> /\ loop # "none"
      /\ loop' \in {"none", "run", "fault", "holds"}
      /\ arm' \in {arm, "hold", "fault"}
  BY DEF O!LoopEnds, O!LoopHolds, O!LoopFaults, O!FaultTakes, O!FaultEnds
<1>2. auth' \in [writer : {"NONE", "SERVO", "SAFETY", "MODE_TRANSITION"}, epoch : 0..MaxEpoch,
                 mode : {"SUSPENDED", "HOLDING", "STOPPING", "TRACKING"}]
  <2>1. \/ auth' = auth \/ O!Opens("SAFETY", "STOPPING") \/ O!Owns("SAFETY", "HOLDING")
        \/ O!Owns("SERVO", "HOLDING") \/ O!Owns("SERVO", "TRACKING")
    BY DEF O!LoopEnds, O!LoopHolds, O!LoopFaults, O!FaultTakes, O!FaultEnds
  <2> QED
    BY <2>1, OpensTyped DEF OutputInv, OutputTypes
<1>3. "loop" \notin Actors /\ "none" \notin Actors
  BY DEF O!OutputAssumption
<1>4. locks' \in [{"session", "handoff"} -> Actors \cup {"none", "loop"}] /\ Locked'
  <2>1. CASE O!LoopEnds \/ O!LoopHolds \/ O!LoopFaults
    BY <1>1, <2>1 DEF O!LoopEnds, O!LoopHolds, O!LoopFaults, OutputInv, OutputTypes, Locked
  <2>2. CASE O!FaultTakes
    <3>1. /\ locks["handoff"] = "none" /\ loop' = "holds"
          /\ locks' = [locks EXCEPT !["handoff"] = "loop"]
      BY <2>2 DEF O!FaultTakes, O!Take
    <3>2. /\ locks' \in [{"session", "handoff"} -> Actors \cup {"none", "loop"}]
          /\ locks'["session"] = locks["session"] /\ locks'["handoff"] = "loop"
      BY <3>1 DEF OutputInv, OutputTypes
    <3> QED
      BY <1>1, <1>3, <3>1, <3>2 DEF OutputInv, Locked
  <2>3. CASE O!FaultEnds
    <3>1. /\ loop = "holds" /\ loop' # "holds" /\ O!Dropped("loop")
      BY <2>3 DEF O!FaultEnds
    <3>2. /\ locks' \in [{"session", "handoff"} -> Actors \cup {"none", "loop"}]
          /\ \A l \in {"session", "handoff"} :
               locks'[l] = IF locks[l] = "loop" THEN "none" ELSE locks[l]
      BY <3>1 DEF OutputInv, OutputTypes, O!Dropped
    <3>3. locks["handoff"] = "loop" /\ locks["session"] # "loop"
      BY <3>1 DEF OutputInv, Locked
    <3> QED
      BY <1>1, <1>3, <3>1, <3>2, <3>3 DEF OutputInv, Locked
  <2> QED
    BY <2>1, <2>2, <2>3
<1>5. OutputTypes' /\ OutputPlaced'
  BY <1>1, <1>2, <1>4 DEF OutputInv, OutputTypes, OutputPlaced
<1>6. MitHasOutput'
  BY <1>1 DEF OutputInv, MitHasOutput
<1>7. Switching'
  BY <1>1, SwitchKept
<1> QED
  BY <1>4, <1>5, <1>6, <1>7 DEF OutputInv

\* ------------------------------------------------------------ theorems

LEMMA OutputStep ==
  ASSUME O!OutputAssumption, OutputInv, [O!Next]_(O!vars) PROVE OutputInv'
<1>1. CASE O!Next
  <2>1. ASSUME NEW a \in Actors,
               \/ O!Begin(a) \/ O!End(a) \/ O!StopSignal(a) \/ O!ExitBegin(a) \/ O!ExitOk(a)
               \/ O!ExitFails(a) \/ O!Lock(a) \/ O!Verdict(a)
        PROVE  OutputInv'
    BY <2>1, OutputBegin, OutputEnd, OutputStopSignal, OutputExitBegin, OutputExitOk,
       OutputExitFails, OutputLock, OutputVerdict
  <2>2. ASSUME NEW a \in Actors, NEW b \in BOOLEAN,
               O!StopJoin(a, b) \/ O!Quiet(a, b) \/ O!Promote(a, b) \/ O!Call(a, b)
        PROVE  OutputInv'
    BY <2>2, OutputStopJoin, OutputQuiet, OutputPromote, OutputCall
  <2>3. CASE O!Guard \/ O!Save
    BY <2>3, OutputGuard, OutputSave
  <2>4. ASSUME NEW ok \in BOOLEAN, O!Prime(ok) PROVE OutputInv'
    BY <2>4, OutputPrime
  <2>5. CASE O!StartSession \/ O!Starting \/ O!Prepare \/ O!Grant \/ O!Activate \/ O!Abort
    BY <2>5, OutputStart, OutputStarting, OutputPrepare, OutputGrant, OutputActivate, OutputAbort
  <2>6. CASE O!LoopEnds \/ O!LoopHolds \/ O!LoopFaults \/ O!FaultTakes \/ O!FaultEnds
    BY <2>6, OutputLoop
  <2> QED
    BY <1>1, <2>1, <2>2, <2>3, <2>4, <2>5, <2>6 DEF O!Next
<1>2. CASE UNCHANGED O!vars
  BY <1>2 DEF O!vars, OutputInv, OutputTypes, OutputPlaced, Locked, MitHasOutput, Switching
<1> QED
  BY <1>1, <1>2

LEMMA OutputInvariant == O!OutputAssumption => (O!Spec => []OutputInv)
<1> SUFFICES ASSUME O!OutputAssumption PROVE O!Spec => []OutputInv
  OBVIOUS
<1>1. O!Init => OutputInv
  BY OutputInit
<1>2. OutputInv /\ [O!Next]_(O!vars) => OutputInv'
  BY OutputStep
<1> QED
  BY <1>1, <1>2, PTL DEF O!Spec

\* Who waits for the session lock holds none, who waits for the handoff lock
\* at most the other one.
LEMMA WaitFacts ==
  ASSUME O!OutputAssumption, OutputInv, NEW a \in Actors
  PROVE  /\ O!WaitsFor(a) \in {"none", "session", "handoff"}
         /\ O!WaitsFor(a) = "session" => ~HasSession(a, at[a]) /\ ~HasHandoff(a, at[a])
         /\ O!WaitsFor(a) = "handoff" => ~HasHandoff(a, at[a])
<1>1. MayBe(a, at[a]) /\ a \in {"start", "select", "hand", "stop"}
  BY DEF OutputInv, OutputPlaced, O!OutputAssumption
<1>2. CASE at[a] = "first"
  <2>1. a = "start" \/ a = "select" => O!WaitsFor(a) = "session"
    BY <1>2 DEF O!WaitsFor, O!SelectLocks
  <2>2. a = "hand" => O!WaitsFor(a) = "handoff"
    BY <1>2 DEF O!WaitsFor
  <2>3. a # "stop"
    BY <1>1, <1>2 DEF MayBe, Stopping, Ending
  <2> QED
    BY <1>1, <1>2, <2>1, <2>2, <2>3 DEF HasSession, HasHandoff
<1>3. CASE at[a] = "second"
  <2>1. O!WaitsFor(a) = "handoff" /\ a = "select"
    BY <1>1, <1>3 DEF O!WaitsFor, O!SelectLocks, MayBe, Stopping, Ending, Handing
  <2> QED
    BY <1>3, <2>1 DEF HasHandoff
<1>4. CASE at[a] = "prepare"
  <2>1. O!WaitsFor(a) = "handoff" /\ a = "start"
    BY <1>1, <1>4 DEF O!WaitsFor, MayBe, Stopping, Ending, Handing
  <2> QED
    BY <1>4, <2>1 DEF HasHandoff
<1>5. CASE at[a] \notin {"first", "second", "prepare"}
  BY <1>5 DEF O!WaitsFor
<1> QED
  BY <1>2, <1>3, <1>4, <1>5

LEMMA OutputLocks ==
  ASSUME O!OutputAssumption, OutputInv PROVE O!LocksOrdered
<1>1. ASSUME NEW a \in Actors, NEW b \in Actors, O!WaitsFor(a) # "none", O!WaitsFor(b) # "none",
             locks[O!WaitsFor(a)] = b, locks[O!WaitsFor(b)] = a
      PROVE  FALSE
  <2>1. /\ O!WaitsFor(a) \in {"session", "handoff"} /\ O!WaitsFor(b) \in {"session", "handoff"}
        /\ O!WaitsFor(a) = "session" => ~HasSession(a, at[a]) /\ ~HasHandoff(a, at[a])
        /\ O!WaitsFor(b) = "session" => ~HasSession(b, at[b]) /\ ~HasHandoff(b, at[b])
        /\ O!WaitsFor(a) = "handoff" => ~HasHandoff(a, at[a])
    BY <1>1, WaitFacts
  <2>2. /\ (locks["session"] = a) <=> HasSession(a, at[a])
        /\ (locks["handoff"] = a) <=> HasHandoff(a, at[a])
        /\ (locks["session"] = b) <=> HasSession(b, at[b])
        /\ (locks["handoff"] = b) <=> HasHandoff(b, at[b])
    BY DEF OutputInv, Locked
  <2> QED
    BY <1>1, <2>1, <2>2
<1>2. ASSUME NEW l \in DOMAIN locks, locks[l] \in Actors
      PROVE  at[locks[l]] # "idle"
  <2>1. l \in {"session", "handoff"}
    BY DEF OutputInv, OutputTypes
  <2>2. HasSession(locks[l], at[locks[l]]) \/ HasHandoff(locks[l], at[locks[l]])
    BY <1>2, <2>1 DEF OutputInv, Locked
  <2> QED
    BY <2>2 DEF HasSession, HasHandoff
<1> QED
  BY <1>1, <1>2 DEF O!LocksOrdered

LEMMA OutputTyped ==
  ASSUME O!OutputAssumption, OutputInv PROVE O!TypeOK
<1>1. \A l \in DOMAIN locks : locks[l] \in Actors \cup {"none", "loop"}
  BY DEF OutputInv, OutputTypes
<1> QED
  BY <1>1 DEF OutputInv, OutputTypes, O!TypeOK

LEMMA OutputClean ==
  ASSUME OutputInv PROVE O!SwitchIsClean
BY DEF OutputInv, Switching, O!SwitchIsClean

\* The types of the choice of output, and the bound on its epochs
\* (osc.py:1526-1597, 2556-2610).
THEOREM OutputTypeCorrect == O!OutputAssumption => (O!Spec => []O!TypeOK)
<1> SUFFICES ASSUME O!OutputAssumption PROVE O!Spec => []O!TypeOK
  OBVIOUS
<1>1. OutputInv => O!TypeOK
  BY OutputTyped
<1>2. O!Spec => []OutputInv
  BY OutputInvariant
<1> QED
  BY <1>1, <1>2, PTL

\* No two requests wait for each other's lock, whatever starts, is selected, is
\* handed over, stops or faults, and nobody is idle with a lock
\* (osc.py:1363, 2563-2566; control.py:408).
THEOREM LocksNeverCross == O!OutputAssumption => (O!Spec => []O!LocksOrdered)
<1> SUFFICES ASSUME O!OutputAssumption PROVE O!Spec => []O!LocksOrdered
  OBVIOUS
<1>1. OutputInv => O!LocksOrdered
  BY OutputLocks
<1>2. O!Spec => []OutputInv
  BY OutputInvariant
<1> QED
  BY <1>1, <1>2, PTL

\* When a selection is saved the old output is gone: no servo thread, no
\* session, and an arm that neither CPV nor MIT moves
\* (osc.py:1526-1597, 2566-2596; control.py:448-460, 1979-2033).
THEOREM SwitchesAreClean == O!OutputAssumption => (O!Spec => []O!SwitchIsClean)
BY OutputInvariant, OutputClean, PTL

-----------------------------------------------------------------------------
\* The policy connection.

CONSTANTS Modes, MaxConn, MaxRun, MaxGen
VARIABLES conn, run, mode, changing, active, policy, gen, told, idle, shown, worker, link,
          config, closing

C == INSTANCE Connection

\* One more client is allowed when a connection is under way.
Room == link.pc = "made" => gen < MaxGen

LinkInv == C!TypeOK /\ Room /\ C!InForce

WorkerType == [pc : {"dead", "begin", "loop", "client", "ask", "infer", "publish", "drop"},
               mode : Modes \cup {"none"}, conn : 0..MaxConn, run : Nat, client : C!Clients]

LEMMA Bounds ==
  ASSUME C!ConnectionAssumption
  PROVE  /\ MaxConn \in Nat /\ MaxConn >= 1 /\ MaxRun \in Nat /\ MaxGen \in Nat
         /\ "rtc" \in Modes /\ "dead" \notin Modes
         /\ C!NoClient \in C!Clients /\ C!Dead \in WorkerType
<1>1. /\ MaxConn \in Nat /\ MaxConn >= 1 /\ MaxRun \in Nat /\ MaxGen \in Nat
      /\ "rtc" \in Modes /\ "dead" \notin Modes
  BY DEF C!ConnectionAssumption
<1>2. C!NoClient \in C!Clients
  BY <1>1 DEF C!NoClient, C!Clients
<1>3. C!Dead \in WorkerType
  BY <1>1, <1>2 DEF C!Dead, WorkerType
<1> QED
  BY <1>1, <1>2, <1>3

LEMMA LinkInit == ASSUME C!ConnectionAssumption, C!Init PROVE LinkInv
<1>1. C!TypeOK
  <2>1. conn \in 1..MaxConn /\ run \in Nat /\ gen \in 0..MaxGen
    BY Bounds DEF C!Init
  <2>3. mode \in Modes /\ {changing, active, told, idle} \subseteq BOOLEAN
    BY Bounds DEF C!Init
  <2>4. policy \in C!Clients
    BY Bounds DEF C!Init
  <2>2. shown \in [conn : 0..MaxConn, run : Nat]
        /\ link \in [pc : {"idle", "made", "ensure"}, conn : 0..MaxConn]
    BY Bounds DEF C!Init
  <2> QED
    BY <2>1, <2>2, <2>3, <2>4, Bounds DEF C!Init, C!TypeOK, WorkerType
<1>2. Room /\ C!InForce
  BY DEF C!Init, Room, C!InForce, C!Alive, C!Dead
<1> QED
  BY <1>1, <1>2 DEF LinkInv

\* A worker that is started is told nothing and has no mode yet.
LEMMA EnsureKept ==
  ASSUME C!ConnectionAssumption, LinkInv, C!EnsureWorker, UNCHANGED mode
  PROVE  /\ {told', idle'} \subseteq BOOLEAN
         /\ worker' \in [pc : {"dead", "begin", "loop", "client", "ask", "infer", "publish",
                               "drop"},
                         mode : Modes \cup {"none"}, conn : 0..MaxConn, run : Nat,
                         client : C!Clients]
         /\ (C!Alive /\ ~told => worker.mode \in {mode, "none"})'
<1> USE DEF LinkInv, C!TypeOK, C!InForce, C!Alive
<1>1. CASE C!Alive
  BY <1>1 DEF C!EnsureWorker
<1>2. CASE ~C!Alive
  <2>1. told' = FALSE /\ idle' = FALSE /\ worker' = [C!Dead EXCEPT !.pc = "begin"]
    BY <1>2 DEF C!EnsureWorker
  <2>2. worker' \in WorkerType
    BY <2>1, Bounds DEF WorkerType
  <2>3. worker'.mode = "none"
    BY <2>1 DEF C!Dead
  <2> QED
    BY <2>1, <2>2, <2>3 DEF WorkerType
<1> QED
  BY <1>1, <1>2

\* A worker that goes on keeps what else it has.
LEMMA AtKept ==
  ASSUME C!ConnectionAssumption, LinkInv, UNCHANGED <<mode, told>>, C!Alive,
         NEW pc \in {"loop", "client", "ask", "infer", "publish", "drop"}, C!At(pc)
  PROVE  /\ worker' \in [pc : {"dead", "begin", "loop", "client", "ask", "infer", "publish",
                               "drop"},
                         mode : Modes \cup {"none"}, conn : 0..MaxConn, run : Nat,
                         client : C!Clients]
         /\ (C!Alive /\ ~told => worker.mode \in {mode, "none"})'
BY DEF LinkInv, C!TypeOK, C!InForce, C!Alive, C!At

LEMMA RequestsKept ==
  ASSUME C!ConnectionAssumption, LinkInv,
         \/ C!ConfigBegin \/ C!ConfigEnd \/ C!ConfigEnsure \/ C!StartRun \/ C!StopRun
         \/ C!CloseBegin \/ C!CloseLink \/ C!CloseEnd
  PROVE  LinkInv'
<1> USE DEF LinkInv, Room, C!TypeOK, C!InForce, C!Alive
<1>1. CASE C!ConfigBegin
  BY <1>1 DEF C!ConfigBegin, C!NoClient, C!Clients, C!ConnectionAssumption
<1>2. CASE C!ConfigEnd
  <2>1. /\ UNCHANGED <<conn, run, mode, active, policy, gen, told, idle, shown, worker, link,
                       closing>>
        /\ changing' = FALSE /\ config' = "ensure"
    BY <1>2 DEF C!ConfigEnd
  <2>2. C!TypeOK'
    BY <2>1
  <2>3. Room' /\ C!InForce'
    BY <2>1
  <2> QED
    BY <2>2, <2>3
<1>3. CASE C!ConfigEnsure
  BY <1>3, EnsureKept DEF C!ConfigEnsure
<1>4. CASE C!StartRun
  BY <1>4, EnsureKept DEF C!StartRun, C!NoClient, C!Clients, C!ConnectionAssumption
<1>5. CASE C!StopRun
  <2>1. run' \in Nat /\ active' = FALSE
    BY <1>5 DEF C!StopRun
  <2> QED
    BY <1>5, <2>1, EnsureKept DEF C!StopRun
<1>6. CASE C!CloseBegin
  <2>1. /\ UNCHANGED <<conn, mode, changing, policy, gen, shown, worker, link, config>>
        /\ run' = run + 1 /\ told' = TRUE /\ active' = FALSE /\ idle' = FALSE
        /\ closing' = "stopping"
    BY <1>6 DEF C!CloseBegin
  <2>2. run' \in Nat
    BY <2>1
  <2>3. C!TypeOK'
    BY <2>1, <2>2
  <2>4. Room' /\ C!InForce'
    BY <2>1
  <2> QED
    BY <2>3, <2>4
<1>7. CASE C!CloseLink
  BY <1>7 DEF C!CloseLink
<1>8. CASE C!CloseEnd
  BY <1>8 DEF C!CloseEnd, C!NoClient, C!Clients, C!ConnectionAssumption
<1> QED
  BY <1>1, <1>2, <1>3, <1>4, <1>5, <1>6, <1>7, <1>8

LEMMA WorkerKept ==
  ASSUME C!ConnectionAssumption, LinkInv,
         \/ C!WorkerBegin \/ C!WorkerEnd \/ C!Preview \/ C!PreviewClient \/ C!PreviewAsk
         \/ C!PreviewInfer \/ C!PreviewDrop \/ C!PreviewPublish
  PROVE  LinkInv'
<1> USE DEF LinkInv, Room, C!TypeOK, C!InForce, C!Alive
<1>1. CASE C!WorkerBegin
  BY <1>1 DEF C!WorkerBegin
<1>2. CASE C!WorkerEnd
  BY <1>2 DEF C!WorkerEnd, C!Dead, C!NoClient, C!Clients, C!ConnectionAssumption
<1>3. CASE C!Preview
  <2>0. conn \in 0..MaxConn /\ run \in Nat /\ worker \in WorkerType
    BY Bounds DEF WorkerType
  <2>1. worker' \in WorkerType /\ worker'.mode = worker.mode
    <3> HIDE DEF LinkInv, Room, C!TypeOK, C!InForce, C!Alive
    <3> QED
      BY <1>3, <2>0 DEF C!Preview, WorkerType
  <2> QED
    BY <1>3, <2>1 DEF C!Preview, WorkerType
<1>4. CASE C!PreviewClient
  <2>1. CASE policy # C!NoClient /\ worker' = [worker EXCEPT !.pc = "ask", !.client = policy]
    BY <1>4, <2>1 DEF C!PreviewClient
  <2>2. CASE C!At("loop")
    BY <1>4, <2>2, AtKept DEF C!PreviewClient
  <2> QED
    BY <1>4, <2>1, <2>2 DEF C!PreviewClient
<1>5. CASE C!PreviewAsk
  BY <1>5, AtKept DEF C!PreviewAsk
<1>6. CASE C!PreviewInfer
  BY <1>6, AtKept DEF C!PreviewInfer
<1>7. CASE C!PreviewDrop
  BY <1>7, AtKept DEF C!PreviewDrop, C!Invalidate, C!NoClient, C!Clients,
                      C!ConnectionAssumption
<1>8. CASE C!PreviewPublish
  BY <1>8, AtKept DEF C!PreviewPublish
<1> QED
  BY <1>1, <1>2, <1>3, <1>4, <1>5, <1>6, <1>7, <1>8

LEMMA ClientKept ==
  ASSUME C!ConnectionAssumption, LinkInv,
         C!LinkRead \/ C!LinkFail \/ C!LinkPublish \/ C!LinkEnsure \/ C!LinkPing
  PROVE  LinkInv'
<1> USE DEF LinkInv, Room, C!TypeOK, C!InForce, C!Alive
<1>1. CASE C!LinkRead
  BY <1>1 DEF C!LinkRead
<1>2. CASE C!LinkFail
  BY <1>2 DEF C!LinkFail, C!ConnectionAssumption
<1>3. CASE C!LinkPublish
  BY <1>3 DEF C!LinkPublish, C!LinkPublishes, C!LinkOpen, C!Clients, C!ConnectionAssumption
<1>4. CASE C!LinkEnsure
  BY <1>4, EnsureKept DEF C!LinkEnsure, C!ConnectionAssumption
<1>5. CASE C!LinkPing
  BY <1>5 DEF C!LinkPing, C!Invalidate, C!NoClient, C!Clients, C!ConnectionAssumption
<1> QED
  BY <1>1, <1>2, <1>3, <1>4, <1>5

LEMMA LinkInvariant == C!ConnectionAssumption => (C!Spec => []LinkInv)
<1> SUFFICES ASSUME C!ConnectionAssumption PROVE C!Spec => []LinkInv
  OBVIOUS
<1>1. LinkInv /\ [C!Next]_(C!vars) => LinkInv'
  <2> SUFFICES ASSUME LinkInv, [C!Next]_(C!vars) PROVE LinkInv'
    OBVIOUS
  <2>1. CASE UNCHANGED C!vars
    BY <2>1 DEF C!vars, LinkInv, Room, C!TypeOK, C!InForce, C!Alive
  <2> QED
    BY <2>1, RequestsKept, WorkerKept, ClientKept DEF C!Next, C!Rest
<1> QED
  BY <1>1, LinkInit, PTL DEF C!Spec

\* The client, the prediction on show and the mode of the worker are those of the
\* configuration in force, whatever handshakes, answers and joins outlast a
\* switch; a closed adapter has no client (pi05_adapter.py:381-552, 656-682,
\* inference_preview.py:114-208).
THEOREM ConnectionInForce == C!ConnectionAssumption => (C!Spec => [](C!TypeOK /\ C!InForce))
<1>1. LinkInv => C!TypeOK /\ C!InForce
  BY DEF LinkInv
<1> QED
  BY <1>1, LinkInvariant, PTL

-----------------------------------------------------------------------------
\* The solver's process and its client.

CONSTANTS MaxProcess, MaxAsk, MaxTarget, MaxMotion
VARIABLES client, ask, took, minimum, mailbox, latest, fks, server, writer, reader, asked, late

K == INSTANCE Kinematics WITH MaxGen <- MaxTarget, MaxEpoch <- MaxMotion

\* Requests that go to a process, one that is not there, and the rest of the state.
Motions == [kind : {"motion"}, n : 0..MaxAsk, sample : Nat, epoch : Nat, gen : Nat]
Poses   == [kind : {"fk"}, n : 0..MaxAsk, sample : Nat, epoch : Nat, gen : Nat]
Jobs    == Motions \cup Poses
Nothing == K!NoRequest
Servers == [alive : BOOLEAN, stdin : Seq(Jobs), slot : Jobs \cup {Nothing},
            busy : Jobs \cup {Nothing}, stdout : Seq(Jobs)]

ClientTypes ==
  /\ client \in [process : 0..MaxProcess, next : Nat, session : {"off", "on", "closing"},
                 sample : Nat, epoch : 0..MaxMotion, gen : 0..MaxTarget]
  /\ minimum \in 0..MaxMotion /\ asked \in 0..MaxAsk /\ late \in BOOLEAN
  /\ ask \in Jobs \cup {Nothing}
BoxTypes ==
  /\ mailbox \in Motions \cup {Nothing, K!Pill} /\ latest \in Motions \cup {Nothing}
  /\ fks \in Poses \cup {Nothing}
ServerTypes == server \in [K!Processes -> Servers]
ThreadTypes ==
  /\ writer \in [K!Processes -> [on : BOOLEAN, held : Motions \cup {Nothing}]]
  /\ reader \in [K!Processes -> [on : BOOLEAN, held : Jobs \cup {Nothing}]]
SolverTypes == ClientTypes /\ BoxTypes /\ ServerTypes /\ ThreadTypes

\* What is under way between the client and the processes.
InSeq(s, r) == \E i \in DOMAIN s : s[i] = r
With(p, r) ==
  \/ r = writer[p].held \/ r = reader[p].held \/ r = server[p].slot \/ r = server[p].busy
  \/ InSeq(server[p].stdin, r) \/ InSeq(server[p].stdout, r)
UnderWay(r) == r \in {mailbox, latest, fks} \/ \E p \in K!Processes : With(p, r)

\* A motion request is none of the future, and the one with the identity of the
\* request that is waited for is that request.
Dated(r) ==
  r.kind = "motion" =>
    /\ r.gen =< client.gen /\ (r.gen = client.gen => r.sample =< client.sample)
    /\ ask.kind = "motion" /\ K!IsAnswer(r, ask) => r.n = ask.n

\* While no FK call has given up, an FK request is that of the call that waits.
Waited(r) == ~late /\ r.kind = "fk" => ask.kind = "fk" /\ r.n = ask.n

AllKnown == \A r : UnderWay(r) => Dated(r) /\ Waited(r)

\* And it is in one place.
One(b) == IF b THEN 1 ELSE 0
IsFk(r) == r.kind = "fk"
HasFk(s) == \E i \in DOMAIN s : IsFk(s[i])
OneFk(s) == \A i, j \in DOMAIN s : IsFk(s[i]) /\ IsFk(s[j]) => i = j
FksAt(p) ==
  One(HasFk(server[p].stdin)) + One(IsFk(server[p].slot)) + One(IsFk(server[p].busy))
    + One(HasFk(server[p].stdout)) + One(IsFk(reader[p].held))
FkAlone ==
  ~late =>
    /\ \A p \in K!Processes : /\ OneFk(server[p].stdin) /\ OneFk(server[p].stdout)
                              /\ FksAt(p) + One(IsFk(fks)) =< 1
    /\ \A p, q \in K!Processes : p # q => FksAt(p) + FksAt(q) + One(IsFk(fks)) =< 1

SolverInv == SolverTypes /\ AllKnown /\ FkAlone /\ K!AnswerIsAsked

\* ------------------------------------------------------------ sequences of requests

LEMMA Appended ==
  ASSUME NEW s \in Seq(Jobs), NEW x \in Jobs
  PROVE  /\ Append(s, x) \in Seq(Jobs)
         /\ \A r : InSeq(Append(s, x), r) => InSeq(s, r) \/ r = x
         /\ HasFk(Append(s, x)) <=> HasFk(s) \/ IsFk(x)
         /\ OneFk(s) /\ ~(HasFk(s) /\ IsFk(x)) => OneFk(Append(s, x))
<1>1. /\ Append(s, x) \in Seq(Jobs)
      /\ DOMAIN Append(s, x) = 1..(Len(s) + 1) /\ DOMAIN s = 1..Len(s) /\ Len(s) \in Nat
      /\ \A i \in 1..Len(s) : Append(s, x)[i] = s[i]
      /\ Append(s, x)[Len(s) + 1] = x
  OBVIOUS
<1>2. \A r : InSeq(Append(s, x), r) => InSeq(s, r) \/ r = x
  BY <1>1 DEF InSeq
<1>3. HasFk(Append(s, x)) <=> HasFk(s) \/ IsFk(x)
  BY <1>1 DEF HasFk, IsFk
<1>4. OneFk(s) /\ ~(HasFk(s) /\ IsFk(x)) => OneFk(Append(s, x))
  BY <1>1 DEF HasFk, OneFk, IsFk
<1> QED
  BY <1>1, <1>2, <1>3, <1>4

LEMMA Taken ==
  ASSUME NEW s \in Seq(Jobs), s # <<>>
  PROVE  /\ Head(s) \in Jobs /\ Tail(s) \in Seq(Jobs) /\ InSeq(s, Head(s))
         /\ \A r : InSeq(Tail(s), r) => InSeq(s, r)
         /\ OneFk(s) => OneFk(Tail(s))
         /\ HasFk(Tail(s)) \/ IsFk(Head(s)) => HasFk(s)
         /\ OneFk(s) /\ IsFk(Head(s)) => ~HasFk(Tail(s))
<1>1. /\ Head(s) \in Jobs /\ Tail(s) \in Seq(Jobs) /\ Head(s) = s[1]
      /\ Len(s) \in Nat /\ Len(s) >= 1 /\ DOMAIN s = 1..Len(s)
      /\ DOMAIN Tail(s) = 1..(Len(s) - 1)
      /\ \A i \in 1..(Len(s) - 1) : Tail(s)[i] = s[i + 1]
  OBVIOUS
<1>2. InSeq(s, Head(s)) /\ \A r : InSeq(Tail(s), r) => InSeq(s, r)
  BY <1>1 DEF InSeq
<1>3. OneFk(s) => OneFk(Tail(s))
  BY <1>1 DEF OneFk, IsFk
<1>4. HasFk(Tail(s)) \/ IsFk(Head(s)) => HasFk(s)
  BY <1>1 DEF HasFk, IsFk
<1>5. OneFk(s) /\ IsFk(Head(s)) => ~HasFk(Tail(s))
  BY <1>1 DEF HasFk, OneFk, IsFk
<1> QED
  BY <1>1, <1>2, <1>3, <1>4, <1>5

LEMMA NoneIn == ~HasFk(<<>>) /\ OneFk(<<>>) /\ <<>> \in Seq(Jobs) /\ \A r : ~InSeq(<<>>, r)
BY DEF HasFk, OneFk, InSeq

LEMMA Kinds ==
  ASSUME K!KinematicsAssumption
  PROVE  /\ Nothing.kind = "none" /\ K!Pill.kind = "pill" /\ Nothing \notin Jobs
         /\ K!Pill # Nothing /\ K!Pill \notin Jobs
         /\ \A r \in Motions : r.kind = "motion" /\ r # Nothing /\ r # K!Pill
         /\ \A r \in Poses : r.kind = "fk" /\ r # Nothing /\ r # K!Pill
         /\ {MaxProcess, MaxAsk, MaxTarget, MaxMotion} \subseteq Nat \ {0}
BY DEF Nothing, K!NoRequest, K!Pill, Motions, Poses, Jobs, K!KinematicsAssumption

\* ------------------------------------------------------------ what a step keeps

LEMMA KnownKept ==
  ASSUME AllKnown, \A r : UnderWay(r)' => UnderWay(r) \/ r = Nothing \/ r = K!Pill,
         K!KinematicsAssumption,
         client'.gen = client.gen, client'.sample = client.sample, ask' = ask,
         late' = late
  PROVE  AllKnown'
<1> SUFFICES ASSUME NEW r, UnderWay(r)' PROVE Dated(r)' /\ Waited(r)'
  BY DEF AllKnown
<1>1. CASE UnderWay(r)
  BY <1>1 DEF AllKnown, Dated, Waited, K!IsAnswer
<1>2. CASE r = Nothing \/ r = K!Pill
  BY <1>2, Kinds DEF Dated, Waited
<1> QED
  BY <1>1, <1>2

\* Nothing has become more: what a process and the client's box have together.
LEMMA AloneKept ==
  ASSUME FkAlone, NEW p \in K!Processes, late' = late,
         \A q \in K!Processes \ {p} : server'[q] = server[q] /\ reader'[q] = reader[q],
         ~late => /\ OneFk(server'[p].stdin) /\ OneFk(server'[p].stdout)
                  /\ FksAt(p)' + One(IsFk(fks)') =< FksAt(p) + One(IsFk(fks))
  PROVE  FkAlone'
<1> SUFFICES ASSUME ~late PROVE
      /\ \A q \in K!Processes : /\ OneFk(server'[q].stdin) /\ OneFk(server'[q].stdout)
                                /\ FksAt(q)' + One(IsFk(fks)') =< 1
      /\ \A q, o \in K!Processes : q # o => FksAt(q)' + FksAt(o)' + One(IsFk(fks)') =< 1
  BY DEF FkAlone, K!Processes
<1>1. \A q \in K!Processes \ {p} : FksAt(q)' = FksAt(q)
  BY DEF FksAt
<1> PICK f : f = One(IsFk(fks))
  OBVIOUS
<1> PICK g : g = One(IsFk(fks)')
  OBVIOUS
<1>2. f \in {0, 1} /\ g \in {0, 1} /\ \A q : FksAt(q) \in Nat /\ FksAt(q)' \in Nat
  BY DEF One, FksAt
<1>3. /\ \A q \in K!Processes : FksAt(q) + f =< 1
      /\ \A q, o \in K!Processes : q # o => FksAt(q) + FksAt(o) + f =< 1
      /\ FksAt(p)' + g =< FksAt(p) + f
  BY DEF FkAlone
<1>4. \A q \in K!Processes : OneFk(server'[q].stdin) /\ OneFk(server'[q].stdout)
  BY DEF FkAlone
<1>5. ASSUME NEW q \in K!Processes PROVE FksAt(q)' + g =< 1
  <2>1. CASE q = p
    BY <2>1, <1>2, <1>3
  <2>2. CASE q # p
    <3>1. FksAt(q)' = FksAt(q) /\ FksAt(q) + FksAt(p) + f =< 1
      BY <2>2, <1>1, <1>3
    <3> QED
      BY <3>1, <1>2, <1>3
  <2> QED
    BY <2>1, <2>2
<1>6. ASSUME NEW q \in K!Processes, NEW o \in K!Processes, q # o
      PROVE  FksAt(q)' + FksAt(o)' + g =< 1
  <2>1. CASE q = p
    <3>1. FksAt(o)' = FksAt(o) /\ FksAt(p) + FksAt(o) + f =< 1
      BY <2>1, <1>1, <1>3, <1>6
    <3> QED
      BY <3>1, <2>1, <1>2, <1>3
  <2>2. CASE o = p
    <3>1. FksAt(q)' = FksAt(q) /\ FksAt(p) + FksAt(q) + f =< 1
      BY <2>2, <1>1, <1>3, <1>6
    <3> QED
      BY <3>1, <2>2, <1>2, <1>3
  <2>3. CASE q # p /\ o # p
    <3>1. /\ FksAt(q)' = FksAt(q) /\ FksAt(o)' = FksAt(o)
          /\ FksAt(q) + FksAt(p) + f =< 1 /\ FksAt(o) + FksAt(p) + f =< 1
          /\ FksAt(q) + FksAt(o) + f =< 1
      BY <2>3, <1>1, <1>3, <1>6
    <3> QED
      BY <3>1, <1>2, <1>3
  <2> QED
    BY <2>1, <2>2, <2>3
<1> QED
  BY <1>4, <1>5, <1>6

\* A step of a process, or of a thread of its, moves requests.
LEMMA MovesKept ==
  ASSUME K!KinematicsAssumption, SolverInv, NEW p \in K!Processes, SolverTypes',
         UNCHANGED <<client, ask, took, late>>,
         \A q \in K!Processes \ {p} :
           server'[q] = server[q] /\ reader'[q] = reader[q] /\ writer'[q] = writer[q],
         \A r : With(p, r)' => UnderWay(r) \/ r = Nothing,
         \A r \in {mailbox', latest', fks'} : UnderWay(r) \/ r = Nothing,
         ~late => /\ OneFk(server'[p].stdin) /\ OneFk(server'[p].stdout)
                  /\ FksAt(p)' + One(IsFk(fks)') =< FksAt(p) + One(IsFk(fks))
  PROVE  SolverInv'
<1>1. \A r : UnderWay(r)' => UnderWay(r) \/ r = Nothing
  <2> SUFFICES ASSUME NEW r, UnderWay(r)' PROVE UnderWay(r) \/ r = Nothing
    OBVIOUS
  <2>1. CASE r \in {mailbox', latest', fks'}
    BY <2>1
  <2>2. ASSUME NEW q \in K!Processes, With(q, r)' PROVE UnderWay(r) \/ r = Nothing
    <3>1. CASE q = p
      BY <2>2, <3>1
    <3>2. CASE q # p
      <4>1. With(q, r)
        BY <2>2, <3>2 DEF With
      <4> QED
        BY <4>1 DEF UnderWay
    <3> QED
      BY <3>1, <3>2
  <2> QED
    BY <2>1, <2>2 DEF UnderWay, K!Processes
<1>2. AllKnown'
  BY <1>1, KnownKept DEF SolverInv
<1>3. FkAlone'
  BY AloneKept DEF SolverInv
<1>4. K!AnswerIsAsked'
  BY DEF SolverInv, K!AnswerIsAsked
<1> QED
  BY <1>2, <1>3, <1>4 DEF SolverInv

\* What a process has, one by one.
LEMMA ServerHas ==
  ASSUME SolverInv, NEW p \in K!Processes
  PROVE  /\ server[p] \in Servers /\ server[p].stdin \in Seq(Jobs)
         /\ server[p].stdout \in Seq(Jobs) /\ server[p].alive \in BOOLEAN
         /\ server[p].slot \in Jobs \cup {Nothing} /\ server[p].busy \in Jobs \cup {Nothing}
         /\ reader[p].held \in Jobs \cup {Nothing} /\ writer[p].held \in Motions \cup {Nothing}
         /\ reader[p].on \in BOOLEAN /\ writer[p].on \in BOOLEAN
         /\ ~late => OneFk(server[p].stdin) /\ OneFk(server[p].stdout)
BY DEF SolverInv, SolverTypes, ServerTypes, ThreadTypes, Servers, FkAlone

LEMMA SolverTypesKept ==
  ASSUME SolverInv, ServerTypes', UNCHANGED <<client, ask, minimum, mailbox, latest, fks, asked,
                                              late, writer, reader>>
  PROVE  SolverTypes'
BY DEF SolverInv, SolverTypes, ClientTypes, BoxTypes, ThreadTypes

\* ------------------------------------------------------------ the process

LEMMA ReceiveKept ==
  ASSUME K!KinematicsAssumption, SolverInv, NEW p \in K!Processes, K!Receive(p)
  PROVE  SolverInv'
<1> PICK s : s = server[p].stdin
  OBVIOUS
<1>1. s \in Seq(Jobs) /\ s # <<>> /\ Head(s) \in Jobs /\ Tail(s) \in Seq(Jobs)
  BY ServerHas, Taken DEF K!Receive
<1>2. server \in [K!Processes -> Servers]
  BY DEF SolverInv, SolverTypes, ServerTypes
<1>3. server' = [server EXCEPT ![p].slot = Head(s), ![p].stdin = Tail(s)]
  BY <1>2 DEF K!Receive
<1>4. /\ ServerTypes'
      /\ server'[p].stdin = Tail(s) /\ server'[p].slot = Head(s)
      /\ server'[p].busy = server[p].busy /\ server'[p].stdout = server[p].stdout
      /\ \A q \in K!Processes \ {p} : server'[q] = server[q]
  <2>1. /\ server'[p] = [server[p] EXCEPT !.slot = Head(s), !.stdin = Tail(s)]
        /\ \A q \in K!Processes \ {p} : server'[q] = server[q]
        /\ DOMAIN server' = K!Processes /\ server' = [q \in K!Processes |-> server'[q]]
    BY <1>2, <1>3
  <2>2. server[p] \in Servers
    BY <1>2
  <2>3. /\ server'[p] \in Servers
        /\ server'[p].stdin = Tail(s) /\ server'[p].slot = Head(s)
        /\ server'[p].busy = server[p].busy /\ server'[p].stdout = server[p].stdout
    BY <1>1, <2>1, <2>2 DEF Servers
  <2>4. ServerTypes'
    BY <1>2, <2>1, <2>3 DEF ServerTypes
  <2> QED
    BY <2>1, <2>3, <2>4
<1>5. UNCHANGED <<client, ask, took, minimum, mailbox, latest, fks, writer, reader, asked, late>>
  BY DEF K!Receive
<1>6. SolverTypes'
  BY <1>4, <1>5, SolverTypesKept
<1>7. \A r : With(p, r)' => UnderWay(r)
  <2> SUFFICES ASSUME NEW r, With(p, r)' PROVE With(p, r)
    BY DEF UnderWay
  <2> QED
    BY <1>1, <1>4, <1>5, Taken DEF With
<1>8. ~late => /\ OneFk(server'[p].stdin) /\ OneFk(server'[p].stdout)
               /\ FksAt(p)' + One(IsFk(fks)') =< FksAt(p) + One(IsFk(fks))
  BY <1>1, <1>4, <1>5, ServerHas, Taken DEF FksAt, One
<1>9. \A r \in {mailbox', latest', fks'} : UnderWay(r)
  BY <1>5 DEF UnderWay
<1> QED
  BY <1>4, <1>5, <1>6, <1>7, <1>8, <1>9, MovesKept

LEMMA SolveKept ==
  ASSUME K!KinematicsAssumption, SolverInv, NEW p \in K!Processes, K!Solve(p)
  PROVE  SolverInv'
<1> PICK s : s = server[p].slot
  OBVIOUS
<1>1. s \in Jobs /\ server[p].busy = Nothing
  BY ServerHas DEF K!Solve, Nothing
<1>2. server \in [K!Processes -> Servers]
  BY DEF SolverInv, SolverTypes, ServerTypes
<1>3. server' = [server EXCEPT ![p].busy = s, ![p].slot = Nothing]
  BY <1>2 DEF K!Solve, Nothing
<1>4. /\ ServerTypes'
      /\ server'[p].stdin = server[p].stdin /\ server'[p].slot = Nothing
      /\ server'[p].busy = s /\ server'[p].stdout = server[p].stdout
      /\ \A q \in K!Processes \ {p} : server'[q] = server[q]
  <2>1. /\ server'[p] = [server[p] EXCEPT !.busy = s, !.slot = Nothing]
        /\ \A q \in K!Processes \ {p} : server'[q] = server[q]
        /\ DOMAIN server' = K!Processes /\ server' = [q \in K!Processes |-> server'[q]]
    BY <1>2, <1>3
  <2>2. server[p] \in Servers
    BY <1>2
  <2>3. /\ server'[p] \in Servers
        /\ server'[p].stdin = server[p].stdin /\ server'[p].slot = Nothing
        /\ server'[p].busy = s /\ server'[p].stdout = server[p].stdout
    BY <1>1, <2>1, <2>2 DEF Servers
  <2>4. ServerTypes'
    BY <1>2, <2>1, <2>3 DEF ServerTypes
  <2> QED
    BY <2>1, <2>3, <2>4
<1>5. UNCHANGED <<client, ask, took, minimum, mailbox, latest, fks, writer, reader, asked, late>>
  BY DEF K!Solve
<1>6. SolverTypes'
  BY <1>4, <1>5, SolverTypesKept
<1>7. \A r : With(p, r)' => UnderWay(r) \/ r = Nothing
  <2> SUFFICES ASSUME NEW r, With(p, r)' PROVE With(p, r) \/ r = Nothing
    BY DEF UnderWay
  <2> QED
    BY <1>4, <1>5 DEF With
<1>8. ~late => /\ OneFk(server'[p].stdin) /\ OneFk(server'[p].stdout)
               /\ FksAt(p)' + One(IsFk(fks)') =< FksAt(p) + One(IsFk(fks))
  BY <1>1, <1>4, <1>5, ServerHas, Kinds DEF FksAt, One, IsFk
<1>9. \A r \in {mailbox', latest', fks'} : UnderWay(r)
  BY <1>5 DEF UnderWay
<1> QED
  BY <1>4, <1>5, <1>6, <1>7, <1>8, <1>9, MovesKept

LEMMA ReplyKept ==
  ASSUME K!KinematicsAssumption, SolverInv, NEW p \in K!Processes, K!Reply(p)
  PROVE  SolverInv'
<1> PICK s : s = server[p].stdout
  OBVIOUS
<1> PICK b : b = server[p].busy
  OBVIOUS
<1>1. s \in Seq(Jobs) /\ b \in Jobs
  BY ServerHas DEF K!Reply, Nothing
<1>2. server \in [K!Processes -> Servers]
  BY DEF SolverInv, SolverTypes, ServerTypes
<1> PICK sent : /\ sent \in {s, Append(s, b)}
               /\ server' = [server EXCEPT ![p].busy = Nothing, ![p].stdout = sent]
  BY <1>2 DEF K!Reply, Nothing
<1>3. sent \in Seq(Jobs)
  BY <1>1, Appended
<1>4. /\ ServerTypes'
      /\ server'[p].stdin = server[p].stdin /\ server'[p].slot = server[p].slot
      /\ server'[p].busy = Nothing /\ server'[p].stdout = sent
      /\ \A q \in K!Processes \ {p} : server'[q] = server[q]
  <2>1. /\ server'[p] = [server[p] EXCEPT !.busy = Nothing, !.stdout = sent]
        /\ \A q \in K!Processes \ {p} : server'[q] = server[q]
        /\ DOMAIN server' = K!Processes /\ server' = [q \in K!Processes |-> server'[q]]
    BY <1>2, server' = [server EXCEPT ![p].busy = Nothing, ![p].stdout = sent]
  <2>2. server[p] \in Servers
    BY <1>2
  <2>3. /\ server'[p] \in Servers
        /\ server'[p].stdin = server[p].stdin /\ server'[p].slot = server[p].slot
        /\ server'[p].busy = Nothing /\ server'[p].stdout = sent
    BY <1>3, <2>1, <2>2 DEF Servers
  <2>4. ServerTypes'
    BY <1>2, <2>1, <2>3 DEF ServerTypes
  <2> QED
    BY <2>1, <2>3, <2>4
<1>5. UNCHANGED <<client, ask, took, minimum, mailbox, latest, fks, writer, reader, asked, late>>
  BY DEF K!Reply
<1>6. SolverTypes'
  BY <1>4, <1>5, SolverTypesKept
<1>7. \A r : With(p, r)' => UnderWay(r) \/ r = Nothing
  <2> SUFFICES ASSUME NEW r, With(p, r)' PROVE With(p, r) \/ r = Nothing
    BY DEF UnderWay
  <2>1. InSeq(sent, r) => InSeq(s, r) \/ r = b
    BY <1>1, Appended
  <2> QED
    BY <1>4, <1>5, <2>1 DEF With
<1>8. ~late => /\ OneFk(server'[p].stdin) /\ OneFk(server'[p].stdout)
               /\ FksAt(p)' + One(IsFk(fks)') =< FksAt(p) + One(IsFk(fks))
  <2> SUFFICES ASSUME ~late
      PROVE /\ OneFk(server'[p].stdin) /\ OneFk(server'[p].stdout)
            /\ FksAt(p)' + One(IsFk(fks)') =< FksAt(p) + One(IsFk(fks))
    OBVIOUS
  <2>1. ~(HasFk(s) /\ IsFk(b))
    <3>1. FksAt(p) + One(IsFk(fks)) =< 1
      BY DEF SolverInv, FkAlone
    <3> QED
      BY <3>1 DEF FksAt, One
  <2>2. ~IsFk(Nothing)
    BY Kinds DEF IsFk
  <2>3. OneFk(sent) /\ One(HasFk(sent)) =< One(HasFk(s)) + One(IsFk(b))
    <3>1. CASE sent = s
      BY <2>1, <3>1, ServerHas DEF One
    <3>2. CASE sent = Append(s, b)
      <4>1. OneFk(sent) /\ (HasFk(sent) <=> HasFk(s) \/ IsFk(b))
        BY <1>1, <2>1, <3>2, ServerHas, Appended
      <4> QED
        BY <4>1, <2>1 DEF One
    <3> QED
      BY <3>1, <3>2
  <2> QED
    BY <1>4, <1>5, <2>2, <2>3, ServerHas DEF FksAt, One
<1>9. \A r \in {mailbox', latest', fks'} : UnderWay(r)
  BY <1>5 DEF UnderWay
<1> QED
  BY <1>4, <1>5, <1>6, <1>7, <1>8, <1>9, MovesKept

\* A process that ends takes with it what it has not written.
LEMMA KilledHas ==
  ASSUME K!KinematicsAssumption, SolverInv, NEW p \in K!Processes,
         server' = K!Killed(p), reader' = reader
  PROVE  /\ ServerTypes'
         /\ server'[p].stdin = <<>> /\ server'[p].slot = Nothing
         /\ server'[p].busy = Nothing /\ server'[p].stdout = server[p].stdout
         /\ \A q \in K!Processes \ {p} : server'[q] = server[q]
         /\ ~late => /\ OneFk(server'[p].stdin) /\ OneFk(server'[p].stdout)
                     /\ FksAt(p)' =< FksAt(p)
<1>1. server \in [K!Processes -> Servers]
  BY DEF SolverInv, SolverTypes, ServerTypes
<1>2. server' = [server EXCEPT ![p].alive = FALSE, ![p].stdin = <<>>, ![p].slot = Nothing,
                               ![p].busy = Nothing]
  BY DEF K!Killed, Nothing
<1>3. /\ ServerTypes'
      /\ server'[p].stdin = <<>> /\ server'[p].slot = Nothing
      /\ server'[p].busy = Nothing /\ server'[p].stdout = server[p].stdout
      /\ \A q \in K!Processes \ {p} : server'[q] = server[q]
  <2> PICK none \in Seq(Jobs) : none = <<>>
    BY NoneIn
  <2>1. server' = [server EXCEPT ![p].alive = FALSE, ![p].stdin = none, ![p].slot = Nothing,
                                 ![p].busy = Nothing]
    BY <1>2
  <2>2. /\ server'[p].alive = FALSE /\ server'[p].stdin = none /\ server'[p].slot = Nothing
        /\ server'[p].busy = Nothing /\ server'[p].stdout = server[p].stdout
        /\ \A q \in K!Processes \ {p} : server'[q] = server[q]
    BY <1>1, <2>1 DEF Servers
  <2>3. server'[p] \in Servers
    <3> PICK half : half = [server[p] EXCEPT !.alive = FALSE, !.stdin = none]
      OBVIOUS
    <3>1. half \in Servers
      BY <1>1 DEF Servers
    <3>2. server'[p] = [half EXCEPT !.slot = Nothing, !.busy = Nothing]
      BY <1>1, <2>1
    <3> QED
      BY <3>1, <3>2 DEF Servers
  <2>4. server' \in [K!Processes -> Servers]
    BY <1>1, <2>1, <2>3, <2>2
  <2> QED
    BY <2>2, <2>4 DEF ServerTypes
<1>4. ~IsFk(Nothing)
  BY Kinds DEF IsFk
<1>5. ~late => /\ OneFk(server'[p].stdin) /\ OneFk(server'[p].stdout)
               /\ FksAt(p)' =< FksAt(p)
  BY <1>3, <1>4, NoneIn, ServerHas DEF FksAt, One
<1> QED
  BY <1>3, <1>5

LEMMA CrashKept ==
  ASSUME K!KinematicsAssumption, SolverInv, NEW p \in K!Processes, K!Crash(p)
  PROVE  SolverInv'
<1>1. UNCHANGED <<client, ask, took, minimum, mailbox, latest, fks, writer, reader, asked, late>>
  BY DEF K!Crash
<1>2. /\ ServerTypes'
      /\ server'[p].stdin = <<>> /\ server'[p].slot = Nothing
      /\ server'[p].busy = Nothing /\ server'[p].stdout = server[p].stdout
      /\ \A q \in K!Processes \ {p} : server'[q] = server[q]
      /\ ~late => /\ OneFk(server'[p].stdin) /\ OneFk(server'[p].stdout)
                  /\ FksAt(p)' =< FksAt(p)
  BY <1>1, KilledHas DEF K!Crash
<1>3. SolverTypes'
  BY <1>1, <1>2, SolverTypesKept
<1>4. \A r : With(p, r)' => UnderWay(r) \/ r = Nothing
  <2> SUFFICES ASSUME NEW r, With(p, r)' PROVE With(p, r) \/ r = Nothing
    BY DEF UnderWay
  <2> QED
    BY <1>1, <1>2, NoneIn DEF With
<1>5. ~late => FksAt(p)' + One(IsFk(fks)') =< FksAt(p) + One(IsFk(fks))
  BY <1>1, <1>2 DEF FksAt, One
<1>6. \A r \in {mailbox', latest', fks'} : UnderWay(r)
  BY <1>1 DEF UnderWay
<1> QED
  BY <1>1, <1>2, <1>3, <1>4, <1>5, <1>6, MovesKept

\* ------------------------------------------------------------ the client's threads

LEMMA ReaderLineKept ==
  ASSUME K!KinematicsAssumption, SolverInv, NEW p \in K!Processes, K!ReaderLine(p)
  PROVE  SolverInv'
<1> PICK s : s = server[p].stdout
  OBVIOUS
<1>1. s \in Seq(Jobs) /\ s # <<>> /\ Head(s) \in Jobs /\ Tail(s) \in Seq(Jobs)
      /\ reader[p].held = Nothing
  BY ServerHas, Taken DEF K!ReaderLine, Nothing
<1>2. server \in [K!Processes -> Servers]
      /\ reader \in [K!Processes -> [on : BOOLEAN, held : Jobs \cup {Nothing}]]
  BY DEF SolverInv, SolverTypes, ServerTypes, ThreadTypes
<1> PICK line : /\ line \in {Head(s), Nothing}
                /\ reader' = [reader EXCEPT ![p].held = line]
  BY DEF K!ReaderLine, Nothing
<1>3. server' = [server EXCEPT ![p].stdout = Tail(s)]
  BY <1>2 DEF K!ReaderLine
<1>4. /\ ServerTypes'
      /\ server'[p].stdin = server[p].stdin /\ server'[p].slot = server[p].slot
      /\ server'[p].busy = server[p].busy /\ server'[p].stdout = Tail(s)
      /\ \A q \in K!Processes \ {p} : server'[q] = server[q]
  <2>1. /\ server'[p] = [server[p] EXCEPT !.stdout = Tail(s)]
        /\ \A q \in K!Processes \ {p} : server'[q] = server[q]
        /\ DOMAIN server' = K!Processes /\ server' = [q \in K!Processes |-> server'[q]]
    BY <1>2, <1>3
  <2>2. server[p] \in Servers
    BY <1>2
  <2>3. /\ server'[p] \in Servers
        /\ server'[p].stdin = server[p].stdin /\ server'[p].slot = server[p].slot
        /\ server'[p].busy = server[p].busy /\ server'[p].stdout = Tail(s)
    BY <1>1, <2>1, <2>2 DEF Servers
  <2>4. ServerTypes'
    BY <1>2, <2>1, <2>3 DEF ServerTypes
  <2> QED
    BY <2>1, <2>3, <2>4
<1>5. /\ reader' \in [K!Processes -> [on : BOOLEAN, held : Jobs \cup {Nothing}]]
      /\ reader'[p].held = line /\ \A q \in K!Processes \ {p} : reader'[q] = reader[q]
  BY <1>1, <1>2
<1>6. UNCHANGED <<client, ask, took, minimum, mailbox, latest, fks, writer, asked, late>>
  BY DEF K!ReaderLine
<1>7. SolverTypes'
  BY <1>4, <1>5, <1>6 DEF SolverInv, SolverTypes, ClientTypes, BoxTypes, ThreadTypes
<1>8. \A r : With(p, r)' => UnderWay(r) \/ r = Nothing
  <2> SUFFICES ASSUME NEW r, With(p, r)' PROVE With(p, r) \/ r = Nothing
    BY DEF UnderWay
  <2> QED
    BY <1>1, <1>4, <1>5, <1>6, Taken DEF With
<1>9. ~late => /\ OneFk(server'[p].stdin) /\ OneFk(server'[p].stdout)
               /\ FksAt(p)' + One(IsFk(fks)') =< FksAt(p) + One(IsFk(fks))
  <2>1. ~IsFk(Nothing)
    BY Kinds DEF IsFk
  <2> QED
    BY <1>1, <1>4, <1>5, <1>6, <2>1, ServerHas, Taken DEF FksAt, One
<1>10. \A r \in {mailbox', latest', fks'} : UnderWay(r)
  BY <1>6 DEF UnderWay
<1> QED
  BY <1>4, <1>5, <1>6, <1>7, <1>8, <1>9, <1>10, MovesKept

LEMMA ReaderPutKept ==
  ASSUME K!KinematicsAssumption, SolverInv, NEW p \in K!Processes, K!ReaderPut(p)
  PROVE  SolverInv'
<1> PICK h : h = reader[p].held
  OBVIOUS
<1>1. h \in Jobs
  BY ServerHas DEF K!ReaderPut, Nothing
<1>2. reader \in [K!Processes -> [on : BOOLEAN, held : Jobs \cup {Nothing}]]
  BY DEF SolverInv, SolverTypes, ThreadTypes
<1>3. reader' = [reader EXCEPT ![p].held = Nothing]
  BY DEF K!ReaderPut, Nothing
<1>4. /\ reader' \in [K!Processes -> [on : BOOLEAN, held : Jobs \cup {Nothing}]]
      /\ reader'[p].held = Nothing /\ \A q \in K!Processes \ {p} : reader'[q] = reader[q]
  BY <1>2, <1>3
<1>5. UNCHANGED <<client, ask, took, minimum, mailbox, server, writer, asked, late>>
  BY DEF K!ReaderPut
<1>6. \/ h \in Motions /\ latest' = h /\ fks' = fks
      \/ h \in Poses /\ latest' = latest /\ fks' \in {h, fks}
  BY <1>1, Kinds DEF K!ReaderPut, Jobs
<1>7. BoxTypes'
  BY <1>5, <1>6 DEF SolverInv, SolverTypes, BoxTypes
<1>8. SolverTypes'
  BY <1>4, <1>5, <1>7 DEF SolverInv, SolverTypes, ClientTypes, ServerTypes, ThreadTypes
<1>9. \A r : With(p, r)' => UnderWay(r) \/ r = Nothing
  <2> SUFFICES ASSUME NEW r, With(p, r)' PROVE With(p, r) \/ r = Nothing
    BY DEF UnderWay
  <2> QED
    BY <1>4, <1>5 DEF With
<1>10. ~late => /\ OneFk(server'[p].stdin) /\ OneFk(server'[p].stdout)
                /\ FksAt(p)' + One(IsFk(fks)') =< FksAt(p) + One(IsFk(fks))
  <2>1. ~IsFk(Nothing)
    BY Kinds DEF IsFk
  <2>2. One(IsFk(fks)') =< One(IsFk(h)) + One(IsFk(fks))
    BY <1>6, Kinds DEF One, IsFk
  <2> QED
    BY <1>4, <1>5, <2>1, <2>2, ServerHas DEF FksAt, One
<1>11. \A r \in {mailbox', latest', fks'} : UnderWay(r)
  BY <1>5, <1>6 DEF UnderWay, With
<1> QED
  BY <1>4, <1>5, <1>8, <1>9, <1>10, <1>11, MovesKept

LEMMA ReaderEndKept ==
  ASSUME K!KinematicsAssumption, SolverInv, NEW p \in K!Processes, K!ReaderEnd(p)
  PROVE  SolverInv'
<1>1. reader \in [K!Processes -> [on : BOOLEAN, held : Jobs \cup {Nothing}]]
  BY DEF SolverInv, SolverTypes, ThreadTypes
<1>2. reader' = [reader EXCEPT ![p] = [on |-> FALSE, held |-> Nothing]]
  BY DEF K!ReaderEnd, K!Idle, Nothing
<1>3. /\ reader' \in [K!Processes -> [on : BOOLEAN, held : Jobs \cup {Nothing}]]
      /\ reader'[p].held = Nothing /\ \A q \in K!Processes \ {p} : reader'[q] = reader[q]
  BY <1>1, <1>2
<1>4. UNCHANGED <<client, ask, took, minimum, mailbox, latest, fks, server, writer, asked, late>>
  BY DEF K!ReaderEnd
<1>5. SolverTypes'
  BY <1>3, <1>4 DEF SolverInv, SolverTypes, ClientTypes, BoxTypes, ServerTypes, ThreadTypes
<1>6. \A r : With(p, r)' => UnderWay(r) \/ r = Nothing
  <2> SUFFICES ASSUME NEW r, With(p, r)' PROVE With(p, r) \/ r = Nothing
    BY DEF UnderWay
  <2> QED
    BY <1>3, <1>4 DEF With
<1>7. ~late => /\ OneFk(server'[p].stdin) /\ OneFk(server'[p].stdout)
               /\ FksAt(p)' + One(IsFk(fks)') =< FksAt(p) + One(IsFk(fks))
  <2>1. ~IsFk(Nothing)
    BY Kinds DEF IsFk
  <2> QED
    BY <1>3, <1>4, <2>1, ServerHas DEF FksAt, One
<1>8. \A r \in {mailbox', latest', fks'} : UnderWay(r)
  BY <1>4 DEF UnderWay
<1> QED
  BY <1>3, <1>4, <1>5, <1>6, <1>7, <1>8, MovesKept

LEMMA WriterGetKept ==
  ASSUME K!KinematicsAssumption, SolverInv, NEW p \in K!Processes,
         K!WriterGet(p) \/ K!WriterEnd(p)
  PROVE  SolverInv'
<1>1. /\ writer \in [K!Processes -> [on : BOOLEAN, held : Motions \cup {Nothing}]]
      /\ mailbox \in Motions \cup {Nothing, K!Pill}
  BY DEF SolverInv, SolverTypes, ThreadTypes, BoxTypes
<1>2. /\ UNCHANGED <<client, ask, took, minimum, latest, fks, server, reader, asked, late>>
      /\ mailbox' \in {mailbox, Nothing}
  BY DEF K!WriterGet, K!WriterEnd, Nothing
<1>3. \/ writer' = [writer EXCEPT ![p] = [on |-> FALSE, held |-> Nothing]]
      \/ mailbox \in Motions /\ writer' = [writer EXCEPT ![p].held = mailbox]
  BY <1>1 DEF K!WriterGet, K!WriterEnd, K!Idle, Nothing
<1>4. /\ writer' \in [K!Processes -> [on : BOOLEAN, held : Motions \cup {Nothing}]]
      /\ writer'[p].held \in {Nothing, mailbox}
      /\ \A q \in K!Processes \ {p} : writer'[q] = writer[q]
  <2>1. CASE writer' = [writer EXCEPT ![p] = [on |-> FALSE, held |-> Nothing]]
    BY <1>1, <2>1
  <2>2. CASE mailbox \in Motions /\ writer' = [writer EXCEPT ![p].held = mailbox]
    BY <1>1, <2>2
  <2> QED
    BY <1>3, <2>1, <2>2
<1>5. SolverTypes'
  BY <1>2, <1>4 DEF SolverInv, SolverTypes, ClientTypes, BoxTypes, ServerTypes, ThreadTypes
<1>6. \A r : With(p, r)' => UnderWay(r) \/ r = Nothing
  <2> SUFFICES ASSUME NEW r, With(p, r)' PROVE With(p, r) \/ r = Nothing \/ r = mailbox
    BY DEF UnderWay
  <2> QED
    BY <1>2, <1>4 DEF With
<1>7. ~late => /\ OneFk(server'[p].stdin) /\ OneFk(server'[p].stdout)
               /\ FksAt(p)' + One(IsFk(fks)') =< FksAt(p) + One(IsFk(fks))
  BY <1>2, ServerHas DEF FksAt, One
<1>8. \A r \in {mailbox', latest', fks'} : UnderWay(r) \/ r = Nothing
  BY <1>2 DEF UnderWay
<1> QED
  BY <1>2, <1>4, <1>5, <1>6, <1>7, <1>8, MovesKept

LEMMA WriterWriteKept ==
  ASSUME K!KinematicsAssumption, SolverInv, NEW p \in K!Processes, K!WriterWrite(p)
  PROVE  SolverInv'
<1> PICK h : h = writer[p].held
  OBVIOUS
<1> PICK s : s = server[p].stdin
  OBVIOUS
<1>1. h \in Motions /\ h \in Jobs /\ s \in Seq(Jobs) /\ ~IsFk(h)
  BY ServerHas, Kinds DEF K!WriterWrite, Nothing, Jobs, IsFk
<1>2. /\ server \in [K!Processes -> Servers]
      /\ writer \in [K!Processes -> [on : BOOLEAN, held : Motions \cup {Nothing}]]
  BY DEF SolverInv, SolverTypes, ServerTypes, ThreadTypes
<1> PICK in : in \in {s, Append(s, h)} /\ server' = [server EXCEPT ![p].stdin = in]
  BY <1>1, <1>2 DEF K!WriterWrite, Servers
<1>3. /\ in \in Seq(Jobs) /\ (HasFk(in) => HasFk(s)) /\ (OneFk(s) => OneFk(in))
      /\ \A r : InSeq(in, r) => InSeq(s, r) \/ r = h
  BY <1>1, Appended
<1>4. /\ ServerTypes'
      /\ server'[p].stdin = in /\ server'[p].slot = server[p].slot
      /\ server'[p].busy = server[p].busy /\ server'[p].stdout = server[p].stdout
      /\ \A q \in K!Processes \ {p} : server'[q] = server[q]
  BY <1>2, <1>3 DEF ServerTypes, Servers
<1>5. \/ writer' = [writer EXCEPT ![p] = [on |-> FALSE, held |-> Nothing]]
      \/ writer' = [writer EXCEPT ![p].held = Nothing]
  BY DEF K!WriterWrite, K!Idle, Nothing
<1>6. /\ writer' \in [K!Processes -> [on : BOOLEAN, held : Motions \cup {Nothing}]]
      /\ writer'[p].held = Nothing /\ \A q \in K!Processes \ {p} : writer'[q] = writer[q]
  <2>1. CASE writer' = [writer EXCEPT ![p] = [on |-> FALSE, held |-> Nothing]]
    BY <1>2, <2>1
  <2>2. CASE writer' = [writer EXCEPT ![p].held = Nothing]
    BY <1>2, <2>2
  <2> QED
    BY <1>5, <2>1, <2>2
<1>7. UNCHANGED <<client, ask, took, minimum, mailbox, latest, fks, reader, asked, late>>
  BY DEF K!WriterWrite
<1>8. SolverTypes'
  BY <1>4, <1>6, <1>7 DEF SolverInv, SolverTypes, ClientTypes, BoxTypes, ThreadTypes
<1>9. \A r : With(p, r)' => UnderWay(r) \/ r = Nothing
  <2> SUFFICES ASSUME NEW r, With(p, r)' PROVE With(p, r) \/ r = Nothing
    BY DEF UnderWay
  <2> QED
    BY <1>3, <1>4, <1>6, <1>7 DEF With
<1>10. ~late => /\ OneFk(server'[p].stdin) /\ OneFk(server'[p].stdout)
                /\ FksAt(p)' + One(IsFk(fks)') =< FksAt(p) + One(IsFk(fks))
  BY <1>3, <1>4, <1>7, ServerHas DEF FksAt, One
<1>11. \A r \in {mailbox', latest', fks'} : UnderWay(r)
  BY <1>7 DEF UnderWay
<1> QED
  BY <1>4, <1>6, <1>7, <1>8, <1>9, <1>10, <1>11, MovesKept

\* ------------------------------------------------------------ sessions and targets

LEMMA UnderWayTyped ==
  ASSUME K!KinematicsAssumption, SolverTypes, NEW r, UnderWay(r)
  PROVE  r \in Jobs \cup {Nothing, K!Pill}
<1>1. CASE r \in {mailbox, latest, fks}
  BY <1>1 DEF SolverTypes, BoxTypes, Jobs
<1>2. ASSUME NEW p \in K!Processes, With(p, r) PROVE r \in Jobs \cup {Nothing}
  <2>1. /\ server[p].stdin \in Seq(Jobs) /\ server[p].stdout \in Seq(Jobs)
        /\ server[p].slot \in Jobs \cup {Nothing} /\ server[p].busy \in Jobs \cup {Nothing}
        /\ reader[p].held \in Jobs \cup {Nothing} /\ writer[p].held \in Motions \cup {Nothing}
    BY DEF SolverTypes, ServerTypes, ThreadTypes, Servers
  <2>2. /\ InSeq(server[p].stdin, r) => r \in Jobs
        /\ InSeq(server[p].stdout, r) => r \in Jobs
    BY <2>1 DEF InSeq
  <2> QED
    BY <1>2, <2>1, <2>2 DEF With, Jobs
<1> QED
  BY <1>1, <1>2 DEF UnderWay

\* A later target or sample makes no request the one that is waited for.
LEMMA KnownLater ==
  ASSUME K!KinematicsAssumption, SolverInv, ClientTypes',
         \A r : UnderWay(r)' => UnderWay(r) \/ r = Nothing \/ r = K!Pill,
         client'.gen >= client.gen,
         client'.gen = client.gen => client'.sample >= client.sample,
         ask' = ask, late' = late
  PROVE  AllKnown'
<1> SUFFICES ASSUME NEW r, UnderWay(r)' PROVE Dated(r)' /\ Waited(r)'
  BY DEF AllKnown
<1>1. CASE UnderWay(r)
  <2>1. Dated(r) /\ Waited(r)
    BY <1>1 DEF SolverInv, AllKnown
  <2>2. r.kind = "motion" => r.gen \in Nat /\ r.sample \in Nat
    BY <1>1, UnderWayTyped, Kinds DEF SolverInv, Jobs, Motions, Poses
  <2>3. /\ client.gen \in Nat /\ client'.gen \in Nat
        /\ client.sample \in Nat /\ client'.sample \in Nat
    BY DEF SolverInv, SolverTypes, ClientTypes
  <2> QED
    BY <2>1, <2>2, <2>3 DEF Dated, Waited, K!IsAnswer
<1>2. CASE r = Nothing \/ r = K!Pill
  BY <1>2, Kinds DEF Dated, Waited
<1> QED
  BY <1>1, <1>2

\* Boxes are emptied, at most.
LEMMA BoxesKept ==
  ASSUME K!KinematicsAssumption, SolverInv, ClientTypes',
         UNCHANGED <<server, reader, writer, took, late, ask>>,
         mailbox' \in {mailbox, Nothing}, latest' \in {latest, Nothing},
         fks' \in {fks, Nothing}, client'.gen >= client.gen,
         client'.gen = client.gen => client'.sample >= client.sample
  PROVE  SolverInv'
<1>1. SolverTypes'
  BY DEF SolverInv, SolverTypes, BoxTypes, ServerTypes, ThreadTypes
<1>2. \A r : UnderWay(r)' => UnderWay(r) \/ r = Nothing
  BY DEF UnderWay, With
<1>3. AllKnown'
  BY <1>2, KnownLater
<1>4. FkAlone'
  <2>1. 1 \in K!Processes
    BY Kinds DEF K!Processes
  <2>2. One(IsFk(fks)') =< One(IsFk(fks))
    BY Kinds DEF One, IsFk
  <2>3. FksAt(1)' = FksAt(1) /\ FksAt(1) \in Nat
    BY DEF FksAt, One
  <2>4. One(IsFk(fks)) \in Nat /\ One(IsFk(fks)') \in Nat
    BY DEF One
  <2>5. FksAt(1)' + One(IsFk(fks)') =< FksAt(1) + One(IsFk(fks))
    BY <2>2, <2>3, <2>4
  <2>6. ~late => OneFk(server'[1].stdin) /\ OneFk(server'[1].stdout)
    BY <2>1, ServerHas
  <2>7. \A q \in K!Processes \ {1} : server'[q] = server[q] /\ reader'[q] = reader[q]
    OBVIOUS
  <2> QED
    BY <2>1, <2>5, <2>6, <2>7, AloneKept DEF SolverInv
<1>5. K!AnswerIsAsked'
  BY DEF SolverInv, K!AnswerIsAsked
<1> QED
  BY <1>1, <1>3, <1>4, <1>5 DEF SolverInv

LEMMA ClientKeptToo ==
  ASSUME K!KinematicsAssumption, SolverInv,
         \/ K!StopSession \/ K!CloseDrain \/ K!Intent \/ K!Freeze \/ K!AskRestarts
         \/ K!Discard
  PROVE  SolverInv'
<1>1. client \in [process : 0..MaxProcess, next : Nat, session : {"off", "on", "closing"},
                  sample : Nat, epoch : 0..MaxMotion, gen : 0..MaxTarget]
  BY DEF SolverInv, SolverTypes, ClientTypes
<1>2. /\ minimum \in 0..MaxMotion /\ asked \in 0..MaxAsk /\ late \in BOOLEAN
      /\ ask \in Jobs \cup {Nothing}
      /\ {MaxProcess, MaxAsk, MaxTarget, MaxMotion} \subseteq Nat
  BY Kinds DEF SolverInv, SolverTypes, ClientTypes
<1>3. CASE K!StopSession
  <2>1. client' = [client EXCEPT !.session = "closing"]
    BY <1>3 DEF K!StopSession
  <2>2. UNCHANGED <<ask, took, minimum, mailbox, latest, fks, server, writer, reader, asked, late>>
    BY <1>3 DEF K!StopSession
  <2>3. ClientTypes' /\ client'.gen = client.gen /\ client'.sample = client.sample
    BY <1>1, <1>2, <2>1, <2>2 DEF ClientTypes
  <2> QED
    BY <1>1, <2>2, <2>3, BoxesKept
<1>4. CASE K!CloseDrain
  <2>1. client' = [client EXCEPT !.session = "off"]
    BY <1>4 DEF K!CloseDrain
  <2>2. /\ UNCHANGED <<ask, took, minimum, server, writer, reader, asked, late>>
        /\ mailbox' = Nothing /\ latest' = Nothing /\ fks' = Nothing
    BY <1>4 DEF K!CloseDrain, K!Emptied, Nothing
  <2>3. ClientTypes' /\ client'.gen = client.gen /\ client'.sample = client.sample
    BY <1>1, <1>2, <2>1, <2>2 DEF ClientTypes
  <2> QED
    BY <1>1, <2>2, <2>3, BoxesKept
<1>5. CASE K!Intent
  <2>1. client' = [client EXCEPT !.gen = client.gen + 1] /\ client.gen < MaxTarget
    BY <1>5 DEF K!Intent
  <2>2. UNCHANGED <<ask, took, minimum, mailbox, latest, fks, server, writer, reader, asked, late>>
    BY <1>5 DEF K!Intent
  <2>3. ClientTypes' /\ client'.gen = client.gen + 1
    BY <1>1, <1>2, <2>1, <2>2 DEF ClientTypes
  <2> QED
    BY <1>1, <1>2, <2>2, <2>3, BoxesKept
<1>6. CASE K!Freeze
  <2>1. /\ client' = [client EXCEPT !.gen = client.gen + 1, !.epoch = client.epoch + 1]
        /\ client.gen < MaxTarget /\ client.epoch < MaxMotion
    BY <1>6 DEF K!Freeze
  <2>2. /\ UNCHANGED <<ask, took, server, writer, reader, asked, late>>
        /\ mailbox' = Nothing /\ latest' = Nothing /\ fks' = Nothing
        /\ minimum' = client.epoch + 1
    BY <1>6 DEF K!Freeze, K!Emptied, Nothing
  <2>4. client.gen + 1 \in 0..MaxTarget /\ client.epoch + 1 \in 0..MaxMotion
    BY <1>1, <1>2, <2>1
  <2>3. ClientTypes' /\ client'.gen = client.gen + 1
    BY <1>1, <1>2, <2>1, <2>2, <2>4 DEF ClientTypes
  <2> QED
    BY <1>1, <1>2, <2>2, <2>3, BoxesKept
<1>7. CASE K!AskRestarts
  <2> PICK n \in {0, 1} : client' = [client EXCEPT !.process = 0, !.sample = client.sample + n]
    BY <1>7 DEF K!AskRestarts
  <2>2. /\ UNCHANGED <<ask, took, minimum, server, writer, reader, late>>
        /\ mailbox' = Nothing /\ latest' = Nothing /\ fks' = Nothing
        /\ asked' = asked + 1 /\ asked < MaxAsk
    BY <1>7 DEF K!AskRestarts, K!Working, K!Emptied, Nothing
  <2>4. client.sample + n \in Nat /\ asked' \in 0..MaxAsk
    BY <1>1, <1>2, <2>2
  <2>5. 0 \in 0..MaxProcess
    BY <1>2
  <2>6. client' \in [process : 0..MaxProcess, next : Nat, session : {"off", "on", "closing"},
                     sample : Nat, epoch : 0..MaxMotion, gen : 0..MaxTarget]
        /\ client'.gen = client.gen /\ client'.sample = client.sample + n
    BY <1>1, <2>4, <2>5
  <2>3. ClientTypes' /\ client'.gen = client.gen /\ client'.sample = client.sample + n
    BY <1>2, <2>2, <2>4, <2>6 DEF ClientTypes
  <2> QED
    BY <1>1, <1>2, <2>2, <2>3, BoxesKept
<1>8. CASE K!Discard
  <2>2. /\ UNCHANGED <<client, ask, took, minimum, mailbox, fks, server, writer, reader, asked,
                       late>>
        /\ latest' = Nothing
    BY <1>8 DEF K!Discard, Nothing
  <2>3. ClientTypes'
    BY <1>1, <1>2, <2>2 DEF ClientTypes
  <2> QED
    BY <1>1, <1>2, <2>2, <2>3, BoxesKept
<1> QED
  BY <1>3, <1>4, <1>5, <1>6, <1>7, <1>8

LEMMA SolverStarts ==
  ASSUME K!KinematicsAssumption, SolverInv, K!StartSession
  PROVE  SolverInv'
<1> PICK p : p = client.next
  OBVIOUS
<1>1. p \in K!Processes /\ client.gen < MaxTarget
  BY DEF K!StartSession
<1>2. /\ client \in [process : 0..MaxProcess, next : Nat, session : {"off", "on", "closing"},
                     sample : Nat, epoch : 0..MaxMotion, gen : 0..MaxTarget]
      /\ minimum \in 0..MaxMotion
      /\ {MaxProcess, MaxAsk, MaxTarget, MaxMotion} \subseteq Nat
      /\ server \in [K!Processes -> Servers]
      /\ writer \in [K!Processes -> [on : BOOLEAN, held : Motions \cup {Nothing}]]
      /\ reader \in [K!Processes -> [on : BOOLEAN, held : Jobs \cup {Nothing}]]
  BY Kinds DEF SolverInv, SolverTypes, ClientTypes, ServerTypes, ThreadTypes
<1>3. /\ UNCHANGED <<ask, took, asked, late>>
      /\ mailbox' = Nothing /\ latest' = Nothing /\ fks' = Nothing
      /\ server' = [server EXCEPT ![p].alive = TRUE]
      /\ writer' = [writer EXCEPT ![p].on = TRUE] /\ reader' = [reader EXCEPT ![p].on = TRUE]
  BY DEF K!StartSession, K!Emptied, Nothing
<1> PICK epoch : /\ epoch \in {client.epoch, client.epoch + 1} /\ epoch <= MaxMotion
                 /\ client' = [process |-> p, next |-> p + 1, session |-> "on", sample |-> 0,
                               epoch |-> epoch, gen |-> client.gen + 1]
                 /\ minimum' \in {epoch, minimum}
  BY DEF K!StartSession
<1>4. /\ p \in 0..MaxProcess /\ p + 1 \in Nat /\ epoch \in 0..MaxMotion
      /\ client.gen + 1 \in 0..MaxTarget
  <2>1. p \in 1..MaxProcess /\ client.gen \in 0..MaxTarget /\ client.epoch \in 0..MaxMotion
    BY <1>1, <1>2 DEF K!Processes
  <2>2. p \in 0..MaxProcess /\ p + 1 \in Nat
    BY <1>2, <2>1
  <2>3. client.gen + 1 \in 0..MaxTarget
    BY <1>1, <1>2, <2>1
  <2>4. epoch \in 0..MaxMotion
    BY <1>2, <2>1
  <2> QED
    BY <2>2, <2>3, <2>4
<1>5. /\ client' \in [process : 0..MaxProcess, next : Nat, session : {"off", "on", "closing"},
                      sample : Nat, epoch : 0..MaxMotion, gen : 0..MaxTarget]
      /\ client'.gen = client.gen + 1
  BY <1>4
<1>6. ClientTypes'
  BY <1>2, <1>3, <1>4, <1>5 DEF SolverInv, SolverTypes, ClientTypes
<1>7. /\ server' \in [K!Processes -> Servers]
      /\ server'[p].stdin = server[p].stdin /\ server'[p].slot = server[p].slot
      /\ server'[p].busy = server[p].busy /\ server'[p].stdout = server[p].stdout
      /\ \A q \in K!Processes \ {p} : server'[q] = server[q]
  <2>1. server' = [server EXCEPT ![p].alive = TRUE]
    BY <1>3
  <2>2. server \in [K!Processes -> Servers] /\ p \in K!Processes
    BY <1>1, <1>2
  <2> QED
    BY <2>1, <2>2 DEF Servers
<1>8. /\ writer' \in [K!Processes -> [on : BOOLEAN, held : Motions \cup {Nothing}]]
      /\ \A q \in K!Processes : writer'[q].held = writer[q].held
  <2>1. writer' = [writer EXCEPT ![p].on = TRUE]
    BY <1>3
  <2>2. /\ writer \in [K!Processes -> [on : BOOLEAN, held : Motions \cup {Nothing}]]
        /\ p \in K!Processes
    BY <1>1, <1>2
  <2> QED
    BY <2>1, <2>2
<1>9. /\ reader' \in [K!Processes -> [on : BOOLEAN, held : Jobs \cup {Nothing}]]
      /\ reader'[p].held = reader[p].held
      /\ \A q \in K!Processes \ {p} : reader'[q] = reader[q]
  <2>1. reader' = [reader EXCEPT ![p].on = TRUE]
    BY <1>3
  <2>2. /\ reader \in [K!Processes -> [on : BOOLEAN, held : Jobs \cup {Nothing}]]
        /\ p \in K!Processes
    BY <1>1, <1>2
  <2> QED
    BY <2>1, <2>2
<1>10. SolverTypes'
  BY <1>3, <1>6, <1>7, <1>8, <1>9 DEF SolverTypes, BoxTypes, ServerTypes, ThreadTypes
<1>11. \A r : UnderWay(r)' => UnderWay(r) \/ r = Nothing
  <2>1. \A q \in K!Processes : \A r : With(q, r)' => With(q, r)
    BY <1>7, <1>8, <1>9 DEF With
  <2> QED
    BY <1>3, <2>1 DEF UnderWay, K!Processes
<1>12. AllKnown'
  BY <1>2, <1>3, <1>5, <1>6, <1>11, KnownLater
<1>13. FkAlone'
  <2>1. One(IsFk(fks)') =< One(IsFk(fks))
    BY <1>3, Kinds DEF One, IsFk
  <2>2. FksAt(p)' = FksAt(p) /\ FksAt(p) \in Nat
    BY <1>7, <1>9 DEF FksAt, One
  <2>3. One(IsFk(fks)) \in Nat /\ One(IsFk(fks)') \in Nat
    BY DEF One
  <2>4. FksAt(p)' + One(IsFk(fks)') =< FksAt(p) + One(IsFk(fks))
    BY <2>1, <2>2, <2>3
  <2>5. ~late => OneFk(server'[p].stdin) /\ OneFk(server'[p].stdout)
    BY <1>1, <1>7, ServerHas
  <2> QED
    BY <1>1, <1>3, <1>7, <1>9, <2>4, <2>5, AloneKept DEF SolverInv
<1>14. K!AnswerIsAsked'
  BY <1>3 DEF SolverInv, K!AnswerIsAsked
<1> QED
  BY <1>10, <1>12, <1>13, <1>14 DEF SolverInv

LEMMA SolverCloses ==
  ASSUME K!KinematicsAssumption, SolverInv, K!Close
  PROVE  SolverInv'
<1> PICK p : p = client.process
  OBVIOUS
<1>1. client \in [process : 0..MaxProcess, next : Nat, session : {"off", "on", "closing"},
                  sample : Nat, epoch : 0..MaxMotion, gen : 0..MaxTarget]
  BY DEF SolverInv, SolverTypes, ClientTypes
<1>2. p \in K!Processes
  BY <1>1 DEF K!Close, K!Processes
<1>3. /\ UNCHANGED <<ask, took, minimum, latest, fks, writer, reader, asked, late>>
      /\ mailbox' = K!Pill /\ server' = K!Killed(p)
      /\ client' = [client EXCEPT !.process = 0]
  BY DEF K!Close
<1>4. /\ client' \in [process : 0..MaxProcess, next : Nat, session : {"off", "on", "closing"},
                      sample : Nat, epoch : 0..MaxMotion, gen : 0..MaxTarget]
      /\ client'.gen = client.gen /\ client'.sample = client.sample
  <2>1. 0 \in 0..MaxProcess
    BY Kinds
  <2> QED
    BY <1>1, <1>3, <2>1
<1>5. /\ ServerTypes'
      /\ server'[p].stdin = <<>> /\ server'[p].slot = Nothing
      /\ server'[p].busy = Nothing /\ server'[p].stdout = server[p].stdout
      /\ \A q \in K!Processes \ {p} : server'[q] = server[q]
      /\ ~late => /\ OneFk(server'[p].stdin) /\ OneFk(server'[p].stdout)
                  /\ FksAt(p)' =< FksAt(p)
  BY <1>2, <1>3, KilledHas
<1>6. SolverTypes'
  BY <1>3, <1>4, <1>5 DEF SolverInv, SolverTypes, ClientTypes, BoxTypes, ThreadTypes
<1>7. \A r : UnderWay(r)' => UnderWay(r) \/ r = Nothing \/ r = K!Pill
  <2>1. \A q \in K!Processes : \A r : With(q, r)' => With(q, r) \/ r = Nothing
    BY <1>3, <1>5, NoneIn DEF With
  <2> QED
    BY <1>3, <2>1 DEF UnderWay, K!Processes
<1>8. AllKnown'
  BY <1>3, <1>4, <1>7, KnownKept DEF SolverInv
<1>9. FkAlone'
  <2>1. ~late => FksAt(p)' + One(IsFk(fks)') =< FksAt(p) + One(IsFk(fks))
    BY <1>3, <1>5 DEF FksAt, One
  <2> QED
    BY <1>2, <1>3, <1>5, <2>1, AloneKept DEF SolverInv
<1>10. K!AnswerIsAsked'
  BY <1>3 DEF SolverInv, K!AnswerIsAsked
<1> QED
  BY <1>6, <1>8, <1>9, <1>10 DEF SolverInv

\* ------------------------------------------------------------ callers

\* While nobody waits for forward kinematics, and none has given up, there is no
\* such request.
LEMMA NoFk ==
  ASSUME SolverInv, ~late, ask.kind # "fk"
  PROVE  /\ \A r : UnderWay(r) => ~IsFk(r)
         /\ \A p \in K!Processes : FksAt(p) = 0 /\ ~HasFk(server[p].stdin)
<1>1. \A r : UnderWay(r) => ~IsFk(r)
  BY DEF SolverInv, AllKnown, Waited, IsFk
<1>2. ASSUME NEW p \in K!Processes PROVE FksAt(p) = 0 /\ ~HasFk(server[p].stdin)
  <2>1. \A r : With(p, r) => ~IsFk(r)
    BY <1>1 DEF UnderWay
  <2>2. ~HasFk(server[p].stdin) /\ ~HasFk(server[p].stdout)
    BY <2>1 DEF With, InSeq, HasFk
  <2> QED
    BY <2>1, <2>2 DEF With, FksAt, One
<1> QED
  BY <1>1, <1>2

\* The caller stops to wait, with an answer or without.
LEMMA AnsweredKept ==
  ASSUME K!KinematicsAssumption, SolverInv,
         UNCHANGED <<client, minimum, mailbox, server, writer, reader, asked>>,
         ask' = Nothing, latest' \in {latest, Nothing}, fks' \in {fks, Nothing},
         late' \in BOOLEAN,
         ~late' => ~late /\ (ask.kind # "fk" \/ (IsFk(fks) /\ fks' = Nothing)),
         K!AnswerIsAsked'
  PROVE  SolverInv'
<1>1. SolverTypes'
  BY DEF SolverInv, SolverTypes, ClientTypes, BoxTypes, ServerTypes, ThreadTypes
<1>2. \A r : UnderWay(r)' => UnderWay(r) \/ r = Nothing
  BY DEF UnderWay, With
<1>3. ~IsFk(Nothing) /\ Nothing.kind = "none"
  BY Kinds DEF IsFk
<1>4. ASSUME ~late' PROVE \A r : UnderWay(r)' => ~IsFk(r)
  <2>1. CASE ask.kind # "fk"
    BY <1>2, <1>3, <1>4, <2>1, NoFk
  <2>2. CASE IsFk(fks) /\ fks' = Nothing
    <3>1. ASSUME NEW p \in K!Processes PROVE FksAt(p) = 0
      <4>1. FksAt(p) + One(IsFk(fks)) =< 1 /\ FksAt(p) \in Nat
        BY <1>4 DEF SolverInv, FkAlone, FksAt, One
      <4> QED
        BY <2>2, <4>1 DEF One
    <3>2. ASSUME NEW p \in K!Processes, NEW r, With(p, r) PROVE ~IsFk(r)
      <4>1. ~IsFk(writer[p].held)
        BY ServerHas, Kinds DEF IsFk
      <4>2. /\ ~IsFk(reader[p].held) /\ ~IsFk(server[p].slot) /\ ~IsFk(server[p].busy)
            /\ ~HasFk(server[p].stdin) /\ ~HasFk(server[p].stdout)
        BY <3>1 DEF FksAt, One
      <4> QED
        BY <3>2, <4>1, <4>2 DEF With, InSeq, HasFk
    <3>3. ~IsFk(mailbox) /\ ~IsFk(latest)
      BY Kinds DEF SolverInv, SolverTypes, BoxTypes, IsFk
    <3> QED
      BY <1>3, <2>2, <3>2, <3>3 DEF UnderWay, With, K!Processes
  <2> QED
    BY <1>4, <2>1, <2>2
<1>5. AllKnown'
  <2> SUFFICES ASSUME NEW r, UnderWay(r)' PROVE Dated(r)' /\ Waited(r)'
    BY DEF AllKnown
  <2>1. Waited(r)'
    BY <1>4 DEF Waited, IsFk
  <2>2. CASE UnderWay(r)
    <3>1. Dated(r)
      BY <2>2 DEF SolverInv, AllKnown
    <3> QED
      BY <1>3, <2>1, <3>1 DEF Dated
  <2>3. CASE r = Nothing
    BY <1>3, <2>1, <2>3 DEF Dated
  <2> QED
    BY <1>2, <2>2, <2>3
<1>6. FkAlone'
  <2>1. ASSUME ~late' PROVE \A p \in K!Processes : FksAt(p)' = FksAt(p) /\ FksAt(p) \in Nat
    BY DEF FksAt, One
  <2>2. One(IsFk(fks)') =< One(IsFk(fks)) /\ One(IsFk(fks)) \in Nat /\ One(IsFk(fks)') \in Nat
    BY <1>3 DEF One, IsFk
  <2>3. ASSUME ~late'
        PROVE /\ \A p \in K!Processes : /\ OneFk(server[p].stdin) /\ OneFk(server[p].stdout)
                                        /\ FksAt(p) + One(IsFk(fks)) =< 1
              /\ \A p, q \in K!Processes : p # q => FksAt(p) + FksAt(q) + One(IsFk(fks)) =< 1
    BY <2>3 DEF SolverInv, FkAlone
  <2> QED
    BY <2>1, <2>2, <2>3 DEF FkAlone, K!Processes
<1> QED
  BY <1>1, <1>5, <1>6 DEF SolverInv
LEMMA TakeKept ==
  ASSUME K!KinematicsAssumption, SolverInv, K!Take \/ K!TakeFk \/ K!Timeout
  PROVE  SolverInv'
<1>1. /\ latest \in Motions \cup {Nothing} /\ fks \in Poses \cup {Nothing}
      /\ late \in BOOLEAN
  BY DEF SolverInv, SolverTypes, BoxTypes, ClientTypes
<1>2. CASE K!Take
  <2>1. /\ UNCHANGED <<client, minimum, mailbox, fks, server, writer, reader, asked, late>>
        /\ ask' = Nothing /\ latest' = Nothing /\ took' = [asked |-> ask, got |-> latest]
        /\ ask.kind = "motion" /\ latest # Nothing /\ K!IsAnswer(latest, ask)
    BY <1>2 DEF K!Take, Nothing
  <2>2. latest.n = ask.n
    <3>1. latest.kind = "motion" /\ UnderWay(latest)
      BY <1>1, <2>1, Kinds DEF UnderWay
    <3> QED
      BY <2>1, <3>1 DEF SolverInv, AllKnown, Dated
  <2>3. K!AnswerIsAsked'
    BY <2>1, <2>2 DEF K!AnswerIsAsked
  <2> QED
    BY <1>1, <2>1, <2>3, AnsweredKept
<1>3. CASE K!TakeFk
  <2>1. /\ UNCHANGED <<client, minimum, mailbox, latest, server, writer, reader, asked, late>>
        /\ ask' = Nothing /\ fks' = Nothing /\ took' = [asked |-> ask, got |-> fks]
        /\ ask.kind = "fk" /\ fks # Nothing
    BY <1>3 DEF K!TakeFk, Nothing
  <2>2. IsFk(fks) /\ UnderWay(fks)
    BY <1>1, <2>1, Kinds DEF UnderWay, IsFk
  <2>3. ~late => fks.n = ask.n
    BY <2>2 DEF SolverInv, AllKnown, Waited, IsFk
  <2>4. K!AnswerIsAsked'
    BY <2>1, <2>3 DEF K!AnswerIsAsked
  <2> QED
    BY <1>1, <2>1, <2>2, <2>4, AnsweredKept
<1>4. CASE K!Timeout
  <2>1. /\ UNCHANGED <<client, minimum, mailbox, latest, fks, server, writer, reader, asked, took>>
        /\ ask' = Nothing /\ late' = (late \/ ask.kind = "fk")
    BY <1>4 DEF K!Timeout, Nothing
  <2>2. late' \in BOOLEAN /\ (~late' => ~late /\ ask.kind # "fk")
    BY <1>1, <2>1
  <2>3. K!AnswerIsAsked'
    BY <2>1, <2>2 DEF SolverInv, K!AnswerIsAsked
  <2> QED
    BY <2>1, <2>2, <2>3, AnsweredKept
<1> QED
  BY <1>2, <1>3, <1>4

\* Nothing under way has the identity of a new request: its sample is of the
\* future.
LEMMA AskKept ==
  ASSUME K!KinematicsAssumption, SolverInv, K!Ask
  PROVE  SolverInv'
<1>1. /\ client \in [process : 0..MaxProcess, next : Nat, session : {"off", "on", "closing"},
                     sample : Nat, epoch : 0..MaxMotion, gen : 0..MaxTarget]
      /\ {MaxProcess, MaxAsk, MaxTarget, MaxMotion} \subseteq Nat /\ asked \in 0..MaxAsk
  BY Kinds DEF SolverInv, SolverTypes, ClientTypes
<1>2. /\ UNCHANGED <<took, minimum, latest, fks, server, writer, reader, late>>
      /\ mailbox' = ask' /\ ask = Nothing /\ asked < MaxAsk /\ asked' = asked + 1
      /\ client' = [client EXCEPT !.sample = client.sample + 1]
  BY DEF K!Ask, K!Working, Nothing
<1>3. ask' = [kind |-> "motion", n |-> asked + 1, sample |-> client.sample + 1,
              epoch |-> client.epoch, gen |-> client.gen]
  BY DEF K!Ask
<1>4. /\ asked + 1 \in 0..MaxAsk /\ client.sample + 1 \in Nat /\ client.epoch \in Nat
      /\ client.gen \in Nat
  BY <1>1, <1>2
<1>5. /\ ask' \in Motions /\ ask'.kind = "motion" /\ ask'.sample = client.sample + 1
      /\ ask'.gen = client.gen
  BY <1>3, <1>4 DEF Motions
<1>6. /\ client' \in [process : 0..MaxProcess, next : Nat, session : {"off", "on", "closing"},
                      sample : Nat, epoch : 0..MaxMotion, gen : 0..MaxTarget]
      /\ client'.gen = client.gen /\ client'.sample = client.sample + 1
  BY <1>1, <1>2, <1>4
<1>7. ClientTypes'
  BY <1>2, <1>4, <1>5, <1>6 DEF SolverInv, SolverTypes, ClientTypes, Jobs
<1>8. SolverTypes'
  BY <1>2, <1>5, <1>7 DEF SolverInv, SolverTypes, BoxTypes, ServerTypes, ThreadTypes
<1>9. \A r : UnderWay(r)' => UnderWay(r) \/ r = ask'
  BY <1>2 DEF UnderWay, With
<1>10. AllKnown'
  <2> SUFFICES ASSUME NEW r, UnderWay(r)' PROVE Dated(r)' /\ Waited(r)'
    BY DEF AllKnown
  <2>1. CASE UnderWay(r)
    <3>1. Dated(r) /\ Waited(r)
      BY <2>1 DEF SolverInv, AllKnown
    <3>2. r.kind = "motion" => r.gen \in Nat /\ r.sample \in Nat
      BY <2>1, UnderWayTyped, Kinds DEF SolverInv, Jobs, Motions, Poses
    <3>3. client.sample \in Nat /\ ask.kind # "fk"
      BY <1>1, <1>2, Kinds
    <3>4. Dated(r)'
      BY <1>5, <1>6, <3>1, <3>2, <3>3 DEF Dated, K!IsAnswer
    <3> QED
      BY <1>2, <3>1, <3>3, <3>4 DEF Waited
  <2>2. CASE r = ask'
    <3>1. client'.gen = r.gen /\ r.gen \in Nat /\ client'.sample = r.sample /\ r.sample \in Nat
      BY <1>4, <1>5, <1>6, <2>2
    <3>2. r.kind = "motion"
      BY <1>5, <2>2
    <3> QED
      BY <2>2, <3>1, <3>2 DEF Dated, Waited
  <2> QED
    BY <1>9, <2>1, <2>2
<1>11. FkAlone'
  <2>1. 1 \in K!Processes
    BY Kinds DEF K!Processes
  <2>2. One(IsFk(fks)') = One(IsFk(fks)) /\ FksAt(1)' = FksAt(1)
    BY <1>2 DEF FksAt, One, IsFk
  <2>3. FksAt(1) + One(IsFk(fks)) \in Nat
    BY DEF FksAt, One
  <2>4. FksAt(1)' + One(IsFk(fks)') =< FksAt(1) + One(IsFk(fks))
    BY <2>2, <2>3
  <2>5. ~late => OneFk(server'[1].stdin) /\ OneFk(server'[1].stdout)
    BY <1>2, <2>1, ServerHas
  <2>6. \A q \in K!Processes \ {1} : server'[q] = server[q] /\ reader'[q] = reader[q]
    BY <1>2
  <2> QED
    BY <1>2, <2>1, <2>4, <2>5, <2>6, AloneKept DEF SolverInv
<1>12. K!AnswerIsAsked'
  BY <1>2 DEF SolverInv, K!AnswerIsAsked
<1> QED
  BY <1>8, <1>10, <1>11, <1>12 DEF SolverInv

LEMMA AskFkKept ==
  ASSUME K!KinematicsAssumption, SolverInv, K!AskFk
  PROVE  SolverInv'
<1> PICK p : p = client.process
  OBVIOUS
<1>1. /\ client \in [process : 0..MaxProcess, next : Nat, session : {"off", "on", "closing"},
                     sample : Nat, epoch : 0..MaxMotion, gen : 0..MaxTarget]
      /\ {MaxProcess, MaxAsk, MaxTarget, MaxMotion} \subseteq Nat /\ asked \in 0..MaxAsk
      /\ server \in [K!Processes -> Servers]
  BY Kinds DEF SolverInv, SolverTypes, ClientTypes, ServerTypes
<1>2. /\ UNCHANGED <<client, took, minimum, mailbox, latest, fks, writer, reader, late>>
      /\ ask = Nothing /\ asked < MaxAsk /\ asked' = asked + 1 /\ p # 0
  BY DEF K!AskFk, K!Working, K!Alive, Nothing
<1>3. server' = [server EXCEPT ![p].stdin = Append(server[p].stdin, ask')]
  BY DEF K!AskFk
<1>4. ask' = [K!NoRequest EXCEPT !.kind = "fk", !.n = asked + 1]
  BY DEF K!AskFk
<1>5. asked + 1 \in 0..MaxAsk /\ p \in K!Processes
  BY <1>1, <1>2 DEF K!Processes
<1>6. ask' \in Poses /\ ask' \in Jobs /\ ask'.kind = "fk" /\ IsFk(ask')
  BY <1>4, <1>5 DEF K!NoRequest, Poses, Jobs, IsFk
<1>7. /\ Append(server[p].stdin, ask') \in Seq(Jobs)
      /\ \A r : InSeq(Append(server[p].stdin, ask'), r) => InSeq(server[p].stdin, r) \/ r = ask'
      /\ HasFk(Append(server[p].stdin, ask'))
      /\ ~late => OneFk(Append(server[p].stdin, ask'))
  <2>1. server[p].stdin \in Seq(Jobs) /\ (~late => OneFk(server[p].stdin))
    BY <1>5, ServerHas
  <2>2. ~late => ~HasFk(server[p].stdin)
    BY <1>2, <1>5, NoFk, Kinds
  <2> QED
    BY <1>6, <2>1, <2>2, Appended
<1>8. /\ server' \in [K!Processes -> Servers]
      /\ server'[p].stdin = Append(server[p].stdin, ask') /\ server'[p].slot = server[p].slot
      /\ server'[p].busy = server[p].busy /\ server'[p].stdout = server[p].stdout
      /\ \A q \in K!Processes \ {p} : server'[q] = server[q]
  <2>1. /\ server'[p] = [server[p] EXCEPT !.stdin = Append(server[p].stdin, ask')]
        /\ \A q \in K!Processes \ {p} : server'[q] = server[q]
        /\ DOMAIN server' = K!Processes /\ server' = [q \in K!Processes |-> server'[q]]
    BY <1>1, <1>5, <1>3
  <2>2. server[p] \in Servers
    BY <1>1, <1>5
  <2>3. /\ server'[p] \in Servers
        /\ server'[p].stdin = Append(server[p].stdin, ask') /\ server'[p].slot = server[p].slot
        /\ server'[p].busy = server[p].busy /\ server'[p].stdout = server[p].stdout
    BY <1>7, <2>1, <2>2 DEF Servers
  <2>4. server' \in [K!Processes -> Servers]
    BY <1>1, <1>5, <2>1, <2>3
  <2> QED
    BY <2>1, <2>3, <2>4
<1>9. SolverTypes'
  BY <1>1, <1>2, <1>5, <1>6, <1>8
  DEF SolverInv, SolverTypes, ClientTypes, BoxTypes, ServerTypes, ThreadTypes
<1>10. \A r : UnderWay(r)' => UnderWay(r) \/ r = ask'
  <2>1. \A q \in K!Processes : \A r : With(q, r)' => With(q, r) \/ r = ask'
    BY <1>2, <1>7, <1>8 DEF With
  <2> QED
    BY <1>2, <2>1 DEF UnderWay, K!Processes
<1>11. AllKnown'
  <2> SUFFICES ASSUME NEW r, UnderWay(r)' PROVE Dated(r)' /\ Waited(r)'
    BY DEF AllKnown
  <2>1. CASE UnderWay(r)
    <3>1. Dated(r) /\ Waited(r)
      BY <2>1 DEF SolverInv, AllKnown
    <3>2. ask.kind = "none"
      BY <1>2, Kinds
    <3> QED
      BY <1>2, <1>6, <3>1, <3>2 DEF Dated, Waited
  <2>2. CASE r = ask'
    BY <1>6, <2>2 DEF Dated, Waited
  <2> QED
    BY <1>10, <2>1, <2>2
<1>12. FkAlone'
  <2> SUFFICES ASSUME ~late PROVE FkAlone'
    BY <1>2 DEF FkAlone
  <2>1. /\ ~IsFk(fks) /\ ~IsFk(reader[p].held) /\ ~IsFk(server[p].slot) /\ ~IsFk(server[p].busy)
        /\ \A q \in K!Processes : FksAt(q) = 0
    <3>1. ask.kind # "fk"
      BY <1>2, Kinds
    <3> QED
      BY <1>5, <3>1, NoFk DEF UnderWay, With
  <2>2. ~HasFk(server[p].stdout)
    BY <1>5, <2>1 DEF FksAt, One
  <2>3. \A q \in K!Processes \ {p} : FksAt(q)' = 0
    BY <1>2, <1>8, <2>1 DEF FksAt, One
  <2>4. FksAt(p)' = 1
    BY <1>2, <1>7, <1>8, <2>1, <2>2 DEF FksAt, One, IsFk
  <2>5. One(IsFk(fks)') = 0
    BY <1>2, <2>1 DEF One, IsFk
  <2>6. \A q \in K!Processes : OneFk(server'[q].stdin) /\ OneFk(server'[q].stdout)
    BY <1>7, <1>8, ServerHas
  <2>7. \A q \in K!Processes : FksAt(q)' + One(IsFk(fks)') =< 1
    BY <2>3, <2>4, <2>5
  <2>8. \A q, o \in K!Processes : q # o => FksAt(q)' + FksAt(o)' + One(IsFk(fks)') =< 1
    BY <2>3, <2>4, <2>5
  <2> QED
    BY <2>6, <2>7, <2>8 DEF FkAlone, K!Processes
<1>13. K!AnswerIsAsked'
  BY <1>2 DEF SolverInv, K!AnswerIsAsked
<1> QED
  BY <1>9, <1>11, <1>12, <1>13 DEF SolverInv

\* ------------------------------------------------------------ the invariant

LEMMA SolverInit == ASSUME K!KinematicsAssumption, K!Init PROVE SolverInv
<1>1. /\ client = [process |-> 0, next |-> 1, session |-> "off", sample |-> 0, epoch |-> 0,
                   gen |-> 0]
      /\ ask = Nothing /\ mailbox = Nothing /\ latest = Nothing /\ fks = Nothing
      /\ took = [asked |-> Nothing, got |-> Nothing]
      /\ minimum = 0 /\ asked = 0 /\ late = FALSE
  BY DEF K!Init, Nothing, K!NoCall
<1>2. /\ server = [p \in K!Processes |-> [alive |-> FALSE, stdin |-> <<>>, slot |-> Nothing,
                                          busy |-> Nothing, stdout |-> <<>>]]
      /\ writer = [p \in K!Processes |-> [on |-> FALSE, held |-> Nothing]]
      /\ reader = [p \in K!Processes |-> [on |-> FALSE, held |-> Nothing]]
  BY DEF K!Init, Nothing, K!Off, K!Idle
<1>3. /\ {MaxProcess, MaxAsk, MaxTarget, MaxMotion} \subseteq Nat
      /\ 0 \in 0..MaxProcess /\ 0 \in 0..MaxMotion /\ 0 \in 0..MaxTarget /\ 0 \in 0..MaxAsk
  BY Kinds
<1>4. client \in [process : 0..MaxProcess, next : Nat, session : {"off", "on", "closing"},
                  sample : Nat, epoch : 0..MaxMotion, gen : 0..MaxTarget]
  BY <1>1, <1>3
<1>5. /\ server \in [K!Processes -> Servers]
      /\ writer \in [K!Processes -> [on : BOOLEAN, held : Motions \cup {Nothing}]]
      /\ reader \in [K!Processes -> [on : BOOLEAN, held : Jobs \cup {Nothing}]]
  BY <1>2, NoneIn DEF Servers
<1>6. SolverTypes
  BY <1>1, <1>3, <1>4, <1>5 DEF SolverTypes, ClientTypes, BoxTypes, ServerTypes, ThreadTypes
<1>7. \A r : UnderWay(r) => r = Nothing
  BY <1>1, <1>2, NoneIn DEF UnderWay, With
<1>8. AllKnown
  BY <1>7, Kinds DEF AllKnown, Dated, Waited
<1>9. FkAlone
  <2>1. \A p \in K!Processes : FksAt(p) = 0
    BY <1>2, NoneIn, Kinds DEF FksAt, One, IsFk
  <2>2. \A p \in K!Processes : OneFk(server[p].stdin) /\ OneFk(server[p].stdout)
    BY <1>2, NoneIn
  <2>3. One(IsFk(fks)) = 0
    BY <1>1, Kinds DEF One, IsFk
  <2> QED
    BY <2>1, <2>2, <2>3 DEF FkAlone
<1>10. K!AnswerIsAsked
  BY <1>1 DEF K!AnswerIsAsked
<1> QED
  BY <1>6, <1>8, <1>9, <1>10 DEF SolverInv

LEMMA SolverStep ==
  ASSUME K!KinematicsAssumption, SolverInv, [K!Next]_(K!vars)
  PROVE  SolverInv'
<1>1. CASE UNCHANGED K!vars
  <2>1. UNCHANGED <<client, ask, took, minimum, mailbox, latest, fks, server, writer, reader,
                    asked, late>>
    BY <1>1 DEF K!vars
  <2>2. SolverTypes'
    BY <2>1 DEF SolverInv, SolverTypes, ClientTypes, BoxTypes, ServerTypes, ThreadTypes
  <2>3. ClientTypes'
    BY <2>2 DEF SolverTypes
  <2>4. client.gen \in Nat /\ client.sample \in Nat
    BY DEF SolverInv, SolverTypes, ClientTypes
  <2>5. client'.gen >= client.gen /\ client'.sample >= client.sample
    BY <2>1, <2>4
  <2> QED
    BY <2>1, <2>3, <2>5, BoxesKept
<1>2. CASE K!StartSession \/ K!Close
  BY <1>2, SolverStarts, SolverCloses
<1>3. CASE K!StopSession \/ K!CloseDrain \/ K!Intent \/ K!Freeze \/ K!AskRestarts \/ K!Discard
  BY <1>3, ClientKeptToo
<1>4. CASE K!Ask \/ K!AskFk \/ K!Take \/ K!TakeFk \/ K!Timeout
  BY <1>4, AskKept, AskFkKept, TakeKept
<1>5. ASSUME NEW p \in K!Processes,
             \/ K!WriterGet(p) \/ K!WriterWrite(p) \/ K!WriterEnd(p)
             \/ K!ReaderLine(p) \/ K!ReaderPut(p) \/ K!ReaderEnd(p)
      PROVE  SolverInv'
  BY <1>5, WriterGetKept, WriterWriteKept, ReaderLineKept, ReaderPutKept, ReaderEndKept
<1>6. ASSUME NEW p \in K!Processes, K!Receive(p) \/ K!Solve(p) \/ K!Reply(p) \/ K!Crash(p)
      PROVE  SolverInv'
  BY <1>6, ReceiveKept, SolveKept, ReplyKept, CrashKept
<1> QED
  BY <1>1, <1>2, <1>3, <1>4, <1>5, <1>6 DEF K!Next

LEMMA SolverInvariant == K!KinematicsAssumption => (K!Spec => []SolverInv)
<1> SUFFICES ASSUME K!KinematicsAssumption PROVE K!Spec => []SolverInv
  OBVIOUS
<1>1. K!Init => SolverInv
  BY SolverInit
<1>2. SolverInv /\ [K!Next]_(K!vars) => SolverInv'
  BY SolverStep
<1> QED
  BY <1>1, <1>2, PTL DEF K!Spec

\* A servo cycle that takes an answer of the solver takes the one to the very
\* request it made, whatever processes, sessions, targets and epochs have gone
\* by, and so does forward kinematics as long as no such call has given up
\* (osc.py:395-531, 592-627, 706-714).
THEOREM AnswersAreAsked == K!KinematicsAssumption => (K!Spec => []K!AnswerIsAsked)
<1> SUFFICES ASSUME K!KinematicsAssumption PROVE K!Spec => []K!AnswerIsAsked
  OBVIOUS
<1>1. SolverInv => K!AnswerIsAsked
  BY DEF SolverInv
<1> QED
  BY <1>1, SolverInvariant, PTL
-----------------------------------------------------------------------------
\* What the policy is shown.

CONSTANTS Fresh, GripFresh, Executions, Jumps, MaxNow, MaxSession
VARIABLES now, offset, osc, own, grip, value, feed, gcache, states, snap

F == INSTANCE Feedback WITH
  Modes <- Executions, session <- osc, mine <- own, loop <- states

Keys   == [n : Nat, mode : Executions \cup {"none"}]
Views  == [src : {"none", "measured", "shadow"}, key : Keys, at : Int]
Frames == [stamp : Int, at : Int, off : Int]
Grips  == [ok : BOOLEAN, received : Int, frame : Frames]
Values == [key : Keys, obs : Views, pub : Int]

FeedbackTypes ==
  /\ now \in Nat /\ offset \in Int /\ osc \in Keys /\ own \in Nat /\ grip \in Frames
  /\ value \in Values
  /\ feed \in [pc : {"context", "refresh", "store"}, key : Keys, new : Values]
  /\ gcache \in [stamp : Int, received : Int, off : Int, frame : Frames]
  /\ states \in [pc : {"fetch", "publish"}, key : Keys]
  /\ snap \in [key : Keys, obs : Views, pub : Int, grip : Grips]

\* A session has a number and then a mode.
Numbered(key) == key.n # 0 => key.mode \in Executions
KeysNumbered == Numbered(osc) /\ Numbered(states.key) /\ Numbered(snap.key)

\* An observation was made for the session it is kept for, in its way.
Made(v) ==
  v.obs # F!NoObs =>
    /\ v.obs.key = v.key
    /\ v.obs.src = IF v.key.mode = "shadow" THEN "shadow" ELSE "measured"
ViewsMade == Made(value) /\ Made(feed.new)

\* While the wall clock stands as it stood when a frame came, the frame has the
\* age that its reader has counted.
Aged(received, frame) == received >= 0 /\ frame.off = offset => frame.at = received
FramesAged ==
  /\ grip.stamp = grip.at + grip.off
  /\ \A frame \in {grip, gcache.frame, snap.grip.frame} : frame.off \in {0, offset}
  /\ Aged(gcache.received, gcache.frame) /\ Aged(snap.grip.received, snap.grip.frame)

FeedbackInv == FeedbackTypes /\ KeysNumbered /\ ViewsMade /\ FramesAged

LEMMA FeedbackInit == ASSUME F!FeedbackAssumption, F!Init PROVE FeedbackInv
<1>1. /\ F!NoSession \in Keys /\ F!NoSession.n = 0 /\ F!NoObs \in Views /\ F!NoFrame \in Frames
      /\ F!NoFrame.off = 0 /\ F!NoFrame.stamp = F!NoFrame.at + F!NoFrame.off
  BY DEF F!NoSession, F!NoObs, F!NoFrame, Keys, Views, Frames
<1>2. F!NoGrip \in Grips /\ F!NoGrip.received = -1 /\ F!NoGrip.frame = F!NoFrame
  BY <1>1 DEF F!NoGrip, Grips
<1>3. F!NoValue \in Values /\ F!NoValue.obs = F!NoObs
  BY <1>1 DEF F!NoValue, Values
<1>4. /\ F!Empty \in [key : Keys, obs : Views, pub : Int, grip : Grips]
      /\ F!Empty.key = F!NoSession /\ F!Empty.grip = F!NoGrip
  BY <1>1, <1>2 DEF F!Empty
<1>5. /\ F!Waiting \in [pc : {"context", "refresh", "store"}, key : Keys, new : Values]
      /\ F!Waiting.new = F!NoValue
  BY <1>1, <1>3 DEF F!Waiting
<1>6. FeedbackTypes
  BY <1>1, <1>3, <1>4, <1>5 DEF F!Init, FeedbackTypes
<1>7. KeysNumbered
  BY <1>1, <1>4 DEF F!Init, KeysNumbered, Numbered
<1>8. ViewsMade
  BY <1>3, <1>5 DEF F!Init, ViewsMade, Made
<1>9. FramesAged
  BY <1>1, <1>2, <1>4 DEF F!Init, FramesAged, Aged
<1> QED
  BY <1>6, <1>7, <1>8, <1>9 DEF FeedbackInv

\* Time, the clock, the gripper and sessions.
LEMMA WorldKept ==
  ASSUME F!FeedbackAssumption, FeedbackInv, F!Tick \/ F!Jump \/ F!Sense \/ F!Session
  PROVE  FeedbackInv'
<1>1. UNCHANGED <<value, feed, gcache, states, snap>>
  BY DEF F!Tick, F!Jump, F!Sense, F!Session
<1>2. ViewsMade'
  BY <1>1 DEF FeedbackInv, ViewsMade, Made
<1>3. CASE F!Tick \/ F!Jump
  <2>1. now' \in Nat /\ offset' \in Int /\ UNCHANGED <<osc, own, grip>>
    <3>1. now \in Nat /\ offset \in Int
      BY DEF FeedbackInv, FeedbackTypes
    <3>2. CASE F!Tick
      BY <3>1, <3>2 DEF F!Tick
    <3>3. CASE F!Jump
      BY <3>1, <3>3 DEF F!Jump, F!FeedbackAssumption
    <3> QED
      BY <1>3, <3>2, <3>3
  <2>2. offset' = offset \/ offset = 0
    BY <1>3 DEF F!Tick, F!Jump
  <2>3. FramesAged'
    BY <1>1, <2>1, <2>2 DEF FeedbackInv, FramesAged, Aged
  <2> QED
    BY <1>1, <1>2, <2>1, <2>3 DEF FeedbackInv, FeedbackTypes, KeysNumbered, Numbered
<1>4. CASE F!Sense
  <2>1. /\ UNCHANGED <<now, offset, osc, own>>
        /\ grip' = [stamp |-> now + offset, at |-> now, off |-> offset]
    BY <1>4 DEF F!Sense
  <2>2. grip' \in Frames /\ grip'.off = offset /\ grip'.stamp = grip'.at + grip'.off
    BY <2>1 DEF FeedbackInv, FeedbackTypes, Frames
  <2>3. FramesAged'
    BY <1>1, <2>1, <2>2 DEF FeedbackInv, FramesAged, Aged
  <2> QED
    BY <1>1, <1>2, <2>1, <2>2, <2>3 DEF FeedbackInv, FeedbackTypes, KeysNumbered, Numbered
<1>5. CASE F!Session
  <2>1. UNCHANGED <<now, offset, grip>> /\ own' \in {own, osc.n + 1}
    BY <1>5 DEF F!Session
  <2> PICK way \in Executions : osc' = [n |-> osc.n + 1, mode |-> way]
    BY <1>5 DEF F!Session
  <2>2. osc' \in Keys /\ Numbered(osc)' /\ own' \in Nat
    BY <2>1 DEF FeedbackInv, FeedbackTypes, Keys, Numbered
  <2>3. FramesAged'
    BY <1>1, <2>1 DEF FeedbackInv, FramesAged, Aged
  <2> QED
    BY <1>1, <1>2, <2>1, <2>2, <2>3 DEF FeedbackInv, FeedbackTypes, KeysNumbered, Numbered
<1> QED
  BY <1>3, <1>4, <1>5

\* The feed.
LEMMA FeedKept ==
  ASSUME F!FeedbackAssumption, FeedbackInv, F!FeedContext \/ F!FeedRefresh \/ F!FeedStore
  PROVE  FeedbackInv'
<1>1. UNCHANGED <<now, offset, osc, own, grip, gcache, states, snap>>
  BY DEF F!FeedContext, F!FeedRefresh, F!FeedStore, F!world
<1>2. /\ feed \in [pc : {"context", "refresh", "store"}, key : Keys, new : Values]
      /\ value \in Values /\ snap.key \in Keys /\ now \in Nat
      /\ Made(value) /\ Made(feed.new) /\ feed.key \in Keys /\ feed.new \in Values
  BY DEF FeedbackInv, FeedbackTypes, ViewsMade
<1>3. F!NoSession \in Keys /\ F!NoObs \in Views
  BY DEF F!NoSession, F!NoObs, Keys, Views
<1>4. F!NoValue \in Values /\ Made(F!NoValue)
  BY <1>3 DEF F!NoValue, Values, Made
<1>5. /\ F!Waiting \in [pc : {"context", "refresh", "store"}, key : Keys, new : Values]
      /\ F!Waiting.new = F!NoValue
  BY <1>3, <1>4 DEF F!Waiting
<1>6. /\ feed' \in [pc : {"context", "refresh", "store"}, key : Keys, new : Values]
      /\ value' \in Values /\ Made(value)' /\ Made(feed'.new)
  <2>1. CASE F!FeedContext
    <3>1. feed' = [feed EXCEPT !.pc = "refresh", !.key = snap.key] /\ value' = value
      BY <2>1 DEF F!FeedContext
    <3> QED
      BY <1>2, <3>1 DEF Made
  <2>2. CASE F!FeedRefresh /\ feed' = F!Waiting
    BY <1>2, <1>4, <1>5, <2>2 DEF F!FeedRefresh, Made
  <2>3. CASE F!FeedRefresh /\ feed' # F!Waiting
    <3> PICK new \in {[key |-> feed.key, obs |-> o, pub |-> now] : o \in F!Observation(feed.key)}
                     \cup {F!AfterFailure} :
               feed' = [feed EXCEPT !.pc = "store", !.new = new]
      BY <2>3 DEF F!FeedRefresh
    <3>1. value' = value
      BY <2>3 DEF F!FeedRefresh
    <3>2. CASE new = F!AfterFailure
      <4>1. /\ new.key = feed.key /\ new.pub \in {value.pub, -1}
            /\ new.obs = F!NoObs \/ (new.obs = value.obs /\ value.key = feed.key)
            /\ new = [key |-> feed.key, pub |-> new.pub, obs |-> new.obs]
        BY <3>2 DEF F!AfterFailure
      <4>2. value.pub \in Int /\ value.obs \in Views
        BY <1>2 DEF Values
      <4>3. new \in Values /\ Made(new)
        BY <1>2, <1>3, <4>1, <4>2 DEF Values, Made
      <4> QED
        BY <1>2, <3>1, <4>3 DEF Made
    <3>3. CASE new # F!AfterFailure
      <4> PICK o \in F!Observation(feed.key) : new = [key |-> feed.key, obs |-> o, pub |-> now]
        BY <3>3
      <4>1. /\ o \in Views /\ o.key = feed.key
            /\ o.src = IF feed.key.mode = "shadow" THEN "shadow" ELSE "measured"
        <5>1. CASE feed.key.mode = "shadow"
          BY <1>2, <5>1 DEF F!Observation, Views
        <5>2. CASE feed.key.mode # "shadow"
          BY <1>2, <5>2 DEF F!Observation, Views
        <5> QED
          BY <5>1, <5>2
      <4>2. new \in Values /\ Made(new)
        BY <1>2, <4>1 DEF Values, Made
      <4> QED
        BY <1>2, <3>1, <4>2 DEF Made
    <3> QED
      BY <3>2, <3>3
  <2>4. CASE F!FeedStore
    BY <1>2, <1>4, <1>5, <2>4 DEF F!FeedStore, Made
  <2> QED
    BY <2>1, <2>2, <2>3, <2>4
<1>7. FramesAged'
  BY <1>1 DEF FeedbackInv, FramesAged, Aged
<1> QED
  BY <1>1, <1>6, <1>7 DEF FeedbackInv, FeedbackTypes, KeysNumbered, ViewsMade, Numbered, Made

\* What is attached to a snapshot.
LEMMA AttachedKept ==
  ASSUME FeedbackInv, NEW s \in [key : Keys, obs : Views, pub : Int, grip : Grips]
  PROVE  /\ F!Attached(s) \in [key : Keys, obs : Views, pub : Int, grip : Grips]
         /\ F!Attached(s).key = s.key /\ F!Attached(s).grip = s.grip
         /\ F!Attached(s).obs # F!NoObs => value.key = s.key /\ F!Attached(s).obs = value.obs
<1>1. value.obs \in Views /\ value.pub \in Int
  BY DEF FeedbackInv, FeedbackTypes, Values
<1>2. F!NoObs \in Views
  BY DEF F!NoObs, F!NoSession, Views, Keys
<1> QED
  BY <1>1, <1>2 DEF F!Attached

LEMMA RefreshedKept ==
  ASSUME FeedbackInv
  PROVE  /\ F!Refreshed.cache \in [stamp : Int, received : Int, off : Int, frame : Frames]
         /\ F!Refreshed.ok \in BOOLEAN /\ F!Refreshed.cache.frame.off \in {0, offset}
         /\ Aged(F!Refreshed.cache.received, F!Refreshed.cache.frame)
<1> DEFINE aged == [gcache EXCEPT !.off = offset,
                                  !.received = IF offset = gcache.off THEN gcache.received ELSE -1]
           age  == now + offset - grip.stamp
           seen == [stamp |-> grip.stamp, received |-> now - age, off |-> offset, frame |-> grip]
<1>1. /\ gcache \in [stamp : Int, received : Int, off : Int, frame : Frames] /\ offset \in Int
      /\ grip \in Frames /\ now \in Int /\ grip.off \in {0, offset}
      /\ gcache.frame.off \in {0, offset} /\ Aged(gcache.received, gcache.frame)
      /\ grip.stamp = grip.at + grip.off
  BY DEF FeedbackInv, FeedbackTypes, FramesAged
<1>2. /\ aged \in [stamp : Int, received : Int, off : Int, frame : Frames]
      /\ aged.frame = gcache.frame /\ aged.received \in {gcache.received, -1}
  <2> PICK r \in {gcache.received, -1} : r = IF offset = gcache.off THEN gcache.received ELSE -1
    OBVIOUS
  <2>1. aged = [gcache EXCEPT !.off = offset, !.received = r]
    OBVIOUS
  <2> HIDE DEF aged
  <2>2. r \in Int
    BY <1>1
  <2> QED
    BY <1>1, <2>1, <2>2
<1>3. aged.frame.off \in {0, offset} /\ Aged(aged.received, aged.frame)
  BY <1>1, <1>2 DEF Aged
<1>4. /\ F!Refreshed.ok \in BOOLEAN
      /\ F!Refreshed.cache = aged \/ F!Refreshed.cache = seen
  BY DEF F!Refreshed
<1>5. /\ seen \in [stamp : Int, received : Int, off : Int, frame : Frames]
      /\ seen.frame.off \in {0, offset} /\ Aged(seen.received, seen.frame)
  BY <1>1 DEF Aged, Frames
<1> QED
  BY <1>2, <1>3, <1>4, <1>5

\* The state thread.
LEMMA StatesKept ==
  ASSUME F!FeedbackAssumption, FeedbackInv, F!Fetch \/ F!Publish
  PROVE  FeedbackInv'
<1>1. UNCHANGED <<now, offset, osc, own, grip, value, feed>>
  BY DEF F!Fetch, F!Publish, F!world
<1>2. /\ states \in [pc : {"fetch", "publish"}, key : Keys] /\ osc \in Keys
      /\ snap \in [key : Keys, obs : Views, pub : Int, grip : Grips]
      /\ gcache \in [stamp : Int, received : Int, off : Int, frame : Frames]
      /\ Numbered(osc) /\ Numbered(states.key) /\ Numbered(snap.key) /\ states.key \in Keys
  BY DEF FeedbackInv, FeedbackTypes, KeysNumbered
<1>3. ViewsMade'
  BY <1>1 DEF FeedbackInv, ViewsMade, Made
<1>4. CASE F!Fetch
  <2>1. states' = [pc |-> "publish", key |-> osc] /\ UNCHANGED <<gcache, snap>>
    BY <1>4 DEF F!Fetch
  <2>2. /\ states' \in [pc : {"fetch", "publish"}, key : Keys] /\ states'.key = osc
    BY <1>2, <2>1
  <2>3. FramesAged'
    BY <1>1, <2>1 DEF FeedbackInv, FramesAged, Aged
  <2> QED
    BY <1>1, <1>2, <1>3, <2>1, <2>2, <2>3 DEF FeedbackInv, FeedbackTypes, KeysNumbered, Numbered
<1>5. CASE F!Publish
  <2> DEFINE s == F!Attached([F!Empty EXCEPT !.key = states.key])
             Shots == [key : Keys, obs : Views, pub : Int, grip : Grips]
  <2>1. F!NoSession \in Keys /\ F!NoSession.n = 0 /\ F!NoGrip \in Grips
        /\ F!NoGrip.frame.off = 0 /\ F!NoGrip.received = -1
    BY DEF F!NoSession, Keys, F!NoGrip, F!NoFrame, Grips, Frames
  <2>2. /\ [F!Empty EXCEPT !.key = states.key] \in Shots
        /\ [F!Empty EXCEPT !.key = states.key].key = states.key
        /\ [F!Empty EXCEPT !.key = states.key].grip = F!NoGrip
    <3>1. F!NoObs \in Views
      BY DEF F!NoObs, F!NoSession, Views, Keys
    <3> QED
      BY <1>2, <2>1, <3>1 DEF F!Empty
  <2>3. s \in Shots /\ s.key = states.key /\ s.grip = F!NoGrip
    BY <2>2, AttachedKept
  <2>4. states' = [pc |-> "fetch", key |-> F!NoSession]
    BY <1>5 DEF F!Publish
  <2>5. /\ states' \in [pc : {"fetch", "publish"}, key : Keys] /\ states'.key = F!NoSession
    BY <2>1, <2>4
  <2> HIDE DEF s
  <2>6. /\ gcache' \in [stamp : Int, received : Int, off : Int, frame : Frames]
        /\ gcache'.frame.off \in {0, offset} /\ Aged(gcache'.received, gcache'.frame)
        /\ snap' \in Shots /\ snap'.key \in {snap.key, states.key}
        /\ snap'.grip.frame.off \in {0, offset} /\ Aged(snap'.grip.received, snap'.grip.frame)
    <3>1. CASE gcache' = gcache /\ snap' \in {snap, s}
      BY <1>2, <2>1, <2>3, <3>1 DEF FeedbackInv, FramesAged, Aged
    <3>2. CASE /\ gcache' = F!Refreshed.cache
               /\ snap' \in {snap, [s EXCEPT !.grip =
                     [ok |-> F!Refreshed.ok /\ F!Within(gcache'.received, GripFresh),
                      received |-> gcache'.received, frame |-> gcache'.frame]]}
      <4> PICK g : g = [ok |-> F!Refreshed.ok /\ F!Within(gcache'.received, GripFresh),
                        received |-> gcache'.received, frame |-> gcache'.frame]
        OBVIOUS
      <4>1. /\ gcache' \in [stamp : Int, received : Int, off : Int, frame : Frames]
            /\ F!Refreshed.ok \in BOOLEAN
            /\ gcache'.frame.off \in {0, offset} /\ Aged(gcache'.received, gcache'.frame)
        BY <3>2, RefreshedKept
      <4>2. /\ g \in Grips /\ g.frame.off \in {0, offset} /\ Aged(g.received, g.frame)
        BY <4>1 DEF Grips
      <4>3. snap' \in {snap, [s EXCEPT !.grip = g]}
        BY <3>2
      <4> QED
        BY <1>2, <2>3, <4>1, <4>2, <4>3 DEF FeedbackInv, FramesAged
    <3> QED
      BY <1>5, <3>1, <3>2 DEF F!Publish, s
  <2>7. FramesAged'
    BY <1>1, <2>6 DEF FeedbackInv, FramesAged, Aged
  <2>8. KeysNumbered'
    BY <1>1, <1>2, <2>1, <2>5, <2>6 DEF KeysNumbered, Numbered
  <2> QED
    BY <1>1, <1>3, <2>5, <2>6, <2>7, <2>8 DEF FeedbackInv, FeedbackTypes
<1> QED
  BY <1>4, <1>5

LEMMA FeedbackInvariant == F!FeedbackAssumption => (F!Spec => []FeedbackInv)
<1> SUFFICES ASSUME F!FeedbackAssumption PROVE F!Spec => []FeedbackInv
  OBVIOUS
<1>1. F!Init => FeedbackInv
  BY FeedbackInit
<1>2. FeedbackInv /\ [F!Next]_(F!vars) => FeedbackInv'
  <2> SUFFICES ASSUME FeedbackInv, [F!Next]_(F!vars) PROVE FeedbackInv'
    OBVIOUS
  <2>1. CASE UNCHANGED F!vars
    BY <2>1 DEF F!vars, FeedbackInv, FeedbackTypes, KeysNumbered, Numbered, ViewsMade, Made,
                FramesAged, Aged
  <2>2. CASE F!Next
    BY <2>2, WorldKept, FeedKept, StatesKept DEF F!Next
  <2> QED
    BY <2>1, <2>2
<1> QED
  BY <1>1, <1>2, PTL DEF F!Spec

LEMMA ShownIsOwn ==
  ASSUME F!FeedbackAssumption, FeedbackInv
  PROVE  F!PoseIsOwn /\ F!GripperIsFresh
<1>1. /\ F!Shown.key = snap.key /\ F!Shown.grip = snap.grip
      /\ F!Shown.obs # F!NoObs => value.key = snap.key /\ F!Shown.obs = value.obs
  BY AttachedKept DEF FeedbackInv, FeedbackTypes, F!Shown
<1>2. F!PoseIsOwn
  <2> SUFFICES ASSUME F!Usable(F!Shown), F!Shown.obs # F!NoObs
      PROVE  /\ F!Shown.obs.key = F!Shown.key /\ F!Shown.key.n = own
             /\ (F!Shown.key.mode = "hardware") = (F!Shown.obs.src = "measured")
    BY DEF F!PoseIsOwn
  <2>1. F!Shown.key.n # 0 /\ F!Shown.key.n = own
    BY DEF F!Usable
  <2>2. snap.key.mode \in {"hardware", "shadow"}
    BY <1>1, <2>1 DEF FeedbackInv, KeysNumbered, Numbered, F!FeedbackAssumption
  <2>3. /\ F!Shown.obs.key = snap.key
        /\ F!Shown.obs.src = IF snap.key.mode = "shadow" THEN "shadow" ELSE "measured"
    BY <1>1 DEF FeedbackInv, ViewsMade, Made
  <2> QED
    BY <1>1, <2>1, <2>2, <2>3
<1>3. F!GripperIsFresh
  <2> SUFFICES ASSUME F!Usable(F!Shown), F!Shown.key.mode = "hardware",
                      F!Shown.grip.frame.off = offset
      PROVE  F!Within(F!Shown.grip.frame.at, GripFresh)
    BY DEF F!GripperIsFresh
  <2>1. F!Within(snap.grip.received, GripFresh)
    BY <1>1 DEF F!Usable
  <2>2. snap.grip.received >= 0
    BY <2>1 DEF F!Within
  <2> QED
    BY <1>1, <2>1, <2>2 DEF FeedbackInv, FramesAged, Aged
<1> QED
  BY <1>2, <1>3

\* What the policy is shown was made for the session it has started, in hardware
\* a measurement; and in hardware the gripper's frame is as young as it is said
\* to be unless the clock was set since it came (inference_feedback.py:33-87,
\* inference_gripper_feedback.py:50-85, pi05_adapter.py:554-654).
THEOREM ShownToThePolicy == F!FeedbackAssumption => (F!Spec => []F!ObservationIsOwn)
<1> SUFFICES ASSUME F!FeedbackAssumption PROVE F!Spec => []F!ObservationIsOwn
  OBVIOUS
<1>1. FeedbackInv => F!ObservationIsOwn
  BY ShownIsOwn DEF F!ObservationIsOwn
<1> QED
  BY <1>1, FeedbackInvariant, PTL
-----------------------------------------------------------------------------
\* What the backend says of the controller.

CONSTANTS Attempts, Lossy, Emergency, Starts
VARIABLES claimed, via, latched, cpv, mit, auto, kept, linked, superseded, op, ctrl

B == INSTANCE Backend WITH mode <- claimed, arm <- ctrl

Methods == {"none", "connect", "exit", "disconnect", "stop", "send", "enter", "hold", "freedrive"}
Lines ==
  {"idle", "connect", "exit", "confirm", "drop", "mode", "ask", "sent", "stream", "role", "drag",
   "stable", "reset", "leader", "feedback", "lead", "enable", "sustained"}
Reports ==
  {"DISCONNECTED", "TRANSITIONING", "HOLD", "FREEDRIVE", "OSC_CPV", "OSC_MIT",
   "EMERGENCY_DAMPING", "FAULT"}
Running == [m : Methods, pc : Lines, prev : Reports \cup {"none", "on", "off"}, left : Nat]
BackendTypes ==
  op \in Running /\ ctrl \in B!Arms /\ claimed \in Reports /\ auto \in {"on", "off"}

\* The method that runs is leaving MIT.
Leaving == op.pc \in {"exit", "confirm"}

\* At most one stream has the controller, and it has put the SDK's setting aside.
OneStream ==
  /\ cpv => ~mit /\ ctrl.motion = "cpv"
  /\ ctrl.motion = "mit" => mit
  /\ cpv \/ mit => kept = "on" /\ linked
  /\ kept \in {"none", "on"}
  /\ linked /\ ~cpv /\ ~mit /\ op.m # "send" => auto = "on"

\* Which methods run with a stream, and which without.
MethodsRun ==
  /\ op.m = "send" => op.prev = "on" /\ ~cpv /\ ~mit /\ linked
  /\ Leaving \/ op.m = "enter" => mit
  /\ op.m = "hold" /\ ~Leaving => claimed = "TRANSITIONING" /\ ~mit
  /\ op.m \in {"connect", "freedrive"} \/ op.pc = "drop" => ~mit
  /\ op.m \in {"connect", "freedrive"} \/ op.pc \in {"role", "drag", "stable"} => ~cpv

\* What the mode says of the controller also while a method runs.
Claims ==
  /\ claimed = "FREEDRIVE" => ctrl.role # "follower" \/ op.m = "freedrive"
  /\ claimed = "OSC_MIT" => mit /\ (ctrl.motion = "mit" \/ op.pc = "confirm")

BackendInv == BackendTypes /\ OneStream /\ MethodsRun /\ Claims

\* Methods as they begin, go on and end.
LEMMA IdleIs == B!Idle = [m |-> "none", pc |-> "idle", prev |-> "none", left |-> 0]
BY DEF B!Idle

LEMMA Begins ==
  ASSUME NEW m \in Methods, NEW pc \in Lines, op' = B!Runs(m, pc)
  PROVE  op' \in Running /\ op'.m = m /\ op'.pc = pc /\ op'.prev = "none"
<1>1. op' = [m |-> m, pc |-> pc, prev |-> "none", left |-> 0]
  BY IdleIs DEF B!Runs
<1> QED
  BY <1>1 DEF Running, Methods, Lines, Reports

LEMMA GoesOn ==
  ASSUME op \in Running, NEW pc \in Lines, B!Goto(pc)
  PROVE  op' \in Running /\ op'.m = op.m /\ op'.pc = pc /\ op'.prev = op.prev
BY DEF Running, B!Goto

LEMMA Returns ==
  ASSUME B!Return
  PROVE  op' \in Running /\ op'.m = "none" /\ op'.pc = "idle"
<1>1. op' = [m |-> "none", pc |-> "idle", prev |-> "none", left |-> 0]
  BY IdleIs DEF B!Return
<1> QED
  BY <1>1 DEF Running, Methods, Lines, Reports

LEMMA Rests == B!Ready => op.m = "none" /\ op.pc = "idle"
BY IdleIs DEF B!Ready

\* Frames that arrive or are lost.
LEMMA Arrives ==
  ASSUME NEW new, B!Told(new)
  PROVE  ctrl' = ctrl \/ ctrl' = new
BY DEF B!Told

LEMMA Enables ==
  ASSUME NEW a \in B!Arms
  PROVE  B!Enabled(a) \in B!Arms /\ B!Enabled(a).role = a.role /\ B!Enabled(a).motion = a.motion
BY DEF B!Arms, B!Enabled

LEMMA MotionTold ==
  ASSUME NEW a \in B!Arms, NEW new \in {"cpv", "mit"}, B!Told([a EXCEPT !.motion = new]),
         ctrl \in B!Arms
  PROVE  /\ ctrl' \in B!Arms
         /\ ctrl' = ctrl \/ (ctrl'.role = a.role /\ ctrl'.motion = new)
<1>1. [a EXCEPT !.motion = new] \in B!Arms
  BY DEF B!Arms, B!Motions
<1>2. [a EXCEPT !.motion = new].role = a.role /\ [a EXCEPT !.motion = new].motion = new
  BY DEF B!Arms
<1> QED
  BY <1>1, <1>2, Arrives

LEMMA RoleTold ==
  ASSUME NEW a \in B!Arms, NEW new \in {"leader", "follower"}, B!Told([a EXCEPT !.role = new]),
         ctrl \in B!Arms
  PROVE  /\ ctrl' \in B!Arms
         /\ ctrl' = ctrl \/ (ctrl'.role = new /\ ctrl'.motion = a.motion)
<1>1. [a EXCEPT !.role = new] \in B!Arms
  BY DEF B!Arms, B!Roles
<1>2. [a EXCEPT !.role = new].role = new /\ [a EXCEPT !.role = new].motion = a.motion
  BY DEF B!Arms
<1> QED
  BY <1>1, <1>2, Arrives

\* The end of a CPV stream.
LEMMA Quieted ==
  ASSUME BackendInv, B!Quiet, ~mit, op.m # "send"
  PROVE  /\ ctrl' \in B!Arms /\ ctrl'.role = ctrl.role
         /\ ctrl'.motion # "mit"
         /\ ~cpv' /\ kept' = "none" /\ (linked => auto' = "on")
<1>1. ctrl' = ctrl \/ B!Told([ctrl EXCEPT !.motion = "cpv"])
  BY DEF B!Quiet
<1>2. ctrl' \in B!Arms /\ ctrl'.role = ctrl.role /\ ctrl'.motion # "mit"
  BY <1>1, MotionTold DEF BackendInv, BackendTypes, OneStream
<1>3. ~cpv' /\ kept' = "none" /\ (linked => auto' = "on")
  BY DEF B!Quiet, BackendInv, OneStream
<1> QED
  BY <1>2, <1>3

\* Connecting, leaving MIT and disconnecting.
LEMMA LinkKept ==
  ASSUME BackendInv, B!Connect \/ B!Preempt \/ B!Exit \/ B!ExitAsk \/ B!ExitDone \/ B!ExitFail \/
         B!Disconnect \/ B!Drop
  PROVE  BackendInv'
<1>1. CASE B!Connect
  <2>1. op' \in Running /\ op'.m = "none" /\ op'.pc = "idle"
    BY <1>1, Returns DEF B!Connect
  <2>2. ctrl' = ctrl
    BY <1>1 DEF B!Connect
  <2>3. op.m = "connect" /\ UNCHANGED <<cpv, mit, kept>> /\ auto' = "on"
    BY <1>1 DEF B!Connect, B!At
  <2>4. claimed' \in Reports \ {"OSC_MIT"} /\ (claimed' = "FREEDRIVE" => ctrl.role # "follower")
    BY <1>1 DEF B!Connect, B!Connected, Reports
  <2> QED
    BY <2>1, <2>2, <2>3, <2>4 DEF BackendInv, BackendTypes, Reports, OneStream, MethodsRun,
        Leaving,
        Claims
<1>2. CASE B!Preempt
  <2>1. op' = op
    BY <1>2 DEF B!Preempt
  <2>2. ctrl' = ctrl
    BY <1>2 DEF B!Preempt
  <2>3. UNCHANGED <<claimed, cpv, mit, auto, kept, linked>>
    BY <1>2, Rests DEF B!Preempt, B!At
  <2> QED
    BY <2>1, <2>2, <2>3 DEF BackendInv, BackendTypes, Reports, OneStream, MethodsRun, Leaving,
        Claims
<1>3. CASE B!Exit
  <2>1. op' \in Running /\ op'.m = "exit" /\ op'.pc = "exit"
    BY <1>3, Begins DEF B!Exit, Methods, Lines
  <2>2. ctrl' = ctrl
    BY <1>3 DEF B!Exit
  <2>3. mit /\ op.m = "none" /\ op.pc = "idle" /\ UNCHANGED <<claimed, cpv, mit, auto, kept,
      linked>>
    BY <1>3, Rests DEF B!Exit, B!At
  <2> QED
    BY <2>1, <2>2, <2>3 DEF BackendInv, BackendTypes, Reports, OneStream, MethodsRun, Leaving,
        Claims
<1>4. CASE B!ExitAsk
  <2>1. op' \in Running /\ op'.m = op.m /\ op'.pc = "confirm" /\ op'.prev = op.prev
    BY <1>4, GoesOn DEF B!ExitAsk, BackendInv, BackendTypes, Lines
  <2>2. /\ ctrl' \in B!Arms
        /\ ctrl' = ctrl \/ (ctrl'.role = ctrl.role /\ ctrl'.motion = "cpv")
    BY <1>4, MotionTold DEF B!ExitAsk, BackendInv, BackendTypes
  <2>3. op.pc = "exit" /\ UNCHANGED <<claimed, cpv, mit, auto, kept, linked>>
    BY <1>4, Rests DEF B!ExitAsk, B!At
  <2> QED
    BY <2>1, <2>2, <2>3 DEF BackendInv, BackendTypes, Reports, OneStream, MethodsRun, Leaving,
        Claims
<1>5. CASE B!ExitDone
  <2>1. op' \in Running /\ op'.m \in {"none", "disconnect"} /\ op'.pc \in {"idle", "drop"}
    BY <1>5, Returns, GoesOn DEF B!ExitDone, BackendInv, BackendTypes, Lines
  <2>2. ctrl' = ctrl
    BY <1>5 DEF B!ExitDone
  <2>3. op.pc = "confirm" /\ UNCHANGED <<cpv, linked>>
    BY <1>5, Rests DEF B!ExitDone, B!At
  <2>4. ctrl.motion = "cpv" /\ ~mit' /\ claimed' = "HOLD" /\ auto' = kept /\ kept' = "none"
    BY <1>5, Rests DEF B!ExitDone, B!At
  <2> QED
    BY <2>1, <2>2, <2>3, <2>4 DEF BackendInv, BackendTypes, Reports, OneStream, MethodsRun,
        Leaving,
        Claims
<1>6. CASE B!ExitFail
  <2>1. op' \in Running /\ op'.m = "none" /\ op'.pc = "idle"
    BY <1>6, Returns DEF B!ExitFail
  <2>2. ctrl' = ctrl
    BY <1>6 DEF B!ExitFail
  <2>3. op.pc = "confirm" /\ UNCHANGED <<cpv, mit, auto, kept, linked>> /\ claimed' = "FAULT"
    BY <1>6, Rests DEF B!ExitFail, B!At
  <2> QED
    BY <2>1, <2>2, <2>3 DEF BackendInv, BackendTypes, Reports, OneStream, MethodsRun, Leaving,
        Claims
<1>7. CASE B!Disconnect
  <2>1. /\ op' \in Running /\ op'.m = "disconnect" /\ op'.pc \in {"exit", "drop"}
        /\ (op'.pc = "exit") <=> mit
    BY <1>7, Begins DEF B!Disconnect, Methods, Lines
  <2>2. ctrl' = ctrl
    BY <1>7 DEF B!Disconnect
  <2>3. op.m = "none" /\ op.pc = "idle" /\ UNCHANGED <<claimed, cpv, mit, auto, kept, linked>>
    BY <1>7, Rests DEF B!Disconnect, B!At
  <2> QED
    BY <2>1, <2>2, <2>3 DEF BackendInv, BackendTypes, Reports, OneStream, MethodsRun, Leaving,
        Claims
<1>8. CASE B!Drop
  <2>1. op' \in Running /\ op'.m = "none" /\ op'.pc = "idle"
    BY <1>8, Returns DEF B!Drop
  <2>2. ctrl' = ctrl
    BY <1>8 DEF B!Drop
  <2>3. op.pc = "drop" /\ ~linked' /\ claimed' = "DISCONNECTED" /\ ~cpv' /\ kept' = "none"
    BY <1>8, Rests DEF B!Drop, B!At
  <2>4. UNCHANGED <<mit, auto>>
    BY <1>8, Rests DEF B!Drop, B!At
  <2> QED
    BY <2>1, <2>2, <2>3, <2>4 DEF BackendInv, BackendTypes, Reports, OneStream, MethodsRun,
        Leaving,
        Claims
<1> QED
  BY <1>1, <1>2, <1>3, <1>4, <1>5, <1>6, <1>7, <1>8

\* The CPV stream.
LEMMA CpvKept ==
  ASSUME BackendInv, B!Stop \/ B!Send \/ B!SendEntered \/ B!SendFail
  PROVE  BackendInv'
<1>1. CASE B!Stop
  <2>1. op.m = "none" /\ op.pc = "idle" /\ linked /\ UNCHANGED <<claimed, mit, linked>>
    BY <1>1, Rests DEF B!Stop
  <2>2. CASE mit
    <3>1. op' \in Running /\ op'.m = "stop" /\ op'.pc = "exit"
      BY <1>1, <2>2, Begins DEF B!Stop, Methods, Lines
    <3>2. UNCHANGED <<cpv, auto, kept, ctrl>>
      BY <1>1, <2>2 DEF B!Stop
    <3> QED
      BY <2>1, <2>2, <3>1, <3>2 DEF BackendInv, BackendTypes, Reports, OneStream, MethodsRun,
          Leaving,
        Claims
  <2>3. CASE ~mit
    <3>1. op' = op /\ B!Quiet
      BY <1>1, <2>3 DEF B!Stop
    <3>2. /\ ctrl' \in B!Arms /\ ctrl'.role = ctrl.role /\ ctrl'.motion # "mit"
          /\ ~cpv' /\ kept' = "none" /\ auto' = "on"
      BY <2>1, <2>3, <3>1, Quieted
    <3> QED
      BY <2>1, <2>3, <3>1, <3>2 DEF BackendInv, BackendTypes, Reports, OneStream, MethodsRun,
          Leaving,
        Claims
  <2> QED
    BY <2>2, <2>3
<1>2. CASE B!Send
  <2>1. /\ op.m = "none" /\ op.pc = "idle" /\ linked /\ ~mit /\ claimed # "FREEDRIVE"
        /\ UNCHANGED <<mit, kept, linked>>
    BY <1>2, Rests DEF B!Send
  <2>2. CASE cpv
    BY <1>2, <2>1, <2>2 DEF B!Send, BackendInv, BackendTypes, Reports, OneStream, MethodsRun,
        Leaving,
        Claims
  <2>3. CASE ~cpv
    <3>1. /\ UNCHANGED <<claimed, cpv>> /\ auto = "on" /\ auto' = "off"
          /\ op' = [B!Runs("send", "mode") EXCEPT !.prev = auto]
      BY <1>2, <2>1, <2>3 DEF B!Send, BackendInv, OneStream
    <3>2. op' = [m |-> "send", pc |-> "mode", prev |-> auto, left |-> 0]
      BY <3>1, IdleIs DEF B!Runs
    <3>3. op' \in Running /\ op'.m = "send" /\ op'.pc = "mode" /\ op'.prev = "on"
      BY <3>1, <3>2 DEF Running, Methods, Lines
    <3>4. ctrl' \in B!Arms /\ (ctrl' = ctrl \/ (ctrl'.role = ctrl.role /\ ctrl'.motion = "cpv"))
      BY <1>2, <2>3, MotionTold, Enables DEF B!Send, BackendInv, BackendTypes
    <3> QED
      BY <2>1, <2>3, <3>1, <3>3, <3>4 DEF BackendInv, BackendTypes, Reports, OneStream,
          MethodsRun, Leaving,
        Claims
  <2> QED
    BY <2>2, <2>3
<1>3. CASE B!SendEntered
  <2>1. op' \in Running /\ op'.m = "none" /\ op'.pc = "idle"
    BY <1>3, Returns DEF B!SendEntered
  <2>2. ctrl' = ctrl
    BY <1>3 DEF B!SendEntered
  <2>3. op.m = "send" /\ ctrl.motion = "cpv" /\ cpv' /\ kept' = op.prev
    BY <1>3, Rests DEF B!SendEntered, B!At
  <2>4. claimed' \in {"OSC_CPV", claimed} /\ UNCHANGED <<mit, auto, linked>>
    BY <1>3, Rests DEF B!SendEntered, B!At
  <2> QED
    BY <2>1, <2>2, <2>3, <2>4 DEF BackendInv, BackendTypes, Reports, OneStream, MethodsRun,
        Leaving,
        Claims
<1>4. CASE B!SendFail
  <2>1. op' \in Running /\ op'.m = "none" /\ op'.pc = "idle"
    BY <1>4, Returns DEF B!SendFail
  <2>2. ctrl' = ctrl
    BY <1>4 DEF B!SendFail
  <2>3. op.m = "send" /\ auto' = op.prev /\ UNCHANGED <<claimed, cpv, mit, kept, linked>>
    BY <1>4, Rests DEF B!SendFail, B!At
  <2> QED
    BY <2>1, <2>2, <2>3 DEF BackendInv, BackendTypes, Reports, OneStream, MethodsRun, Leaving,
        Claims
<1> QED
  BY <1>1, <1>2, <1>3, <1>4

\* The MIT stream.
LEMMA MitKept ==
  ASSUME BackendInv, B!Enter \/ B!EnterAsk \/ B!EnterDone \/ B!EnterFail
  PROVE  BackendInv'
<1>1. CASE B!Enter
  <2>1. op' \in Running /\ op'.m = "enter" /\ op'.pc = "ask"
    BY <1>1, Begins DEF B!Enter, Methods, Lines
  <2>2. ctrl' \in B!Arms /\ ctrl'.role = ctrl.role /\ ctrl'.motion = ctrl.motion
    BY <1>1, Enables DEF B!Enter, BackendInv, BackendTypes
  <2>3. linked /\ ~mit /\ ~cpv /\ claimed # "FREEDRIVE" /\ op.m = "none"
    BY <1>1, Rests DEF B!Enter, B!At
  <2>4. kept' = auto /\ auto' = "off" /\ mit' /\ UNCHANGED <<claimed, cpv, linked>>
    BY <1>1, Rests DEF B!Enter, B!At
  <2> QED
    BY <2>1, <2>2, <2>3, <2>4 DEF BackendInv, BackendTypes, Reports, OneStream, MethodsRun,
        Leaving,
        Claims
<1>2. CASE B!EnterAsk
  <2>1. op' \in Running /\ op'.m = op.m /\ op'.pc = "sent" /\ op'.prev = op.prev
    BY <1>2, GoesOn DEF B!EnterAsk, BackendInv, BackendTypes, Lines
  <2>2. /\ ctrl' \in B!Arms
        /\ ctrl' = ctrl \/ (ctrl'.role = ctrl.role /\ ctrl'.motion = "mit")
    BY <1>2, MotionTold DEF B!EnterAsk, BackendInv, BackendTypes
  <2>3. op.m = "enter" /\ op.pc = "ask"
    BY <1>2, Rests DEF B!EnterAsk, B!At
  <2>4. UNCHANGED <<claimed, cpv, mit, auto, kept, linked>>
    BY <1>2, Rests DEF B!EnterAsk, B!At
  <2> QED
    BY <2>1, <2>2, <2>3, <2>4 DEF BackendInv, BackendTypes, Reports, OneStream, MethodsRun,
        Leaving,
        Claims
<1>3. CASE B!EnterDone
  <2>1. op' \in Running /\ op'.m = "none" /\ op'.pc = "idle"
    BY <1>3, Returns DEF B!EnterDone
  <2>2. ctrl' = ctrl
    BY <1>3 DEF B!EnterDone
  <2>3. op.m = "enter" /\ ctrl.motion = "mit" /\ claimed' = "OSC_MIT"
          /\ UNCHANGED <<cpv, mit, auto, kept, linked>>
    BY <1>3, Rests DEF B!EnterDone, B!At
  <2> QED
    BY <2>1, <2>2, <2>3 DEF BackendInv, BackendTypes, Reports, OneStream, MethodsRun, Leaving,
        Claims
<1>4. CASE B!EnterFail
  <2>1. op' \in Running /\ op'.m = op.m /\ op'.pc = "exit" /\ op'.prev = op.prev
    BY <1>4, GoesOn DEF B!EnterFail, BackendInv, BackendTypes, Lines
  <2>2. ctrl' = ctrl
    BY <1>4 DEF B!EnterFail
  <2>3. op.m = "enter" /\ op.pc \in {"ask", "sent"}
    BY <1>4, Rests DEF B!EnterFail, B!At
  <2>4. UNCHANGED <<claimed, cpv, mit, auto, kept, linked>>
    BY <1>4, Rests DEF B!EnterFail, B!At
  <2> QED
    BY <2>1, <2>2, <2>3, <2>4 DEF BackendInv, BackendTypes, Reports, OneStream, MethodsRun,
        Leaving,
        Claims
<1> QED
  BY <1>1, <1>2, <1>3, <1>4

\* HOLD, and the emergency stop.
LEMMA HoldKept ==
  ASSUME BackendInv, B!Hold \/ B!HoldStream \/ B!HoldRole \/ B!HoldDrag \/ B!HoldDone \/
         B!HoldFail \/ B!EStop
  PROVE  BackendInv'
<1>1. CASE B!Hold
  <2>1. /\ op.m = "none" /\ op.pc = "idle"
        /\ UNCHANGED <<cpv, mit, auto, kept, linked, ctrl>>
    BY <1>1, Rests DEF B!Hold
  <2>2. CASE mit
    <3>1. op' \in Running /\ op'.m = "hold" /\ op'.pc = "exit" /\ claimed' = claimed
      BY <1>1, <2>2, Begins DEF B!Hold, Methods, Lines
    <3> QED
      BY <2>1, <2>2, <3>1 DEF BackendInv, BackendTypes, Reports, OneStream, MethodsRun, Leaving,
        Claims
  <2>3. CASE ~mit
    <3>1. CASE claimed = "EMERGENCY_DAMPING" \/ latched
      <4>1. op' = op /\ claimed' \in {"EMERGENCY_DAMPING", "FAULT"}
        BY <1>1, <2>3, <3>1 DEF B!Hold, B!Failed
      <4> QED
        BY <2>1, <2>3, <4>1 DEF BackendInv, BackendTypes, Reports, OneStream, MethodsRun, Leaving,
        Claims
    <3>2. CASE ~(claimed = "EMERGENCY_DAMPING" \/ latched)
      <4>1. claimed' = "TRANSITIONING" /\ op' = [B!Runs("hold", "stream") EXCEPT !.prev = claimed]
        BY <1>1, <2>3, <3>2 DEF B!Hold
      <4>2. op' = [m |-> "hold", pc |-> "stream", prev |-> claimed, left |-> 0]
        BY <4>1, IdleIs DEF B!Runs
      <4>3. op' \in Running /\ op'.m = "hold" /\ op'.pc = "stream"
        BY <4>2 DEF Running, Methods, Lines, BackendInv, BackendTypes
      <4> QED
        BY <2>1, <2>3, <4>1, <4>3 DEF BackendInv, BackendTypes, Reports, OneStream, MethodsRun,
            Leaving,
        Claims
    <3> QED
      BY <3>1, <3>2
  <2> QED
    BY <2>2, <2>3
<1>2. CASE B!HoldStream
  <2>1. op' \in Running /\ op'.m = op.m /\ op'.pc = "role" /\ op'.prev = op.prev
    BY <1>2, GoesOn DEF B!HoldStream, BackendInv, BackendTypes, Lines
  <2>2. op.m = "hold" /\ op.pc = "stream" /\ ~mit /\ UNCHANGED <<claimed, mit, linked>>
    BY <1>2 DEF B!HoldStream, B!At, BackendInv, MethodsRun, Leaving
  <2>3. CASE cpv \/ op.prev = "OSC_CPV"
    <3>1. /\ ctrl' \in B!Arms /\ ctrl'.role = ctrl.role /\ ctrl'.motion # "mit"
          /\ ~cpv' /\ kept' = "none" /\ (linked => auto' = "on")
      BY <1>2, <2>2, <2>3, Quieted DEF B!HoldStream
    <3>2. auto' \in {"on", "off"}
      BY <1>2, <2>3 DEF B!HoldStream, B!Quiet, BackendInv, BackendTypes, OneStream
    <3> QED
      BY <2>1, <2>2, <3>1, <3>2 DEF BackendInv, BackendTypes, Reports, OneStream, MethodsRun,
          Leaving,
        Claims
  <2>4. CASE ~(cpv \/ op.prev = "OSC_CPV")
    <3>1. UNCHANGED <<cpv, auto, kept, ctrl>>
      BY <1>2, <2>4 DEF B!HoldStream
    <3> QED
      BY <2>1, <2>2, <2>4, <3>1 DEF BackendInv, BackendTypes, Reports, OneStream, MethodsRun,
          Leaving,
        Claims
  <2> QED
    BY <2>3, <2>4
<1>3. CASE B!HoldRole
  <2>1. op' \in Running /\ op'.m = op.m /\ op'.pc \in {"drag", "stable"} /\ op'.prev = op.prev
    BY <1>3, GoesOn DEF B!HoldRole, BackendInv, BackendTypes, Lines
  <2>2. /\ ctrl' \in B!Arms
        /\ ctrl' = ctrl \/ (ctrl'.role = "follower" /\ ctrl'.motion = ctrl.motion)
    BY <1>3, RoleTold DEF B!HoldRole, BackendInv, BackendTypes
  <2>3. op.m = "hold" /\ op.pc = "role"
    BY <1>3, Rests DEF B!HoldRole, B!At
  <2>4. UNCHANGED <<claimed, cpv, mit, auto, kept, linked>>
    BY <1>3, Rests DEF B!HoldRole, B!At
  <2> QED
    BY <2>1, <2>2, <2>3, <2>4 DEF BackendInv, BackendTypes, Reports, OneStream, MethodsRun,
        Leaving,
        Claims
<1>4. CASE B!HoldDrag
  <2>1. op' \in Running /\ op'.m = op.m /\ op'.pc = "stable" /\ op'.prev = op.prev
    BY <1>4, GoesOn DEF B!HoldDrag, BackendInv, BackendTypes, Lines
  <2>2. ctrl' = ctrl
    BY <1>4 DEF B!HoldDrag
  <2>3. op.m = "hold" /\ op.pc = "drag"
    BY <1>4, Rests DEF B!HoldDrag, B!At
  <2>4. UNCHANGED <<claimed, cpv, mit, auto, kept, linked>>
    BY <1>4, Rests DEF B!HoldDrag, B!At
  <2> QED
    BY <2>1, <2>2, <2>3, <2>4 DEF BackendInv, BackendTypes, Reports, OneStream, MethodsRun,
        Leaving,
        Claims
<1>5. CASE B!HoldDone
  <2>1. op' \in Running /\ op'.m = "none" /\ op'.pc = "idle"
    BY <1>5, Returns DEF B!HoldDone
  <2>2. ctrl' \in B!Arms /\ ctrl'.role = ctrl.role /\ ctrl'.motion = ctrl.motion
    BY <1>5, Enables DEF B!HoldDone, BackendInv, BackendTypes
  <2>3. op.m = "hold" /\ op.pc = "stable" /\ claimed' = "HOLD" /\ ~cpv'
    BY <1>5, Rests DEF B!HoldDone, B!At
  <2>4. UNCHANGED <<mit, auto, kept, linked>>
    BY <1>5, Rests DEF B!HoldDone, B!At
  <2> QED
    BY <2>1, <2>2, <2>3, <2>4 DEF BackendInv, BackendTypes, Reports, OneStream, MethodsRun,
        Leaving,
        Claims
<1>6. CASE B!HoldFail
  <2>1. op' \in Running /\ op'.m = "none" /\ op'.pc = "idle"
    BY <1>6, Returns DEF B!HoldFail
  <2>2. ctrl' = ctrl
    BY <1>6 DEF B!HoldFail
  <2>3. op.m = "hold" /\ claimed' \in {"EMERGENCY_DAMPING", "FAULT"}
    BY <1>6, Rests DEF B!HoldFail, B!At, B!Failed
  <2>4. UNCHANGED <<cpv, mit, auto, kept, linked>>
    BY <1>6, Rests DEF B!HoldFail, B!At, B!Failed
  <2> QED
    BY <2>1, <2>2, <2>3, <2>4 DEF BackendInv, BackendTypes, Reports, OneStream, MethodsRun,
        Leaving,
        Claims
<1>7. CASE B!EStop
  <2>1. op.m = "none" /\ op.pc = "idle" /\ UNCHANGED <<cpv, mit, auto, kept, linked, op>>
    BY <1>7, Rests DEF B!EStop
  <2>2. claimed' \in {"EMERGENCY_DAMPING", "FAULT"}
    BY <1>7 DEF B!EStop
  <2>3. ctrl' \in B!Arms /\ ctrl'.motion = ctrl.motion
    <3>1. [ctrl EXCEPT !.latch = TRUE] \in B!Arms
      BY DEF BackendInv, BackendTypes, B!Arms
    <3>2. [ctrl EXCEPT !.latch = TRUE].motion = ctrl.motion
      BY DEF BackendInv, BackendTypes, B!Arms
    <3> QED
      BY <1>7, <3>1, <3>2, Arrives DEF B!EStop, BackendInv, BackendTypes
  <2> QED
    BY <2>1, <2>2, <2>3 DEF BackendInv, BackendTypes, Reports, OneStream, MethodsRun, Leaving,
        Claims
<1> QED
  BY <1>1, <1>2, <1>3, <1>4, <1>5, <1>6, <1>7

\* FREEDRIVE, and the recovery from an emergency.
LEMMA FreedriveKept ==
  ASSUME B!BackendAssumption, BackendInv,
      B!Freedrive \/ B!FreedriveAsk \/ B!FreedriveDone \/ B!FreedriveFail \/
         B!RecoverReset \/ B!RecoverLead \/ B!RecoverEnable \/ B!RecoverFail
  PROVE  BackendInv'
<1>1. CASE B!Freedrive
  <2>1. /\ op.m = "none" /\ op.pc = "idle" /\ linked /\ ~cpv /\ ~mit
        /\ UNCHANGED <<cpv, mit, auto, kept, linked, ctrl>>
    BY <1>1, Rests DEF B!Freedrive
  <2>2. \/ op' = op /\ claimed' \in {claimed, "EMERGENCY_DAMPING", "FAULT"}
        \/ claimed' = "TRANSITIONING" /\ op' = [B!Runs("freedrive",
            "reset") EXCEPT !.left = Attempts]
        \/ claimed' = "TRANSITIONING" /\ op' = B!Runs("freedrive", "leader")
    BY <1>1 DEF B!Freedrive, B!Failed
  <2>3. CASE op' = op /\ claimed' \in {claimed, "EMERGENCY_DAMPING", "FAULT"}
    BY <2>1, <2>3 DEF BackendInv, BackendTypes, Reports, OneStream, MethodsRun, Leaving,
        Claims
  <2>4. ASSUME claimed' = "TRANSITIONING",
               op' \in Running /\ op'.m = "freedrive" /\ op'.pc \in {"reset", "leader"}
        PROVE  BackendInv'
    BY <2>1, <2>4 DEF BackendInv, BackendTypes, Reports, OneStream, MethodsRun, Leaving,
        Claims
  <2>5. CASE claimed' = "TRANSITIONING" /\ op' = [B!Runs("freedrive",
      "reset") EXCEPT !.left = Attempts]
    <3>1. op' = [m |-> "freedrive", pc |-> "reset", prev |-> "none", left |-> Attempts]
      BY <2>5, IdleIs DEF B!Runs
    <3>2. op' \in Running /\ op'.m = "freedrive" /\ op'.pc = "reset"
      BY <3>1 DEF Running, Methods, Lines, B!BackendAssumption
    <3> QED
      BY <2>4, <2>5, <3>2
  <2>6. CASE claimed' = "TRANSITIONING" /\ op' = B!Runs("freedrive", "leader")
    <3>1. op' \in Running /\ op'.m = "freedrive" /\ op'.pc = "leader"
      BY <2>6, Begins DEF Methods, Lines
    <3> QED
      BY <2>4, <2>6, <3>1
  <2> QED
    BY <2>2, <2>3, <2>5, <2>6
<1>2. CASE B!FreedriveAsk
  <2>1. op' \in Running /\ op'.m = op.m /\ op'.pc = "feedback" /\ op'.prev = op.prev
    BY <1>2, GoesOn DEF B!FreedriveAsk, BackendInv, BackendTypes, Lines
  <2>2. /\ ctrl' \in B!Arms
        /\ ctrl' = ctrl \/ (ctrl'.role = "leader" /\ ctrl'.motion = ctrl.motion)
    BY <1>2, RoleTold, Enables DEF B!FreedriveAsk, BackendInv, BackendTypes
  <2>3. op.m = "freedrive"
    BY <1>2, Rests DEF B!FreedriveAsk, B!At
  <2>4. UNCHANGED <<claimed, cpv, mit, auto, kept, linked>>
    BY <1>2, Rests DEF B!FreedriveAsk, B!At
  <2> QED
    BY <2>1, <2>2, <2>3, <2>4 DEF BackendInv, BackendTypes, Reports, OneStream, MethodsRun,
        Leaving,
        Claims
<1>3. CASE B!FreedriveDone
  <2>1. op' \in Running /\ op'.m = "none" /\ op'.pc = "idle"
    BY <1>3, Returns DEF B!FreedriveDone
  <2>2. ctrl' = ctrl
    BY <1>3 DEF B!FreedriveDone
  <2>3. op.m = "freedrive" /\ ctrl.role = "leader"
    BY <1>3, Rests DEF B!FreedriveDone, B!At, B!Failed
  <2>4. claimed' \in {"FREEDRIVE", "EMERGENCY_DAMPING", "FAULT"}
    BY <1>3, Rests DEF B!FreedriveDone, B!At, B!Failed
  <2>5. UNCHANGED <<cpv, mit, auto, kept, linked>>
    BY <1>3, Rests DEF B!FreedriveDone, B!At, B!Failed
  <2> QED
    BY <2>1, <2>2, <2>3, <2>4, <2>5 DEF BackendInv, BackendTypes, Reports, OneStream,
        MethodsRun, Leaving,
        Claims
<1>4. CASE B!FreedriveFail
  <2>1. op' \in Running /\ op'.m = "none" /\ op'.pc = "idle"
    BY <1>4, Returns DEF B!FreedriveFail
  <2>2. /\ op.m = "freedrive" /\ claimed' \in {"EMERGENCY_DAMPING", "FAULT"}
        /\ UNCHANGED <<cpv, mit, auto, kept, linked>>
    BY <1>4 DEF B!FreedriveFail, B!Failed
  <2>3. /\ ctrl' \in B!Arms
        /\ ctrl' = ctrl \/ (ctrl'.role = "follower" /\ ctrl'.motion = ctrl.motion)
    BY <1>4, RoleTold DEF B!FreedriveFail, BackendInv, BackendTypes
  <2> QED
    BY <2>1, <2>2, <2>3 DEF BackendInv, BackendTypes, Reports, OneStream, MethodsRun, Leaving,
        Claims
<1>5. CASE B!RecoverReset
  <2>1. /\ op.m = "freedrive" /\ op.pc = "reset" /\ ~cpv /\ ~mit
        /\ UNCHANGED <<cpv, mit, kept>>
    BY <1>5 DEF B!RecoverReset, B!At, BackendInv, MethodsRun
  <2>2. ctrl' \in B!Arms /\ ctrl'.motion # "mit"
    <3> DEFINE new == [ctrl EXCEPT !.role = "follower", !.motion = "other", !.enabled = FALSE,
                                   !.latch = FALSE]
    <3>1. new \in B!Arms /\ new.motion = "other"
      BY DEF BackendInv, BackendTypes, B!Arms, B!Roles, B!Motions
    <3>2. ctrl' = ctrl \/ ctrl' = new
      BY <1>5, Arrives DEF B!RecoverReset
    <3> QED
      BY <2>1, <3>1, <3>2 DEF BackendInv, BackendTypes, OneStream
  <2>3. CASE B!Connected(ctrl') /\ auto' = "on" /\ B!Goto("lead") /\ UNCHANGED linked
    <3>1. op' \in Running /\ op'.m = op.m /\ op'.pc = "lead"
      BY <2>3, GoesOn DEF BackendInv, BackendTypes, Lines
    <3>2. claimed' \in Reports \ {"OSC_MIT"}
      BY <2>3 DEF B!Connected, Reports
    <3> QED
      BY <2>1, <2>2, <2>3, <3>1, <3>2 DEF BackendInv, BackendTypes, Reports, OneStream,
          MethodsRun, Leaving,
        Claims
  <2>4. CASE ~linked' /\ UNCHANGED <<claimed, auto, op>>
    BY <2>1, <2>2, <2>4 DEF BackendInv, BackendTypes, Reports, OneStream, MethodsRun, Leaving,
        Claims
  <2> QED
    BY <1>5, <2>3, <2>4 DEF B!RecoverReset
<1>6. CASE B!RecoverLead
  <2>1. op' \in Running /\ op'.m = op.m /\ op'.pc = "enable" /\ op'.prev = op.prev
    BY <1>6, GoesOn DEF B!RecoverLead, BackendInv, BackendTypes, Lines
  <2>2. /\ ctrl' \in B!Arms
        /\ ctrl' = ctrl \/ (ctrl'.role = "leader" /\ ctrl'.motion = ctrl.motion)
    BY <1>6, RoleTold DEF B!RecoverLead, BackendInv, BackendTypes
  <2>3. op.m = "freedrive"
    BY <1>6, Rests DEF B!RecoverLead, B!At
  <2>4. UNCHANGED <<claimed, cpv, mit, auto, kept, linked>>
    BY <1>6, Rests DEF B!RecoverLead, B!At
  <2> QED
    BY <2>1, <2>2, <2>3, <2>4 DEF BackendInv, BackendTypes, Reports, OneStream, MethodsRun,
        Leaving,
        Claims
<1>7. CASE B!RecoverEnable
  <2>1. op' \in Running /\ op'.m = op.m /\ op'.pc = "sustained" /\ op'.prev = op.prev
    BY <1>7, GoesOn DEF B!RecoverEnable, BackendInv, BackendTypes, Lines
  <2>2. ctrl' \in B!Arms /\ ctrl'.role = ctrl.role /\ ctrl'.motion = ctrl.motion
    BY <1>7, Enables DEF B!RecoverEnable, BackendInv, BackendTypes
  <2>3. op.m = "freedrive"
    BY <1>7, Rests DEF B!RecoverEnable, B!At
  <2>4. UNCHANGED <<claimed, cpv, mit, auto, kept, linked>>
    BY <1>7, Rests DEF B!RecoverEnable, B!At
  <2> QED
    BY <2>1, <2>2, <2>3, <2>4 DEF BackendInv, BackendTypes, Reports, OneStream, MethodsRun,
        Leaving,
        Claims
<1>8. CASE B!RecoverFail
  <2>1. /\ op.m = "freedrive" /\ op.pc \in {"reset", "lead", "enable", "sustained"}
        /\ UNCHANGED <<cpv, mit, auto, kept, linked, ctrl>>
    BY <1>8 DEF B!RecoverFail
  <2>2. CASE op.left > 1
    <3>1. claimed' = claimed /\ op' = [[op EXCEPT !.left = op.left - 1] EXCEPT !.pc = "reset"]
      BY <1>8, <2>2 DEF B!RecoverFail
    <3>2. [op EXCEPT !.left = op.left - 1] \in Running
      BY <2>2 DEF Running, BackendInv, BackendTypes
    <3>3. op' \in Running /\ op'.m = op.m /\ op'.pc = "reset"
      BY <3>1, <3>2 DEF Running, Lines, BackendInv, BackendTypes
    <3> QED
      BY <2>1, <3>1, <3>3 DEF BackendInv, BackendTypes, Reports, OneStream, MethodsRun, Leaving,
        Claims
  <2>3. CASE ~(op.left > 1)
    <3>1. op' \in Running /\ op'.m = "none" /\ op'.pc = "idle"
      BY <1>8, <2>3, Returns DEF B!RecoverFail
    <3>2. claimed' \in {"EMERGENCY_DAMPING", "FAULT"}
      BY <1>8, <2>3 DEF B!RecoverFail, B!Failed
    <3> QED
      BY <2>1, <3>1, <3>2 DEF BackendInv, BackendTypes, Reports, OneStream, MethodsRun, Leaving,
        Claims
  <2> QED
    BY <2>2, <2>3
<1> QED
  BY <1>1, <1>2, <1>3, <1>4, <1>5, <1>6, <1>7, <1>8

\* Between two methods the mode is the controller's, and the streams have put back
\* what they have changed (robot.py:425-533, 964-1171, osc_impedance.py:72-185).
THEOREM ArmIsAsReported ==
  B!BackendAssumption => (B!Spec => [](B!ModeIsTrue /\ B!StreamsReturned))
<1> SUFFICES ASSUME B!BackendAssumption
             PROVE  B!Spec => [](B!ModeIsTrue /\ B!StreamsReturned)
  OBVIOUS
<1>1. B!Init => BackendInv
  <2> SUFFICES ASSUME B!Init PROVE BackendInv
    OBVIOUS
  <2>1. op = [m |-> "connect", pc |-> "connect", prev |-> "none", left |-> 0]
    BY IdleIs DEF B!Init, B!Runs
  <2>2. op \in Running /\ op.m = "connect" /\ op.pc = "connect"
    BY <2>1 DEF Running, Methods, Lines
  <2>3. ctrl \in B!Arms /\ ctrl.motion # "mit"
    BY DEF B!Init, B!BackendAssumption
  <2> QED
    BY <2>2, <2>3 DEF B!Init, BackendInv, BackendTypes, Reports, OneStream, MethodsRun, Leaving,
        Claims
<1>2. BackendInv /\ [B!Next]_(B!vars) => BackendInv'
  <2> SUFFICES ASSUME BackendInv, B!Next \/ UNCHANGED B!vars PROVE BackendInv'
    OBVIOUS
  <2>1. CASE UNCHANGED B!vars
    BY <2>1 DEF B!vars, BackendInv, BackendTypes, OneStream, MethodsRun, Leaving, Claims
  <2> QED
    BY <2>1, LinkKept, CpvKept, MitKept, HoldKept, FreedriveKept DEF B!Next
<1>3. BackendInv => B!ModeIsTrue /\ B!StreamsReturned
  BY Rests DEF BackendInv, OneStream, Claims, Leaving, B!ModeIsTrue, B!StreamsReturned
<1> QED
  BY <1>1, <1>2, <1>3, PTL DEF B!Spec

-----------------------------------------------------------------------------
\* The Grip of the headset.

CONSTANTS Conns, Depth, MaxPhase, MaxFrame, Sessions
VARIABLES hand, gate, sock, disp, work, http, pico, servo

H == INSTANCE Pico WITH MaxSession <- Sessions, conn <- sock, osc <- servo

Samples == [phase : Nat, valid : BOOLEAN]
Origins == [phase : Nat, conn : Conns \cup {0}]
Sockets ==
  [pc : {"none", "accepted", "open", "closing", "join", "done"}, live : BOOLEAN,
   owner : BOOLEAN]
Queues ==
  [ctl : Seq(Samples), latest : SUBSET Samples, grip : {"none", "up", "down"}, stop : BOOLEAN,
   marred : BOOLEAN]
Workers ==
  [pc : {"none", "idle", "frame", "stop", "anchor", "make", "pose", "track", "limit", "end"},
   frame : Samples, anchor : Origins]
GateType ==
  gate \in [session : Nat, busy : BOOLEAN, active : Conns \cup {0}, dispatch : Conns \cup {0}]
HttpType ==
  http \in [pc : {"idle", "connect", "disconnect", "unbind", "reset", "rebase"}, session : Nat]
AdapterType ==
  pico \in [bound : Nat, anchor : Origins, pending : BOOLEAN, grip : BOOLEAN, seen : BOOLEAN]
ArmType ==
  servo \in [id : Nat, made : Nat, arm : {"ready", "braking", "tracking"}, excused : BOOLEAN]
PicoTypes ==
  /\ 0 \notin Conns /\ Depth \in Nat \ {0}
  /\ hand \in [phase : Nat, sent : Nat] /\ GateType /\ HttpType
  /\ AdapterType /\ ArmType
  /\ sock \in [Conns -> Sockets] /\ disp \in [Conns -> Queues] /\ work \in [Conns -> Workers]

\* The connection that is received and has lost no edge, the phase of the frame its worker took
\* last, its anchor, a press that is going on, and an arm that must be stopped when it ends.
Clean(c) == gate.dispatch = c /\ ~disp[c].marred
Last(c) == hand.phase - Len(disp[c].ctl)
Mine(c) == pico.anchor.conn = c
Pressed(p) == H!Grip(p) /\ pico.grip /\ pico.seen
Follows == servo.arm = "tracking" /\ ~servo.excused

\* A clean connection is alone, and no other is given anything to process.
GateAt(c) ==
  /\ sock[c].pc \in {"none", "accepted"} =>
       /\ work[c].pc = "none" /\ disp[c].ctl = <<>> /\ disp[c].latest = {}
       /\ disp[c].grip = "none" /\ gate.dispatch # c /\ ~Mine(c)
  /\ sock[c].pc = "none" => gate.active # c
  /\ sock[c].pc = "accepted" /\ gate.active = c /\ ~disp[c].marred => gate.busy
  /\ Clean(c) => gate.active = c /\ gate.busy /\ sock[c].pc \in {"open", "closing"}
  /\ Clean(c) => \A d \in Conns \ {c} : H!Settled(d)
  /\ sock[c].pc = "open" /\ sock[c].live /\ ~disp[c].marred => gate.dispatch = c
  /\ ~disp[c].marred /\ gate.dispatch # c => disp[c].ctl = <<>> /\ disp[c].latest = {}

\* Its edges are those up to the one received last, none left out.
QueueAt(c) == Clean(c) =>
  /\ disp[c].grip = "none" => /\ disp[c].ctl = <<>> /\ disp[c].latest = {}
                              /\ work[c].pc \in {"idle", "end"}
  /\ disp[c].grip # "none" => (disp[c].grip = "down" <=> H!Grip(hand.phase))
  /\ Len(disp[c].ctl) <= Depth
  /\ \A i \in 1..Len(disp[c].ctl) : disp[c].ctl[i].phase = Last(c) + i
  /\ \A f \in disp[c].latest : f.phase = hand.phase

\* The anchor a worker made is of the press of the frame it has in hand.
AnchorAt(c) == ~disp[c].marred =>
  /\ work[c].pc = "frame" /\ Mine(c) /\ H!Grip(work[c].frame.phase)
       => pico.anchor.phase = work[c].frame.phase
  /\ work[c].pc = "pose" /\ Mine(c) => pico.anchor.phase = work[c].frame.phase
  /\ work[c].pc \in {"track", "limit"} /\ work[c].anchor.conn = c
       => work[c].anchor.phase = work[c].frame.phase

\* An anchor, and an arm that follows a target, are those of a press: the last one taken, or the
\* one whose end is being processed.
PressAt(c) == Clean(c) =>
  /\ disp[c].grip = "none" => ~Mine(c) /\ ~Follows
  /\ work[c].pc = "idle" => /\ Mine(c) => pico.anchor.phase = Last(c)
                            /\ Mine(c) \/ Follows => Pressed(Last(c))
  /\ work[c].pc = "frame" =>
       /\ work[c].frame.phase = Last(c)
       /\ Mine(c) => /\ pico.anchor.phase \in {Last(c), Last(c) - 1}
                     /\ H!Grip(pico.anchor.phase)
       /\ Mine(c) \/ Follows => pico.grip /\ pico.seen
  /\ work[c].pc \in {"anchor", "make", "pose", "track", "limit"} =>
       /\ work[c].frame.phase = Last(c) /\ Pressed(Last(c))
       /\ Mine(c) => work[c].pc \in {"pose", "track", "limit"} /\ pico.anchor.phase = Last(c)

\* Who will stop an arm that follows a target: its connection, received or lost, or the request
\* that unbinds the adapter.
Responsible(c) ==
  \/ /\ gate.dispatch = c /\ gate.active = c /\ gate.busy
     /\ sock[c].pc \in {"open", "closing"}
  \/ sock[c].pc = "join" /\ sock[c].owner
Answered ==
  /\ Follows => servo.id = pico.bound /\ servo.id # 0
  /\ Follows => http.pc = "disconnect" \/ \E c \in Conns : Responsible(c)
  /\ http.pc \in {"disconnect", "unbind"} =>
       gate.session = 0 /\ gate.active = 0 /\ gate.dispatch = 0
  /\ http.pc = "unbind" => ~Follows

PicoInv ==
  /\ PicoTypes /\ Answered
  /\ \A c \in Conns : GateAt(c) /\ QueueAt(c) /\ AnchorAt(c) /\ PressAt(c)

\* Presses and releases alternate.
LEMMA GripTurns == \A p \in Int : H!Grip(p + 1) <=> ~H!Grip(p)
  BY DEF H!Grip

\* Nobody's number is 0, and a queue holds one edge at least.
LEMMA PicoBounds == H!PicoAssumption => 0 \notin Conns /\ Depth \in Nat \ {0}
<1>1. \A n : 0 \notin 1..n
  OBVIOUS
<1> QED
  BY <1>1 DEF H!PicoAssumption

\* A worker that is at work leaves no other connection clean.
LEMMA OthersNotClean ==
  ASSUME PicoInv, NEW c \in Conns, work[c].pc \notin {"none", "end"}
  PROVE  \A d \in Conns : d # c => ~Clean(d)
  BY Zenon DEF PicoInv, GateAt, H!Settled

\* A worker's step leaves the others what they have.
LEMMA WorkerKeeps ==
  ASSUME PicoInv, NEW c \in Conns, work[c].pc \notin {"none", "end"}, work'[c].pc # "none",
         UNCHANGED <<hand, gate, sock>>,
         \A d \in Conns : d # c => disp'[d] = disp[d] /\ work'[d] = work[d],
         disp'[c].marred = disp[c].marred, disp'[c].grip = disp[c].grip,
         disp[c].ctl = <<>> => disp'[c].ctl = <<>>, disp'[c].latest \subseteq disp[c].latest,
         pico'.anchor = pico.anchor \/ pico'.anchor = H!NoAnchor \/ pico'.anchor.conn = c,
         QueueAt(c)', AnchorAt(c)', PressAt(c)'
  PROVE  (\A d \in Conns : GateAt(d) /\ QueueAt(d) /\ AnchorAt(d) /\ PressAt(d))'
<1>1. \A d \in Conns : d # c => ~Clean(d) /\ ~Clean(d)'
  BY OthersNotClean DEF Clean
<1>2. 0 \notin Conns
  BY DEF PicoInv, PicoTypes
<1>3. \A d \in Conns : d # c /\ Mine(d)' => pico'.anchor = pico.anchor
  BY <1>2 DEF Mine, H!NoAnchor
<1>4. ASSUME NEW d \in Conns, d # c
      PROVE  GateAt(d)' /\ QueueAt(d)' /\ AnchorAt(d)' /\ PressAt(d)'
  <2>1. disp'[d] = disp[d] /\ work'[d] = work[d] /\ sock'[d] = sock[d] /\ gate' = gate
    BY <1>4
  <2>2. ~Clean(d) /\ ~Clean(d)' /\ (Mine(d)' => pico'.anchor = pico.anchor /\ Mine(d))
    BY <1>1, <1>3, <1>4 DEF Mine
  <2>3. GateAt(d) /\ AnchorAt(d)
    BY DEF PicoInv
  <2>4. GateAt(d)'
    BY <2>1, <2>2, <2>3 DEF GateAt
  <2>5. AnchorAt(d)'
    BY <2>1, <2>2, <2>3 DEF AnchorAt
  <2>6. QueueAt(d)' /\ PressAt(d)'
    BY <2>2 DEF QueueAt, PressAt
  <2> QED
    BY <2>4, <2>5, <2>6
<1>5. GateAt(c)'
  <2>1. GateAt(c) /\ gate' = gate /\ sock' = sock /\ disp'[c].marred = disp[c].marred
    BY DEF PicoInv
  <2>2. sock[c].pc \notin {"none", "accepted"}
    BY <2>1 DEF GateAt
  <2>3. Clean(c)' <=> Clean(c)
    BY <2>1 DEF Clean
  <2>4. Clean(c) => \A d \in Conns \ {c} : H!Settled(d)'
    BY <2>1 DEF GateAt, H!Settled
  <2> QED
    BY <2>1, <2>2, <2>3, <2>4 DEF GateAt
<1> QED
  BY <1>4, <1>5

\* A step that leaves connections, queues and workers alone.
LEMMA OutsideKeeps ==
  ASSUME PicoInv, UNCHANGED <<hand, gate, disp, work>>,
         \A d \in Conns : /\ \/ sock'[d].pc = sock[d].pc
                             \/ sock[d].pc = "join" /\ sock'[d].pc = "done"
                          /\ sock'[d].live => sock[d].live,
         pico'.anchor = pico.anchor \/ pico'.anchor.conn = 0,
         pico'.grip = pico.grip, pico'.seen = pico.seen, Follows' => Follows
  PROVE  (\A d \in Conns : GateAt(d) /\ QueueAt(d) /\ AnchorAt(d) /\ PressAt(d))'
<1>1. 0 \notin Conns
  BY DEF PicoInv, PicoTypes
<1>2. ASSUME NEW d \in Conns  PROVE GateAt(d)' /\ QueueAt(d)' /\ AnchorAt(d)' /\ PressAt(d)'
  <2>1. GateAt(d) /\ QueueAt(d) /\ AnchorAt(d) /\ PressAt(d)
    BY DEF PicoInv
  <2>2. Mine(d)' => Mine(d) /\ pico'.anchor = pico.anchor
    BY <1>1 DEF Mine
  <2>3. /\ Clean(d)' <=> Clean(d)
        /\ Last(d)' = Last(d)
        /\ \A p : Pressed(p)' <=> Pressed(p)
    BY DEF Clean, Last, Pressed, H!Grip
  <2>4. \A e \in Conns : H!Settled(e) => H!Settled(e)'
    BY DEF H!Settled
  <2>5. GateAt(d)'
    BY <2>1, <2>2, <2>3, <2>4 DEF GateAt
  <2>6. QueueAt(d)'
    BY <2>1, <2>3 DEF QueueAt
  <2>7. AnchorAt(d)'
    BY <2>1, <2>2 DEF AnchorAt
  <2>8. PressAt(d)'
    BY <2>1, <2>2, <2>3 DEF PressAt
  <2> QED
    BY <2>5, <2>6, <2>7, <2>8
<1> QED
  BY <1>2

\* An arm that nobody newly makes follow a target is still answered for.
LEMMA StillAnswered ==
  ASSUME PicoInv, UNCHANGED gate, Follows' => Follows /\ servo'.id = servo.id,
         Follows' => pico'.bound = pico.bound, http'.pc = http.pc,
         \A d \in Conns : Follows' /\ Responsible(d) => Responsible(d)'
  PROVE  Answered'
<1>1. Answered
  BY DEF PicoInv
<1> QED
  BY <1>1 DEF Answered

\* stop() drops the anchor and leaves no arm that follows a target unasked.
LEMMA StopEnds ==
  ASSUME PicoTypes, Answered, H!StopNow
  PROVE  /\ AdapterType' /\ ArmType' /\ ~Follows'
         /\ pico'.anchor = H!NoAnchor /\ pico'.grip = pico.grip /\ pico'.seen = pico.seen
         /\ pico'.bound = pico.bound /\ servo'.id = servo.id
<1>1. pico' = [pico EXCEPT !.anchor = H!NoAnchor, !.pending = FALSE]
  BY DEF H!StopNow, H!Dropped
<1>2. H!NoAnchor \in Origins
  BY DEF H!NoAnchor, Origins
<1>3. /\ AdapterType' /\ pico'.anchor = H!NoAnchor
      /\ pico'.grip = pico.grip /\ pico'.seen = pico.seen
      /\ pico'.bound = pico.bound
  BY <1>1, <1>2 DEF PicoTypes, AdapterType
<1>4. CASE pico.bound # 0 /\ servo.id = pico.bound
  <2>1. \/ servo' = [servo EXCEPT !.arm = "braking", !.excused = FALSE]
        \/ servo' = [servo EXCEPT !.excused = TRUE]
    BY <1>4 DEF H!StopNow
  <2> QED
    BY <1>3, <2>1 DEF PicoTypes, ArmType, Follows
<1>5. CASE ~(pico.bound # 0 /\ servo.id = pico.bound)
  <2>1. servo' = servo
    BY <1>5 DEF H!StopNow
  <2>2. ~Follows
    BY <1>5 DEF Answered
  <2> QED
    BY <1>3, <2>1, <2>2 DEF PicoTypes, ArmType, Follows
<1> QED
  BY <1>4, <1>5

\* Updates of a worker.
LEMMA Worked ==
  ASSUME PicoTypes, NEW c \in Conns, NEW r \in Workers, work' = [work EXCEPT ![c] = r]
  PROVE  /\ work' \in [Conns -> Workers] /\ work'[c] = r
         /\ \A d \in Conns : d # c => work'[d] = work[d]
  BY DEF PicoTypes

LEMMA Placed ==
  ASSUME PicoTypes, NEW c \in Conns, NEW p,
         p \in {"idle", "frame", "stop", "anchor", "make", "pose", "track", "limit", "end"},
         work' = [work EXCEPT ![c].pc = p]
  PROVE  /\ work' \in [Conns -> Workers]
         /\ work'[c].pc = p /\ work'[c].frame = work[c].frame /\ work'[c].anchor = work[c].anchor
         /\ \A d \in Conns : d # c => work'[d] = work[d]
<1> DEFINE r == [work[c] EXCEPT !.pc = p]
<1>1. work[c] \in Workers
  BY DEF PicoTypes
<1>2. r \in Workers /\ r.pc = p /\ r.frame = work[c].frame /\ r.anchor = work[c].anchor
  BY <1>1 DEF Workers
<1>3. work' = [work EXCEPT ![c] = r]
  OBVIOUS
<1> QED
  BY <1>2, <1>3, Worked

LEMMA Rested ==
  ASSUME PicoTypes, NEW c \in Conns, work' = [work EXCEPT ![c] = H!Blank]
  PROVE  /\ work' \in [Conns -> Workers] /\ work'[c].pc = "idle"
         /\ \A d \in Conns : d # c => work'[d] = work[d]
<1>1. H!Blank \in Workers /\ H!Blank.pc = "idle"
  BY DEF H!Blank, Workers, Samples, Origins, H!Zero, H!NoAnchor
<1> QED
  BY <1>1, Worked

\* Updates of a queue.
LEMMA Queued ==
  ASSUME PicoTypes, NEW c \in Conns, NEW q \in Seq(Samples), disp' = [disp EXCEPT ![c].ctl = q]
  PROVE  /\ disp' \in [Conns -> Queues] /\ disp'[c].ctl = q /\ disp'[c].latest = disp[c].latest
         /\ disp'[c].grip = disp[c].grip /\ disp'[c].marred = disp[c].marred
         /\ \A d \in Conns : d # c => disp'[d] = disp[d]
<1> DEFINE r == [disp[c] EXCEPT !.ctl = q]
<1>1. disp[c] \in Queues
  BY DEF PicoTypes
<1>2. /\ r \in Queues /\ r.ctl = q /\ r.latest = disp[c].latest /\ r.grip = disp[c].grip
      /\ r.marred = disp[c].marred
  BY <1>1 DEF Queues
<1>3. disp' = [disp EXCEPT ![c] = r]
  OBVIOUS
<1> QED
  BY <1>2, <1>3 DEF PicoTypes

LEMMA Emptied ==
  ASSUME PicoTypes, NEW c \in Conns, disp' = [disp EXCEPT ![c].latest = {}]
  PROVE  /\ disp' \in [Conns -> Queues] /\ disp'[c].ctl = disp[c].ctl /\ disp'[c].latest = {}
         /\ disp'[c].grip = disp[c].grip /\ disp'[c].marred = disp[c].marred
         /\ \A d \in Conns : d # c => disp'[d] = disp[d]
<1> DEFINE r == [disp[c] EXCEPT !.latest = {}]
<1>1. disp[c] \in Queues
  BY DEF PicoTypes
<1>2. /\ r \in Queues /\ r.ctl = disp[c].ctl /\ r.latest = {} /\ r.grip = disp[c].grip
      /\ r.marred = disp[c].marred
  BY <1>1 DEF Queues
<1>3. disp' = [disp EXCEPT ![c] = r]
  OBVIOUS
<1> QED
  BY <1>2, <1>3 DEF PicoTypes

\* The worker takes a frame.
LEMMA TakenKept == ASSUME PicoInv, NEW c \in Conns, H!Take(c)  PROVE PicoInv'
<1>1. /\ PicoTypes /\ Answered /\ work[c].pc = "idle"
      /\ UNCHANGED <<hand, gate, sock, http, pico, servo>>
      /\ GateAt(c) /\ QueueAt(c) /\ AnchorAt(c) /\ PressAt(c)
  BY DEF PicoInv, H!Take
<1>2. work[c] \in Workers /\ disp[c] \in Queues
  BY <1>1 DEF PicoTypes
<1>a. Answered'
  BY <1>1, StillAnswered DEF Follows, Responsible
<1>b. (Follows' <=> Follows) /\ (Mine(c)' <=> Mine(c)) /\ \A p : Pressed(p)' <=> Pressed(p)
  BY <1>1 DEF Follows, Mine, Pressed, H!Grip
<1>3. CASE disp[c].stop
  <2> DEFINE r == [H!Blank EXCEPT !.pc = "end"]
  <2>1. work' = [work EXCEPT ![c] = r] /\ disp' = disp
    BY <1>3 DEF H!Take
  <2>2. r \in Workers /\ r.pc = "end"
    BY DEF H!Blank, Workers, Samples, Origins, H!Zero, H!NoAnchor
  <2>3. /\ work' \in [Conns -> Workers] /\ work'[c].pc = "end"
        /\ \A d \in Conns : d # c => work'[d] = work[d]
    BY <1>1, <2>1, <2>2, Worked
  <2>4. Clean(c)' <=> Clean(c)
    BY <1>1, <2>1 DEF Clean
  <2>5. QueueAt(c)'
    BY <1>1, <2>1, <2>3, <2>4 DEF QueueAt, Last
  <2>6. AnchorAt(c)'
    BY <2>3 DEF AnchorAt
  <2>7. PressAt(c)'
    BY <1>1, <1>b, <2>1, <2>3, <2>4 DEF PressAt
  <2>8. PicoTypes'
    BY <1>1, <2>1, <2>3 DEF PicoTypes, GateType, HttpType, AdapterType, ArmType
  <2> QED
    BY <1>1, <1>a, <2>1, <2>3, <2>5, <2>6, <2>7, <2>8, WorkerKeeps DEF PicoInv
<1>4. CASE ~disp[c].stop /\ disp[c].ctl # <<>>
  <2> DEFINE f == Head(disp[c].ctl)
             r == [work[c] EXCEPT !.pc = "frame", !.frame = f]
  <2>1. /\ work' = [work EXCEPT ![c].pc = "frame", ![c].frame = f]
        /\ disp' = [disp EXCEPT ![c].ctl = Tail(disp[c].ctl)]
    BY <1>4 DEF H!Take
  <2>2. /\ disp[c].ctl \in Seq(Samples) /\ f \in Samples /\ Tail(disp[c].ctl) \in Seq(Samples)
        /\ Len(disp[c].ctl) \in Nat /\ Len(Tail(disp[c].ctl)) = Len(disp[c].ctl) - 1
        /\ 1 \in 1..Len(disp[c].ctl) /\ f = disp[c].ctl[1]
        /\ \A i \in 1..Len(Tail(disp[c].ctl)) :
             i + 1 \in 1..Len(disp[c].ctl) /\ Tail(disp[c].ctl)[i] = disp[c].ctl[i + 1]
    BY <1>2, <1>4 DEF Queues
  <2>3. r \in Workers /\ r.pc = "frame" /\ r.frame = f
    BY <1>2, <2>2 DEF Workers
  <2>4. work' = [work EXCEPT ![c] = r]
    BY <2>1
  <2>5. /\ work' \in [Conns -> Workers] /\ work'[c].pc = "frame" /\ work'[c].frame = f
        /\ \A d \in Conns : d # c => work'[d] = work[d]
    BY <1>1, <2>3, <2>4, Worked
  <2>6. /\ disp' \in [Conns -> Queues] /\ disp'[c].ctl = Tail(disp[c].ctl)
        /\ disp'[c].latest = disp[c].latest /\ disp'[c].grip = disp[c].grip
        /\ disp'[c].marred = disp[c].marred /\ \A d \in Conns : d # c => disp'[d] = disp[d]
    BY <1>1, <1>2, <2>1, <2>2, Queued
  <2>7. Clean(c) => Clean(c)' /\ Last(c)' = Last(c) + 1 /\ f.phase = Last(c) + 1
    BY <1>1, <2>2, <2>6 DEF Clean, Last, QueueAt, PicoTypes
  <2>8. Clean(c)' <=> Clean(c)
    BY <1>1, <2>6 DEF Clean
  <2>9. QueueAt(c)'
    <3> DEFINE old == disp[c].ctl
               new == Tail(old)
    <3>1. /\ Len(old) \in Nat /\ Len(new) = Len(old) - 1
          /\ \A i \in 1..Len(new) : i + 1 \in 1..Len(old) /\ new[i] = old[i + 1]
          /\ Len(old) # 0 /\ old # <<>> /\ disp'[c].ctl = new
      BY <1>4, <2>2, <2>6
    <3>2. Depth \in Nat /\ Last(c) \in Int /\ QueueAt(c) /\ hand' = hand
      <4>1. hand.phase \in Nat /\ Depth \in Nat /\ QueueAt(c) /\ hand' = hand
        BY <1>1 DEF PicoTypes
      <4> QED
        BY <3>1, <4>1 DEF Last
    <3> HIDE DEF new
    <3>3. CASE Clean(c)
      <4>1. /\ Len(old) <= Depth /\ \A i \in 1..Len(old) : old[i].phase = Last(c) + i
            /\ disp[c].grip # "none" /\ (disp[c].grip = "down" <=> H!Grip(hand.phase))
            /\ \A g \in disp[c].latest : g.phase = hand.phase
        BY <3>1, <3>2, <3>3 DEF QueueAt
      <4>2. Len(new) <= Depth
        BY <3>1, <3>2, <4>1
      <4>3. ASSUME NEW i \in 1..Len(new)  PROVE new[i].phase = Last(c)' + i
        <5>1. i + 1 \in 1..Len(old) /\ new[i] = old[i + 1] /\ i \in Nat
          BY <3>1
        <5>2. new[i].phase = Last(c) + (i + 1)
          BY <4>1, <5>1
        <5> QED
          BY <2>7, <3>2, <3>3, <5>1, <5>2
      <4> HIDE DEF old
      <4> QED
        BY <2>6, <3>1, <3>2, <4>1, <4>2, <4>3 DEF QueueAt, H!Grip
    <3>4. CASE ~Clean(c)
      BY <2>8, <3>4 DEF QueueAt
    <3> QED
      BY <3>3, <3>4
  <2>10. Clean(c) /\ Mine(c) => H!Grip(pico.anchor.phase) /\ ~H!Grip(f.phase)
    <3>1. Last(c) \in Int
      BY <1>1, <2>2 DEF Last, PicoTypes
    <3>2. Clean(c) /\ Mine(c) => pico.anchor.phase = Last(c) /\ H!Grip(Last(c))
      BY <1>1 DEF PressAt, Pressed
    <3>3. Clean(c) => f.phase = Last(c) + 1
      BY <2>7
    <3> QED
      BY <3>1, <3>2, <3>3, GripTurns
  <2>11. AnchorAt(c)'
    BY <1>1, <1>4, <2>5, <2>6, <2>10 DEF AnchorAt, GateAt, Mine, Clean
  <2>12. PressAt(c)'
    BY <1>1, <1>b, <2>2, <2>5, <2>6, <2>7, <2>8 DEF PressAt, Pressed, PicoTypes, Last
  <2>13. PicoTypes'
    BY <1>1, <2>5, <2>6 DEF PicoTypes, GateType, HttpType, AdapterType, ArmType
  <2>14. disp[c].ctl = <<>> => disp'[c].ctl = <<>>
    BY <1>4
  <2> QED
    BY <1>1, <1>a, <2>5, <2>6, <2>9, <2>11, <2>12, <2>13, <2>14, WorkerKeeps DEF PicoInv
<1>5. CASE ~disp[c].stop /\ disp[c].ctl = <<>>
  <2>1. PICK f \in disp[c].latest : work' = [work EXCEPT ![c].pc = "frame", ![c].frame = f]
    BY <1>5 DEF H!Take
  <2>2. disp' = [disp EXCEPT ![c].latest = {}]
    BY <1>5 DEF H!Take
  <2> DEFINE r == [work[c] EXCEPT !.pc = "frame", !.frame = f]
  <2>3. f \in Samples /\ Len(disp[c].ctl) = 0
    BY <1>2, <1>5 DEF Queues
  <2>4. r \in Workers /\ r.pc = "frame" /\ r.frame = f
    BY <1>2, <2>3 DEF Workers
  <2>5. work' = [work EXCEPT ![c] = r]
    BY <2>1
  <2>6. /\ work' \in [Conns -> Workers] /\ work'[c].pc = "frame" /\ work'[c].frame = f
        /\ \A d \in Conns : d # c => work'[d] = work[d]
    BY <1>1, <2>4, <2>5, Worked
  <2>7. /\ disp' \in [Conns -> Queues] /\ disp'[c].ctl = disp[c].ctl
        /\ disp'[c].latest = {} /\ disp'[c].grip = disp[c].grip
        /\ disp'[c].marred = disp[c].marred /\ \A d \in Conns : d # c => disp'[d] = disp[d]
    BY <1>1, <1>2, <2>2, Emptied
  <2>8. /\ Clean(c)' <=> Clean(c)
        /\ Clean(c) => Last(c)' = Last(c) /\ f.phase = Last(c) /\ disp[c].grip # "none"
    BY <1>1, <2>1, <2>3, <2>7 DEF Clean, Last, QueueAt, PicoTypes, Samples
  <2>9. QueueAt(c)'
    BY <1>1, <2>7, <2>8 DEF QueueAt
  <2>10. AnchorAt(c)'
    BY <1>1, <2>1, <2>6, <2>7, <2>8 DEF AnchorAt, GateAt, Mine, Clean, PressAt
  <2>11. PressAt(c)'
    BY <1>1, <1>b, <2>6, <2>7, <2>8 DEF PressAt, Pressed
  <2>12. PicoTypes'
    BY <1>1, <2>6, <2>7 DEF PicoTypes, GateType, HttpType, AdapterType, ArmType
  <2> QED
    BY <1>1, <1>a, <2>6, <2>7, <2>9, <2>10, <2>11, <2>12, WorkerKeeps DEF PicoInv
<1> QED
  BY <1>3, <1>4, <1>5

\* A worker's step that takes no frame: what is left to show is about its own connection, and that
\* the arm it makes follow a target is answered for.
LEMMA InHandKept ==
  ASSUME PicoInv, NEW c \in Conns, work[c].pc \notin {"none", "idle", "end"},
         work'[c].pc # "none",
         UNCHANGED <<hand, gate, sock, disp, http>>, AdapterType', ArmType', Answered',
         work' \in [Conns -> Workers], \A d \in Conns : d # c => work'[d] = work[d],
         pico'.anchor = pico.anchor \/ pico'.anchor = H!NoAnchor \/ pico'.anchor.conn = c,
         AnchorAt(c)', PressAt(c)'
  PROVE  PicoInv'
<1>1. PicoTypes /\ QueueAt(c)
  BY DEF PicoInv
<1>2. PicoTypes'
  BY <1>1 DEF PicoTypes, GateType, HttpType
<1>3. Clean(c)' <=> Clean(c)
  BY DEF Clean
<1>4. Clean(c) => disp[c].grip # "none"
  BY <1>1 DEF QueueAt, Clean
<1>5. QueueAt(c)'
  BY <1>1, <1>3, <1>4 DEF QueueAt, Last
<1> QED
  BY <1>2, <1>5, WorkerKeeps DEF PicoInv

\* A frame is compared with the one before.
LEMMA InputFrameKept == ASSUME PicoInv, NEW c \in Conns, H!InputFrame(c)  PROVE PicoInv'
<1> DEFINE f == work[c].frame
<1>1. /\ PicoTypes /\ Answered /\ work[c].pc = "frame"
      /\ UNCHANGED <<hand, gate, sock, disp, http, servo>>
      /\ AnchorAt(c) /\ PressAt(c) /\ QueueAt(c)
  BY DEF PicoInv, H!InputFrame
<1>2. pico' = [pico EXCEPT !.grip = H!Grip(f.phase), !.seen = f.valid]
  BY DEF H!InputFrame
<1>3. work[c] \in Workers /\ f \in Samples /\ f.valid \in BOOLEAN /\ f.phase \in Nat
  BY <1>1 DEF PicoTypes, Workers, Samples
<1>4. /\ AdapterType' /\ pico'.anchor = pico.anchor /\ pico'.bound = pico.bound
      /\ pico'.grip = H!Grip(f.phase) /\ pico'.seen = f.valid
  BY <1>1, <1>2, <1>3 DEF PicoTypes, AdapterType, H!Grip
<1>5. Answered'
  BY <1>1, <1>4, StillAnswered DEF Follows, Responsible
<1>6. ArmType' /\ (Clean(c)' <=> Clean(c)) /\ (Follows' <=> Follows) /\ Last(c)' = Last(c)
      /\ (Mine(c)' <=> Mine(c))
  BY <1>1, <1>4 DEF PicoTypes, ArmType, Clean, Follows, Last, Mine
<1>7. Mine(c) => H!Anchored
  BY <1>1 DEF Mine, H!Anchored, H!NoAnchor, PicoTypes
<1>8. Pressed(Last(c))' <=> H!Grip(Last(c)) /\ H!Grip(f.phase) /\ f.valid
  BY <1>4, <1>6 DEF Pressed, H!Grip
<1>9. CASE H!Verdict(f) = "idle"
  <2>1. /\ work' \in [Conns -> Workers] /\ work'[c].pc = "idle"
        /\ \A d \in Conns : d # c => work'[d] = work[d]
    BY <1>1, <1>9, Rested DEF H!InputFrame, H!Rest
  <2>2. \/ ~f.valid /\ ~pico.seen /\ ~H!Anchored
        \/ ~H!Grip(f.phase) /\ ~pico.grip
    BY <1>9 DEF H!Verdict
  <2>3. Clean(c) => ~Mine(c) /\ ~Follows
    BY <1>1, <1>7, <2>2 DEF PressAt
  <2>4. PressAt(c)'
    BY <1>6, <2>1, <2>3 DEF PressAt
  <2>5. AnchorAt(c)'
    BY <2>1 DEF AnchorAt
  <2> QED
    BY <1>1, <1>4, <1>5, <1>6, <2>1, <2>4, <2>5, InHandKept
<1>10. CASE H!Verdict(f) # "idle"
  <2>1. /\ H!Verdict(f) = "pose" => f.valid /\ H!Grip(f.phase)
        /\ H!Verdict(f) = "anchor" => f.valid /\ H!Grip(f.phase) /\ ~H!Anchored
        /\ H!Verdict(f) \in {"stop", "pose", "anchor"}
    BY <1>10 DEF H!Verdict
  <2>2. /\ work' \in [Conns -> Workers] /\ work'[c].pc = H!Verdict(f) /\ work'[c].frame = f
        /\ \A d \in Conns : d # c => work'[d] = work[d]
    BY <1>1, <1>10, <2>1, Placed DEF H!InputFrame, H!W
  <2>3. AnchorAt(c)'
    BY <1>1, <1>4, <1>6, <2>1, <2>2 DEF AnchorAt
  <2>4. Clean(c) => f.phase = Last(c) /\ disp[c].grip # "none"
    BY <1>1 DEF PressAt, QueueAt
  <2>5. Clean(c) /\ Mine(c) /\ H!Grip(Last(c)) => pico.anchor.phase = Last(c)
    BY <1>1, <2>4 DEF AnchorAt, Clean
  <2>6. PressAt(c)'
    BY <1>1, <1>4, <1>6, <1>7, <1>8, <2>1, <2>2, <2>4, <2>5 DEF PressAt
  <2> QED
    BY <1>1, <1>4, <1>5, <1>6, <2>1, <2>2, <2>3, <2>6, InHandKept
<1> QED
  BY <1>9, <1>10

LEMMA StopKept == ASSUME PicoInv, NEW c \in Conns, H!Stop(c)  PROVE PicoInv'
<1>1. /\ PicoTypes /\ Answered /\ work[c].pc = "stop"
      /\ UNCHANGED <<hand, gate, sock, disp, http>>
  BY DEF PicoInv, H!Stop
<1>2. /\ AdapterType' /\ ArmType' /\ ~Follows' /\ pico'.anchor = H!NoAnchor
      /\ pico'.bound = pico.bound /\ servo'.id = servo.id
  BY <1>1, StopEnds DEF H!Stop
<1>3. /\ work' \in [Conns -> Workers] /\ work'[c].pc = "idle"
      /\ \A d \in Conns : d # c => work'[d] = work[d]
  BY <1>1, Rested DEF H!Stop, H!Rest
<1>4. Answered'
  BY <1>1, <1>2, StillAnswered
<1>5. ~Mine(c)'
  BY <1>1, <1>2 DEF Mine, H!NoAnchor, PicoTypes
<1>6. AnchorAt(c)' /\ PressAt(c)'
  BY <1>2, <1>3, <1>5 DEF AnchorAt, PressAt
<1> QED
  BY <1>1, <1>2, <1>3, <1>4, <1>6, InHandKept

LEMMA AnchorReadKept == ASSUME PicoInv, NEW c \in Conns, H!AnchorRead(c)  PROVE PicoInv'
<1>1. /\ PicoTypes /\ Answered /\ work[c].pc = "anchor" /\ PressAt(c) /\ QueueAt(c)
      /\ UNCHANGED <<hand, gate, sock, disp, http, servo>>
  BY DEF PicoInv, H!AnchorRead
<1>2. PICK b \in BOOLEAN : pico' = [pico EXCEPT !.pending = b] \/ pico' = pico
  BY DEF H!AnchorRead
<1>3. /\ AdapterType' /\ pico'.anchor = pico.anchor /\ pico'.bound = pico.bound
      /\ pico'.grip = pico.grip /\ pico'.seen = pico.seen
  BY <1>1, <1>2 DEF PicoTypes, AdapterType
<1>4. /\ work' \in [Conns -> Workers] /\ \A d \in Conns : d # c => work'[d] = work[d]
      /\ \/ work'[c].pc = "idle"
         \/ work'[c].pc = "make" /\ work'[c].frame = work[c].frame
  <2>1. H!Rest(c) \/ H!W(c, "make")
    BY DEF H!AnchorRead
  <2>2. CASE H!Rest(c)
    BY <1>1, <2>2, Rested DEF H!Rest
  <2>3. CASE H!W(c, "make")
    BY <1>1, <2>3, Placed DEF H!W
  <2> QED
    BY <2>1, <2>2, <2>3
<1>5. Answered'
  BY <1>1, <1>3, StillAnswered DEF Follows, Responsible
<1>6. /\ ArmType' /\ (Clean(c)' <=> Clean(c)) /\ (Follows' <=> Follows) /\ Last(c)' = Last(c)
      /\ (Mine(c)' <=> Mine(c)) /\ (Pressed(Last(c))' <=> Pressed(Last(c)))
  BY <1>1, <1>3 DEF PicoTypes, ArmType, Clean, Follows, Last, Mine, Pressed, H!Grip
<1>7. AnchorAt(c)'
  BY <1>4 DEF AnchorAt
<1>8. PressAt(c)'
  BY <1>1, <1>3, <1>4, <1>6 DEF PressAt, QueueAt
<1> QED
  BY <1>1, <1>3, <1>4, <1>5, <1>6, <1>7, <1>8, InHandKept

LEMMA AnchorMakeKept == ASSUME PicoInv, NEW c \in Conns, H!AnchorMake(c)  PROVE PicoInv'
<1> DEFINE f == work[c].frame
<1>1. /\ PicoTypes /\ Answered /\ work[c].pc = "make" /\ PressAt(c) /\ QueueAt(c)
      /\ UNCHANGED <<hand, gate, sock, disp, http, servo>>
  BY DEF PicoInv, H!AnchorMake
<1>2. AdapterType' /\ pico'.anchor.phase = f.phase /\ pico'.anchor.conn = c
      /\ pico'.bound = pico.bound /\ pico'.grip = pico.grip /\ pico'.seen = pico.seen
  <2>1. pico' = [pico EXCEPT !.anchor = [phase |-> f.phase, conn |-> c], !.pending = FALSE]
    BY DEF H!AnchorMake, H!MadeFrom
  <2>2. [phase |-> f.phase, conn |-> c] \in Origins
    BY <1>1 DEF PicoTypes, Workers, Samples, Origins
  <2> QED
    BY <1>1, <2>1, <2>2 DEF PicoTypes, AdapterType
<1>4. /\ work' \in [Conns -> Workers] /\ \A d \in Conns : d # c => work'[d] = work[d]
      /\ work'[c].pc = "pose" /\ work'[c].frame = f
  BY <1>1, Placed DEF H!AnchorMake, H!W
<1>5. Answered'
  BY <1>1, <1>2, StillAnswered DEF Follows, Responsible
<1>6. /\ ArmType' /\ (Clean(c)' <=> Clean(c)) /\ (Follows' <=> Follows) /\ Last(c)' = Last(c)
      /\ (Pressed(Last(c))' <=> Pressed(Last(c)))
  BY <1>1, <1>2 DEF PicoTypes, ArmType, Clean, Follows, Last, Pressed, H!Grip
<1>7. AnchorAt(c)'
  BY <1>2, <1>4 DEF AnchorAt
<1>8. PressAt(c)'
  BY <1>1, <1>2, <1>4, <1>6 DEF PressAt, QueueAt
<1> QED
  BY <1>1, <1>2, <1>4, <1>5, <1>6, <1>7, <1>8, InHandKept

LEMMA PoseReadKept == ASSUME PicoInv, NEW c \in Conns, H!PoseRead(c)  PROVE PicoInv'
<1> DEFINE f == work[c].frame
<1>1. /\ PicoTypes /\ Answered /\ work[c].pc = "pose" /\ PressAt(c) /\ QueueAt(c) /\ AnchorAt(c)
      /\ UNCHANGED <<hand, gate, sock, disp, http, pico, servo>>
  BY DEF PicoInv, H!PoseRead
<1>2. /\ work' \in [Conns -> Workers] /\ \A d \in Conns : d # c => work'[d] = work[d]
      /\ \/ work'[c].pc = "idle"
         \/ work'[c].pc = "track" /\ work'[c].frame = f /\ work'[c].anchor = pico.anchor
  <2>1. CASE H!Anchored
    <3> DEFINE r == [work[c] EXCEPT !.pc = "track", !.anchor = pico.anchor]
    <3>1. work[c] \in Workers /\ pico.anchor \in Origins
      BY <1>1 DEF PicoTypes, AdapterType
    <3>2. r \in Workers /\ r.pc = "track" /\ r.frame = f /\ r.anchor = pico.anchor
      BY <3>1 DEF Workers
    <3>3. work' = [work EXCEPT ![c].pc = "track", ![c].anchor = pico.anchor]
      BY <2>1 DEF H!PoseRead
    <3>4. work' = [work EXCEPT ![c] = r]
      BY <3>3
    <3> QED
      BY <1>1, <3>2, <3>4, Worked
  <2>2. CASE ~H!Anchored
    BY <1>1, <2>2, Rested DEF H!PoseRead, H!Rest
  <2> QED
    BY <2>1, <2>2
<1>5. Answered'
  BY <1>1, StillAnswered DEF Follows, Responsible
<1>6. /\ ArmType' /\ AdapterType' /\ (Clean(c)' <=> Clean(c)) /\ (Follows' <=> Follows)
      /\ Last(c)' = Last(c) /\ (Mine(c)' <=> Mine(c)) /\ (Pressed(Last(c))' <=> Pressed(Last(c)))
  BY <1>1 DEF PicoTypes, ArmType, AdapterType, Clean, Follows, Last, Mine, Pressed, H!Grip
<1>7. AnchorAt(c)'
  BY <1>1, <1>2 DEF AnchorAt, Mine
<1>8. PressAt(c)'
  BY <1>1, <1>2, <1>6 DEF PressAt, QueueAt
<1> QED
  BY <1>1, <1>2, <1>5, <1>6, <1>7, <1>8, InHandKept

LEMMA LimitKept == ASSUME PicoInv, NEW c \in Conns, H!Limit(c)  PROVE PicoInv'
<1> DEFINE f == work[c].frame
<1>1. /\ PicoTypes /\ Answered /\ work[c].pc = "limit" /\ PressAt(c) /\ QueueAt(c)
      /\ UNCHANGED <<hand, gate, sock, disp, http, servo>>
  BY DEF PicoInv, H!Limit
<1>2. AdapterType' /\ pico'.anchor.phase = f.phase /\ pico'.anchor.conn = c
      /\ pico'.bound = pico.bound /\ pico'.grip = pico.grip /\ pico'.seen = pico.seen
  <2>1. pico' = [pico EXCEPT !.anchor = [phase |-> f.phase, conn |-> c], !.pending = FALSE]
    BY DEF H!Limit, H!MadeFrom
  <2>2. [phase |-> f.phase, conn |-> c] \in Origins
    BY <1>1 DEF PicoTypes, Workers, Samples, Origins
  <2> QED
    BY <1>1, <2>1, <2>2 DEF PicoTypes, AdapterType
<1>4. /\ work' \in [Conns -> Workers] /\ \A d \in Conns : d # c => work'[d] = work[d]
      /\ work'[c].pc = "idle"
  BY <1>1, Rested DEF H!Limit, H!Rest
<1>5. Answered'
  BY <1>1, <1>2, StillAnswered DEF Follows, Responsible
<1>6. /\ ArmType' /\ (Clean(c)' <=> Clean(c)) /\ (Follows' <=> Follows) /\ Last(c)' = Last(c)
      /\ (Pressed(Last(c))' <=> Pressed(Last(c)))
  BY <1>1, <1>2 DEF PicoTypes, ArmType, Clean, Follows, Last, Pressed, H!Grip
<1>7. AnchorAt(c)'
  BY <1>4 DEF AnchorAt
<1>8. PressAt(c)'
  BY <1>1, <1>2, <1>4, <1>6 DEF PressAt, QueueAt
<1> QED
  BY <1>1, <1>2, <1>4, <1>5, <1>6, <1>7, <1>8, InHandKept

\* A target is sent; with the session gone another one is started first.
LEMMA TrackKept == ASSUME PicoInv, NEW c \in Conns, H!Track(c)  PROVE PicoInv'
<1> DEFINE f == work[c].frame
<1>1. /\ PicoTypes /\ Answered /\ work[c].pc = "track"
      /\ UNCHANGED <<hand, gate, sock, disp, http>>
      /\ AnchorAt(c) /\ PressAt(c) /\ QueueAt(c) /\ GateAt(c)
  BY DEF PicoInv, H!Track
<1>2. (Clean(c)' <=> Clean(c)) /\ Last(c)' = Last(c) /\ work[c] \in Workers
  BY <1>1 DEF Clean, Last, PicoTypes
<1>3. CASE /\ pico.bound # 0 /\ servo.id = pico.bound /\ H!Rest(c) /\ UNCHANGED pico
           /\ servo' = [servo EXCEPT !.arm = "tracking",
                                     !.excused = @ \/ gate.dispatch # c \/ disp[c].marred]
  <2>1. /\ work' \in [Conns -> Workers] /\ work'[c].pc = "idle"
        /\ \A d \in Conns : d # c => work'[d] = work[d]
    BY <1>1, <1>3, Rested DEF H!Rest
  <2>2. PICK b \in BOOLEAN : /\ servo' = [servo EXCEPT !.arm = "tracking", !.excused = b]
                             /\ ~b => Clean(c)
    <3>1. (servo.excused \/ gate.dispatch # c \/ disp[c].marred) \in BOOLEAN
      BY Zenon
    <3> QED
      BY <1>3, <3>1 DEF Clean
  <2>3. ArmType' /\ servo'.id = servo.id /\ servo'.arm = "tracking" /\ servo'.excused = b
    BY <1>1, <2>2 DEF PicoTypes, ArmType
  <2>4. Follows' => Clean(c)
    BY <2>2, <2>3 DEF Follows
  <2>5. Clean(c) => Responsible(c)'
    BY <1>1 DEF Clean, Responsible, GateAt
  <2>6. Answered'
    <3>1. Follows' => /\ servo'.id = pico'.bound /\ servo'.id # 0
                      /\ \E d \in Conns : Responsible(d)'
      BY <1>3, <2>3, <2>4, <2>5
    <3>2. http'.pc \in {"disconnect", "unbind"} =>
            gate'.session = 0 /\ gate'.active = 0 /\ gate'.dispatch = 0
      BY <1>1 DEF Answered
    <3>3. http'.pc = "unbind" => ~Follows'
      BY <1>1, <2>4 DEF Answered, Clean, PicoTypes
    <3> QED
      BY <3>1, <3>2, <3>3 DEF Answered
  <2>7. AnchorAt(c)'
    BY <2>1 DEF AnchorAt
  <2>8. (Mine(c)' <=> Mine(c)) /\ (Pressed(Last(c))' <=> Pressed(Last(c))) /\ AdapterType'
        /\ pico'.anchor = pico.anchor
    BY <1>1, <1>2, <1>3 DEF Mine, Pressed, H!Grip, PicoTypes, AdapterType
  <2>9. PressAt(c)'
    BY <1>1, <1>2, <2>1, <2>8 DEF PressAt, QueueAt
  <2> QED
    BY <1>1, <2>1, <2>3, <2>6, <2>7, <2>8, <2>9, InHandKept
<1>4. CASE UNCHANGED <<pico, servo>> /\ (H!W(c, "limit") \/ H!Rest(c))
  <2>1. /\ work' \in [Conns -> Workers] /\ \A d \in Conns : d # c => work'[d] = work[d]
        /\ \/ work'[c].pc = "idle"
           \/ work'[c].pc = "limit" /\ work'[c].frame = f /\ work'[c].anchor = work[c].anchor
    <3>1. CASE H!Rest(c)
      BY <1>1, <3>1, Rested DEF H!Rest
    <3>2. CASE H!W(c, "limit")
      BY <1>1, <3>2, Placed DEF H!W
    <3> QED
      BY <1>4, <3>1, <3>2
  <2>2. Answered'
    BY <1>1, <1>4, StillAnswered DEF Follows, Responsible
  <2>3. /\ (Mine(c)' <=> Mine(c)) /\ (Pressed(Last(c))' <=> Pressed(Last(c))) /\ AdapterType'
        /\ ArmType' /\ pico'.anchor = pico.anchor /\ (Follows' <=> Follows)
    BY <1>1, <1>2, <1>4 DEF Mine, Pressed, H!Grip, PicoTypes, AdapterType, ArmType, Follows
  <2>4. AnchorAt(c)'
    BY <1>1, <2>1 DEF AnchorAt
  <2>5. PressAt(c)'
    BY <1>1, <1>2, <2>1, <2>3 DEF PressAt, QueueAt
  <2> QED
    BY <1>1, <2>1, <2>2, <2>3, <2>4, <2>5, InHandKept
<1>5. CASE H!Resumed /\ UNCHANGED work
  <2>1. /\ servo' = [id |-> servo.made + 1, made |-> servo.made + 1, arm |-> "ready",
                     excused |-> FALSE]
        /\ pico' = [pico EXCEPT !.bound = servo.made + 1]
    BY <1>5 DEF H!Resumed
  <2>2. /\ ArmType' /\ AdapterType' /\ ~Follows' /\ pico'.anchor = pico.anchor
        /\ pico'.grip = pico.grip /\ pico'.seen = pico.seen
    BY <1>1, <2>1 DEF PicoTypes, ArmType, AdapterType, Follows
  <2>3. Answered'
    BY <1>1, <2>2, StillAnswered
  <2>4. (Mine(c)' <=> Mine(c)) /\ (Pressed(Last(c))' <=> Pressed(Last(c)))
    BY <1>2, <2>2 DEF Mine, Pressed, H!Grip
  <2>5. AnchorAt(c)'
    BY <1>1, <1>5 DEF AnchorAt
  <2>6. PressAt(c)'
    BY <1>1, <1>2, <1>5, <2>2, <2>4 DEF PressAt, QueueAt
  <2> QED
    BY <1>1, <1>5, <2>2, <2>3, <2>5, <2>6, InHandKept DEF PicoTypes
<1> QED
  BY <1>3, <1>4, <1>5 DEF H!Track

\* A step that leaves connections, queues and workers alone keeps the invariant if it keeps types
\* and answers.
LEMMA OutsideIs ==
  ASSUME PicoInv, UNCHANGED <<hand, gate, sock, disp, work>>, HttpType', AdapterType', ArmType',
         Answered', pico'.anchor = pico.anchor \/ pico'.anchor.conn = 0,
         pico'.grip = pico.grip, pico'.seen = pico.seen, Follows' => Follows
  PROVE  PicoInv'
<1>1. PicoTypes'
  BY DEF PicoInv, PicoTypes, GateType
<1>2. \A d \in Conns : sock'[d].pc = sock[d].pc /\ (sock'[d].live => sock[d].live)
  OBVIOUS
<1>3. (\A d \in Conns : GateAt(d) /\ QueueAt(d) /\ AnchorAt(d) /\ PressAt(d))'
  BY <1>2, OutsideKeeps
<1> QED
  BY <1>1, <1>3 DEF PicoInv

\* The session of the OSC comes and goes, and its arm comes to rest.
LEMMA OscKept ==
  ASSUME PicoInv, H!OscStart \/ H!OscEnd \/ H!OscSettle  PROVE PicoInv'
<1>1. PicoTypes /\ Answered /\ UNCHANGED <<hand, gate, sock, disp, work, http, pico>>
  BY DEF PicoInv, H!OscStart, H!OscEnd, H!OscSettle
<1>2. ArmType' /\ ~Follows'
  <2>1. CASE H!OscStart
    <3>1. servo' = [servo EXCEPT !.id = servo.made + 1, !.made = servo.made + 1, !.arm = "ready"]
      BY <2>1 DEF H!OscStart
    <3>2. servo.made + 1 \in Nat
      BY <1>1 DEF PicoTypes, ArmType
    <3> HIDE <2>1
    <3> QED
      BY <1>1, <3>1, <3>2 DEF PicoTypes, ArmType, Follows
  <2>2. CASE H!OscEnd
    BY <1>1, <2>2 DEF H!OscEnd, PicoTypes, ArmType, Follows
  <2>3. CASE H!OscSettle
    BY <1>1, <2>3 DEF H!OscSettle, PicoTypes, ArmType, Follows
  <2> QED
    BY <2>1, <2>2, <2>3
<1>3. Answered'
  BY <1>1, <1>2, StillAnswered
<1>4. HttpType' /\ AdapterType'
  BY <1>1 DEF PicoTypes, HttpType, AdapterType
<1> QED
  BY <1>1, <1>2, <1>3, <1>4, OutsideIs

\* The requests of the console that replace no connection.
LEMMA DisconnectKept == ASSUME PicoInv, H!Disconnect  PROVE PicoInv'
<1>1. /\ PicoTypes /\ Answered /\ UNCHANGED <<hand, gate, sock, disp, work>>
      /\ http.pc = "disconnect" /\ http' = [http EXCEPT !.pc = "unbind"] /\ H!StopNow
  BY DEF PicoInv, H!Disconnect
<1>2. /\ AdapterType' /\ ArmType' /\ ~Follows' /\ pico'.anchor.conn = 0
      /\ pico'.grip = pico.grip /\ pico'.seen = pico.seen
  BY <1>1, StopEnds DEF H!NoAnchor
<1>3. HttpType' /\ http'.pc = "unbind"
  BY <1>1 DEF PicoTypes, HttpType
<1>4. Answered'
  BY <1>1, <1>2 DEF Answered
<1> QED
  BY <1>1, <1>2, <1>3, <1>4, OutsideIs

LEMMA UnbindKept == ASSUME PicoInv, H!Unbind  PROVE PicoInv'
<1>1. /\ PicoTypes /\ Answered /\ UNCHANGED <<hand, gate, sock, disp, work, servo>>
      /\ http.pc = "unbind" /\ http' = H!NoRequest /\ pico' = [pico EXCEPT !.bound = 0]
  BY DEF PicoInv, H!Unbind
<1>2. /\ AdapterType' /\ ArmType' /\ pico'.anchor = pico.anchor
      /\ pico'.grip = pico.grip /\ pico'.seen = pico.seen
  BY <1>1 DEF PicoTypes, AdapterType, ArmType
<1>3. HttpType' /\ http'.pc = "idle"
  BY <1>1 DEF HttpType, H!NoRequest
<1>4. ~Follows /\ ~Follows'
  BY <1>1 DEF Answered, Follows
<1>5. Answered'
  BY <1>3, <1>4 DEF Answered
<1> QED
  BY <1>1, <1>2, <1>3, <1>4, <1>5, OutsideIs

LEMMA ResetKept == ASSUME PicoInv, H!ResetBegin \/ H!ResetRead \/ H!ResetMake  PROVE PicoInv'
<1>1. /\ PicoTypes /\ Answered /\ UNCHANGED <<hand, gate, sock, disp, work, servo>>
      /\ http.pc \in {"idle", "reset", "rebase"}
  BY DEF PicoInv, H!ResetBegin, H!ResetRead, H!ResetMake
<1>2. HttpType' /\ http'.pc \in {"idle", "reset", "rebase"}
  <2>1. \/ http' = H!NoRequest \/ http' = [http EXCEPT !.pc = "reset"]
        \/ http' = [http EXCEPT !.pc = "rebase"]
    BY DEF H!ResetBegin, H!ResetRead, H!ResetMake
  <2> QED
    BY <1>1, <2>1 DEF PicoTypes, HttpType, H!NoRequest
<1>3. /\ AdapterType' /\ (pico'.anchor = pico.anchor \/ pico'.anchor.conn = 0)
      /\ pico'.grip = pico.grip /\ pico'.seen = pico.seen /\ pico'.bound = pico.bound
  <2>1. \/ pico' = pico \/ pico' = [pico EXCEPT !.pending = servo.arm = "braking"]
        \/ pico' = [pico EXCEPT !.anchor = H!ByConsole, !.pending = FALSE]
    BY DEF H!ResetBegin, H!ResetRead, H!ResetMake
  <2>2. H!ByConsole \in Origins /\ H!ByConsole.conn = 0
    BY DEF H!ByConsole, Origins
  <2>3. (servo.arm = "braking") \in BOOLEAN
    OBVIOUS
  <2> QED
    BY <1>1, <2>1, <2>2, <2>3 DEF PicoTypes, AdapterType
<1>4. ArmType' /\ (Follows' <=> Follows)
  BY <1>1 DEF PicoTypes, ArmType, Follows
<1>5. Answered'
  <2>1. \A d \in Conns : Responsible(d)' <=> Responsible(d)
    BY <1>1 DEF Responsible
  <2> QED
    BY <1>1, <1>2, <1>3, <1>4, <2>1 DEF Answered
<1> QED
  BY <1>1, <1>2, <1>3, <1>4, <1>5, OutsideIs

LEMMA Moved ==
  ASSUME PicoTypes, NEW c \in Conns, NEW p \in {"open", "closing"},
         sock' = [sock EXCEPT ![c].pc = p]
  PROVE  /\ sock' \in [Conns -> Sockets] /\ sock'[c].pc = p /\ sock'[c].live = sock[c].live
         /\ \A d \in Conns : d # c => sock'[d] = sock[d]
<1> DEFINE r == [sock[c] EXCEPT !.pc = p]
<1>1. sock[c] \in Sockets
  BY DEF PicoTypes
<1>2. r \in Sockets /\ r.pc = p /\ r.live = sock[c].live
  BY <1>1 DEF Sockets
<1>3. sock' = [sock EXCEPT ![c] = r]
  OBVIOUS
<1> QED
  BY <1>2, <1>3 DEF PicoTypes

\* A connection that has not settled leaves no other one clean.
LEMMA AloneIfClean ==
  ASSUME PicoInv, NEW c \in Conns, ~H!Settled(c)
  PROVE  \A d \in Conns : d # c => ~Clean(d)
  BY Zenon DEF PicoInv, GateAt

\* A headset connects.
LEMMA AcceptKept == ASSUME PicoInv, NEW c \in Conns, H!Accept(c)  PROVE PicoInv'
<1>1. /\ PicoTypes /\ Answered /\ UNCHANGED <<hand, disp, work, http, pico, servo>>
      /\ sock[c].pc = "none" /\ gate.session # 0 /\ ~gate.busy
      /\ gate' = [gate EXCEPT !.busy = TRUE, !.active = c]
      /\ sock' = [sock EXCEPT ![c].pc = "accepted", ![c].live = TRUE]
  BY DEF PicoInv, H!Accept
<1>2. /\ GateType' /\ gate'.session = gate.session /\ gate'.busy /\ gate'.active = c
      /\ gate'.dispatch = gate.dispatch
  BY <1>1 DEF PicoTypes, GateType
<1>3. /\ sock' \in [Conns -> Sockets] /\ sock'[c].pc = "accepted"
      /\ \A d \in Conns : d # c => sock'[d] = sock[d]
  <2> DEFINE r == [sock[c] EXCEPT !.pc = "accepted", !.live = TRUE]
  <2>1. r \in Sockets /\ r.pc = "accepted"
    BY <1>1 DEF PicoTypes, Sockets
  <2>2. sock' = [sock EXCEPT ![c] = r]
    BY <1>1
  <2> QED
    BY <1>1, <2>1, <2>2 DEF PicoTypes
<1>4. PicoTypes'
  BY <1>1, <1>2, <1>3 DEF PicoTypes, HttpType, AdapterType, ArmType
<1>5. Answered'
  <2>1. \A d \in Conns : Responsible(d) => Responsible(d)'
    BY <1>1, <1>3 DEF Responsible
  <2> QED
    BY <1>1, <1>2, <2>1 DEF Answered, Follows
<1>6. ASSUME NEW d \in Conns  PROVE GateAt(d)' /\ QueueAt(d)' /\ AnchorAt(d)' /\ PressAt(d)'
  <2>1. GateAt(d) /\ AnchorAt(d)
    BY DEF PicoInv
  <2>2. ~Clean(d) /\ ~Clean(d)'
    BY <1>1, <1>2, <2>1 DEF GateAt, Clean
  <2>3. GateAt(d)'
    BY <1>1, <1>2, <1>3, <2>1, <2>2 DEF GateAt, Clean, Mine
  <2>4. AnchorAt(d)'
    BY <1>1, <2>1 DEF AnchorAt, Mine, H!Grip
  <2> QED
    BY <2>2, <2>3, <2>4 DEF QueueAt, PressAt
<1> QED
  BY <1>4, <1>5, <1>6 DEF PicoInv

\* It gets a dispatcher, unless it was superseded.
LEMMA InstallKept == ASSUME PicoInv, NEW c \in Conns, H!Install(c)  PROVE PicoInv'
<1>1. /\ PicoTypes /\ Answered /\ sock[c].pc = "accepted" /\ UNCHANGED <<hand, http, pico, servo>>
      /\ GateAt(c) /\ ~H!Settled(c)
  BY DEF PicoInv, H!Install, H!Settled
<1>2. \A d \in Conns : d # c => ~Clean(d)
  BY <1>1, AloneIfClean
<1>3. ~Clean(c) /\ ~Responsible(c)
  BY <1>1 DEF GateAt, Clean, Responsible
<1>4. CASE H!C(c, "closing") /\ UNCHANGED gate /\ UNCHANGED <<disp, work>>
  <2>1. /\ sock' \in [Conns -> Sockets] /\ sock'[c].pc = "closing"
        /\ \A d \in Conns : d # c => sock'[d] = sock[d]
    BY <1>1, <1>4, Moved DEF H!C
  <2>2. PicoTypes'
    BY <1>1, <1>4, <2>1 DEF PicoTypes, GateType, HttpType, AdapterType, ArmType
  <2>3. \A d \in Conns : Responsible(d) => Responsible(d)'
    BY <1>3, <1>4, <2>1 DEF Responsible
  <2>4. Answered'
    BY <1>1, <1>4, <2>3 DEF Answered, Follows
  <2>5. ASSUME NEW d \in Conns  PROVE GateAt(d)' /\ QueueAt(d)' /\ AnchorAt(d)' /\ PressAt(d)'
    <3>1. GateAt(d) /\ AnchorAt(d)
      BY DEF PicoInv
    <3>2. ~Clean(d) /\ ~Clean(d)'
      BY <1>2, <1>3, <1>4 DEF Clean
    <3>3. GateAt(d)'
      BY <1>1, <1>4, <2>1, <3>1, <3>2 DEF GateAt, Clean, Mine
    <3>4. AnchorAt(d)'
      BY <1>1, <1>4, <3>1 DEF AnchorAt, Mine, H!Grip
    <3> QED
      BY <3>2, <3>3, <3>4 DEF QueueAt, PressAt
  <2> QED
    BY <2>2, <2>4, <2>5 DEF PicoInv
<1>5. CASE /\ work' = [work EXCEPT ![c].pc = "idle"]
           /\ disp' = [disp EXCEPT ![c].marred = @ \/ \E d \in Conns \ {c} : ~H!Settled(d)]
           /\ IF H!Owns(c) THEN gate' = [gate EXCEPT !.dispatch = c] /\ H!C(c, "open")
                           ELSE UNCHANGED gate /\ H!C(c, "closing")
  <2>1. /\ work' \in [Conns -> Workers] /\ work'[c].pc = "idle"
        /\ \A d \in Conns : d # c => work'[d] = work[d]
    BY <1>1, <1>5, Placed
  <2>2. PICK b \in BOOLEAN : /\ disp' = [disp EXCEPT ![c].marred = b]
                             /\ ~b => ~disp[c].marred /\ \A d \in Conns \ {c} : H!Settled(d)
    <3>1. (disp[c].marred \/ \E d \in Conns \ {c} : ~H!Settled(d)) \in BOOLEAN
      BY Zenon
    <3> QED
      BY <1>5, <3>1
  <2>3. /\ disp' \in [Conns -> Queues] /\ disp'[c].marred = b /\ disp'[c].ctl = disp[c].ctl
        /\ disp'[c].latest = disp[c].latest /\ disp'[c].grip = disp[c].grip
        /\ \A d \in Conns : d # c => disp'[d] = disp[d]
    <3> DEFINE r == [disp[c] EXCEPT !.marred = b]
    <3>1. disp[c] \in Queues
      BY <1>1 DEF PicoTypes
    <3>2. /\ r \in Queues /\ r.marred = b /\ r.ctl = disp[c].ctl /\ r.latest = disp[c].latest
          /\ r.grip = disp[c].grip
      BY <3>1 DEF Queues
    <3>3. disp' = [disp EXCEPT ![c] = r]
      BY <2>2
    <3> QED
      BY <1>1, <3>2, <3>3 DEF PicoTypes
  <2>4. /\ GateType' /\ gate'.session = gate.session /\ gate'.busy = gate.busy
        /\ gate'.active = gate.active
        /\ gate.active = c => gate'.dispatch = c
        /\ gate.active # c => gate' = gate
    BY <1>1, <1>5 DEF PicoTypes, GateType, H!Owns
  <2>5. /\ sock' \in [Conns -> Sockets] /\ \A d \in Conns : d # c => sock'[d] = sock[d]
        /\ gate.active = c => sock'[c].pc = "open"
        /\ gate.active # c => sock'[c].pc = "closing"
    <3>1. CASE gate.active = c
      BY <1>1, <1>5, <3>1, Moved DEF H!C, H!Owns
    <3>2. CASE gate.active # c
      BY <1>1, <1>5, <3>2, Moved DEF H!C, H!Owns
    <3> QED
      BY <3>1, <3>2
  <2>6. PicoTypes'
    BY <1>1, <2>1, <2>3, <2>4, <2>5 DEF PicoTypes, HttpType, AdapterType, ArmType
  <2>7. \A d \in Conns : Responsible(d) => Responsible(d)'
    BY <1>3, <2>4, <2>5 DEF Responsible
  <2>8. Answered'
    <3>1. gate.active = c => http.pc \notin {"disconnect", "unbind"}
      BY <1>1 DEF Answered, PicoTypes
    <3> QED
      BY <1>1, <2>4, <2>7, <3>1 DEF Answered, Follows
  <2>9. \A d \in Conns \ {c} : ~Clean(d)'
    BY <1>2, <2>3, <2>4 DEF Clean
  <2>10. ASSUME NEW d \in Conns, d # c
         PROVE  GateAt(d)' /\ QueueAt(d)' /\ AnchorAt(d)' /\ PressAt(d)'
    <3>1. GateAt(d) /\ AnchorAt(d)
      BY DEF PicoInv
    <3>2. ~Clean(d) /\ ~Clean(d)'
      BY <1>2, <2>9, <2>10
    <3>3. GateAt(d)'
      BY <1>1, <2>1, <2>3, <2>4, <2>5, <2>10, <3>1, <3>2 DEF GateAt, Clean, Mine
    <3>4. AnchorAt(d)'
      BY <1>1, <2>1, <2>3, <2>10, <3>1 DEF AnchorAt, Mine, H!Grip
    <3> QED
      BY <3>2, <3>3, <3>4 DEF QueueAt, PressAt
  <2>11. Clean(c)' => gate.active = c /\ ~b /\ \A d \in Conns \ {c} : H!Settled(d)
    BY <1>1, <2>2, <2>3, <2>4 DEF Clean, GateAt
  <2>12. \A d \in Conns \ {c} : H!Settled(d) => H!Settled(d)'
    BY <2>1, <2>5 DEF H!Settled
  <2>13. GateAt(c)'
    BY <1>1, <2>2, <2>3, <2>4, <2>5, <2>11, <2>12 DEF GateAt
  <2>14. QueueAt(c)'
    <3>1. disp'[c].ctl = <<>> /\ disp'[c].latest = {} /\ disp'[c].grip = "none"
      BY <1>1, <2>3 DEF GateAt
    <3> QED
      BY <1>1, <2>1, <3>1 DEF QueueAt, PicoTypes
  <2>15. AnchorAt(c)'
    BY <2>1 DEF AnchorAt
  <2>16. ~Mine(c)'
    BY <1>1 DEF GateAt, Mine
  <2>17. Clean(c)' => ~Follows'
    <3>1. Clean(c)' /\ Follows => http.pc # "disconnect"
      BY <1>1, <2>11 DEF Answered, PicoTypes
    <3>2. Clean(c)' => \A d \in Conns : ~Responsible(d)
      BY <1>3, <2>11 DEF Responsible, H!Settled
    <3> QED
      BY <1>1, <3>1, <3>2 DEF Answered, Follows
  <2>18. PressAt(c)'
    BY <2>1, <2>16, <2>17 DEF PressAt
  <2> QED
    BY <2>6, <2>8, <2>10, <2>13, <2>14, <2>15, <2>18 DEF PicoInv
<1> QED
  BY <1>4, <1>5 DEF H!Install

\* What a frame adds to a queue of edges.
LEMMA SubmittedIs ==
  ASSUME Depth \in Nat \ {0}, NEW d \in Queues, NEW f \in Samples
  PROVE  LET r == H!Submitted(d, f) IN
         /\ r \in Queues /\ r.latest = {f} /\ r.grip # "none"
         /\ r.grip = "down" <=> H!Grip(f.phase)
         /\ ~r.marred => ~d.marred
         /\ ~r.marred /\ H!Edge(d, f) /\ Len(d.ctl) <= Depth
              => Len(d.ctl) < Depth /\ r.ctl = Append(d.ctl, f)
         /\ ~H!Edge(d, f) => r.ctl = d.ctl
<1> DEFINE edge == H!Edge(d, f)
           q == IF edge THEN H!Queued(d.ctl, f) ELSE d.ctl
           full == Len(d.ctl) = Depth
           marred == d.marred \/ (edge /\ full)
           side == IF H!Grip(f.phase) THEN "down" ELSE "up"
           r == [d EXCEPT !.ctl = q, !.marred = marred, !.latest = {f}, !.grip = side]
<1>1. H!Submitted(d, f) = r
  BY DEF H!Submitted
<1>2. d.ctl \in Seq(Samples) /\ Len(d.ctl) \in Nat
  BY DEF Queues
<1>3. q \in Seq(Samples)
  <2> HIDE DEF edge
  <2>1. CASE Len(d.ctl) < Depth
    BY <1>2, <2>1 DEF H!Queued
  <2>2. CASE ~(Len(d.ctl) < Depth)
    BY <1>2, <2>2 DEF H!Queued
  <2> QED
    BY <2>1, <2>2
<1>4. ~edge => q = d.ctl
  BY DEF q
<1>5. edge /\ ~full /\ Len(d.ctl) <= Depth => Len(d.ctl) < Depth /\ q = Append(d.ctl, f)
  <2> HIDE DEF edge
  <2> QED
    BY <1>2 DEF H!Queued
<1>6. /\ marred \in BOOLEAN /\ {f} \in SUBSET Samples /\ side \in {"none", "up", "down"}
      /\ side # "none" /\ (side = "down" <=> H!Grip(f.phase))
  OBVIOUS
<1>7. ~marred => ~d.marred /\ (edge => ~full)
  OBVIOUS
<1> HIDE DEF q, marred, side
<1>8. [d EXCEPT !.ctl = q, !.marred = marred] \in Queues
  BY <1>3, <1>6 DEF Queues
<1>9. /\ r \in Queues /\ r.ctl = q /\ r.marred = marred /\ r.latest = {f} /\ r.grip = side
  BY <1>3, <1>6, <1>8 DEF Queues
<1> HIDE DEF r, edge, full
<1> QED
  BY <1>1, <1>4, <1>5, <1>6, <1>7, <1>9 DEF edge

\* A frame is received: the edges in the queue end with the phase of the hand.
LEMMA FrameKept == ASSUME PicoInv, NEW c \in Conns, H!Receive(c)  PROVE PicoInv'
<1>1. /\ PicoTypes /\ Answered /\ sock[c].pc = "open" /\ sock[c].live
      /\ UNCHANGED <<gate, sock, work, http, pico, servo>>
      /\ GateAt(c) /\ QueueAt(c) /\ AnchorAt(c) /\ PressAt(c) /\ ~H!Settled(c)
  BY DEF PicoInv, H!Receive, H!Settled
<1>2. PICK phase \in hand.phase..MaxPhase, valid \in BOOLEAN :
        /\ disp[c].grip = "none" \/ phase <= hand.phase + 1
        /\ disp' = [disp EXCEPT ![c] = H!Submitted(@, [phase |-> phase, valid |-> valid])]
        /\ hand' = [phase |-> phase, sent |-> hand.sent + 1]
  BY DEF H!Receive
<1> DEFINE f == [phase |-> phase, valid |-> valid]
           r == H!Submitted(disp[c], f)
<1>3. /\ disp[c] \in Queues /\ f \in Samples /\ f.phase = phase /\ phase \in Nat
      /\ hand.phase \in Nat /\ phase >= hand.phase /\ Depth \in Nat \ {0}
      /\ disp[c].ctl \in Seq(Samples)
  BY <1>1, <1>2 DEF PicoTypes, Queues, Samples
<1>4. hand' \in [phase : Nat, sent : Nat] /\ hand'.phase = phase
  BY <1>1, <1>2, <1>3 DEF PicoTypes
<1>5. disp' = [disp EXCEPT ![c] = r]
  BY <1>2
<1> HIDE DEF f
<1>6. /\ r \in Queues /\ r.latest = {f} /\ r.grip # "none" /\ (r.grip = "down" <=> H!Grip(phase))
      /\ ~r.marred => ~disp[c].marred
      /\ ~r.marred /\ H!Edge(disp[c], f) /\ Len(disp[c].ctl) <= Depth
           => Len(disp[c].ctl) < Depth /\ r.ctl = Append(disp[c].ctl, f)
      /\ ~H!Edge(disp[c], f) => r.ctl = disp[c].ctl
  BY <1>3, SubmittedIs
<1> HIDE DEF r
<1>7. /\ disp' \in [Conns -> Queues] /\ disp'[c] = r
      /\ \A d \in Conns : d # c => disp'[d] = disp[d]
  BY <1>1, <1>5, <1>6 DEF PicoTypes
<1>8. \A d \in Conns : d # c => ~Clean(d) /\ ~Clean(d)'
  BY <1>1, <1>7, AloneIfClean DEF Clean
<1>9. (~r.marred => Clean(c)) /\ (Clean(c)' => ~r.marred)
  BY <1>1, <1>6, <1>7 DEF GateAt, Clean
<1>10. PicoTypes'
  BY <1>1, <1>4, <1>7 DEF PicoTypes, GateType, HttpType, AdapterType, ArmType
<1>11. Answered'
  <2>1. \A d \in Conns : Responsible(d) => Responsible(d)'
    BY <1>1 DEF Responsible
  <2> QED
    BY <1>1, <2>1, StillAnswered DEF Follows
<1>12. ASSUME NEW d \in Conns, d # c
       PROVE  GateAt(d)' /\ QueueAt(d)' /\ AnchorAt(d)' /\ PressAt(d)'
  <2>1. GateAt(d) /\ AnchorAt(d) /\ ~Clean(d) /\ ~Clean(d)' /\ disp'[d] = disp[d]
    BY <1>7, <1>8, <1>12 DEF PicoInv
  <2>2. GateAt(d)' /\ AnchorAt(d)'
    BY <1>1, <2>1 DEF GateAt, AnchorAt, Mine, H!Grip
  <2> QED
    BY <2>1, <2>2 DEF QueueAt, PressAt
<1>13. GateAt(c)'
  <2>1. \A d \in Conns : H!Settled(d)' <=> H!Settled(d)
    BY <1>1 DEF H!Settled
  <2>2. Clean(c)' => gate.active = c /\ gate.busy /\ \A d \in Conns \ {c} : H!Settled(d)'
    BY <1>1, <1>6, <1>7, <1>9, <2>1 DEF GateAt, Clean
  <2> QED
    BY <1>1, <1>6, <1>7, <1>9, <2>2 DEF GateAt, Clean
<1>14. AnchorAt(c)'
  <2>1. ~disp'[c].marred => ~disp[c].marred
    BY <1>6, <1>7
  <2> QED
    BY <1>1, <2>1 DEF AnchorAt, Mine, H!Grip
<1>15. CASE ~Clean(c)'
  BY <1>10, <1>11, <1>12, <1>13, <1>14, <1>15 DEF PicoInv, QueueAt, PressAt
<1>16. CASE Clean(c)'
  <2>1. Clean(c) /\ ~r.marred
    BY <1>6, <1>9, <1>16 DEF Clean
  <2> DEFINE old == disp[c].ctl
             n == Len(old)
  <2>2. n \in Nat /\ n <= Depth
    BY <1>1, <1>3, <2>1 DEF QueueAt
  <2>3. /\ disp[c].grip = "none" => old = <<>> /\ work[c].pc \in {"idle", "end"}
        /\ disp[c].grip # "none" => (disp[c].grip = "down" <=> H!Grip(hand.phase))
        /\ \A i \in 1..n : old[i].phase = Last(c) + i
    BY <1>1, <2>1 DEF QueueAt
  <2>4. /\ disp[c].grip # "none" => Last(c)' = Last(c)
        /\ \A i \in 1..Len(r.ctl) : r.ctl[i].phase = Last(c)' + i
        /\ Len(r.ctl) <= Depth
    <3>1. Last(c) = hand.phase - n /\ Last(c)' = phase - Len(r.ctl)
      BY <1>4, <1>7 DEF Last
    <3>2. CASE H!Edge(disp[c], f)
      <4>1. n < Depth /\ r.ctl = Append(old, f)
        BY <1>6, <2>1, <2>2, <3>2
      <4>2. Len(r.ctl) = n + 1 /\ r.ctl[n + 1] = f /\ \A i \in 1..n : r.ctl[i] = old[i]
        BY <1>3, <4>1
      <4>3. disp[c].grip # "none" => ~(H!Grip(hand.phase) <=> H!Grip(phase))
        <5>1. H!Grip(phase) \in BOOLEAN
          BY DEF H!Grip
        <5> QED
          BY <1>3, <2>3, <3>2, <5>1 DEF H!Edge
      <4>4. disp[c].grip # "none" => phase = hand.phase + 1
        BY <1>2, <1>3, <4>3
      <4> HIDE DEF n, old
      <4>5. disp[c].grip # "none" => Last(c)' = Last(c)
        BY <1>3, <2>2, <3>1, <4>2, <4>4
      <4>6. disp[c].grip = "none" => n = 0
        BY <2>3 DEF n, old
      <4>7. \A i \in 1..(n + 1) : r.ctl[i].phase = Last(c)' + i
        <5> SUFFICES ASSUME NEW i \in 1..(n + 1)  PROVE r.ctl[i].phase = Last(c)' + i
          OBVIOUS
        <5>1. CASE i = n + 1
          <6>1. r.ctl[i].phase = phase
            BY <1>3, <4>2, <5>1
          <6>2. Last(c)' + i = phase
            BY <1>3, <2>2, <3>1, <4>2, <5>1
          <6> QED
            BY <6>1, <6>2
        <5>2. CASE i # n + 1
          <6>1. i \in 1..n /\ disp[c].grip # "none"
            BY <2>2, <4>6, <5>2
          <6> QED
            BY <2>3, <4>2, <4>5, <6>1
        <5> QED
          BY <5>1, <5>2
      <4>8. Len(r.ctl) <= Depth
        BY <1>3, <2>2, <4>1, <4>2
      <4> QED
        BY <4>2, <4>5, <4>7, <4>8
    <3>3. CASE ~H!Edge(disp[c], f)
      <4>1. r.ctl = old /\ disp[c].grip # "none"
        BY <1>6, <3>3 DEF H!Edge
      <4>2. H!Grip(hand.phase) <=> H!Grip(phase)
        BY <1>3, <2>3, <3>3, <4>1 DEF H!Edge
      <4>3. phase = hand.phase \/ phase = hand.phase + 1
        BY <1>2, <1>3, <4>1
      <4>4. phase = hand.phase
        <5>1. ~(H!Grip(hand.phase + 1) <=> H!Grip(hand.phase))
          <6>1. hand.phase \in Int
            BY <1>3
          <6> QED
            BY <6>1, GripTurns
        <5> QED
          BY <4>2, <4>3, <5>1
      <4>5. Last(c)' = Last(c)
        BY <3>1, <4>1, <4>4
      <4> HIDE DEF n
      <4> QED
        BY <2>2, <2>3, <4>1, <4>5 DEF n
    <3> QED
      BY <3>2, <3>3
  <2> HIDE DEF old, n
  <2>5. QueueAt(c)'
    BY <1>3, <1>4, <1>6, <1>7, <2>4 DEF QueueAt, H!Grip
  <2>6. disp[c].grip = "none" => ~Mine(c) /\ ~Follows
    BY <1>1, <2>1 DEF PressAt
  <2>7. /\ Mine(c)' <=> Mine(c)
        /\ Follows' <=> Follows
        /\ \A p : Pressed(p)' <=> Pressed(p)
    BY <1>1 DEF Mine, Follows, Pressed, H!Grip
  <2>8. PressAt(c)'
    <3>1. CASE disp[c].grip = "none"
      BY <1>1, <1>6, <1>7, <2>3, <2>6, <2>7, <3>1 DEF PressAt
    <3>2. CASE disp[c].grip # "none"
      <4>1. Last(c)' = Last(c) /\ PressAt(c) /\ Clean(c) /\ disp'[c].grip # "none"
        BY <1>1, <1>6, <1>7, <2>1, <2>4, <3>2
      <4> QED
        BY <1>1, <2>7, <3>2, <4>1 DEF PressAt, H!Grip
    <3> QED
      BY <3>1, <3>2
  <2> QED
    BY <1>10, <1>11, <1>12, <1>13, <1>14, <2>5, <2>8 DEF PicoInv
<1> QED
  BY <1>15, <1>16

\* A connection ends.
LEMMA LeaveKept == ASSUME PicoInv, NEW c \in Conns, H!Leave(c)  PROVE PicoInv'
<1>1. /\ PicoTypes /\ Answered /\ sock[c].pc = "open"
      /\ UNCHANGED <<hand, gate, disp, work, http, pico, servo>>
  BY DEF PicoInv, H!Leave
<1>2. /\ sock' \in [Conns -> Sockets] /\ sock'[c].pc = "closing"
      /\ \A d \in Conns : d # c => sock'[d] = sock[d]
  BY <1>1, Moved DEF H!Leave, H!C
<1>3. PicoTypes'
  BY <1>1, <1>2 DEF PicoTypes, GateType, HttpType, AdapterType, ArmType
<1>4. \A d \in Conns : Responsible(d) => Responsible(d)'
  BY <1>1, <1>2 DEF Responsible
<1>5. Answered'
  BY <1>1, <1>4, StillAnswered DEF Follows
<1>6. ASSUME NEW d \in Conns  PROVE GateAt(d)' /\ QueueAt(d)' /\ AnchorAt(d)' /\ PressAt(d)'
  <2>1. GateAt(d) /\ QueueAt(d) /\ AnchorAt(d) /\ PressAt(d)
    BY DEF PicoInv
  <2>2. /\ (Clean(d)' <=> Clean(d)) /\ Last(d)' = Last(d) /\ (Mine(d)' <=> Mine(d))
        /\ (Follows' <=> Follows) /\ \A p : Pressed(p)' <=> Pressed(p)
    BY <1>1 DEF Clean, Last, Mine, Follows, Pressed, H!Grip
  <2>3. \A e \in Conns : H!Settled(e) => H!Settled(e)'
    BY <1>1, <1>2 DEF H!Settled
  <2>4. GateAt(d)'
    BY <1>1, <1>2, <2>1, <2>2, <2>3 DEF GateAt
  <2>5. QueueAt(d)' /\ AnchorAt(d)'
    BY <1>1, <2>1, <2>2 DEF QueueAt, AnchorAt, H!Grip
  <2>6. PressAt(d)'
    BY <1>1, <2>1, <2>2 DEF PressAt
  <2> QED
    BY <2>4, <2>5, <2>6
<1> QED
  BY <1>3, <1>5, <1>6 DEF PicoInv

\* What a stopped queue is.
LEMMA StoppedIs == \A d \in Queues : /\ H!Stopped(d) \in Queues /\ H!Stopped(d).ctl = <<>>
                                     /\ H!Stopped(d).latest = {} /\ H!Stopped(d).grip = "none"
                                     /\ H!Stopped(d).marred = d.marred
<1> SUFFICES ASSUME NEW d \in Queues
             PROVE  /\ H!Stopped(d) \in Queues /\ H!Stopped(d).ctl = <<>>
                    /\ H!Stopped(d).latest = {} /\ H!Stopped(d).grip = "none"
                    /\ H!Stopped(d).marred = d.marred
  OBVIOUS
<1> DEFINE none == <<>>
           q == [d EXCEPT !.ctl = none, !.latest = {}]
           r == [q EXCEPT !.stop = TRUE, !.grip = "none"]
<1>1. none \in Seq(Samples)
  OBVIOUS
<1>2. q \in Queues /\ q.ctl = none /\ q.latest = {} /\ q.marred = d.marred
  <2> HIDE DEF none
  <2> QED
    BY <1>1 DEF Queues
<1>3. H!Stopped(d) = r
  BY DEF H!Stopped, Queues
<1> HIDE DEF q
<1>4. r \in Queues /\ r.ctl = none /\ r.latest = {} /\ r.grip = "none" /\ r.marred = d.marred
  <2> HIDE DEF none
  <2> QED
    BY <1>2 DEF Queues
<1> QED
  BY <1>3, <1>4

LEMMA CloseKept == ASSUME PicoInv, NEW c \in Conns, H!Close(c)  PROVE PicoInv'
<1>1. /\ PicoTypes /\ Answered /\ sock[c].pc = "closing"
      /\ UNCHANGED <<hand, work, http, pico, servo>>
      /\ GateAt(c) /\ ~H!Settled(c)
  BY DEF PicoInv, H!Close, H!Settled
<1>2. /\ sock' \in [Conns -> Sockets] /\ sock'[c].pc = "join"
        /\ (sock'[c].owner <=> gate.active = c)
      /\ \A d \in Conns : d # c => sock'[d] = sock[d]
  <2> DEFINE r == [pc |-> "join", live |-> FALSE, owner |-> H!Owns(c)]
  <2>1. r \in Sockets /\ r.pc = "join" /\ (r.owner <=> gate.active = c)
    BY DEF Sockets, H!Owns
  <2>2. sock' = [sock EXCEPT ![c] = r]
    BY DEF H!Close
  <2> QED
    BY <1>1, <2>1, <2>2 DEF PicoTypes
<1>3. /\ disp' \in [Conns -> Queues] /\ disp'[c].ctl = <<>> /\ disp'[c].latest = {}
      /\ disp'[c].marred = disp[c].marred
      /\ \A d \in Conns : d # c => disp'[d] = disp[d]
  <2>1. disp[c] \in Queues /\ disp' = [disp EXCEPT ![c] = H!Stopped(disp[c])]
    BY <1>1 DEF PicoTypes, H!Close
  <2> QED
    BY <1>1, <2>1, StoppedIs DEF PicoTypes
<1>4. /\ GateType' /\ gate'.session = gate.session
      /\ gate.active = c => gate'.active = 0 /\ gate'.dispatch = 0
      /\ gate.active # c => gate' = gate
  BY <1>1 DEF PicoTypes, GateType, H!Close, H!Owns
<1>5. PicoTypes'
  BY <1>1, <1>2, <1>3, <1>4 DEF PicoTypes, HttpType, AdapterType, ArmType
<1>6. \A d \in Conns : Responsible(d) => Responsible(IF d = c THEN c ELSE d)'
  BY <1>1, <1>2, <1>4 DEF Responsible
<1>7. Answered'
  <2>1. (\E d \in Conns : Responsible(d)) => (\E d \in Conns : Responsible(d))'
    BY <1>6
  <2>2. (Follows' <=> Follows) /\ servo' = servo /\ pico' = pico
    BY <1>1 DEF Follows
  <2> QED
    BY <1>1, <1>4, <2>1, <2>2 DEF Answered
<1>8. ASSUME NEW d \in Conns  PROVE GateAt(d)' /\ QueueAt(d)' /\ AnchorAt(d)' /\ PressAt(d)'
  <2>1. GateAt(d) /\ AnchorAt(d) /\ (d # c => ~Clean(d)) /\ d # 0
    BY <1>1, AloneIfClean DEF PicoInv, PicoTypes
  <2>2. ~Clean(d)'
    BY <1>1, <1>3, <1>4, <2>1 DEF Clean, GateAt
  <2>3. GateAt(d)'
    <3>1. CASE d = c
      BY <1>2, <1>3, <2>2, <3>1 DEF GateAt
    <3>2. CASE d # c
      BY <1>1, <1>2, <1>3, <1>4, <2>1, <2>2, <3>2 DEF GateAt, Clean, Mine
    <3> QED
      BY <3>1, <3>2
  <2>4. AnchorAt(d)'
    <3>1. disp'[d].marred = disp[d].marred
      BY <1>3
    <3> QED
      BY <1>1, <2>1, <3>1 DEF AnchorAt, Mine, H!Grip
  <2> QED
    BY <2>2, <2>3, <2>4 DEF QueueAt, PressAt
<1> QED
  BY <1>5, <1>7, <1>8 DEF PicoInv

LEMMA LoseKept == ASSUME PicoInv, NEW c \in Conns, H!Lose(c)  PROVE PicoInv'
<1>1. /\ PicoTypes /\ Answered /\ sock[c].pc = "join"
      /\ UNCHANGED <<hand, gate, disp, work, http>>
      /\ sock' = [sock EXCEPT ![c] = [pc |-> "done", live |-> FALSE, owner |-> FALSE]]
  BY DEF PicoInv, H!Lose
<1>2. /\ sock' \in [Conns -> Sockets] /\ sock'[c].pc = "done" /\ ~sock'[c].live
      /\ \A d \in Conns : d # c => sock'[d] = sock[d]
  <2>1. [pc |-> "done", live |-> FALSE, owner |-> FALSE] \in Sockets
    BY DEF Sockets
  <2> QED
    BY <1>1, <2>1 DEF PicoTypes
<1>3. /\ AdapterType' /\ ArmType' /\ pico'.grip = pico.grip /\ pico'.seen = pico.seen
      /\ pico'.anchor = pico.anchor \/ pico'.anchor = H!NoAnchor
      /\ sock[c].owner => ~Follows'
      /\ ~sock[c].owner => UNCHANGED <<pico, servo>>
  <2>1. CASE sock[c].owner
    BY <1>1, <2>1, StopEnds DEF H!Lose
  <2>2. CASE ~sock[c].owner
    BY <1>1, <2>2 DEF H!Lose, PicoTypes, AdapterType, ArmType
  <2> QED
    BY <2>1, <2>2
<1>4. PicoTypes'
  BY <1>1, <1>2, <1>3 DEF PicoTypes, GateType, HttpType
<1>5. Answered'
  <2>1. CASE sock[c].owner
    BY <1>1, <1>3, <2>1 DEF Answered
  <2>2. CASE ~sock[c].owner
    <3>1. \A d \in Conns : Responsible(d) => Responsible(d)'
      BY <1>1, <1>2, <2>2 DEF Responsible
    <3> QED
      BY <1>1, <1>3, <2>2, <3>1, StillAnswered DEF Follows
  <2> QED
    BY <2>1, <2>2
<1>6. Follows' => Follows
  BY <1>3 DEF Follows
<1>7. pico'.anchor = pico.anchor \/ pico'.anchor.conn = 0
  BY <1>3 DEF H!NoAnchor
<1>8. \A d \in Conns : /\ \/ sock'[d].pc = sock[d].pc
                          \/ sock[d].pc = "join" /\ sock'[d].pc = "done"
                       /\ sock'[d].live => sock[d].live
  BY <1>1, <1>2
<1>9. (\A d \in Conns : GateAt(d) /\ QueueAt(d) /\ AnchorAt(d) /\ PressAt(d))'
  BY <1>1, <1>3, <1>6, <1>7, <1>8, OutsideKeeps
<1> QED
  BY <1>4, <1>5, <1>9 DEF PicoInv


\* A session is detached: nobody is clean any more.
LEMMA DetachKeeps ==
  ASSUME PicoInv, NEW s \in Nat, H!Detach(s), UNCHANGED <<hand, work, pico>>,
         HttpType', ArmType', Answered'
  PROVE  PicoInv'
<1>1. /\ PicoTypes
      /\ gate' = [gate EXCEPT !.busy = FALSE, !.active = 0, !.dispatch = 0, !.session = s]
      /\ sock' = [c \in Conns |-> [sock[c] EXCEPT !.live = FALSE]]
      /\ disp' = [c \in Conns |-> IF c = gate.dispatch THEN H!Stopped(disp[c]) ELSE disp[c]]
  BY DEF PicoInv, H!Detach
<1>2. GateType' /\ gate'.active = 0 /\ gate'.dispatch = 0
  <2> DEFINE r == [gate EXCEPT !.busy = FALSE, !.active = 0]
  <2>1. /\ r \in [session : Nat, busy : BOOLEAN, active : Conns \cup {0},
                      dispatch : Conns \cup {0}]
        /\ r.active = 0
    BY <1>1 DEF PicoTypes, GateType
  <2>2. gate' = [r EXCEPT !.dispatch = 0, !.session = s]
    BY <1>1 DEF PicoTypes, GateType
  <2> HIDE DEF r
  <2> QED
    BY <2>1, <2>2 DEF GateType
<1>3. ASSUME NEW d \in Conns
      PROVE  sock'[d] \in Sockets /\ sock'[d].pc = sock[d].pc /\ ~sock'[d].live
  <2>1. sock[d] \in Sockets /\ sock'[d] = [sock[d] EXCEPT !.live = FALSE]
    BY <1>1 DEF PicoTypes
  <2> QED
    BY <2>1 DEF Sockets
<1>4. ASSUME NEW d \in Conns
      PROVE  /\ disp'[d] \in Queues /\ disp'[d].marred = disp[d].marred
             /\ d = gate.dispatch => /\ disp'[d].ctl = <<>> /\ disp'[d].latest = {}
                                     /\ disp'[d].grip = "none"
             /\ d # gate.dispatch => disp'[d] = disp[d]
  <2>1. disp[d] \in Queues
    BY <1>1 DEF PicoTypes
  <2>2. CASE d = gate.dispatch
    <3>1. disp'[d] = H!Stopped(disp[d])
      BY <1>1, <2>2
    <3> QED
      BY <2>1, <2>2, <3>1, StoppedIs
  <2>3. CASE d # gate.dispatch
    BY <1>1, <2>1, <2>3
  <2> QED
    BY <2>2, <2>3
<1>5. PicoTypes'
  <2>1. sock' \in [Conns -> Sockets]
    BY <1>1, <1>3
  <2>2. disp' \in [Conns -> Queues]
    BY <1>1, <1>4
  <2> QED
    BY <1>1, <1>2, <2>1, <2>2 DEF PicoTypes, AdapterType
<1>6. ASSUME NEW d \in Conns  PROVE GateAt(d)' /\ QueueAt(d)' /\ AnchorAt(d)' /\ PressAt(d)'
  <2>1. GateAt(d) /\ AnchorAt(d) /\ d # 0
    BY <1>1 DEF PicoInv, PicoTypes
  <2>2. ~Clean(d)'
    BY <1>2, <2>1 DEF Clean
  <2>3. GateAt(d)'
    <3>1. /\ disp[d].ctl = <<>> => disp'[d].ctl = <<>>
          /\ disp[d].latest = {} => disp'[d].latest = {}
          /\ disp[d].grip = "none" => disp'[d].grip = "none"
          /\ disp'[d].marred = disp[d].marred
      BY <1>4
    <3>2. Mine(d)' <=> Mine(d)
      BY DEF Mine
    <3>3. ~disp'[d].marred => disp'[d].ctl = <<>> /\ disp'[d].latest = {}
      BY <1>4, <2>1 DEF GateAt
    <3> QED
      BY <1>2, <1>3, <2>1, <2>2, <3>1, <3>2, <3>3 DEF GateAt
  <2>4. AnchorAt(d)'
    <3>1. disp'[d].marred = disp[d].marred
      BY <1>4
    <3> QED
      BY <2>1, <3>1 DEF AnchorAt, Mine, H!Grip
  <2> QED
    BY <2>2, <2>3, <2>4 DEF QueueAt, PressAt
<1> QED
  BY <1>5, <1>6 DEF PicoInv

\* No HOLD is asked for, which excuses the arm that follows a target.
LEMMA UnheldIs == ASSUME ArmType, H!Unheld  PROVE ArmType' /\ ~Follows' /\ servo'.id = servo.id
<1>1. PICK b \in BOOLEAN : b <=> (servo.excused \/ servo.arm = "tracking")
  BY Zenon
<1>2. servo.excused \in BOOLEAN
  BY DEF ArmType
<1>3. (servo.excused \/ servo.arm = "tracking") = b
  BY <1>1, <1>2
<1>4. servo' = [servo EXCEPT !.excused = b]
  BY <1>3 DEF H!Unheld
<1> QED
  BY <1>1, <1>4 DEF ArmType, Follows

\* The requests that replace the session and end it.
LEMMA ConnectBeginKept == ASSUME PicoInv, H!ConnectBegin  PROVE PicoInv'
<1>1. /\ PicoTypes /\ Answered /\ H!Detach(gate.session) /\ UNCHANGED <<hand, work, pico>>
      /\ http' = [pc |-> "connect", session |-> servo.id] /\ H!Unheld
  BY DEF PicoInv, H!ConnectBegin
<1>2. ArmType' /\ ~Follows'
  BY <1>1, UnheldIs DEF PicoTypes
<1>3. HttpType' /\ http'.pc = "connect" /\ gate.session \in Nat
  BY <1>1 DEF PicoTypes, HttpType, ArmType, GateType
<1>4. Answered'
  BY <1>2, <1>3 DEF Answered
<1> QED
  BY <1>1, <1>2, <1>3, <1>4, DetachKeeps

LEMMA DisconnectBeginKept == ASSUME PicoInv, H!DisconnectBegin  PROVE PicoInv'
<1>1. /\ PicoTypes /\ Answered /\ H!Detach(0) /\ UNCHANGED <<hand, work, pico, servo>>
      /\ http' = [http EXCEPT !.pc = "disconnect"]
  BY DEF PicoInv, H!DisconnectBegin
<1>2. HttpType' /\ http'.pc = "disconnect" /\ ArmType'
  BY <1>1 DEF PicoTypes, HttpType, ArmType
<1>3. gate'.session = 0 /\ gate'.active = 0 /\ gate'.dispatch = 0
  BY <1>1 DEF PicoTypes, GateType, H!Detach
<1>4. Answered'
  BY <1>1, <1>2, <1>3 DEF Answered, Follows
<1> QED
  BY <1>1, <1>2, <1>4, DetachKeeps

LEMMA ConnectKept == ASSUME PicoInv, H!Connect  PROVE PicoInv'
<1>1. /\ PicoTypes /\ Answered /\ http.pc = "connect" /\ http' = H!NoRequest
      /\ UNCHANGED <<hand, sock, work>>
  BY DEF PicoInv, H!Connect
<1>2. HttpType' /\ http'.pc = "idle"
  BY <1>1 DEF HttpType, H!NoRequest
<1>3. CASE servo.id # http.session
  <2>1. UNCHANGED <<pico, gate, disp, servo>>
    BY <1>3 DEF H!Connect
  <2>2. \A d \in Conns : Responsible(d)' <=> Responsible(d)
    BY <1>1, <2>1 DEF Responsible
  <2>3. Answered'
    BY <1>1, <1>2, <2>1, <2>2 DEF Answered, Follows
  <2>4. AdapterType' /\ ArmType'
    BY <1>1, <2>1 DEF PicoTypes, AdapterType, ArmType
  <2> QED
    BY <1>1, <1>2, <2>1, <2>3, <2>4, OutsideIs DEF Follows
<1>4. CASE servo.id = http.session
  <2>1. /\ pico' = [H!Dropped(pico) EXCEPT !.bound = http.session, !.grip = FALSE,
                                           !.seen = FALSE, !.pending = pico.pending]
        /\ gate' = [gate EXCEPT !.session = http.session, !.busy = FALSE]
        /\ disp' = [c \in Conns |-> [disp[c] EXCEPT !.marred = @ \/ gate.active = c]]
        /\ H!Unheld
    BY <1>4 DEF H!Connect
  <2>2. AdapterType' /\ pico'.anchor.conn = 0
    <3>1. H!NoAnchor \in Origins /\ H!NoAnchor.conn = 0
      BY DEF H!NoAnchor, Origins
    <3> DEFINE none == H!NoAnchor
               r == [pico EXCEPT !.anchor = none, !.pending = FALSE]
               q == [r EXCEPT !.bound = http.session, !.grip = FALSE]
    <3> HIDE DEF none
    <3>2. r \in [bound : Nat, anchor : Origins, pending : BOOLEAN, grip : BOOLEAN, seen : BOOLEAN]
          /\ r.anchor = none
      BY <1>1, <3>1 DEF PicoTypes, AdapterType, none
    <3>3. pico' = [q EXCEPT !.seen = FALSE, !.pending = pico.pending]
      BY <2>1 DEF H!Dropped, none
    <3> HIDE DEF r
    <3>4. q \in [bound : Nat, anchor : Origins, pending : BOOLEAN, grip : BOOLEAN, seen : BOOLEAN]
          /\ q.anchor = none
      BY <1>1, <3>2 DEF PicoTypes, HttpType
    <3> HIDE DEF q
    <3>5. AdapterType' /\ pico'.anchor = none
      BY <1>1, <3>3, <3>4 DEF PicoTypes, AdapterType
    <3> QED
      BY <3>1, <3>5 DEF none
  <2>3. ArmType' /\ ~Follows'
    BY <1>1, <2>1, UnheldIs DEF PicoTypes
  <2>4. GateType' /\ gate'.active = gate.active /\ gate'.dispatch = gate.dispatch
    BY <1>1, <2>1 DEF PicoTypes, GateType, HttpType
  <2>5. ASSUME NEW d \in Conns
        PROVE  /\ disp'[d] \in Queues /\ disp'[d].ctl = disp[d].ctl
               /\ disp'[d].latest = disp[d].latest /\ disp'[d].grip = disp[d].grip
               /\ ~disp'[d].marred => ~disp[d].marred /\ gate.active # d
    <3>1. disp[d] \in Queues
      BY <1>1 DEF PicoTypes
    <3>2. PICK b \in BOOLEAN : b <=> (disp[d].marred \/ gate.active = d)
      BY Zenon
    <3>3. (disp[d].marred \/ gate.active = d) = b
      BY <3>1, <3>2 DEF Queues
    <3>4. disp'[d] = [disp[d] EXCEPT !.marred = b]
      BY <2>1, <3>3
    <3> QED
      BY <3>1, <3>2, <3>4 DEF Queues
  <2>6. PicoTypes'
    <3>1. disp' \in [Conns -> Queues]
      BY <2>1, <2>5
    <3> QED
      BY <1>1, <1>2, <2>2, <2>3, <2>4, <3>1 DEF PicoTypes
  <2>7. Answered'
    BY <1>2, <2>3 DEF Answered
  <2>8. ASSUME NEW d \in Conns  PROVE GateAt(d)' /\ QueueAt(d)' /\ AnchorAt(d)' /\ PressAt(d)'
    <3>1. GateAt(d) /\ AnchorAt(d) /\ d # 0
      BY <1>1 DEF PicoInv, PicoTypes
    <3>2. ~Clean(d)'
      BY <2>4, <2>5, <3>1 DEF Clean, GateAt
    <3>3. ~Mine(d)'
      BY <2>2, <3>1 DEF Mine
    <3>4. GateAt(d)'
      BY <1>1, <2>4, <2>5, <3>1, <3>2, <3>3 DEF GateAt
    <3>5. AnchorAt(d)'
      BY <1>1, <2>5, <3>1, <3>3 DEF AnchorAt, H!Grip
    <3> QED
      BY <3>2, <3>4, <3>5 DEF QueueAt, PressAt
  <2> QED
    BY <2>6, <2>7, <2>8 DEF PicoInv
<1> QED
  BY <1>3, <1>4

LEMMA PicoInit == ASSUME H!PicoAssumption, H!Init  PROVE PicoInv
<1>1. /\ hand = [phase |-> 0, sent |-> 0]
      /\ gate = [session |-> 0, busy |-> FALSE, active |-> 0, dispatch |-> 0]
      /\ sock = [c \in Conns |-> [pc |-> "none", live |-> FALSE, owner |-> FALSE]]
      /\ disp = [c \in Conns |->
           [ctl |-> <<>>, latest |-> {}, grip |-> "none", stop |-> FALSE, marred |-> FALSE]]
      /\ work = [c \in Conns |-> [H!Blank EXCEPT !.pc = "none"]]
      /\ http = H!NoRequest
      /\ pico = [bound |-> 0, anchor |-> H!NoAnchor, pending |-> FALSE, grip |-> FALSE,
                 seen |-> FALSE]
      /\ servo = [id |-> 0, made |-> 0, arm |-> "ready", excused |-> FALSE]
  BY DEF H!Init
<1>2. 0 \notin Conns /\ Depth \in Nat \ {0}
  BY PicoBounds
<1>3. sock \in [Conns -> Sockets] /\ \A c \in Conns : sock[c].pc = "none"
  BY <1>1 DEF Sockets
<1>4. /\ disp \in [Conns -> Queues]
      /\ \A c \in Conns : disp[c].ctl = <<>> /\ disp[c].latest = {} /\ disp[c].grip = "none"
  <2> DEFINE none == <<>>
  <2>1. none \in Seq(Samples)
    OBVIOUS
  <2>2. disp = [c \in Conns |->
          [ctl |-> none, latest |-> {}, grip |-> "none", stop |-> FALSE, marred |-> FALSE]]
    BY <1>1
  <2> HIDE DEF none
  <2>3. /\ disp \in [Conns -> Queues]
        /\ \A c \in Conns : disp[c].ctl = none /\ disp[c].latest = {} /\ disp[c].grip = "none"
    BY <2>1, <2>2 DEF Queues
  <2> QED
    BY <2>3 DEF none
<1>5. work \in [Conns -> Workers] /\ \A c \in Conns : work[c].pc = "none"
  <2> DEFINE r == [H!Blank EXCEPT !.pc = "none"]
  <2>1. r \in Workers /\ r.pc = "none"
    BY DEF H!Blank, H!Zero, H!NoAnchor, Workers, Samples, Origins
  <2>2. work = [c \in Conns |-> r]
    BY <1>1
  <2> HIDE DEF r
  <2> QED
    BY <2>1, <2>2
<1>6. /\ hand \in [phase : Nat, sent : Nat] /\ GateType /\ HttpType /\ AdapterType /\ ArmType
      /\ http.pc = "idle" /\ gate.active = 0 /\ gate.dispatch = 0 /\ ~Follows
      /\ pico.anchor.conn = 0
  BY <1>1 DEF GateType, HttpType, AdapterType, ArmType, Origins, Follows, H!NoRequest, H!NoAnchor
<1>7. PicoTypes /\ Answered
  BY <1>2, <1>3, <1>4, <1>5, <1>6 DEF PicoTypes, Answered
<1>8. ASSUME NEW c \in Conns  PROVE GateAt(c) /\ QueueAt(c) /\ AnchorAt(c) /\ PressAt(c)
  <2>1. c # 0 /\ ~Clean(c) /\ ~Mine(c)
    BY <1>2, <1>6 DEF Clean, Mine
  <2> QED
    BY <1>3, <1>4, <1>5, <1>6, <2>1 DEF GateAt, QueueAt, AnchorAt, PressAt
<1> QED
  BY <1>7, <1>8 DEF PicoInv

LEMMA PicoStep == ASSUME PicoInv, H!Next  PROVE PicoInv'
<1>1. CASE H!OscStart \/ H!OscEnd \/ H!OscSettle
  BY <1>1, OscKept
<1>2. CASE H!Http
  BY <1>2, ConnectBeginKept, DisconnectBeginKept, ConnectKept, DisconnectKept, UnbindKept,
      ResetKept
  DEF H!Http
<1>3. ASSUME NEW c \in Conns, H!Serve(c)  PROVE PicoInv'
  BY <1>3, AcceptKept, InstallKept, FrameKept, LeaveKept, CloseKept, LoseKept DEF H!Serve
<1>4. ASSUME NEW c \in Conns, H!Process(c)  PROVE PicoInv'
  BY <1>4, TakenKept, InputFrameKept, StopKept, AnchorReadKept, AnchorMakeKept, PoseReadKept,
     TrackKept, LimitKept DEF H!Process
<1> QED
  BY <1>1, <1>2, <1>3, <1>4 DEF H!Next

LEMMA PicoStutter == ASSUME PicoInv, UNCHANGED H!vars  PROVE PicoInv'
<1>1. UNCHANGED <<hand, gate, sock, disp, work, http, pico, servo>> /\ PicoTypes /\ Answered
  BY DEF H!vars, PicoInv
<1>2. \A d \in Conns : Responsible(d)' <=> Responsible(d)
  BY <1>1 DEF Responsible
<1>3. Answered'
  BY <1>1, <1>2 DEF Answered, Follows
<1>4. HttpType' /\ AdapterType' /\ ArmType'
  BY <1>1 DEF PicoTypes, HttpType, AdapterType, ArmType
<1> QED
  BY <1>1, <1>3, <1>4, OutsideIs DEF Follows

\* An idle worker with nothing to take has taken the frame received last.
LEMMA DeadManHolds == ASSUME PicoInv  PROVE H!DeadMan
<1> SUFFICES ASSUME NEW c \in Conns,
                    gate.dispatch = c, work[c].pc = "idle", disp[c].ctl = <<>>,
                    disp[c].latest = {}, ~disp[c].marred,
                    disp[c].grip = "up" \/ (disp[c].grip = "down" /\ ~pico.seen)
             PROVE  pico.anchor.conn # c /\ (servo.arm = "tracking" => servo.excused)
  BY DEF H!DeadMan
<1>1. Clean(c) /\ QueueAt(c) /\ PressAt(c) /\ hand.phase \in Nat
  BY DEF Clean, PicoInv, PicoTypes
<1>2. Last(c) = hand.phase
  <2>1. Len(disp[c].ctl) = 0
    OBVIOUS
  <2> QED
    BY <1>1, <2>1 DEF Last
<1>3. ~Pressed(Last(c))
  BY <1>1, <1>2 DEF QueueAt, Pressed
<1> QED
  BY <1>1, <1>3 DEF PressAt, Mine, Follows

\* The Grip is a dead man's handle: a target is computed from an anchor made in the press its pose
\* is of, and once what was received is processed, a released Grip or a lost tracking leaves no
\* anchor, and no arm that follows a target which nobody was to stop
\* (pico_adapter.py:582-665, 742-800, 979-1002; nero_control_server.py:600-709).
THEOREM GripIsDeadMan == H!PicoAssumption => (H!Spec => [](H!SamePress /\ H!DeadMan))
<1> SUFFICES ASSUME H!PicoAssumption  PROVE H!Spec => [](H!SamePress /\ H!DeadMan)
  OBVIOUS
<1>1. H!Init => PicoInv
  BY PicoInit
<1>2. PicoInv /\ [H!Next]_(H!vars) => PicoInv'
  BY PicoStep, PicoStutter
<1>3. PicoInv => H!SamePress /\ H!DeadMan
  <2>1. PicoInv => H!DeadMan
    BY DeadManHolds
  <2>2. PicoInv => H!SamePress
    BY DEF PicoInv, AnchorAt, H!SamePress
  <2> QED
    BY <2>1, <2>2
<1> QED
  BY <1>1, <1>2, <1>3, PTL DEF H!Spec
=============================================================================
