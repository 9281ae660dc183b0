----------------------------- MODULE MCAdapters -----------------------------
\* The components beside the control loop, each checked on its own: `part' says which of them a
\* behaviour runs, and every component reads the variables it needs out of the same row of slots,
\* so that the states are the sum of theirs and not the product. The instances of a component
\* differ in their bounds; those of the components with proofs of their own are constants.
EXTENDS Naturals, FiniteSets

CONSTANTS
  PlanRows, PlanDelay, PlanExecute, PlanBridges, PlanJitter, PlanNow,   \* the real-time plan
  Modes, MaxConn, MaxRun, MaxGen,              \* the policy's connection
  MaxProcess, MaxAsk, MaxTarget, MaxMotion,    \* the solver
  SwitchActors, TakeoverActors, MaxEpoch,      \* the choice of output, twice
  PipeChannels, PipeCalls,                     \* calls into the backend's process
  PipesChannels, PipesCalls,                   \* and calls in several channels
  PosesFresh, PosesModes, PosesJumps, PosesNow, PosesSession,        \* the poses of observations
  WidthsFresh, WidthsModes, WidthsJumps, WidthsNow, WidthsSession,   \* and their gripper widths
  GripFresh,
  Attempts, Lossy, Emergency, Found,          \* the controller, and what it is found as
  Conns, Depth, MaxPhase, MaxFrame, Sessions,  \* the headset
  ResetServices, ResetHelpers,                 \* services that are reset,
  HandServices, HandHelpers, HandStarts,       \* and started by hand besides,
  PosixServices, PosixHelpers, PosixStarts,    \* and under POSIX
  Joints, Wanted, MaxOp, MaxStart,             \* the profile of the motors
  Journal, History, MaxState,                  \* the recorder: its parts' buffers and rows,
  FilmStop, FilmPending, FilmFrames,           \* frames,
  InputsStop, InputsPending, InputsRows,       \* inputs,
  TwiceStop, TwicePending, TwiceEpisodes       \* and episodes

VARIABLES part, v1, v2, v3, v4, v5, v6, v7, v8, v9, v10, v11, v12, v13, v14

vars == <<part, v1, v2, v3, v4, v5, v6, v7, v8, v9, v10, v11, v12, v13, v14>>

Plan == INSTANCE Timeline WITH
  H <- PlanRows, Delay <- PlanDelay, Execute <- PlanExecute, Bridges <- PlanBridges,
  Jitter <- PlanJitter, MaxNow <- PlanNow,
  now <- v1, phase <- v2, failed <- v3, next <- v4, committed <- v5, targets <- v6, history <- v7,
  revision <- v8, context <- v9, due <- v10, bridged <- v11, exec <- v12, started <- v13

Link == INSTANCE Connection WITH
  conn <- v1, run <- v2, mode <- v3, changing <- v4, active <- v5, policy <- v6, gen <- v7,
  told <- v8, idle <- v9, shown <- v10, worker <- v11, link <- v12, config <- v13, closing <- v14

Headset == INSTANCE Pico WITH
  MaxSession <- Sessions,
  hand <- v1, gate <- v2, conn <- v3, disp <- v4, work <- v5, http <- v6, pico <- v7, osc <- v8

Log == INSTANCE RunCapture WITH
  Emitters <- {"run"}, Depth <- 2, MaxEvent <- 4,
  emitted <- v1, events <- v2, lost <- v3, closed <- v4, error <- v5, emitter <- v6, sampling <- v7,
  writer <- v8, file <- v9, finish <- v10, exported <- v11

Film == INSTANCE Recorder WITH
  Stoppers <- FilmStop, Pending <- FilmPending, MaxInput <- 0, MaxFrame <- FilmFrames,
  MaxEpisode <- 1,
  inputs <- v1, camera <- v2, states <- v3, starter <- v4, active <- v5, threads <- v6,
  stopping <- v7, stopper <- v8, episodes <- v9, saved <- v10, torn <- v11

Inputs == INSTANCE Recorder WITH
  Stoppers <- InputsStop, Pending <- InputsPending, MaxInput <- InputsRows, MaxFrame <- 0,
  MaxEpisode <- 1,
  inputs <- v1, camera <- v2, states <- v3, starter <- v4, active <- v5, threads <- v6,
  stopping <- v7, stopper <- v8, episodes <- v9, saved <- v10, torn <- v11

Twice == INSTANCE Recorder WITH
  Stoppers <- TwiceStop, Pending <- TwicePending, MaxInput <- 0, MaxFrame <- 0,
  MaxEpisode <- TwiceEpisodes,
  inputs <- v1, camera <- v2, states <- v3, starter <- v4, active <- v5, threads <- v6,
  stopping <- v7, stopper <- v8, episodes <- v9, saved <- v10, torn <- v11

Resets == INSTANCE Restart WITH
  Windows <- TRUE, MaxService <- ResetServices, MaxHelper <- ResetHelpers, Starts <- 0,
  svc <- v1, hw <- v2, lock <- v3, ports <- v4, helpers <- v5, dog <- v6, starts <- v7,
  robbed <- v8, late <- v9

ByHand == INSTANCE Restart WITH
  Windows <- TRUE, MaxService <- HandServices, MaxHelper <- HandHelpers, Starts <- HandStarts,
  svc <- v1, hw <- v2, lock <- v3, ports <- v4, helpers <- v5, dog <- v6, starts <- v7,
  robbed <- v8, late <- v9

Posix == INSTANCE Restart WITH
  Windows <- FALSE, MaxService <- PosixServices, MaxHelper <- PosixHelpers, Starts <- PosixStarts,
  svc <- v1, hw <- v2, lock <- v3, ports <- v4, helpers <- v5, dog <- v6, starts <- v7,
  robbed <- v8, late <- v9

Pipe == INSTANCE Rpc WITH
  Channels <- PipeChannels, Calls <- PipeCalls,
  call <- v1, numbers <- v2, holder <- v3, requests <- v4, answers <- v5, serving <- v6,
  process <- v7, ran <- v8, behind <- v9

Pipes == INSTANCE Rpc WITH
  Channels <- PipesChannels, Calls <- PipesCalls,
  call <- v1, numbers <- v2, holder <- v3, requests <- v4, answers <- v5, serving <- v6,
  process <- v7, ran <- v8, behind <- v9

\* A controller that is not found following MIT commands.
AnyButMit == [role : {"follower", "leader", "drag"}, motion : {"other"}, enabled : BOOLEAN,
              latch : BOOLEAN]

Arm == INSTANCE Backend WITH
  Starts <- Found,
  mode <- v1, via <- v2, latched <- v3, cpv <- v4, mit <- v5, auto <- v6, kept <- v7, linked <- v8,
  superseded <- v9, op <- v10, arm <- v11

Solver == INSTANCE Kinematics WITH
  MaxGen <- MaxTarget, MaxEpoch <- MaxMotion,
  client <- v1, ask <- v2, took <- v3, minimum <- v4, mailbox <- v5, latest <- v6, fks <- v7,
  server <- v8, writer <- v9, reader <- v10, asked <- v11, late <- v12

Switch == INSTANCE Output WITH
  Actors <- SwitchActors,
  at <- v1, kind <- v2, mine <- v3, locks <- v4, session <- v5, loop <- v6, out <- v7, arm <- v8,
  auth <- v9, selected <- v10

Takeover == INSTANCE Output WITH
  Actors <- TakeoverActors,
  at <- v1, kind <- v2, mine <- v3, locks <- v4, session <- v5, loop <- v6, out <- v7, arm <- v8,
  auth <- v9, selected <- v10

Cpv == INSTANCE Profile WITH
  Limits <- [name \in {"acc", "dcc", "cv"} |-> "limit"],
  motor <- v1, settling <- v2, late <- v3, running <- v4, defaults <- v5, file <- v6,
  promised <- v7, session <- v8, op <- v9, ops <- v10, starts <- v11

Poses == INSTANCE Feedback WITH
  Fresh <- PosesFresh, Modes <- PosesModes, Jumps <- PosesJumps, MaxNow <- PosesNow,
  MaxSession <- PosesSession,
  now <- v1, offset <- v2, session <- v3, mine <- v4, grip <- v5, value <- v6, feed <- v7,
  gcache <- v8, loop <- v9, snap <- v10

Widths == INSTANCE Feedback WITH
  Fresh <- WidthsFresh, Modes <- WidthsModes, Jumps <- WidthsJumps, MaxNow <- WidthsNow,
  MaxSession <- WidthsSession,
  now <- v1, offset <- v2, session <- v3, mine <- v4, grip <- v5, value <- v6, feed <- v7,
  gcache <- v8, loop <- v9, snap <- v10

ASSUME BoundsAssumption ==
  /\ Plan!TimelineAssumption
  /\ Link!ConnectionAssumption
  /\ Headset!PicoAssumption
  /\ Log!RunCaptureAssumption
  /\ Film!RecorderAssumption
  /\ Inputs!RecorderAssumption
  /\ Twice!RecorderAssumption
  /\ Resets!RestartAssumption
  /\ ByHand!RestartAssumption
  /\ Posix!RestartAssumption
  /\ Pipe!RpcAssumption
  /\ Pipes!RpcAssumption
  /\ Arm!BackendAssumption
  /\ Solver!KinematicsAssumption
  /\ Switch!OutputAssumption
  /\ Takeover!OutputAssumption
  /\ Cpv!ProfileAssumption
  /\ Poses!FeedbackAssumption
  /\ Widths!FeedbackAssumption

Init ==
  \/ part = "timeline" /\ Plan!Init
     /\ v14 = 0
  \/ part = "connection" /\ Link!Init
  \/ part = "headset" /\ Headset!Init
     /\ v9 = 0 /\ v10 = 0 /\ v11 = 0 /\ v12 = 0 /\ v13 = 0 /\ v14 = 0
  \/ part = "log" /\ Log!Init
     /\ v12 = 0 /\ v13 = 0 /\ v14 = 0
  \/ part = "film" /\ Film!Init
     /\ v12 = 0 /\ v13 = 0 /\ v14 = 0
  \/ part = "inputs" /\ Inputs!Init
     /\ v12 = 0 /\ v13 = 0 /\ v14 = 0
  \/ part = "twice" /\ Twice!Init
     /\ v12 = 0 /\ v13 = 0 /\ v14 = 0
  \/ part = "resets" /\ Resets!Init
     /\ v10 = 0 /\ v11 = 0 /\ v12 = 0 /\ v13 = 0 /\ v14 = 0
  \/ part = "byhand" /\ ByHand!Init
     /\ v10 = 0 /\ v11 = 0 /\ v12 = 0 /\ v13 = 0 /\ v14 = 0
  \/ part = "posix" /\ Posix!Init
     /\ v10 = 0 /\ v11 = 0 /\ v12 = 0 /\ v13 = 0 /\ v14 = 0
  \/ part = "pipe" /\ Pipe!Init
     /\ v10 = 0 /\ v11 = 0 /\ v12 = 0 /\ v13 = 0 /\ v14 = 0
  \/ part = "pipes" /\ Pipes!Init
     /\ v10 = 0 /\ v11 = 0 /\ v12 = 0 /\ v13 = 0 /\ v14 = 0
  \/ part = "arm" /\ Arm!Init
     /\ v12 = 0 /\ v13 = 0 /\ v14 = 0
  \/ part = "solver" /\ Solver!Init
     /\ v13 = 0 /\ v14 = 0
  \/ part = "switch" /\ Switch!Init
     /\ v11 = 0 /\ v12 = 0 /\ v13 = 0 /\ v14 = 0
  \/ part = "takeover" /\ Takeover!Init
     /\ v11 = 0 /\ v12 = 0 /\ v13 = 0 /\ v14 = 0
  \/ part = "cpv" /\ Cpv!Init
     /\ v12 = 0 /\ v13 = 0 /\ v14 = 0
  \/ part = "poses" /\ Poses!Init
     /\ v11 = 0 /\ v12 = 0 /\ v13 = 0 /\ v14 = 0
  \/ part = "widths" /\ Widths!Init
     /\ v11 = 0 /\ v12 = 0 /\ v13 = 0 /\ v14 = 0

Next ==
  /\ UNCHANGED part
  /\ \/ part = "timeline" /\ Plan!Next
        /\ UNCHANGED <<v14>>
     \/ part = "connection" /\ Link!Next
     \/ part = "headset" /\ Headset!Next
        /\ UNCHANGED <<v9, v10, v11, v12, v13, v14>>
     \/ part = "log" /\ Log!Next
        /\ UNCHANGED <<v12, v13, v14>>
     \/ part = "film" /\ Film!Next
        /\ UNCHANGED <<v12, v13, v14>>
     \/ part = "inputs" /\ Inputs!Next
        /\ UNCHANGED <<v12, v13, v14>>
     \/ part = "twice" /\ Twice!Next
        /\ UNCHANGED <<v12, v13, v14>>
     \/ part = "resets" /\ Resets!Next
        /\ UNCHANGED <<v10, v11, v12, v13, v14>>
     \/ part = "byhand" /\ ByHand!Next
        /\ UNCHANGED <<v10, v11, v12, v13, v14>>
     \/ part = "posix" /\ Posix!Next
        /\ UNCHANGED <<v10, v11, v12, v13, v14>>
     \/ part = "pipe" /\ Pipe!Next
        /\ UNCHANGED <<v10, v11, v12, v13, v14>>
     \/ part = "pipes" /\ Pipes!Next
        /\ UNCHANGED <<v10, v11, v12, v13, v14>>
     \/ part = "arm" /\ Arm!Next
        /\ UNCHANGED <<v12, v13, v14>>
     \/ part = "solver" /\ Solver!Next
        /\ UNCHANGED <<v13, v14>>
     \/ part = "switch" /\ Switch!Next
        /\ UNCHANGED <<v11, v12, v13, v14>>
     \/ part = "takeover" /\ Takeover!Next
        /\ UNCHANGED <<v11, v12, v13, v14>>
     \/ part = "cpv" /\ Cpv!Next
        /\ UNCHANGED <<v12, v13, v14>>
     \/ part = "poses" /\ Poses!Next
        /\ UNCHANGED <<v11, v12, v13, v14>>
     \/ part = "widths" /\ Widths!Next
        /\ UNCHANGED <<v11, v12, v13, v14>>

Spec == Init /\ [][Next]_vars

\* The types of the state of every component.
TypeOK ==
  /\ part = "timeline" => Plan!TypeOK
  /\ part = "connection" => Link!TypeOK
  /\ part = "headset" => Headset!TypeOK
  /\ part = "log" => Log!TypeOK
  /\ part = "film" => Film!TypeOK
  /\ part = "inputs" => Inputs!TypeOK
  /\ part = "twice" => Twice!TypeOK
  /\ part = "resets" => Resets!TypeOK
  /\ part = "byhand" => ByHand!TypeOK
  /\ part = "posix" => Posix!TypeOK
  /\ part = "pipe" => Pipe!TypeOK
  /\ part = "pipes" => Pipes!TypeOK
  /\ part = "arm" => Arm!TypeOK
  /\ part = "solver" => Solver!TypeOK
  /\ part = "switch" => Switch!TypeOK
  /\ part = "takeover" => Takeover!TypeOK
  /\ part = "cpv" => Cpv!TypeOK
  /\ part = "poses" => Poses!TypeOK
  /\ part = "widths" => Widths!TypeOK

\* What has been sent stands, and an answer in time continues it (Timeline;
\* inference_rtc.py:199-318, 551-630).
PlanContinues == part = "timeline" => Plan!CommittedStands /\ Plan!OnTimeIsSpliced

\* What is published belongs to the configuration in force (Connection; pi05_adapter.py:381-552,
\* 656-682, inference_preview.py:114-208).
InForce ==
  /\ part = "connection" => Link!InForce

\* The anchor and the pose come from the same press of the Grip (Pico; pico_adapter.py:586-930).
SamePress ==
  /\ part = "headset" => Headset!SamePress

\* A Grip seen released, or its tracking lost, ends motion (Pico; pico_adapter.py:586-660).
DeadMan ==
  /\ part = "headset" => Headset!DeadMan

\* What a record that says it is complete holds: the exported log of a run, every event (RunCapture;
\* inference_recording.py:107-204), and an accepted episode, what its producers took in between its
\* start and its end, with the exceptions AcceptedComplete names (Recorder;
\* tcp_vla_dataset_recorder.py:222, 263, 310-336, 419-512, 596-619, 659-745).
RecordsComplete ==
  /\ part = "log" => Log!ExportComplete
  /\ part = "film" => Film!AcceptedComplete
  /\ part = "inputs" => Inputs!AcceptedComplete
  /\ part = "twice" => Twice!AcceptedComplete

\* While a recorder thread runs, its episode is the active one and the files of that episode are
\* open, unless a stop() of an earlier episode has judged it, as two overlapping stop() calls do
\* (Recorder; tcp_vla_dataset_recorder.py:659-682).
ClosedWhenIdle ==
  /\ part = "film" => Film!ClosedWhenIdle
  /\ part = "inputs" => Inputs!ClosedWhenIdle
  /\ part = "twice" => Twice!ClosedWhenIdle

\* One service owns the hardware (Restart; instance_lock.py:22-110,
\* nero_control_server.py:303-506, 1554-1637).
OneOwner ==
  /\ part = "resets" => Resets!OneOwner
  /\ part = "byhand" => ByHand!OneOwner
  /\ part = "posix" => Posix!OneOwner

\* A finished reset leaves a service (Restart; nero_control_server.py:440-506,
\* nero_control_watchdog.py, nero_control_service_restart.py:190-318).
ResetLeavesOne ==
  /\ part = "resets" => Resets!ResetLeavesOne
  /\ part = "byhand" => ByHand!ResetLeavesOne
  /\ part = "posix" => Posix!ResetLeavesOne

\* A caller gets the answer to its own request: of the backend's process (Rpc;
\* nero_control_server.py:99-181, 206-271) and of the solver's (Kinematics; osc.py:395-531,
\* 592-627).
AnswersMatch ==
  /\ part = "pipe" => Pipe!AnswersMatch
  /\ part = "pipes" => Pipes!AnswersMatch
  /\ part = "solver" => Solver!AnswerIsAsked

\* What the backend reports is so: its mode is that of the controller, and a stream that ends gives
\* the SDK's settings back (Backend; robot.py:103-244, 425-544, 964-1171, osc_impedance.py:72-185).
ArmAsReported ==
  /\ part = "arm" => Arm!ModeIsTrue /\ Arm!StreamsReturned

\* The output changes when nothing drives the arm through the old one, and the locks it takes with
\* sessions and handovers are taken in one order (Output; osc.py:1363, 2563-2596,
\* control.py:408-460).
SwitchIsSafe ==
  /\ part = "switch" => Switch!LocksOrdered /\ Switch!SwitchIsClean
  /\ part = "takeover" => Takeover!LocksOrdered /\ Takeover!SwitchIsClean

\* A session runs with the profile it was promised, and what is saved was applied (Profile;
\* control.py:489-616, 618-747, robot.py:1262-1350).
ProfileKept ==
  /\ part = "cpv" => Cpv!ProfileKept

\* What the policy is shown is its session's, and as fresh as it says (Feedback;
\* inference_feedback.py:33-87, inference_gripper_feedback.py:50-85, pi05_adapter.py:554-654).
ObservationIsOwn ==
  /\ part = "poses" => Poses!ObservationIsOwn
  /\ part = "widths" => Widths!ObservationIsOwn
=============================================================================
