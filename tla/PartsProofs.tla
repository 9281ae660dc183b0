---------------------------- MODULE PartsProofs ----------------------------
(***************************************************************************)
(* Properties of MCAdapters that follow from theorems about the components *)
(* it runs side by side (AdapterProofs, RpcProofs): a behaviour of one of  *)
(* its parts is a behaviour of the component, which the proofs know under  *)
(* another name.                                                           *)
(***************************************************************************)
EXTENDS MCAdapters, TLAPS

S == INSTANCE AdapterProofs WITH
  Actors <- SwitchActors,
  Fresh <- PosesFresh, Executions <- PosesModes, Jumps <- PosesJumps, MaxNow <- PosesNow,
  MaxSession <- PosesSession,
  at <- v1, kind <- v2, mine <- v3, locks <- v4, session <- v5, loop <- v6, out <- v7, arm <- v8,
  auth <- v9, selected <- v10,
  conn <- v1, run <- v2, mode <- v3, changing <- v4, active <- v5, policy <- v6, gen <- v7,
  told <- v8, idle <- v9, shown <- v10, worker <- v11, link <- v12, config <- v13, closing <- v14,
  client <- v1, ask <- v2, took <- v3, minimum <- v4, mailbox <- v5, latest <- v6, fks <- v7,
  server <- v8, writer <- v9, reader <- v10, asked <- v11, late <- v12,
  now <- v1, offset <- v2, osc <- v3, own <- v4, grip <- v5, value <- v6, feed <- v7,
  gcache <- v8, states <- v9, snap <- v10,
  Starts <- Found, claimed <- v1, via <- v2, latched <- v3, cpv <- v4, mit <- v5, auto <- v6,
  kept <- v7, linked <- v8, superseded <- v9, op <- v10, ctrl <- v11, hand <- v1,
  gate <- v2, sock <- v3, disp <- v4, work <- v5, http <- v6, pico <- v7, servo <- v8

T == INSTANCE AdapterProofs WITH
  Actors <- TakeoverActors,
  Fresh <- WidthsFresh, Executions <- WidthsModes, Jumps <- WidthsJumps, MaxNow <- WidthsNow,
  MaxSession <- WidthsSession,
  at <- v1, kind <- v2, mine <- v3, locks <- v4, session <- v5, loop <- v6, out <- v7, arm <- v8,
  auth <- v9, selected <- v10,
  conn <- v1, run <- v2, mode <- v3, changing <- v4, active <- v5, policy <- v6, gen <- v7,
  told <- v8, idle <- v9, shown <- v10, worker <- v11, link <- v12, config <- v13, closing <- v14,
  client <- v1, ask <- v2, took <- v3, minimum <- v4, mailbox <- v5, latest <- v6, fks <- v7,
  server <- v8, writer <- v9, reader <- v10, asked <- v11, late <- v12,
  now <- v1, offset <- v2, osc <- v3, own <- v4, grip <- v5, value <- v6, feed <- v7,
  gcache <- v8, states <- v9, snap <- v10,
  Starts <- Found, claimed <- v1, via <- v2, latched <- v3, cpv <- v4, mit <- v5, auto <- v6,
  kept <- v7, linked <- v8, superseded <- v9, op <- v10, ctrl <- v11, hand <- v1,
  gate <- v2, sock <- v3, disp <- v4, work <- v5, http <- v6, pico <- v7, servo <- v8

P == INSTANCE RpcProofs WITH
  Channels <- PipeChannels, Calls <- PipeCalls,
  call <- v1, numbers <- v2, holder <- v3, requests <- v4, answers <- v5, serving <- v6,
  process <- v7, ran <- v8, behind <- v9,
  Windows <- TRUE, MaxService <- ResetServices, MaxHelper <- ResetHelpers, Starts <- 0,
  svc <- v1, hw <- v2, lock <- v3, ports <- v4, helpers <- v5, dog <- v6, starts <- v7,
  robbed <- v8, late <- v9,
  Limits <- [name \in {"acc", "dcc", "cv"} |-> "limit"],
  motor <- v1, settling <- v2, slipped <- v3, running <- v4, defaults <- v5, file <- v6,
  promised <- v7, granted <- v8, op <- v9, ops <- v10, runs <- v11,
  Stoppers <- FilmStop, Pending <- FilmPending, MaxInput <- 0, MaxFrame <- FilmFrames,
  MaxEpisode <- 1,
  inputs <- v1, camera <- v2, states <- v3, starter <- v4, active <- v5, threads <- v6,
  stopping <- v7, stopper <- v8, episodes <- v9, saved <- v10, torn <- v11,
  Emitters <- {}, MaxEvent <- 0,
  emitted <- v1, events <- v2, lost <- v3, closed <- v4, error <- v5, emitter <- v6, sampling <- v7,
  writer <- v8, journal <- v9, finish <- v10, exported <- v11,
  H <- PlanRows, Delay <- PlanDelay, Execute <- PlanExecute, Bridges <- PlanBridges,
  Jitter <- PlanJitter, MaxNow <- PlanNow,
  now <- v1, phase <- v2, failed <- v3, next <- v4, committed <- v5, targets <- v6, history <- v7,
  revision <- v8, context <- v9, due <- v10, bridged <- v11, exec <- v12, started <- v13

Q == INSTANCE RpcProofs WITH
  Channels <- PipesChannels, Calls <- PipesCalls,
  call <- v1, numbers <- v2, holder <- v3, requests <- v4, answers <- v5, serving <- v6,
  process <- v7, ran <- v8, behind <- v9,
  Windows <- TRUE, MaxService <- HandServices, MaxHelper <- HandHelpers, Starts <- HandStarts,
  svc <- v1, hw <- v2, lock <- v3, ports <- v4, helpers <- v5, dog <- v6, starts <- v7,
  robbed <- v8, late <- v9,
  Limits <- [name \in {"acc", "dcc", "cv"} |-> "limit"],
  motor <- v1, settling <- v2, slipped <- v3, running <- v4, defaults <- v5, file <- v6,
  promised <- v7, granted <- v8, op <- v9, ops <- v10, runs <- v11,
  Stoppers <- InputsStop, Pending <- InputsPending, MaxInput <- InputsRows, MaxFrame <- 0,
  MaxEpisode <- 1,
  inputs <- v1, camera <- v2, states <- v3, starter <- v4, active <- v5, threads <- v6,
  stopping <- v7, stopper <- v8, episodes <- v9, saved <- v10, torn <- v11,
  Emitters <- {}, MaxEvent <- 0,
  emitted <- v1, events <- v2, lost <- v3, closed <- v4, error <- v5, emitter <- v6, sampling <- v7,
  writer <- v8, journal <- v9, finish <- v10, exported <- v11,
  H <- PlanRows, Delay <- PlanDelay, Execute <- PlanExecute, Bridges <- PlanBridges,
  Jitter <- PlanJitter, MaxNow <- PlanNow,
  now <- v1, phase <- v2, failed <- v3, next <- v4, committed <- v5, targets <- v6, history <- v7,
  revision <- v8, context <- v9, due <- v10, bridged <- v11, exec <- v12, started <- v13

U == INSTANCE RpcProofs WITH
  Channels <- PipesChannels, Calls <- PipesCalls,
  call <- v1, numbers <- v2, holder <- v3, requests <- v4, answers <- v5, serving <- v6,
  process <- v7, ran <- v8, behind <- v9,
  Windows <- FALSE, MaxService <- PosixServices, MaxHelper <- PosixHelpers, Starts <- PosixStarts,
  svc <- v1, hw <- v2, lock <- v3, ports <- v4, helpers <- v5, dog <- v6, starts <- v7,
  robbed <- v8, late <- v9,
  Limits <- [name \in {"acc", "dcc", "cv"} |-> "limit"],
  motor <- v1, settling <- v2, slipped <- v3, running <- v4, defaults <- v5, file <- v6,
  promised <- v7, granted <- v8, op <- v9, ops <- v10, runs <- v11,
  Stoppers <- TwiceStop, Pending <- TwicePending, MaxInput <- 0, MaxFrame <- 0,
  MaxEpisode <- TwiceEpisodes,
  inputs <- v1, camera <- v2, states <- v3, starter <- v4, active <- v5, threads <- v6,
  stopping <- v7, stopper <- v8, episodes <- v9, saved <- v10, torn <- v11,
  Emitters <- {}, MaxEvent <- 0,
  emitted <- v1, events <- v2, lost <- v3, closed <- v4, error <- v5, emitter <- v6, sampling <- v7,
  writer <- v8, journal <- v9, finish <- v10, exported <- v11,
  H <- PlanRows, Delay <- PlanDelay, Execute <- PlanExecute, Bridges <- PlanBridges,
  Jitter <- PlanJitter, MaxNow <- PlanNow,
  now <- v1, phase <- v2, failed <- v3, next <- v4, committed <- v5, targets <- v6, history <- v7,
  revision <- v8, context <- v9, due <- v10, bridged <- v11, exec <- v12, started <- v13

-----------------------------------------------------------------------------
\* A selection of the output while sessions start and are handed over.

LEMMA SwitchSame ==
  /\ Switch!Init <=> S!O!Init
  /\ Switch!Next <=> S!O!Next
  /\ Switch!OutputAssumption <=> S!O!OutputAssumption
  /\ Switch!LocksOrdered <=> S!O!LocksOrdered
  /\ Switch!SwitchIsClean <=> S!O!SwitchIsClean
<1>1. Switch!Init <=> S!O!Init
  BY Zenon DEF Switch!Init, S!O!Init
<1>2. Switch!Next <=> S!O!Next
  BY Zenon DEF Switch!Next, Switch!Begin, Switch!End, Switch!StopSignal, Switch!ExitBegin,
      Switch!ExitOk, Switch!ExitFails, Switch!Lock, Switch!Verdict, Switch!StopJoin, Switch!Quiet,
      Switch!Promote, Switch!Call, Switch!Guard, Switch!Save, Switch!StartSession,
      Switch!Starting, Switch!Prepare, Switch!Prime, Switch!Grant, Switch!Activate, Switch!Abort,
      Switch!LoopEnds, Switch!LoopHolds, Switch!LoopFaults, Switch!FaultTakes, Switch!FaultEnds,
      Switch!Goes, Switch!Dropped, Switch!Opens, Switch!Owns, Switch!Stopped, Switch!Take,
      Switch!WaitsFor, Switch!Allowed, Switch!SelectLocks, S!O!Next, S!O!Begin, S!O!End,
      S!O!StopSignal, S!O!ExitBegin, S!O!ExitOk, S!O!ExitFails, S!O!Lock, S!O!Verdict,
      S!O!StopJoin, S!O!Quiet, S!O!Promote, S!O!Call, S!O!Guard, S!O!Save, S!O!StartSession,
      S!O!Starting, S!O!Prepare, S!O!Prime, S!O!Grant, S!O!Activate, S!O!Abort, S!O!LoopEnds,
      S!O!LoopHolds, S!O!LoopFaults, S!O!FaultTakes, S!O!FaultEnds, S!O!Goes, S!O!Dropped,
      S!O!Opens, S!O!Owns, S!O!Stopped, S!O!Take, S!O!WaitsFor, S!O!Allowed, S!O!SelectLocks
<1>3. Switch!OutputAssumption <=> S!O!OutputAssumption
  BY Zenon DEF Switch!OutputAssumption, S!O!OutputAssumption
<1>4. Switch!LocksOrdered <=> S!O!LocksOrdered
  BY Zenon DEF Switch!LocksOrdered, Switch!WaitsFor, Switch!SelectLocks, S!O!LocksOrdered,
      S!O!WaitsFor, S!O!SelectLocks
<1>5. Switch!SwitchIsClean <=> S!O!SwitchIsClean
  BY Zenon DEF Switch!SwitchIsClean, S!O!SwitchIsClean
<1> QED
  BY <1>1, <1>2, <1>3, <1>4, <1>5

LEMMA SwitchPart ==
  Spec => [](part = "switch" => Switch!LocksOrdered /\ Switch!SwitchIsClean)
<1>1. S!O!Spec => [](Switch!LocksOrdered /\ Switch!SwitchIsClean)
  BY BoundsAssumption, SwitchSame, S!LocksNeverCross, S!SwitchesAreClean, PTL
<1>2. part = "switch" /\ Init => S!O!Init
  BY SwitchSame DEF Init
<1>3. [Next]_vars => /\ (part = "switch")' <=> part = "switch"
                     /\ part = "switch" => [S!O!Next]_(S!O!vars)
  <2>1. Next => part' = part /\ (part = "switch" => S!O!Next)
    BY SwitchSame DEF Next
  <2>2. UNCHANGED vars => part' = part /\ UNCHANGED S!O!vars
    BY DEF vars, S!O!vars
  <2> QED
    BY <2>1, <2>2
<1> QED
  BY <1>1, <1>2, <1>3, PTL DEF Spec, S!O!Spec

-----------------------------------------------------------------------------
\* A selection of the output while sessions start and are stopped.

LEMMA TakeoverSame ==
  /\ Takeover!Init <=> T!O!Init
  /\ Takeover!Next <=> T!O!Next
  /\ Takeover!OutputAssumption <=> T!O!OutputAssumption
  /\ Takeover!LocksOrdered <=> T!O!LocksOrdered
  /\ Takeover!SwitchIsClean <=> T!O!SwitchIsClean
<1>1. Takeover!Init <=> T!O!Init
  BY Zenon DEF Takeover!Init, T!O!Init
<1>2. Takeover!Next <=> T!O!Next
  BY Zenon DEF Takeover!Next, Takeover!Begin, Takeover!End, Takeover!StopSignal,
      Takeover!ExitBegin, Takeover!ExitOk, Takeover!ExitFails, Takeover!Lock, Takeover!Verdict,
      Takeover!StopJoin, Takeover!Quiet, Takeover!Promote, Takeover!Call, Takeover!Guard,
      Takeover!Save, Takeover!StartSession, Takeover!Starting, Takeover!Prepare, Takeover!Prime,
      Takeover!Grant, Takeover!Activate, Takeover!Abort, Takeover!LoopEnds, Takeover!LoopHolds,
      Takeover!LoopFaults, Takeover!FaultTakes, Takeover!FaultEnds, Takeover!Goes,
      Takeover!Dropped, Takeover!Opens, Takeover!Owns, Takeover!Stopped, Takeover!Take,
      Takeover!WaitsFor, Takeover!Allowed, Takeover!SelectLocks, T!O!Next, T!O!Begin, T!O!End,
      T!O!StopSignal, T!O!ExitBegin, T!O!ExitOk, T!O!ExitFails, T!O!Lock, T!O!Verdict,
      T!O!StopJoin, T!O!Quiet, T!O!Promote, T!O!Call, T!O!Guard, T!O!Save, T!O!StartSession,
      T!O!Starting, T!O!Prepare, T!O!Prime, T!O!Grant, T!O!Activate, T!O!Abort, T!O!LoopEnds,
      T!O!LoopHolds, T!O!LoopFaults, T!O!FaultTakes, T!O!FaultEnds, T!O!Goes, T!O!Dropped,
      T!O!Opens, T!O!Owns, T!O!Stopped, T!O!Take, T!O!WaitsFor, T!O!Allowed, T!O!SelectLocks
<1>3. Takeover!OutputAssumption <=> T!O!OutputAssumption
  BY Zenon DEF Takeover!OutputAssumption, T!O!OutputAssumption
<1>4. Takeover!LocksOrdered <=> T!O!LocksOrdered
  BY Zenon DEF Takeover!LocksOrdered, Takeover!WaitsFor, Takeover!SelectLocks, T!O!LocksOrdered,
      T!O!WaitsFor, T!O!SelectLocks
<1>5. Takeover!SwitchIsClean <=> T!O!SwitchIsClean
  BY Zenon DEF Takeover!SwitchIsClean, T!O!SwitchIsClean
<1> QED
  BY <1>1, <1>2, <1>3, <1>4, <1>5

LEMMA TakeoverPart ==
  Spec => [](part = "takeover" => Takeover!LocksOrdered /\ Takeover!SwitchIsClean)
<1>1. T!O!Spec => [](Takeover!LocksOrdered /\ Takeover!SwitchIsClean)
  BY BoundsAssumption, TakeoverSame, T!LocksNeverCross, T!SwitchesAreClean, PTL
<1>2. part = "takeover" /\ Init => T!O!Init
  BY TakeoverSame DEF Init
<1>3. [Next]_vars => /\ (part = "takeover")' <=> part = "takeover"
                     /\ part = "takeover" => [T!O!Next]_(T!O!vars)
  <2>1. Next => part' = part /\ (part = "takeover" => T!O!Next)
    BY TakeoverSame DEF Next
  <2>2. UNCHANGED vars => part' = part /\ UNCHANGED T!O!vars
    BY DEF vars, T!O!vars
  <2> QED
    BY <2>1, <2>2
<1> QED
  BY <1>1, <1>2, <1>3, PTL DEF Spec, T!O!Spec

-----------------------------------------------------------------------------
\* The policy's connection.

LEMMA LinkSame ==
  /\ Link!Init <=> S!C!Init
  /\ Link!Next <=> S!C!Next
  /\ Link!ConnectionAssumption <=> S!C!ConnectionAssumption
  /\ Link!InForce <=> S!C!InForce
<1>1. Link!Init <=> S!C!Init
  BY Zenon DEF Link!Init, Link!NoClient, Link!Dead, S!C!Init, S!C!NoClient, S!C!Dead
<1>2. Link!Next <=> S!C!Next
  BY Zenon DEF Link!Next, Link!ConfigBegin, Link!ConfigEnd, Link!ConfigEnsure, Link!StartRun,
      Link!StopRun, Link!WorkerBegin, Link!WorkerEnd, Link!Preview, Link!PreviewClient,
      Link!PreviewAsk, Link!PreviewInfer, Link!PreviewDrop, Link!PreviewPublish, Link!LinkRead,
      Link!LinkFail, Link!LinkPublish, Link!LinkEnsure, Link!LinkPing, Link!CloseBegin,
      Link!CloseLink, Link!CloseEnd, Link!Rest, Link!NoClient, Link!EnsureWorker, Link!Alive,
      Link!Dead, Link!At, Link!Current, Link!Invalidate, Link!LinkOpen, Link!LinkPublishes,
      Link!vars, S!C!Next, S!C!ConfigBegin, S!C!ConfigEnd, S!C!ConfigEnsure, S!C!StartRun,
      S!C!StopRun, S!C!WorkerBegin, S!C!WorkerEnd, S!C!Preview, S!C!PreviewClient, S!C!PreviewAsk,
      S!C!PreviewInfer, S!C!PreviewDrop, S!C!PreviewPublish, S!C!LinkRead, S!C!LinkFail,
      S!C!LinkPublish, S!C!LinkEnsure, S!C!LinkPing, S!C!CloseBegin, S!C!CloseLink, S!C!CloseEnd,
      S!C!Rest, S!C!NoClient, S!C!EnsureWorker, S!C!Alive, S!C!Dead, S!C!At, S!C!Current,
      S!C!Invalidate, S!C!LinkOpen, S!C!LinkPublishes, S!C!vars
<1>3. Link!ConnectionAssumption <=> S!C!ConnectionAssumption
  BY Zenon DEF Link!ConnectionAssumption, S!C!ConnectionAssumption
<1>4. Link!InForce <=> S!C!InForce
  BY Zenon DEF Link!InForce, Link!NoClient, Link!Alive, S!C!InForce, S!C!NoClient, S!C!Alive
<1> QED
  BY <1>1, <1>2, <1>3, <1>4

LEMMA LinkPart ==
  Spec => [](part = "connection" => Link!InForce)
<1>1. S!C!Spec => [](Link!InForce)
  BY BoundsAssumption, LinkSame, S!ConnectionInForce, PTL
<1>2. part = "connection" /\ Init => S!C!Init
  BY LinkSame DEF Init
<1>3. [Next]_vars => /\ (part = "connection")' <=> part = "connection"
                     /\ part = "connection" => [S!C!Next]_(S!C!vars)
  <2>1. Next => part' = part /\ (part = "connection" => S!C!Next)
    BY LinkSame DEF Next
  <2>2. UNCHANGED vars => part' = part /\ UNCHANGED S!C!vars
    BY DEF vars, S!C!vars
  <2> QED
    BY <2>1, <2>2
<1> QED
  BY <1>1, <1>2, <1>3, PTL DEF Spec, S!C!Spec

-----------------------------------------------------------------------------
\* The solver's process and its client.

LEMMA SolverSame ==
  /\ Solver!Init <=> S!K!Init
  /\ Solver!Next <=> S!K!Next
  /\ Solver!KinematicsAssumption <=> S!K!KinematicsAssumption
  /\ Solver!AnswerIsAsked <=> S!K!AnswerIsAsked
<1>1. Solver!Init <=> S!K!Init
  BY Zenon DEF Solver!Init, Solver!NoRequest, Solver!NoCall, Solver!Processes, Solver!Off,
      Solver!Idle, S!K!Init, S!K!NoRequest, S!K!NoCall, S!K!Processes, S!K!Off, S!K!Idle
<1>2. Solver!Next <=> S!K!Next
  BY Zenon DEF Solver!Next, Solver!StartSession, Solver!StopSession, Solver!Close,
      Solver!CloseDrain, Solver!Intent, Solver!Freeze, Solver!Ask, Solver!AskFk,
      Solver!AskRestarts, Solver!Take, Solver!Discard, Solver!TakeFk, Solver!Timeout,
      Solver!Processes, Solver!WriterGet, Solver!WriterWrite, Solver!WriterEnd, Solver!ReaderLine,
      Solver!ReaderPut, Solver!ReaderEnd, Solver!Receive, Solver!Solve, Solver!Reply,
      Solver!Crash, Solver!Emptied, Solver!NoRequest, Solver!Killed, Solver!Pill, Solver!Working,
      Solver!Alive, Solver!IsAnswer, Solver!Idle, S!K!Next, S!K!StartSession, S!K!StopSession,
      S!K!Close, S!K!CloseDrain, S!K!Intent, S!K!Freeze, S!K!Ask, S!K!AskFk, S!K!AskRestarts,
      S!K!Take, S!K!Discard, S!K!TakeFk, S!K!Timeout, S!K!Processes, S!K!WriterGet,
      S!K!WriterWrite, S!K!WriterEnd, S!K!ReaderLine, S!K!ReaderPut, S!K!ReaderEnd, S!K!Receive,
      S!K!Solve, S!K!Reply, S!K!Crash, S!K!Emptied, S!K!NoRequest, S!K!Killed, S!K!Pill,
      S!K!Working, S!K!Alive, S!K!IsAnswer, S!K!Idle
<1>3. Solver!KinematicsAssumption <=> S!K!KinematicsAssumption
  BY Zenon DEF Solver!KinematicsAssumption, S!K!KinematicsAssumption
<1>4. Solver!AnswerIsAsked <=> S!K!AnswerIsAsked
  BY Zenon DEF Solver!AnswerIsAsked, S!K!AnswerIsAsked
<1> QED
  BY <1>1, <1>2, <1>3, <1>4

LEMMA SolverPart ==
  Spec => [](part = "solver" => Solver!AnswerIsAsked)
<1>1. S!K!Spec => [](Solver!AnswerIsAsked)
  BY BoundsAssumption, SolverSame, S!AnswersAreAsked, PTL
<1>2. part = "solver" /\ Init => S!K!Init
  BY SolverSame DEF Init
<1>3. [Next]_vars => /\ (part = "solver")' <=> part = "solver"
                     /\ part = "solver" => [S!K!Next]_(S!K!vars)
  <2>1. Next => part' = part /\ (part = "solver" => S!K!Next)
    BY SolverSame DEF Next
  <2>2. UNCHANGED vars => part' = part /\ UNCHANGED S!K!vars
    BY DEF vars, S!K!vars
  <2> QED
    BY <2>1, <2>2
<1> QED
  BY <1>1, <1>2, <1>3, PTL DEF Spec, S!K!Spec

-----------------------------------------------------------------------------
\* Calls into the backend's process.

LEMMA PipeSame ==
  /\ Pipe!Init <=> P!Init
  /\ Pipe!Next <=> P!Next
  /\ Pipe!RpcAssumption <=> P!RpcAssumption
  /\ Pipe!AnswersMatch <=> P!AnswersMatch
<1>1. Pipe!Init <=> P!Init
  BY Zenon DEF Pipe!Init, Pipe!NoOutcome, Pipe!NoRequest, P!Init, P!NoOutcome, P!NoRequest
<1>2. Pipe!Next <=> P!Next
  BY Zenon DEF Pipe!Next, Pipe!Begin, Pipe!Lock, Pipe!Receive, Pipe!GiveUp, Pipe!Serve,
      Pipe!Answer, Pipe!Leave, Pipe!Die, Pipe!Unavailable, Pipe!Outcome, Pipe!Free,
      Pipe!NoRequest, P!Next, P!Begin, P!Lock, P!Receive, P!GiveUp, P!Serve, P!Answer, P!Leave,
      P!Die, P!Unavailable, P!Outcome, P!Free, P!NoRequest
<1>3. Pipe!RpcAssumption <=> P!RpcAssumption
  BY Zenon DEF Pipe!RpcAssumption, P!RpcAssumption
<1>4. Pipe!AnswersMatch <=> P!AnswersMatch
  BY Zenon DEF Pipe!AnswersMatch, P!AnswersMatch
<1> QED
  BY <1>1, <1>2, <1>3, <1>4

LEMMA PipePart ==
  Spec => [](part = "pipe" => Pipe!AnswersMatch)
<1>1. P!Spec => [](Pipe!AnswersMatch)
  BY BoundsAssumption, PipeSame, P!AnswersAreOwn, PTL
<1>2. part = "pipe" /\ Init => P!Init
  BY PipeSame DEF Init
<1>3. [Next]_vars => /\ (part = "pipe")' <=> part = "pipe"
                     /\ part = "pipe" => [P!Next]_(P!vars)
  <2>1. Next => part' = part /\ (part = "pipe" => P!Next)
    BY PipeSame DEF Next
  <2>2. UNCHANGED vars => part' = part /\ UNCHANGED P!vars
    BY DEF vars, P!vars
  <2> QED
    BY <2>1, <2>2
<1> QED
  BY <1>1, <1>2, <1>3, PTL DEF Spec, P!Spec

-----------------------------------------------------------------------------
\* Calls of several channels.

LEMMA PipesSame ==
  /\ Pipes!Init <=> Q!Init
  /\ Pipes!Next <=> Q!Next
  /\ Pipes!RpcAssumption <=> Q!RpcAssumption
  /\ Pipes!AnswersMatch <=> Q!AnswersMatch
<1>1. Pipes!Init <=> Q!Init
  BY Zenon DEF Pipes!Init, Pipes!NoOutcome, Pipes!NoRequest, Q!Init, Q!NoOutcome, Q!NoRequest
<1>2. Pipes!Next <=> Q!Next
  BY Zenon DEF Pipes!Next, Pipes!Begin, Pipes!Lock, Pipes!Receive, Pipes!GiveUp, Pipes!Serve,
      Pipes!Answer, Pipes!Leave, Pipes!Die, Pipes!Unavailable, Pipes!Outcome, Pipes!Free,
      Pipes!NoRequest, Q!Next, Q!Begin, Q!Lock, Q!Receive, Q!GiveUp, Q!Serve, Q!Answer, Q!Leave,
      Q!Die, Q!Unavailable, Q!Outcome, Q!Free, Q!NoRequest
<1>3. Pipes!RpcAssumption <=> Q!RpcAssumption
  BY Zenon DEF Pipes!RpcAssumption, Q!RpcAssumption
<1>4. Pipes!AnswersMatch <=> Q!AnswersMatch
  BY Zenon DEF Pipes!AnswersMatch, Q!AnswersMatch
<1> QED
  BY <1>1, <1>2, <1>3, <1>4

LEMMA PipesPart ==
  Spec => [](part = "pipes" => Pipes!AnswersMatch)
<1>1. Q!Spec => [](Pipes!AnswersMatch)
  BY BoundsAssumption, PipesSame, Q!AnswersAreOwn, PTL
<1>2. part = "pipes" /\ Init => Q!Init
  BY PipesSame DEF Init
<1>3. [Next]_vars => /\ (part = "pipes")' <=> part = "pipes"
                     /\ part = "pipes" => [Q!Next]_(Q!vars)
  <2>1. Next => part' = part /\ (part = "pipes" => Q!Next)
    BY PipesSame DEF Next
  <2>2. UNCHANGED vars => part' = part /\ UNCHANGED Q!vars
    BY DEF vars, Q!vars
  <2> QED
    BY <2>1, <2>2
<1> QED
  BY <1>1, <1>2, <1>3, PTL DEF Spec, Q!Spec

-----------------------------------------------------------------------------
\* What the policy is shown, poses of two sessions.

LEMMA PosesSame ==
  /\ Poses!Init <=> S!F!Init
  /\ Poses!Next <=> S!F!Next
  /\ Poses!FeedbackAssumption <=> S!F!FeedbackAssumption
  /\ Poses!ObservationIsOwn <=> S!F!ObservationIsOwn
<1>1. Poses!Init <=> S!F!Init
  BY Zenon DEF Poses!Init, Poses!NoSession, Poses!NoFrame, Poses!NoValue, Poses!Waiting,
      Poses!Empty, Poses!NoObs, Poses!NoGrip, S!F!Init, S!F!NoSession, S!F!NoFrame, S!F!NoValue,
      S!F!Waiting, S!F!Empty, S!F!NoObs, S!F!NoGrip
<1>2. Poses!Next <=> S!F!Next
  BY Zenon DEF Poses!Next, Poses!Tick, Poses!Jump, Poses!Sense, Poses!Session, Poses!FeedContext,
      Poses!FeedRefresh, Poses!FeedStore, Poses!Fetch, Poses!Publish, Poses!world, Poses!Waiting,
      Poses!Observation, Poses!AfterFailure, Poses!Attached, Poses!Empty, Poses!NoSession,
      Poses!NoFrame, Poses!Refreshed, Poses!Within, Poses!NoValue, Poses!NoObs, Poses!NoGrip,
      S!F!Next, S!F!Tick, S!F!Jump, S!F!Sense, S!F!Session, S!F!FeedContext, S!F!FeedRefresh,
      S!F!FeedStore, S!F!Fetch, S!F!Publish, S!F!world, S!F!Waiting, S!F!Observation,
      S!F!AfterFailure, S!F!Attached, S!F!Empty, S!F!NoSession, S!F!NoFrame, S!F!Refreshed,
      S!F!Within, S!F!NoValue, S!F!NoObs, S!F!NoGrip
<1>3. Poses!FeedbackAssumption <=> S!F!FeedbackAssumption
  BY Zenon DEF Poses!FeedbackAssumption, S!F!FeedbackAssumption
<1>4. Poses!ObservationIsOwn <=> S!F!ObservationIsOwn
  BY Zenon DEF Poses!ObservationIsOwn, Poses!PoseIsOwn, Poses!GripperIsFresh, Poses!Usable,
      Poses!Shown, Poses!NoObs, Poses!Within, Poses!Attached, Poses!NoSession,
      S!F!ObservationIsOwn, S!F!PoseIsOwn, S!F!GripperIsFresh, S!F!Usable, S!F!Shown, S!F!NoObs,
      S!F!Within, S!F!Attached, S!F!NoSession
<1> QED
  BY <1>1, <1>2, <1>3, <1>4

LEMMA PosesPart ==
  Spec => [](part = "poses" => Poses!ObservationIsOwn)
<1>1. S!F!Spec => [](Poses!ObservationIsOwn)
  BY BoundsAssumption, PosesSame, S!ShownToThePolicy, PTL
<1>2. part = "poses" /\ Init => S!F!Init
  BY PosesSame DEF Init
<1>3. [Next]_vars => /\ (part = "poses")' <=> part = "poses"
                     /\ part = "poses" => [S!F!Next]_(S!F!vars)
  <2>1. Next => part' = part /\ (part = "poses" => S!F!Next)
    BY PosesSame DEF Next
  <2>2. UNCHANGED vars => part' = part /\ UNCHANGED S!F!vars
    BY DEF vars, S!F!vars
  <2> QED
    BY <2>1, <2>2
<1> QED
  BY <1>1, <1>2, <1>3, PTL DEF Spec, S!F!Spec

-----------------------------------------------------------------------------
\* What the policy is shown, widths while the clock is set.

LEMMA WidthsSame ==
  /\ Widths!Init <=> T!F!Init
  /\ Widths!Next <=> T!F!Next
  /\ Widths!FeedbackAssumption <=> T!F!FeedbackAssumption
  /\ Widths!ObservationIsOwn <=> T!F!ObservationIsOwn
<1>1. Widths!Init <=> T!F!Init
  BY Zenon DEF Widths!Init, Widths!NoSession, Widths!NoFrame, Widths!NoValue, Widths!Waiting,
      Widths!Empty, Widths!NoObs, Widths!NoGrip, T!F!Init, T!F!NoSession, T!F!NoFrame,
      T!F!NoValue, T!F!Waiting, T!F!Empty, T!F!NoObs, T!F!NoGrip
<1>2. Widths!Next <=> T!F!Next
  BY Zenon DEF Widths!Next, Widths!Tick, Widths!Jump, Widths!Sense, Widths!Session,
      Widths!FeedContext, Widths!FeedRefresh, Widths!FeedStore, Widths!Fetch, Widths!Publish,
      Widths!world, Widths!Waiting, Widths!Observation, Widths!AfterFailure, Widths!Attached,
      Widths!Empty, Widths!NoSession, Widths!NoFrame, Widths!Refreshed, Widths!Within,
      Widths!NoValue, Widths!NoObs, Widths!NoGrip, T!F!Next, T!F!Tick, T!F!Jump, T!F!Sense,
      T!F!Session, T!F!FeedContext, T!F!FeedRefresh, T!F!FeedStore, T!F!Fetch, T!F!Publish,
      T!F!world, T!F!Waiting, T!F!Observation, T!F!AfterFailure, T!F!Attached, T!F!Empty,
      T!F!NoSession, T!F!NoFrame, T!F!Refreshed, T!F!Within, T!F!NoValue, T!F!NoObs, T!F!NoGrip
<1>3. Widths!FeedbackAssumption <=> T!F!FeedbackAssumption
  BY Zenon DEF Widths!FeedbackAssumption, T!F!FeedbackAssumption
<1>4. Widths!ObservationIsOwn <=> T!F!ObservationIsOwn
  BY Zenon DEF Widths!ObservationIsOwn, Widths!PoseIsOwn, Widths!GripperIsFresh, Widths!Usable,
      Widths!Shown, Widths!NoObs, Widths!Within, Widths!Attached, Widths!NoSession,
      T!F!ObservationIsOwn, T!F!PoseIsOwn, T!F!GripperIsFresh, T!F!Usable, T!F!Shown, T!F!NoObs,
      T!F!Within, T!F!Attached, T!F!NoSession
<1> QED
  BY <1>1, <1>2, <1>3, <1>4

LEMMA WidthsPart ==
  Spec => [](part = "widths" => Widths!ObservationIsOwn)
<1>1. T!F!Spec => [](Widths!ObservationIsOwn)
  BY BoundsAssumption, WidthsSame, T!ShownToThePolicy, PTL
<1>2. part = "widths" /\ Init => T!F!Init
  BY WidthsSame DEF Init
<1>3. [Next]_vars => /\ (part = "widths")' <=> part = "widths"
                     /\ part = "widths" => [T!F!Next]_(T!F!vars)
  <2>1. Next => part' = part /\ (part = "widths" => T!F!Next)
    BY WidthsSame DEF Next
  <2>2. UNCHANGED vars => part' = part /\ UNCHANGED T!F!vars
    BY DEF vars, T!F!vars
  <2> QED
    BY <2>1, <2>2
<1> QED
  BY <1>1, <1>2, <1>3, PTL DEF Spec, T!F!Spec

-----------------------------------------------------------------------------
\* The robot backend and the motion controller.

LEMMA ArmSame ==
  /\ Arm!Init <=> S!B!Init
  /\ Arm!Next <=> S!B!Next
  /\ Arm!BackendAssumption <=> S!B!BackendAssumption
  /\ Arm!ModeIsTrue <=> S!B!ModeIsTrue
  /\ Arm!StreamsReturned <=> S!B!StreamsReturned
<1>1. Arm!Init <=> S!B!Init
  BY Zenon DEF Arm!Init, Arm!Runs, Arm!Idle, S!B!Init, S!B!Runs, S!B!Idle
<1>2. Arm!Next <=> S!B!Next
  BY Zenon DEF Arm!Next, Arm!Connect, Arm!Preempt, Arm!ExitAsk, Arm!ExitDone, Arm!ExitFail,
      Arm!Exit, Arm!Disconnect, Arm!Drop, Arm!Stop, Arm!Send, Arm!SendEntered, Arm!SendFail,
      Arm!Enter, Arm!EnterAsk, Arm!EnterDone, Arm!EnterFail, Arm!Hold, Arm!HoldStream,
      Arm!HoldRole, Arm!HoldDrag, Arm!HoldDone, Arm!HoldFail, Arm!Freedrive, Arm!FreedriveAsk,
      Arm!FreedriveDone, Arm!FreedriveFail, Arm!RecoverReset, Arm!RecoverLead, Arm!RecoverEnable,
      Arm!RecoverFail, Arm!EStop, Arm!At, Arm!Connected, Arm!Return, Arm!Goto, Arm!Told,
      Arm!Ready, Arm!Runs, Arm!Quiet, Arm!Enabled, Arm!Failed, Arm!Idle, S!B!Next, S!B!Connect,
      S!B!Preempt, S!B!ExitAsk, S!B!ExitDone, S!B!ExitFail, S!B!Exit, S!B!Disconnect, S!B!Drop,
      S!B!Stop, S!B!Send, S!B!SendEntered, S!B!SendFail, S!B!Enter, S!B!EnterAsk, S!B!EnterDone,
      S!B!EnterFail, S!B!Hold, S!B!HoldStream, S!B!HoldRole, S!B!HoldDrag, S!B!HoldDone,
      S!B!HoldFail, S!B!Freedrive, S!B!FreedriveAsk, S!B!FreedriveDone, S!B!FreedriveFail,
      S!B!RecoverReset, S!B!RecoverLead, S!B!RecoverEnable, S!B!RecoverFail, S!B!EStop, S!B!At,
      S!B!Connected, S!B!Return, S!B!Goto, S!B!Told, S!B!Ready, S!B!Runs, S!B!Quiet, S!B!Enabled,
      S!B!Failed, S!B!Idle
<1>3. Arm!BackendAssumption <=> S!B!BackendAssumption
  BY Zenon DEF Arm!BackendAssumption, Arm!Arms, Arm!Roles, Arm!Motions, S!B!BackendAssumption,
      S!B!Arms, S!B!Roles, S!B!Motions
<1>4. Arm!ModeIsTrue <=> S!B!ModeIsTrue
  BY Zenon DEF Arm!ModeIsTrue, Arm!Ready, Arm!Idle, S!B!ModeIsTrue, S!B!Ready, S!B!Idle
<1>5. Arm!StreamsReturned <=> S!B!StreamsReturned
  BY Zenon DEF Arm!StreamsReturned, Arm!Ready, Arm!Idle, S!B!StreamsReturned, S!B!Ready, S!B!Idle
<1> QED
  BY <1>1, <1>2, <1>3, <1>4, <1>5

LEMMA ArmPart ==
  Spec => [](part = "arm" => Arm!ModeIsTrue /\ Arm!StreamsReturned)
<1>1. S!B!Spec => [](Arm!ModeIsTrue /\ Arm!StreamsReturned)
  BY BoundsAssumption, ArmSame, S!ArmIsAsReported, PTL
<1>2. part = "arm" /\ Init => S!B!Init
  BY ArmSame DEF Init
<1>3. [Next]_vars => /\ (part = "arm")' <=> part = "arm"
                     /\ part = "arm" => [S!B!Next]_(S!B!vars)
  <2>1. Next => part' = part /\ (part = "arm" => S!B!Next)
    BY ArmSame DEF Next
  <2>2. UNCHANGED vars => part' = part /\ UNCHANGED S!B!vars
    BY DEF vars, S!B!vars
  <2> QED
    BY <2>1, <2>2
<1> QED
  BY <1>1, <1>2, <1>3, PTL DEF Spec, S!B!Spec

-----------------------------------------------------------------------------
\* The headset.

LEMMA HeadsetSame ==
  /\ Headset!Init <=> S!H!Init
  /\ Headset!Next <=> S!H!Next
  /\ Headset!PicoAssumption <=> S!H!PicoAssumption
  /\ Headset!SamePress <=> S!H!SamePress
  /\ Headset!DeadMan <=> S!H!DeadMan
<1>1. Headset!Init <=> S!H!Init
  BY Zenon DEF Headset!Init, Headset!Blank, Headset!NoRequest, Headset!NoAnchor, Headset!Zero,
      S!H!Init, S!H!Blank, S!H!NoRequest, S!H!NoAnchor, S!H!Zero
<1>2. Headset!Next <=> S!H!Next
  BY Zenon DEF Headset!Next, Headset!OscStart, Headset!OscEnd, Headset!OscSettle, Headset!Http,
      Headset!Serve, Headset!Process, Headset!ConnectBegin, Headset!DisconnectBegin,
      Headset!Connect, Headset!Disconnect, Headset!Unbind, Headset!ResetBegin, Headset!ResetRead,
      Headset!ResetMake, Headset!Accept, Headset!Install, Headset!Receive, Headset!Leave,
      Headset!Close, Headset!Lose, Headset!Take, Headset!InputFrame, Headset!Stop,
      Headset!AnchorRead, Headset!AnchorMake, Headset!PoseRead, Headset!Track, Headset!Limit,
      Headset!Detach, Headset!Unheld, Headset!NoRequest, Headset!Dropped, Headset!StopNow,
      Headset!ByConsole, Headset!C, Headset!Settled, Headset!Owns, Headset!Submitted,
      Headset!Stopped, Headset!Blank, Headset!Verdict, Headset!Rest, Headset!W, Headset!Grip,
      Headset!MadeFrom, Headset!Anchored, Headset!Resumed, Headset!NoAnchor, Headset!Edge,
      Headset!Queued, Headset!Zero, S!H!Next, S!H!OscStart, S!H!OscEnd, S!H!OscSettle, S!H!Http,
      S!H!Serve, S!H!Process, S!H!ConnectBegin, S!H!DisconnectBegin, S!H!Connect, S!H!Disconnect,
      S!H!Unbind, S!H!ResetBegin, S!H!ResetRead, S!H!ResetMake, S!H!Accept, S!H!Install,
      S!H!Receive, S!H!Leave, S!H!Close, S!H!Lose, S!H!Take, S!H!InputFrame, S!H!Stop,
      S!H!AnchorRead, S!H!AnchorMake, S!H!PoseRead, S!H!Track, S!H!Limit, S!H!Detach, S!H!Unheld,
      S!H!NoRequest, S!H!Dropped, S!H!StopNow, S!H!ByConsole, S!H!C, S!H!Settled, S!H!Owns,
      S!H!Submitted, S!H!Stopped, S!H!Blank, S!H!Verdict, S!H!Rest, S!H!W, S!H!Grip, S!H!MadeFrom,
      S!H!Anchored, S!H!Resumed, S!H!NoAnchor, S!H!Edge, S!H!Queued, S!H!Zero
<1>3. Headset!PicoAssumption <=> S!H!PicoAssumption
  BY Zenon DEF Headset!PicoAssumption, Headset!Cardinality, Headset!IsFiniteSet,
      S!H!PicoAssumption, S!H!Cardinality, S!H!IsFiniteSet
<1>4. Headset!SamePress <=> S!H!SamePress
  BY Zenon DEF Headset!SamePress, S!H!SamePress
<1>5. Headset!DeadMan <=> S!H!DeadMan
  BY Zenon DEF Headset!DeadMan, S!H!DeadMan
<1> QED
  BY <1>1, <1>2, <1>3, <1>4, <1>5

LEMMA HeadsetPart ==
  Spec => [](part = "headset" => Headset!SamePress /\ Headset!DeadMan)
<1>1. S!H!Spec => [](Headset!SamePress /\ Headset!DeadMan)
  BY BoundsAssumption, HeadsetSame, S!GripIsDeadMan, PTL
<1>2. part = "headset" /\ Init => S!H!Init
  BY HeadsetSame DEF Init
<1>3. [Next]_vars => /\ (part = "headset")' <=> part = "headset"
                     /\ part = "headset" => [S!H!Next]_(S!H!vars)
  <2>1. Next => part' = part /\ (part = "headset" => S!H!Next)
    BY HeadsetSame DEF Next
  <2>2. UNCHANGED vars => part' = part /\ UNCHANGED S!H!vars
    BY DEF vars, S!H!vars
  <2> QED
    BY <2>1, <2>2
<1> QED
  BY <1>1, <1>2, <1>3, PTL DEF Spec, S!H!Spec

-----------------------------------------------------------------------------
\* Services that a watchdog or an operator resets.

LEMMA ResetsSame ==
  /\ Resets!Init <=> P!L!Init
  /\ Resets!Next <=> P!L!Next
  /\ Resets!RestartAssumption <=> P!L!RestartAssumption
  /\ Resets!OneOwner <=> P!L!OneOwner
  /\ Resets!ResetLeavesOne <=> P!L!ResetLeavesOne
<1>1. Resets!Init <=> P!L!Init
  BY Zenon DEF Resets!Init, Resets!Services, Resets!Fresh, Resets!Unborn, Resets!Helpers,
      P!L!Init, P!L!Services, P!L!Fresh, P!L!Unborn, P!L!Helpers
<1>2. Resets!Next <=> P!L!Next
  BY Zenon DEF Resets!Next, Resets!UserStart, Resets!Services, Resets!Orphan, Resets!LockCreate,
      Resets!LockWrite, Resets!LockRead, Resets!LockRemove, Resets!Bind, Resets!Spawn,
      Resets!Known, Resets!CloseServer, Resets!CloseBackend, Resets!CloseUnlock, Resets!Exit,
      Resets!ServiceReset, Resets!ServiceExit, Resets!DogReset, Resets!DogKill, Resets!DogClear,
      Resets!Helpers, Resets!HelperOld, Resets!HelperServices, Resets!HelperWorkers,
      Resets!HelperClean, Resets!HelperCheck, Resets!HelperUnlink, Resets!HelperStart,
      Resets!Begins, Resets!Runs, Resets!Gone, Resets!Place, Resets!Lives, Resets!Refused,
      Resets!NoLock, Resets!Released, Resets!Launched, Resets!Tables, Resets!Killed,
      Resets!HelperAt, Resets!Born, Resets!Fresh, P!L!Next, P!L!UserStart, P!L!Services,
      P!L!Orphan, P!L!LockCreate, P!L!LockWrite, P!L!LockRead, P!L!LockRemove, P!L!Bind,
      P!L!Spawn, P!L!Known, P!L!CloseServer, P!L!CloseBackend, P!L!CloseUnlock, P!L!Exit,
      P!L!ServiceReset, P!L!ServiceExit, P!L!DogReset, P!L!DogKill, P!L!DogClear, P!L!Helpers,
      P!L!HelperOld, P!L!HelperServices, P!L!HelperWorkers, P!L!HelperClean, P!L!HelperCheck,
      P!L!HelperUnlink, P!L!HelperStart, P!L!Begins, P!L!Runs, P!L!Gone, P!L!Place, P!L!Lives,
      P!L!Refused, P!L!NoLock, P!L!Released, P!L!Launched, P!L!Tables, P!L!Killed, P!L!HelperAt,
      P!L!Born, P!L!Fresh
<1>3. Resets!RestartAssumption <=> P!L!RestartAssumption
  BY Zenon DEF Resets!RestartAssumption, P!L!RestartAssumption
<1>4. Resets!OneOwner <=> P!L!OneOwner
  BY Zenon DEF Resets!OneOwner, Resets!Owners, Resets!Services, Resets!Lives, Resets!Runs,
      P!L!OneOwner, P!L!Owners, P!L!Services, P!L!Lives, P!L!Runs
<1>5. Resets!ResetLeavesOne <=> P!L!ResetLeavesOne
  BY Zenon DEF Resets!ResetLeavesOne, Resets!Helpers, Resets!Services, P!L!ResetLeavesOne,
      P!L!Helpers, P!L!Services
<1> QED
  BY <1>1, <1>2, <1>3, <1>4, <1>5

LEMMA ResetsPart ==
  Spec => [](part = "resets" => Resets!OneOwner /\ Resets!ResetLeavesOne)
<1>1. P!L!Spec => [](Resets!OneOwner /\ Resets!ResetLeavesOne)
  BY BoundsAssumption, ResetsSame, P!ServiceIsAlone, P!ResetsEndInService, PTL
<1>2. part = "resets" /\ Init => P!L!Init
  BY ResetsSame DEF Init
<1>3. [Next]_vars => /\ (part = "resets")' <=> part = "resets"
                     /\ part = "resets" => [P!L!Next]_(P!L!vars)
  <2>1. Next => part' = part /\ (part = "resets" => P!L!Next)
    BY ResetsSame DEF Next
  <2>2. UNCHANGED vars => part' = part /\ UNCHANGED P!L!vars
    BY DEF vars, P!L!vars
  <2> QED
    BY <2>1, <2>2
<1> QED
  BY <1>1, <1>2, <1>3, PTL DEF Spec, P!L!Spec

-----------------------------------------------------------------------------
\* Services that are started by hand besides.

LEMMA ByHandSame ==
  /\ ByHand!Init <=> Q!L!Init
  /\ ByHand!Next <=> Q!L!Next
  /\ ByHand!RestartAssumption <=> Q!L!RestartAssumption
  /\ ByHand!OneOwner <=> Q!L!OneOwner
  /\ ByHand!ResetLeavesOne <=> Q!L!ResetLeavesOne
<1>1. ByHand!Init <=> Q!L!Init
  BY Zenon DEF ByHand!Init, ByHand!Services, ByHand!Fresh, ByHand!Unborn, ByHand!Helpers,
      Q!L!Init, Q!L!Services, Q!L!Fresh, Q!L!Unborn, Q!L!Helpers
<1>2. ByHand!Next <=> Q!L!Next
  BY Zenon DEF ByHand!Next, ByHand!UserStart, ByHand!Services, ByHand!Orphan, ByHand!LockCreate,
      ByHand!LockWrite, ByHand!LockRead, ByHand!LockRemove, ByHand!Bind, ByHand!Spawn,
      ByHand!Known, ByHand!CloseServer, ByHand!CloseBackend, ByHand!CloseUnlock, ByHand!Exit,
      ByHand!ServiceReset, ByHand!ServiceExit, ByHand!DogReset, ByHand!DogKill, ByHand!DogClear,
      ByHand!Helpers, ByHand!HelperOld, ByHand!HelperServices, ByHand!HelperWorkers,
      ByHand!HelperClean, ByHand!HelperCheck, ByHand!HelperUnlink, ByHand!HelperStart,
      ByHand!Begins, ByHand!Runs, ByHand!Gone, ByHand!Place, ByHand!Lives, ByHand!Refused,
      ByHand!NoLock, ByHand!Released, ByHand!Launched, ByHand!Tables, ByHand!Killed,
      ByHand!HelperAt, ByHand!Born, ByHand!Fresh, Q!L!Next, Q!L!UserStart, Q!L!Services,
      Q!L!Orphan, Q!L!LockCreate, Q!L!LockWrite, Q!L!LockRead, Q!L!LockRemove, Q!L!Bind,
      Q!L!Spawn, Q!L!Known, Q!L!CloseServer, Q!L!CloseBackend, Q!L!CloseUnlock, Q!L!Exit,
      Q!L!ServiceReset, Q!L!ServiceExit, Q!L!DogReset, Q!L!DogKill, Q!L!DogClear, Q!L!Helpers,
      Q!L!HelperOld, Q!L!HelperServices, Q!L!HelperWorkers, Q!L!HelperClean, Q!L!HelperCheck,
      Q!L!HelperUnlink, Q!L!HelperStart, Q!L!Begins, Q!L!Runs, Q!L!Gone, Q!L!Place, Q!L!Lives,
      Q!L!Refused, Q!L!NoLock, Q!L!Released, Q!L!Launched, Q!L!Tables, Q!L!Killed, Q!L!HelperAt,
      Q!L!Born, Q!L!Fresh
<1>3. ByHand!RestartAssumption <=> Q!L!RestartAssumption
  BY Zenon DEF ByHand!RestartAssumption, Q!L!RestartAssumption
<1>4. ByHand!OneOwner <=> Q!L!OneOwner
  BY Zenon DEF ByHand!OneOwner, ByHand!Owners, ByHand!Services, ByHand!Lives, ByHand!Runs,
      Q!L!OneOwner, Q!L!Owners, Q!L!Services, Q!L!Lives, Q!L!Runs
<1>5. ByHand!ResetLeavesOne <=> Q!L!ResetLeavesOne
  BY Zenon DEF ByHand!ResetLeavesOne, ByHand!Helpers, ByHand!Services, Q!L!ResetLeavesOne,
      Q!L!Helpers, Q!L!Services
<1> QED
  BY <1>1, <1>2, <1>3, <1>4, <1>5

LEMMA ByHandPart ==
  Spec => [](part = "byhand" => ByHand!OneOwner /\ ByHand!ResetLeavesOne)
<1>1. Q!L!Spec => [](ByHand!OneOwner /\ ByHand!ResetLeavesOne)
  BY BoundsAssumption, ByHandSame, Q!ServiceIsAlone, Q!ResetsEndInService, PTL
<1>2. part = "byhand" /\ Init => Q!L!Init
  BY ByHandSame DEF Init
<1>3. [Next]_vars => /\ (part = "byhand")' <=> part = "byhand"
                     /\ part = "byhand" => [Q!L!Next]_(Q!L!vars)
  <2>1. Next => part' = part /\ (part = "byhand" => Q!L!Next)
    BY ByHandSame DEF Next
  <2>2. UNCHANGED vars => part' = part /\ UNCHANGED Q!L!vars
    BY DEF vars, Q!L!vars
  <2> QED
    BY <2>1, <2>2
<1> QED
  BY <1>1, <1>2, <1>3, PTL DEF Spec, Q!L!Spec

-----------------------------------------------------------------------------
\* Services under POSIX.

LEMMA PosixSame ==
  /\ Posix!Init <=> U!L!Init
  /\ Posix!Next <=> U!L!Next
  /\ Posix!RestartAssumption <=> U!L!RestartAssumption
  /\ Posix!OneOwner <=> U!L!OneOwner
  /\ Posix!ResetLeavesOne <=> U!L!ResetLeavesOne
<1>1. Posix!Init <=> U!L!Init
  BY Zenon DEF Posix!Init, Posix!Services, Posix!Fresh, Posix!Unborn, Posix!Helpers, U!L!Init,
      U!L!Services, U!L!Fresh, U!L!Unborn, U!L!Helpers
<1>2. Posix!Next <=> U!L!Next
  BY Zenon DEF Posix!Next, Posix!UserStart, Posix!Services, Posix!Orphan, Posix!LockCreate,
      Posix!LockWrite, Posix!LockRead, Posix!LockRemove, Posix!Bind, Posix!Spawn, Posix!Known,
      Posix!CloseServer, Posix!CloseBackend, Posix!CloseUnlock, Posix!Exit, Posix!ServiceReset,
      Posix!ServiceExit, Posix!DogReset, Posix!DogKill, Posix!DogClear, Posix!Helpers,
      Posix!HelperOld, Posix!HelperServices, Posix!HelperWorkers, Posix!HelperClean,
      Posix!HelperCheck, Posix!HelperUnlink, Posix!HelperStart, Posix!Begins, Posix!Runs,
      Posix!Gone, Posix!Place, Posix!Lives, Posix!Refused, Posix!NoLock, Posix!Released,
      Posix!Launched, Posix!Tables, Posix!Killed, Posix!HelperAt, Posix!Born, Posix!Fresh,
      U!L!Next, U!L!UserStart, U!L!Services, U!L!Orphan, U!L!LockCreate, U!L!LockWrite,
      U!L!LockRead, U!L!LockRemove, U!L!Bind, U!L!Spawn, U!L!Known, U!L!CloseServer,
      U!L!CloseBackend, U!L!CloseUnlock, U!L!Exit, U!L!ServiceReset, U!L!ServiceExit,
      U!L!DogReset, U!L!DogKill, U!L!DogClear, U!L!Helpers, U!L!HelperOld, U!L!HelperServices,
      U!L!HelperWorkers, U!L!HelperClean, U!L!HelperCheck, U!L!HelperUnlink, U!L!HelperStart,
      U!L!Begins, U!L!Runs, U!L!Gone, U!L!Place, U!L!Lives, U!L!Refused, U!L!NoLock, U!L!Released,
      U!L!Launched, U!L!Tables, U!L!Killed, U!L!HelperAt, U!L!Born, U!L!Fresh
<1>3. Posix!RestartAssumption <=> U!L!RestartAssumption
  BY Zenon DEF Posix!RestartAssumption, U!L!RestartAssumption
<1>4. Posix!OneOwner <=> U!L!OneOwner
  BY Zenon DEF Posix!OneOwner, Posix!Owners, Posix!Services, Posix!Lives, Posix!Runs,
      U!L!OneOwner, U!L!Owners, U!L!Services, U!L!Lives, U!L!Runs
<1>5. Posix!ResetLeavesOne <=> U!L!ResetLeavesOne
  BY Zenon DEF Posix!ResetLeavesOne, Posix!Helpers, Posix!Services, U!L!ResetLeavesOne,
      U!L!Helpers, U!L!Services
<1> QED
  BY <1>1, <1>2, <1>3, <1>4, <1>5

LEMMA PosixPart ==
  Spec => [](part = "posix" => Posix!OneOwner /\ Posix!ResetLeavesOne)
<1>1. U!L!Spec => [](Posix!OneOwner /\ Posix!ResetLeavesOne)
  BY BoundsAssumption, PosixSame, U!ServiceIsAlone, U!ResetsEndInService, PTL
<1>2. part = "posix" /\ Init => U!L!Init
  BY PosixSame DEF Init
<1>3. [Next]_vars => /\ (part = "posix")' <=> part = "posix"
                     /\ part = "posix" => [U!L!Next]_(U!L!vars)
  <2>1. Next => part' = part /\ (part = "posix" => U!L!Next)
    BY PosixSame DEF Next
  <2>2. UNCHANGED vars => part' = part /\ UNCHANGED U!L!vars
    BY DEF vars, U!L!vars
  <2> QED
    BY <2>1, <2>2
<1> QED
  BY <1>1, <1>2, <1>3, PTL DEF Spec, U!L!Spec

-----------------------------------------------------------------------------
\* The profile of the motors.

LEMMA CpvSame ==
  /\ Cpv!Init <=> P!V!Init
  /\ Cpv!Next <=> P!V!Next
  /\ Cpv!ProfileAssumption <=> P!V!ProfileAssumption
  /\ Cpv!ProfileKept <=> P!V!ProfileKept
<1>1. Cpv!Init <=> P!V!Init
  BY Zenon DEF Cpv!Init, Cpv!Joint, Cpv!Names, Cpv!Firmware, Cpv!Nothing, Cpv!Starting, Cpv!Unset,
      Cpv!Idle, P!V!Init, P!V!Joint, P!V!Names, P!V!Firmware, P!V!Nothing, P!V!Starting,
      P!V!Unset, P!V!Idle
<1>2. Cpv!Next <=> P!V!Next
  BY Zenon DEF Cpv!Next, Cpv!Request, Cpv!Before, Cpv!Prime, Cpv!Snapshot, Cpv!WriteNext,
      Cpv!Configured, Cpv!After, Cpv!Save, Cpv!SessionEnds, Cpv!Settle, Cpv!Restart, Cpv!Idle,
      Cpv!Ask, Cpv!kept, Cpv!At, Cpv!Fail, Cpv!Joint, Cpv!Goto, Cpv!Places, Cpv!Unset, Cpv!Rank,
      Cpv!Sure, Cpv!Overlay, Cpv!Agrees, Cpv!Done, Cpv!Firmware, Cpv!Names, Cpv!Nothing,
      Cpv!Starting, Cpv!Effective, Cpv!Only, Cpv!TakesBack, Cpv!Stays, P!V!Next, P!V!Request,
      P!V!Before, P!V!Prime, P!V!Snapshot, P!V!WriteNext, P!V!Configured, P!V!After, P!V!Save,
      P!V!SessionEnds, P!V!Settle, P!V!Restart, P!V!Idle, P!V!Ask, P!V!kept, P!V!At, P!V!Fail,
      P!V!Joint, P!V!Goto, P!V!Places, P!V!Unset, P!V!Rank, P!V!Sure, P!V!Overlay, P!V!Agrees,
      P!V!Done, P!V!Firmware, P!V!Names, P!V!Nothing, P!V!Starting, P!V!Effective, P!V!Only,
      P!V!TakesBack, P!V!Stays
<1>3. Cpv!ProfileAssumption <=> P!V!ProfileAssumption
  BY Zenon DEF Cpv!ProfileAssumption, Cpv!Names, Cpv!Unset, P!V!ProfileAssumption, P!V!Names,
      P!V!Unset
<1>4. Cpv!ProfileKept <=> P!V!ProfileKept
  BY Zenon DEF Cpv!ProfileKept, Cpv!SessionHasProfile, Cpv!SavedWasApplied, Cpv!Has,
      Cpv!Effective, Cpv!At, Cpv!Joint, Cpv!Names, Cpv!Unset, Cpv!Overlay, P!V!ProfileKept,
      P!V!SessionHasProfile, P!V!SavedWasApplied, P!V!Has, P!V!Effective, P!V!At, P!V!Joint,
      P!V!Names, P!V!Unset, P!V!Overlay
<1> QED
  BY <1>1, <1>2, <1>3, <1>4

LEMMA CpvPart ==
  Spec => [](part = "cpv" => Cpv!ProfileKept)
<1>1. P!V!Spec => [](Cpv!ProfileKept)
  BY BoundsAssumption, CpvSame, P!ProfilesAreKept, PTL
<1>2. part = "cpv" /\ Init => P!V!Init
  BY CpvSame DEF Init
<1>3. [Next]_vars => /\ (part = "cpv")' <=> part = "cpv"
                     /\ part = "cpv" => [P!V!Next]_(P!V!vars)
  <2>1. Next => part' = part /\ (part = "cpv" => P!V!Next)
    BY CpvSame DEF Next
  <2>2. UNCHANGED vars => part' = part /\ UNCHANGED P!V!vars
    BY DEF vars, P!V!vars
  <2> QED
    BY <2>1, <2>2
<1> QED
  BY <1>1, <1>2, <1>3, PTL DEF Spec, P!V!Spec

-----------------------------------------------------------------------------
\* The recording of frames.

LEMMA FilmSame ==
  /\ Film!Init <=> P!X!Init
  /\ Film!Next <=> P!X!Next
  /\ Film!RecorderAssumption <=> P!X!RecorderAssumption
  /\ Film!ClosedWhenIdle <=> P!X!ClosedWhenIdle
<1>1. Film!Init <=> P!X!Init
  BY Zenon DEF Film!Init, Film!Previews, Film!NoEpisode, Film!NoStop, Film!NotSaved, P!X!Init,
      P!X!Previews, P!X!NoEpisode, P!X!NoStop, P!X!NotSaved
<1>2. Film!Next <=> P!X!Next
  BY Zenon DEF Film!Next, Film!InputReceive, Film!InputAppend, Film!Previews, Film!FrameCapture,
      Film!FrameAppend, Film!Activate, Film!Deactivate, Film!StateReceive, Film!StartStamp,
      Film!StartGo, Film!InputStep, Film!CameraStep, Film!RobotStep, Film!ThreadEnd,
      Film!StopBegin, Film!StopJoin, Film!StopFinish, Film!Survivors, Film!Ended, Film!Mixed,
      Film!Recording, Film!NoEpisode, Film!Kinds, Film!Served, Film!DrainedInputs,
      Film!FailedDrains, Film!DrainedFrames, Film!Committed, Film!NoStop, Film!Joined,
      Film!DrainFails, Film!Judged, Film!Closes, Film!NextRow, Film!InSpan, Film!Oldest,
      Film!QueuedFrame, Film!Gap, Film!Finished, Film!Range, P!X!Next, P!X!InputReceive,
      P!X!InputAppend, P!X!Previews, P!X!FrameCapture, P!X!FrameAppend, P!X!Activate,
      P!X!Deactivate, P!X!StateReceive, P!X!StartStamp, P!X!StartGo, P!X!InputStep,
      P!X!CameraStep, P!X!RobotStep, P!X!ThreadEnd, P!X!StopBegin, P!X!StopJoin, P!X!StopFinish,
      P!X!Survivors, P!X!Ended, P!X!Mixed, P!X!Recording, P!X!NoEpisode, P!X!Kinds, P!X!Served,
      P!X!DrainedInputs, P!X!FailedDrains, P!X!DrainedFrames, P!X!Committed, P!X!NoStop,
      P!X!Joined, P!X!DrainFails, P!X!Judged, P!X!Closes, P!X!NextRow, P!X!InSpan, P!X!Oldest,
      P!X!QueuedFrame, P!X!Gap, P!X!Finished, P!X!Range
<1>3. Film!RecorderAssumption <=> P!X!RecorderAssumption
  BY Zenon DEF Film!RecorderAssumption, P!X!RecorderAssumption
<1>4. Film!ClosedWhenIdle <=> P!X!ClosedWhenIdle
  BY Zenon DEF Film!ClosedWhenIdle, P!X!ClosedWhenIdle
<1> QED
  BY <1>1, <1>2, <1>3, <1>4

LEMMA FilmPart ==
  Spec => [](part = "film" => Film!ClosedWhenIdle)
<1>1. P!X!Spec => [](Film!ClosedWhenIdle)
  BY BoundsAssumption, FilmSame, P!FilesCloseLast, PTL
<1>2. part = "film" /\ Init => P!X!Init
  BY FilmSame DEF Init
<1>3. [Next]_vars => /\ (part = "film")' <=> part = "film"
                     /\ part = "film" => [P!X!Next]_(P!X!vars)
  <2>1. Next => part' = part /\ (part = "film" => P!X!Next)
    BY FilmSame DEF Next
  <2>2. UNCHANGED vars => part' = part /\ UNCHANGED P!X!vars
    BY DEF vars, P!X!vars
  <2> QED
    BY <2>1, <2>2
<1> QED
  BY <1>1, <1>2, <1>3, PTL DEF Spec, P!X!Spec

-----------------------------------------------------------------------------
\* The recording of inputs.

LEMMA InputsSame ==
  /\ Inputs!Init <=> Q!X!Init
  /\ Inputs!Next <=> Q!X!Next
  /\ Inputs!RecorderAssumption <=> Q!X!RecorderAssumption
  /\ Inputs!ClosedWhenIdle <=> Q!X!ClosedWhenIdle
<1>1. Inputs!Init <=> Q!X!Init
  BY Zenon DEF Inputs!Init, Inputs!Previews, Inputs!NoEpisode, Inputs!NoStop, Inputs!NotSaved,
      Q!X!Init, Q!X!Previews, Q!X!NoEpisode, Q!X!NoStop, Q!X!NotSaved
<1>2. Inputs!Next <=> Q!X!Next
  BY Zenon DEF Inputs!Next, Inputs!InputReceive, Inputs!InputAppend, Inputs!Previews,
      Inputs!FrameCapture, Inputs!FrameAppend, Inputs!Activate, Inputs!Deactivate,
      Inputs!StateReceive, Inputs!StartStamp, Inputs!StartGo, Inputs!InputStep, Inputs!CameraStep,
      Inputs!RobotStep, Inputs!ThreadEnd, Inputs!StopBegin, Inputs!StopJoin, Inputs!StopFinish,
      Inputs!Survivors, Inputs!Ended, Inputs!Mixed, Inputs!Recording, Inputs!NoEpisode,
      Inputs!Kinds, Inputs!Served, Inputs!DrainedInputs, Inputs!FailedDrains,
      Inputs!DrainedFrames, Inputs!Committed, Inputs!NoStop, Inputs!Joined, Inputs!DrainFails,
      Inputs!Judged, Inputs!Closes, Inputs!NextRow, Inputs!InSpan, Inputs!Oldest,
      Inputs!QueuedFrame, Inputs!Gap, Inputs!Finished, Inputs!Range, Q!X!Next, Q!X!InputReceive,
      Q!X!InputAppend, Q!X!Previews, Q!X!FrameCapture, Q!X!FrameAppend, Q!X!Activate,
      Q!X!Deactivate, Q!X!StateReceive, Q!X!StartStamp, Q!X!StartGo, Q!X!InputStep,
      Q!X!CameraStep, Q!X!RobotStep, Q!X!ThreadEnd, Q!X!StopBegin, Q!X!StopJoin, Q!X!StopFinish,
      Q!X!Survivors, Q!X!Ended, Q!X!Mixed, Q!X!Recording, Q!X!NoEpisode, Q!X!Kinds, Q!X!Served,
      Q!X!DrainedInputs, Q!X!FailedDrains, Q!X!DrainedFrames, Q!X!Committed, Q!X!NoStop,
      Q!X!Joined, Q!X!DrainFails, Q!X!Judged, Q!X!Closes, Q!X!NextRow, Q!X!InSpan, Q!X!Oldest,
      Q!X!QueuedFrame, Q!X!Gap, Q!X!Finished, Q!X!Range
<1>3. Inputs!RecorderAssumption <=> Q!X!RecorderAssumption
  BY Zenon DEF Inputs!RecorderAssumption, Q!X!RecorderAssumption
<1>4. Inputs!ClosedWhenIdle <=> Q!X!ClosedWhenIdle
  BY Zenon DEF Inputs!ClosedWhenIdle, Q!X!ClosedWhenIdle
<1> QED
  BY <1>1, <1>2, <1>3, <1>4

LEMMA InputsPart ==
  Spec => [](part = "inputs" => Inputs!ClosedWhenIdle)
<1>1. Q!X!Spec => [](Inputs!ClosedWhenIdle)
  BY BoundsAssumption, InputsSame, Q!FilesCloseLast, PTL
<1>2. part = "inputs" /\ Init => Q!X!Init
  BY InputsSame DEF Init
<1>3. [Next]_vars => /\ (part = "inputs")' <=> part = "inputs"
                     /\ part = "inputs" => [Q!X!Next]_(Q!X!vars)
  <2>1. Next => part' = part /\ (part = "inputs" => Q!X!Next)
    BY InputsSame DEF Next
  <2>2. UNCHANGED vars => part' = part /\ UNCHANGED Q!X!vars
    BY DEF vars, Q!X!vars
  <2> QED
    BY <2>1, <2>2
<1> QED
  BY <1>1, <1>2, <1>3, PTL DEF Spec, Q!X!Spec

-----------------------------------------------------------------------------
\* Two episodes, stopped from two sides.

LEMMA TwiceSame ==
  /\ Twice!Init <=> U!X!Init
  /\ Twice!Next <=> U!X!Next
  /\ Twice!RecorderAssumption <=> U!X!RecorderAssumption
  /\ Twice!ClosedWhenIdle <=> U!X!ClosedWhenIdle
<1>1. Twice!Init <=> U!X!Init
  BY Zenon DEF Twice!Init, Twice!Previews, Twice!NoEpisode, Twice!NoStop, Twice!NotSaved,
      U!X!Init, U!X!Previews, U!X!NoEpisode, U!X!NoStop, U!X!NotSaved
<1>2. Twice!Next <=> U!X!Next
  BY Zenon DEF Twice!Next, Twice!InputReceive, Twice!InputAppend, Twice!Previews,
      Twice!FrameCapture, Twice!FrameAppend, Twice!Activate, Twice!Deactivate, Twice!StateReceive,
      Twice!StartStamp, Twice!StartGo, Twice!InputStep, Twice!CameraStep, Twice!RobotStep,
      Twice!ThreadEnd, Twice!StopBegin, Twice!StopJoin, Twice!StopFinish, Twice!Survivors,
      Twice!Ended, Twice!Mixed, Twice!Recording, Twice!NoEpisode, Twice!Kinds, Twice!Served,
      Twice!DrainedInputs, Twice!FailedDrains, Twice!DrainedFrames, Twice!Committed, Twice!NoStop,
      Twice!Joined, Twice!DrainFails, Twice!Judged, Twice!Closes, Twice!NextRow, Twice!InSpan,
      Twice!Oldest, Twice!QueuedFrame, Twice!Gap, Twice!Finished, Twice!Range, U!X!Next,
      U!X!InputReceive, U!X!InputAppend, U!X!Previews, U!X!FrameCapture, U!X!FrameAppend,
      U!X!Activate, U!X!Deactivate, U!X!StateReceive, U!X!StartStamp, U!X!StartGo, U!X!InputStep,
      U!X!CameraStep, U!X!RobotStep, U!X!ThreadEnd, U!X!StopBegin, U!X!StopJoin, U!X!StopFinish,
      U!X!Survivors, U!X!Ended, U!X!Mixed, U!X!Recording, U!X!NoEpisode, U!X!Kinds, U!X!Served,
      U!X!DrainedInputs, U!X!FailedDrains, U!X!DrainedFrames, U!X!Committed, U!X!NoStop,
      U!X!Joined, U!X!DrainFails, U!X!Judged, U!X!Closes, U!X!NextRow, U!X!InSpan, U!X!Oldest,
      U!X!QueuedFrame, U!X!Gap, U!X!Finished, U!X!Range
<1>3. Twice!RecorderAssumption <=> U!X!RecorderAssumption
  BY Zenon DEF Twice!RecorderAssumption, U!X!RecorderAssumption
<1>4. Twice!ClosedWhenIdle <=> U!X!ClosedWhenIdle
  BY Zenon DEF Twice!ClosedWhenIdle, U!X!ClosedWhenIdle
<1> QED
  BY <1>1, <1>2, <1>3, <1>4

LEMMA TwicePart ==
  Spec => [](part = "twice" => Twice!ClosedWhenIdle)
<1>1. U!X!Spec => [](Twice!ClosedWhenIdle)
  BY BoundsAssumption, TwiceSame, U!FilesCloseLast, PTL
<1>2. part = "twice" /\ Init => U!X!Init
  BY TwiceSame DEF Init
<1>3. [Next]_vars => /\ (part = "twice")' <=> part = "twice"
                     /\ part = "twice" => [U!X!Next]_(U!X!vars)
  <2>1. Next => part' = part /\ (part = "twice" => U!X!Next)
    BY TwiceSame DEF Next
  <2>2. UNCHANGED vars => part' = part /\ UNCHANGED U!X!vars
    BY DEF vars, U!X!vars
  <2> QED
    BY <2>1, <2>2
<1> QED
  BY <1>1, <1>2, <1>3, PTL DEF Spec, U!X!Spec

-----------------------------------------------------------------------------
\* The plan of a real-time run.

LEMMA PlanSame ==
  /\ Plan!Init <=> P!G!Init
  /\ Plan!Next <=> P!G!Next
  /\ Plan!TimelineAssumption <=> P!G!TimelineAssumption
  /\ Plan!CommittedStands <=> P!G!CommittedStands
  /\ Plan!OnTimeIsSpliced <=> P!G!OnTimeIsSpliced
<1>1. Plan!Init <=> P!G!Init
  BY Zenon DEF Plan!Init, Plan!NoContext, P!G!Init, P!G!NoContext
<1>2. Plan!Next <=> P!G!Next
  BY Zenon DEF Plan!Next, Plan!Pass, Plan!Bootstrap, Plan!Ask, Plan!Answer, Plan!Wake,
      Plan!Commit, Plan!Complete, Plan!Rest, Plan!Slot, Plan!Beyond, Plan!P, Plan!Over,
      Plan!FreezeAt, Plan!PrefixLength, Plan!SlotFrom, Plan!Tardy, Plan!NoContext, Plan!Refusal,
      Plan!Kept, Plan!Cut, Plan!Last, Plan!Late, Plan!Lost, Plan!vars, Plan!RowKnown, Plan!Guided,
      Plan!Known, P!G!Next, P!G!Pass, P!G!Bootstrap, P!G!Ask, P!G!Answer, P!G!Wake, P!G!Commit,
      P!G!Complete, P!G!Rest, P!G!Slot, P!G!Beyond, P!G!P, P!G!Over, P!G!FreezeAt,
      P!G!PrefixLength, P!G!SlotFrom, P!G!Tardy, P!G!NoContext, P!G!Refusal, P!G!Kept, P!G!Cut,
      P!G!Last, P!G!Late, P!G!Lost, P!G!vars, P!G!RowKnown, P!G!Guided, P!G!Known
<1>3. Plan!TimelineAssumption <=> P!G!TimelineAssumption
  BY Zenon DEF Plan!TimelineAssumption, P!G!TimelineAssumption
<1>4. Plan!CommittedStands <=> P!G!CommittedStands
  BY Zenon DEF Plan!CommittedStands, P!G!CommittedStands
<1>5. Plan!OnTimeIsSpliced <=> P!G!OnTimeIsSpliced
  BY Zenon DEF Plan!OnTimeIsSpliced, Plan!Fits, Plan!Spare, P!G!OnTimeIsSpliced, P!G!Fits,
      P!G!Spare
<1> QED
  BY <1>1, <1>2, <1>3, <1>4, <1>5

LEMMA PlanPart ==
  Spec => [](part = "timeline" => Plan!CommittedStands /\ Plan!OnTimeIsSpliced)
<1>1. P!G!Spec => [](Plan!CommittedStands /\ Plan!OnTimeIsSpliced)
  BY BoundsAssumption, PlanSame, P!PlanStands, P!PlanIsSpliced, PTL
<1>2. part = "timeline" /\ Init => P!G!Init
  BY PlanSame DEF Init
<1>3. [Next]_vars => /\ (part = "timeline")' <=> part = "timeline"
                     /\ part = "timeline" => [P!G!Next]_(P!G!vars)
  <2>1. Next => part' = part /\ (part = "timeline" => P!G!Next)
    BY PlanSame DEF Next
  <2>2. UNCHANGED vars => part' = part /\ UNCHANGED P!G!vars
    BY DEF vars, P!G!vars
  <2> QED
    BY <2>1, <2>2
<1> QED
  BY <1>1, <1>2, <1>3, PTL DEF Spec, P!G!Spec

-----------------------------------------------------------------------------
\* What MCAdapters says of them.

\* The output changes when nothing drives the arm through the old one, and the
\* locks it takes with sessions and handovers are taken in one order, for every
\* set of threads and number of epochs (osc.py:1363, 2563-2596,
\* control.py:408-460).
THEOREM OutputSwitchesSafely == Spec => []SwitchIsSafe
<1>1. /\ part = "switch" => Switch!LocksOrdered /\ Switch!SwitchIsClean
      /\ part = "takeover" => Takeover!LocksOrdered /\ Takeover!SwitchIsClean
      => SwitchIsSafe
  BY DEF SwitchIsSafe
<1> QED
  BY <1>1, SwitchPart, TakeoverPart, PTL

\* What the adapter publishes belongs to the configuration in force, for every
\* number of switches, runs and clients (pi05_adapter.py:381-552, 656-682,
\* inference_preview.py:114-208).
THEOREM PublishedIsInForce == Spec => []InForce
<1>1. (part = "connection" => Link!InForce) => InForce
  BY DEF InForce
<1> QED
  BY <1>1, LinkPart, PTL

\* A caller gets the answer to its own request, from the backend's process and
\* from the solver's, for every set of channels and calls and every number of
\* processes, requests, targets and epochs (nero_control_server.py:99-181,
\* 206-271, osc.py:395-531, 592-627).
THEOREM CallersGetTheirs == Spec => []AnswersMatch
<1>1. /\ part = "pipe" => Pipe!AnswersMatch
      /\ part = "pipes" => Pipes!AnswersMatch
      /\ part = "solver" => Solver!AnswerIsAsked
      => AnswersMatch
  BY DEF AnswersMatch
<1> QED
  BY <1>1, PipePart, PipesPart, SolverPart, PTL

\* What the policy is shown was made for its own session, and a gripper's frame is
\* as young as it is said to be, for every set of modes and clock jumps, every
\* age allowed and every number of sessions (inference_feedback.py:33-87,
\* inference_gripper_feedback.py:50-85, pi05_adapter.py:554-654).
THEOREM ShownIsItsOwn == Spec => []ObservationIsOwn
<1>1. /\ part = "poses" => Poses!ObservationIsOwn
      /\ part = "widths" => Widths!ObservationIsOwn
      => ObservationIsOwn
  BY DEF ObservationIsOwn
<1> QED
  BY <1>1, PosesPart, WidthsPart, PTL

\* What the backend reports is so, for every number of attempts at an enable and
\* every controller that connect() may find but one following MIT commands: its
\* mode is that of the controller, and a stream that ends gives the SDK's settings
\* back (robot.py:103-244, 425-544, 964-1171, osc_impedance.py:72-185).
THEOREM ReportsAreTrue == Spec => []ArmAsReported
<1>1. (part = "arm" => Arm!ModeIsTrue /\ Arm!StreamsReturned) => ArmAsReported
  BY DEF ArmAsReported
<1> QED
  BY <1>1, ArmPart, PTL

\* A target is computed from an anchor of the very press its pose is of, for every
\* set of connections, queue of at least one edge and number of frames, presses
\* and sessions (nero_control_server.py:600-709, pico_adapter.py:582-665, 742-800).
THEOREM AnchorsAreOfThePress == Spec => []SamePress
<1>1. (part = "headset" => Headset!SamePress /\ Headset!DeadMan) => SamePress
  BY DEF SamePress
<1> QED
  BY <1>1, HeadsetPart, PTL

\* Once what was received is processed, a released Grip or a lost tracking leaves
\* no anchor and, but for a HOLD that failed, no arm that follows a target, for
\* every set of connections, queue of at least one edge and number of frames,
\* presses and sessions (pico_adapter.py:582-665, 979-1002).
THEOREM ReleaseStops == Spec => []DeadMan
<1>1. (part = "headset" => Headset!SamePress /\ Headset!DeadMan) => DeadMan
  BY DEF DeadMan
<1> QED
  BY <1>1, HeadsetPart, PTL

\* What a slot has been sent is what the plan keeps for it, and an answer in time
\* continues the plan wherever the horizons leave room for it, for every horizon,
\* delay, set of bridges and age of an observation that __post_init__ admits
\* (inference_rtc.py:219-318, 587-616).
THEOREM PlansContinue == Spec => []PlanContinues
<1>1. (part = "timeline" => Plan!CommittedStands /\ Plan!OnTimeIsSpliced) => PlanContinues
  BY DEF PlanContinues
<1> QED
  BY <1>1, PlanPart, PTL

\* One service owns the hardware, unless a lock was removed under its living owner
\* or a backend was started in a service that was closing, for every number of
\* services, helpers and starts by hand, under Windows and under POSIX
\* (instance_lock.py:22-110, nero_control_server.py:303-506, 1554-1637).
THEOREM OneServiceOwns == Spec => []OneOwner
<1>1. /\ part = "resets" => Resets!OneOwner
      /\ part = "byhand" => ByHand!OneOwner
      /\ part = "posix" => Posix!OneOwner
      => OneOwner
  BY DEF OneOwner
<1> QED
  BY <1>1, ResetsPart, ByHandPart, PosixPart, PTL

\* When the resets are over a service serves and goes on serving, unless one was
\* closed by hand or a start met two stale locks, for every number of services and
\* of helpers (nero_control_service_restart.py:190-318, instance_lock.py:22-48).
THEOREM ResetsLeaveOne == Spec => []ResetLeavesOne
<1>1. /\ part = "resets" => Resets!ResetLeavesOne
      /\ part = "byhand" => ByHand!ResetLeavesOne
      /\ part = "posix" => Posix!ResetLeavesOne
      => ResetLeavesOne
  BY DEF ResetLeavesOne
<1> QED
  BY <1>1, ResetsPart, ByHandPart, PosixPart, PTL

\* A session runs with the profile it was promised, and what is saved was applied,
\* for every number of joints, set of values, number of requests and of starts
\* (control.py:489-616, 618-747, robot.py:1262-1350).
THEOREM SessionsKeepTheirProfile == Spec => []ProfileKept
<1>1. (part = "cpv" => Cpv!ProfileKept) => ProfileKept
  BY DEF ProfileKept
<1> QED
  BY <1>1, CpvPart, PTL

\* While a recorder thread runs, its episode is active and its files are open, unless a
\* stop() of an earlier episode has judged it, for every set of threads that call
\* stop(), size of the buffers and number of frames, inputs and episodes
\* (tcp_vla_dataset_recorder.py:659-682).
THEOREM FilesCloseWhenIdle == Spec => []ClosedWhenIdle
<1>1. /\ part = "film" => Film!ClosedWhenIdle
      /\ part = "inputs" => Inputs!ClosedWhenIdle
      /\ part = "twice" => Twice!ClosedWhenIdle
      => ClosedWhenIdle
  BY DEF ClosedWhenIdle
<1> QED
  BY <1>1, FilmPart, InputsPart, TwicePart, PTL
=============================================================================
