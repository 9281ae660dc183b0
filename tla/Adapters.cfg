SPECIFICATION Spec
CHECK_DEADLOCK FALSE
CONSTANTS
  PlanRows = 6
  PlanDelay = 1
  PlanExecute = 2
  PlanBridges = {0, 1}
  PlanJitter = 1
  PlanNow = 14
  Modes = {"rtc", "chunk"}
  MaxConn = 2
  MaxRun = 2
  MaxGen = 3
  MaxProcess = 2
  MaxAsk = 2
  MaxTarget = 2
  MaxMotion = 1
  SwitchActors = {"start", "select", "hand"}
  TakeoverActors = {"start", "select", "stop"}
  MaxEpoch = 3
  PipeChannels = {"general"}
  PipeCalls = {1, 2, 3}
  PipesChannels = {"general", "fast"}
  PipesCalls = {1, 2}
  PosesFresh = 1
  PosesModes = {"hardware", "shadow"}
  PosesJumps = {}
  PosesNow = 1
  PosesSession = 2
  WidthsFresh = 0
  WidthsModes = {"hardware"}
  WidthsJumps = {2}
  WidthsNow = 2
  WidthsSession = 1
  GripFresh = 1
  Attempts = 2
  Lossy = TRUE
  Emergency = TRUE
  Found <- AnyButMit
  Conns = {1}
  Depth = 2
  MaxPhase = 3
  MaxFrame = 4
  Sessions = 2
  ResetServices = 3
  ResetHelpers = 2
  HandServices = 3
  HandHelpers = 1
  HandStarts = 1
  PosixServices = 2
  PosixHelpers = 1
  PosixStarts = 1
  Joints = 2
  Wanted = {"low"}
  MaxOp = 2
  MaxStart = 2
  Journal = 1
  History = 1
  MaxState = 1
  FilmStop = {1}
  FilmPending = 2
  FilmFrames = 3
  InputsStop = {1, 2}
  InputsPending = 1
  InputsRows = 2
  TwiceStop = {1, 2}
  TwicePending = 1
  TwiceEpisodes = 2
INVARIANTS TypeOK PlanContinues InForce SamePress DeadMan RecordsComplete ClosedWhenIdle OneOwner ResetLeavesOne AnswersMatch ArmAsReported SwitchIsSafe ProfileKept ObservationIsOwn
