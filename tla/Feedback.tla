------------------------------ MODULE Feedback ------------------------------
\* What the policy is shown (inference_feedback.py, inference_gripper_feedback.py, pi05_adapter.py,
\* inference_preview.py, inference_rtc.py): the pose measured by the feed thread, the gripper read
\* from the SDK's cache and the state of the OSC session each reach a cache of their own, at a pace
\* of their own, while sessions begin and end. A read of the real-time chunking puts them together
\* with the cameras' frames, or refuses.
\* Time is counted in ticks. Poses, joints, forward kinematics, logging and the readers without a
\* feed are left out; a session that ends without another one is, too.
EXTENDS Integers

CONSTANTS
  Fresh,       \* age a pose may have (100 ms)
  GripFresh,   \* age a gripper's frame may have, and a camera's (150 ms)
  Modes,       \* execution modes of sessions, of "hardware" and "shadow"
  Jumps,       \* what the wall clock may jump by
  MaxNow, MaxSession   \* bounds: time, sessions

FeedbackAssumption ==
  /\ {Fresh, GripFresh, MaxNow, MaxSession} \subseteq Nat
  /\ Modes \subseteq {"hardware", "shadow"} /\ Jumps \subseteq Int

VARIABLES
  now, offset,  \* perf_counter, and by how much the wall clock is ahead of it
  session,      \* the OSC session: number and execution mode
  mine,         \* number of the session the run of the policy has started
  grip,         \* the SDK's last gripper frame: its wall-clock stamp; when it really came, and the
                \* offset then
  value,        \* the feed's cache: identity of its session, observation, moment it was published
  feed,         \* the feed thread
  gcache,       \* GripperFeedbackCache: stamp, received, offset seen, and the frame behind it
  loop,         \* the state thread: place, session it has fetched
  snap          \* _osc_snapshot

vars == <<now, offset, session, mine, grip, value, feed, gcache, loop, snap>>
world == <<now, offset, session, mine, grip>>

NoSession == [n |-> 0, mode |-> "none"]
\* An observation: its source, the session it was made for, and its time.
NoObs == [src |-> "none", key |-> NoSession, at |-> -1]
NoFrame == [stamp |-> -1, at |-> -1, off |-> 0]
NoGrip == [ok |-> FALSE, received |-> -1, frame |-> NoFrame]
Empty == [key |-> NoSession, obs |-> NoObs, pub |-> -1, grip |-> NoGrip]
NoValue == [key |-> NoSession, obs |-> NoObs, pub |-> -1]
Waiting == [pc |-> "context", key |-> NoSession, new |-> NoValue]
Within(t, limit) == t >= 0 /\ now - t <= limit

Init ==
  /\ now = 0 /\ offset = 0 /\ session = NoSession /\ mine = 0
  /\ grip = NoFrame
  /\ value = NoValue /\ feed = Waiting
  /\ gcache = [stamp |-> -1, received |-> -1, off |-> 0, frame |-> NoFrame]
  /\ loop = [pc |-> "fetch", key |-> NoSession] /\ snap = Empty

\* ------------------------------------------------------------ the world
Tick ==
  /\ now < MaxNow /\ now' = now + 1
  /\ UNCHANGED <<offset, session, mine, grip, value, feed, gcache, loop, snap>>

\* The wall clock is set.
Jump ==
  /\ offset = 0 /\ offset' \in Jumps
  /\ UNCHANGED <<now, session, mine, grip, value, feed, gcache, loop, snap>>

\* A frame of the gripper comes and is stamped by the wall clock.
Sense ==
  /\ grip.at < now /\ grip' = [stamp |-> now + offset, at |-> now, off |-> offset]
  /\ UNCHANGED <<now, offset, session, mine, value, feed, gcache, loop, snap>>

\* A session begins in place of another one, for the policy or for somebody else.
Session ==
  /\ session.n < MaxSession
  /\ \E mode \in Modes : session' = [n |-> session.n + 1, mode |-> mode]
  /\ mine' \in {mine, session.n + 1}
  /\ UNCHANGED <<now, offset, grip, value, feed, gcache, loop, snap>>

\* ------------------------------------------------------------ MeasuredTCPFeed
FeedContext ==
  /\ feed.pc = "context" /\ feed' = [feed EXCEPT !.pc = "refresh", !.key = snap.key]
  /\ UNCHANGED <<world, value, gcache, loop, snap>>

\* ObservationSource.refresh: in a shadow session the pose is the simulated one of the snapshot,
\* otherwise the last one measured, if it is fresh.
Observation(key) ==
  IF key.mode = "shadow" THEN {[src |-> "shadow", key |-> key, at |-> now]}
  ELSE [src : {"measured"}, key : {key}, at : {t \in 0..now : Within(t, Fresh)}]

\* A failed refresh keeps an observation of the same session, as long as it is fresh.
AfterFailure ==
  LET same == value.key = feed.key
  IN [key |-> feed.key, pub |-> IF same THEN value.pub ELSE -1,
      obs |-> IF same /\ Within(value.obs.at, Fresh) THEN value.obs ELSE NoObs]

\* A refresh that has outlived its session is dropped.
FeedRefresh ==
  /\ feed.pc = "refresh"
  /\ IF snap.key # feed.key THEN feed' = Waiting
     ELSE \E new \in {[key |-> feed.key, obs |-> o, pub |-> now] : o \in Observation(feed.key)}
                     \cup {AfterFailure} :
            feed' = [feed EXCEPT !.pc = "store", !.new = new]
  /\ UNCHANGED <<world, value, gcache, loop, snap>>

FeedStore ==
  /\ feed.pc = "store" /\ feed' = Waiting /\ value' = feed.new
  /\ UNCHANGED <<world, gcache, loop, snap>>

\* Mutant: what the feed has measured is attached to any snapshot.
AttachedAny(s) ==
  IF value.obs # NoObs THEN [s EXCEPT !.obs = value.obs, !.pub = value.pub]
  ELSE [s EXCEPT !.obs = NoObs]

\* attach: an observation of another session is no observation.
Attached(s) ==
  IF value.key = s.key /\ value.obs # NoObs
  THEN [s EXCEPT !.obs = value.obs, !.pub = value.pub]
  ELSE [s EXCEPT !.obs = NoObs]

\* ------------------------------------------------------------ _osc_state_loop
Fetch ==
  /\ loop.pc = "fetch" /\ loop' = [pc |-> "publish", key |-> session]
  /\ UNCHANGED <<world, value, feed, gcache, snap>>

\* GripperFeedbackCache.read. A frame is known by its stamp and aged once, when it is first seen, if
\* its stamp is plausible; a clock that was set makes what is cached useless until another frame.
Refreshed ==
  LET aged == [gcache EXCEPT !.off = offset, !.received = IF offset = gcache.off THEN @ ELSE -1]
      age == now + offset - grip.stamp
  IN IF grip.stamp = gcache.stamp THEN [cache |-> aged, ok |-> TRUE]
     ELSE IF age \in 0..GripFresh
       THEN [cache |-> [stamp |-> grip.stamp, received |-> now - age, off |-> offset,
                        frame |-> grip], ok |-> TRUE]
     ELSE [cache |-> aged, ok |-> FALSE]

\* What the feed has measured is attached, the gripper is read - its diagnostic has an error unless
\* the frame is fresh - and the snapshot is published; or something in the iteration has failed, and
\* the old one stays.
Publish ==
  LET s == Attached([Empty EXCEPT !.key = loop.key])
  IN /\ loop.pc = "publish" /\ loop' = [pc |-> "fetch", key |-> NoSession]
     /\ IF loop.key.mode = "shadow" \/ grip = NoFrame
        THEN snap' \in {snap, s} /\ UNCHANGED gcache
        ELSE /\ gcache' = Refreshed.cache
             /\ snap' \in {snap, [s EXCEPT !.grip =
                                 [ok |-> Refreshed.ok /\ Within(gcache'.received, GripFresh),
                                  received |-> gcache'.received, frame |-> gcache'.frame]]}
     /\ UNCHANGED <<world, value, feed>>

\* ------------------------------------------------------------ ObservationAssembler.read
\* A read changes nothing that is modelled, so it is a condition on the moment it happens. The pose
\* and the gripper were measured close enough to now, the pose also to fresh frames of the cameras;
\* in a shadow session the pose may be missing, and there is no gripper. A snapshot nothing was ever
\* attached to has the age of the log's (left out).
Usable(s) ==
  /\ s.key.n # 0 /\ s.key.n = mine
  /\ s.pub # -1 => Within(s.pub, Fresh)
  /\ (s.key.mode = "hardware") =>
       /\ s.obs # NoObs /\ Within(s.obs.at, Fresh)
       /\ s.grip.ok /\ Within(s.grip.received, GripFresh)
  /\ s.obs # NoObs => \E cam \in 0..now :
       Within(cam, GripFresh) /\ s.obs.at - cam \in -GripFresh..GripFresh

Shown == Attached(snap)

Next ==
  \/ Tick \/ Jump \/ Sense \/ Session
  \/ FeedContext \/ FeedRefresh \/ FeedStore
  \/ Fetch \/ Publish

Spec == Init /\ [][Next]_vars

\* ------------------------------------------------------------ properties
TypeOK ==
  /\ now \in 0..MaxNow /\ offset \in Jumps \cup {0} /\ session.n \in 0..MaxSession
  /\ mine \in 0..MaxSession /\ grip.at \in -1..MaxNow
  /\ feed.pc \in {"context", "refresh", "store"}
  /\ loop.pc \in {"fetch", "publish"}

\* An observation shown to the policy was made for the session the policy has started: in hardware a
\* measurement, never the shadow's pose (inference_feedback.py:33-87, pi05_adapter.py:554-637).
PoseIsOwn ==
  (Usable(Shown) /\ Shown.obs # NoObs) =>
    /\ Shown.obs.key = Shown.key /\ Shown.key.n = mine
    /\ (Shown.key.mode = "hardware") = (Shown.obs.src = "measured")

\* In hardware the gripper's frame is as young as it is said to be, however often it was read, but
\* when the wall clock was set since it came (inference_gripper_feedback.py:50-85).
GripperIsFresh ==
  (Usable(Shown) /\ Shown.key.mode = "hardware" /\ Shown.grip.frame.off = offset)
    => Within(Shown.grip.frame.at, GripFresh)

ObservationIsOwn == PoseIsOwn /\ GripperIsFresh
=============================================================================
