------------------------------ MODULE Recorder ------------------------------
\* Recording an episode (src/supervisor/tcp_vla_dataset_recorder.py) from three producers: the
\* journal of OSC inputs (osc_input_journal.py), a shared camera (camera_resource.py) and the joint
\* feedback. Each producer keeps a bounded history under a lock of its own; a recorder thread per
\* producer drains it with a cursor, and stop() judges whether the episode is complete.
\* Inputs and frames are named by their place in time: the order in which the inputs were received
\* and the frames were captured. One camera stands for both; layouts, rates, ages and the legacy
\* recorder are left out.
EXTENDS Integers, Sequences, Functions

CONSTANTS
  Stoppers,    \* threads that may ask to stop the episode
  Journal,     \* capacity of the journal (4096 in the code)
  History,     \* capacity of the camera's and the feedback's history (64 frames)
  Pending,     \* frames that may wait for their encoding (16)
  MaxInput, MaxFrame, MaxState, MaxEpisode   \* bounds

RecorderAssumption ==
  /\ {Journal, History, Pending} \subseteq Nat \ {0}
  /\ {MaxInput, MaxFrame, MaxState, MaxEpisode} \subseteq Nat

VARIABLES
  inputs,    \* OSC inputs: how many were received, which are being executed, rows of the journal
  camera,    \* frames captured, rows since activation, stop event, its preview threads
  states,    \* revisions of the joint feedback
  starter,   \* start(): "idle", or "stamped" with the marks it has taken
  active,    \* the episode, or NoEpisode
  threads,   \* recorder threads alive: what each records and the episode it was started for
  stopping,  \* the recorder's stop event
  stopper,   \* each stop(): "idle", "join" or "final", the episode it found, the end it stamped
  episodes,  \* episodes so far
  saved,     \* history: the last episode saved
  torn       \* history: the episodes that a stop() of an earlier one has judged

vars == <<inputs, camera, states, starter, active, threads, stopping, stopper, episodes, saved,
          torn>>

Previews == {1, 2}
Kinds == {"input", "camera", "robot"}

\* An episode: marks of its start (inputs received, frames captured, cursors) and of its end (inputs
\* received; none at first), cursors, what was written, frames waiting, frames dropped, the last
\* frame queued, a reason to reject, it uses the camera, its files are open; and, as history, inputs
\* it has passed over unwritten, the camera was activated meanwhile, others had a hand in it.
NoEpisode ==
  [id |-> 0, i0 |-> 0, f0 |-> 0, r0 |-> 0, c0 |-> 0, s0 |-> 0, row |-> 0, frame |-> 0, state |-> 0,
   end |-> MaxInput, inputs |-> <<>>, frames |-> <<>>, states |-> <<>>, waiting |-> <<>>,
   dropped |-> {}, last |-> 0, reject |-> FALSE, uses |-> FALSE, open |-> TRUE,
   missed |-> {}, mixed |-> FALSE, shared |-> FALSE]
NotSaved == [accepted |-> FALSE, ep |-> NoEpisode, rows |-> <<>>, film |-> <<>>]
NoStop   == [pc |-> "idle", id |-> 0, i1 |-> 0]

Init ==
  /\ inputs = [received |-> 0, busy |-> {}, rows |-> <<>>]
  /\ camera = [captured |-> 0, rows |-> <<>>, stop |-> FALSE, on |-> TRUE,
               loop |-> [p \in Previews |-> IF p = 1 THEN 0 ELSE -1]]
  /\ states = 0 /\ starter = [pc |-> "idle", ep |-> NoEpisode] /\ active = NoEpisode
  /\ threads = {} /\ stopping = TRUE
  /\ stopper = [s \in Stoppers |-> NoStop]
  /\ episodes = 0 /\ saved = NotSaved /\ torn = {}

Recording == active # NoEpisode
Oldest(rows, depth) == IF Len(rows) < depth THEN 1 ELSE Len(rows) - depth + 1

\* ------------------------------------------------------------ producers
\* osc_command: an input is received, executed, and put into the journal when it has returned.
InputReceive ==
  /\ inputs.received < MaxInput
  /\ inputs' = [inputs EXCEPT !.received = @ + 1, !.busy = @ \cup {inputs.received + 1}]
  /\ UNCHANGED <<camera, states, starter, active, threads, stopping, stopper, episodes, saved,
                 torn>>

InputAppend ==
  /\ \E i \in inputs.busy :
       inputs' = [inputs EXCEPT !.busy = @ \ {i}, !.rows = Append(@, i)]
  /\ UNCHANGED <<camera, states, starter, active, threads, stopping, stopper, episodes, saved,
                 torn>>

\* _preview_loop: a preview thread is reading (0), holds a frame it has read, or is off (-1). It
\* reads without the lock and appends under it; the read may have been empty.
FrameCapture(p) ==
  /\ camera.loop[p] = 0 /\ camera.captured < MaxFrame
  /\ camera' = [camera EXCEPT !.captured = @ + 1, !.loop[p] = camera.captured + 1]
  /\ UNCHANGED <<inputs, states, starter, active, threads, stopping, stopper, episodes, saved,
                 torn>>

FrameAppend(p) ==
  /\ camera.loop[p] > 0
  /\ camera' = [camera EXCEPT !.rows = Append(@, camera.loop[p]),
                              !.loop[p] = IF camera.stop \/ ~camera.on THEN -1 ELSE 0]
  /\ UNCHANGED <<inputs, states, starter, active, threads, stopping, stopper, episodes, saved,
                 torn>>

\* activate() sets the stop event and joins the preview thread for half a second while it holds the
\* lock that thread needs; then it replaces the event. A thread that has not seen it goes on.
Survivors == {p \in Previews : camera.loop[p] > 0}
Ended(S) == [p \in Previews |-> IF p \in S THEN camera.loop[p] ELSE -1]
Mixed == active' = IF Recording THEN [active EXCEPT !.mixed = TRUE] ELSE active

Activate ==
  /\ \E S \in SUBSET {p \in Previews : camera.loop[p] >= 0} : \E new \in Previews \ S :
       /\ Survivors \subseteq S
       /\ camera' = [camera EXCEPT !.rows = <<>>, !.stop = FALSE, !.on = TRUE,
                                   !.loop = [Ended(S) EXCEPT ![new] = 0]]
  /\ starter' = [starter EXCEPT !.ep.mixed = starter.pc = "stamped"]
  /\ Mixed /\ UNCHANGED <<inputs, states, threads, stopping, stopper, episodes, saved, torn>>

\* deactivate() joins without the lock; a thread that holds a frame may still append it.
Deactivate ==
  /\ camera.on
  /\ \E S \in SUBSET Survivors :
       camera' = [camera EXCEPT !.rows = <<>>, !.stop = TRUE, !.on = FALSE, !.loop = Ended(S)]
  /\ starter' = [starter EXCEPT !.ep.mixed = starter.pc = "stamped"]
  /\ Mixed /\ UNCHANGED <<inputs, states, threads, stopping, stopper, episodes, saved, torn>>

StateReceive ==
  /\ states < MaxState /\ states' = states + 1
  /\ UNCHANGED <<inputs, camera, starter, active, threads, stopping, stopper, episodes, saved,
                 torn>>

\* ------------------------------------------------------------ start()
\* Under the recorder's lock, with no episode active: the journal's cursor, the moment of the start,
\* the feedback's cursor and, last, the camera's. Threads that an earlier stop() has left behind
\* read the recorder's stop event and episode anew each time: they go on with the new episode.
StartStamp ==
  /\ starter.pc = "idle" /\ ~Recording /\ episodes < MaxEpisode
  /\ starter' = [pc |-> "stamped",
                 ep |-> [NoEpisode EXCEPT !.id = episodes + 1, !.r0 = Len(inputs.rows),
                                          !.i0 = inputs.received, !.f0 = camera.captured,
                                          !.s0 = states,
                                          !.uses = camera.on /\ camera.rows # <<>>]]
  /\ episodes' = episodes + 1
  /\ UNCHANGED <<inputs, camera, states, active, threads, stopping, stopper, saved, torn>>

StartGo ==
  /\ starter.pc = "stamped" /\ starter' = [pc |-> "idle", ep |-> NoEpisode]
  /\ active' = [starter.ep EXCEPT !.row = @ + starter.ep.r0, !.c0 = Len(camera.rows),
                                  !.frame = Len(camera.rows), !.state = starter.ep.s0,
                                  !.shared = threads # {}]
  /\ threads' = threads \cup (Kinds \X {starter.ep.id}) /\ stopping' = FALSE
  /\ UNCHANGED <<inputs, camera, states, stopper, episodes, saved, torn>>

\* ------------------------------------------------------------ recorder threads
\* An iteration works on the episode there is. On closed files it can only fail, and the episode
\* is never saved.
Served(kind) == Recording /\ active.open /\ \E t \in threads : t[1] = kind

\* An input belongs to the episode if it was received between its start and its end.
InSpan(ep, i) == ep.i0 < i /\ i <= ep.end

\* _drain_inputs, up to the n-th row: rows the journal has forgotten are counted as a gap, and an
\* input later than the end is passed over.
NextRow(ep) ==
  LET first == Oldest(inputs.rows, Journal) IN IF first > ep.row + 1 THEN first ELSE ep.row + 1

DrainedInputs(ep, n) ==
  LET batch == SubSeq(inputs.rows, NextRow(ep), n)
  IN [ep EXCEPT !.row = n, !.reject = @ \/ NextRow(ep) > ep.row + 1,
                !.inputs = @ \o SelectSeq(batch, LAMBDA i : InSpan(ep, i)),
                !.missed = @ \cup {i \in Range(batch) : i > ep.end}]

\* The cursor is moved to a row before the row is written: a drain that fails there has passed it.
FailedDrains(ep) ==
  {[DrainedInputs(ep, n - 1) EXCEPT !.row = n, !.missed = @ \cup {inputs.rows[n]}] :
     n \in {m \in NextRow(ep)..Len(inputs.rows) : InSpan(ep, inputs.rows[m])}}

\* The thread drains, or fails, which it counts as an error.
InputStep ==
  /\ Served("input") /\ active.row < Len(inputs.rows)
  /\ active' \in {DrainedInputs(active, Len(inputs.rows))}
                 \cup {[ep EXCEPT !.reject = TRUE] : ep \in FailedDrains(active)}
  /\ UNCHANGED <<inputs, camera, states, starter, threads, stopping, stopper, episodes, saved,
                 torn>>

\* _commit_raw_camera: frames are written in the order they were queued, as far as their encoding
\* is done; one that could not be encoded is an error.
Committed(ep, k, bad) ==
  LET done == SubSeq(ep.waiting, 1, k)
  IN [ep EXCEPT !.frames = @ \o SelectSeq(done, LAMBDA f : f \notin bad),
                !.waiting = SubSeq(@, k + 1, Len(@)), !.reject = @ \/ bad # {}]

\* _queue_raw_camera_frame: a frame captured before the start is ignored, one out of order or too
\* many is dropped.
QueuedFrame(ep, f) ==
  IF f <= ep.f0 THEN ep
  ELSE IF f <= ep.last \/ Len(ep.waiting) >= Pending
  THEN [ep EXCEPT !.dropped = @ \cup {f}]
  ELSE [ep EXCEPT !.waiting = Append(@, f), !.last = f]

\* Mutant: frames the camera has forgotten are not missed.
GapUncounted(ep, first) == FALSE

\* A frame whose number is not the next one is a gap. After an activation the numbers start
\* again, and nothing is drained until they pass the cursor.
Gap(ep, first) == first > ep.frame + 1

DrainedFrames(ep) ==
  LET oldest == Oldest(camera.rows, History)
      first == IF oldest > ep.frame + 1 THEN oldest ELSE ep.frame + 1
  IN IF first > Len(camera.rows) THEN ep
     ELSE LET queued[n \in (first - 1)..Len(camera.rows)] ==
                IF n < first THEN ep ELSE QueuedFrame(queued[n - 1], camera.rows[n])
              done == queued[Len(camera.rows)]
          IN [ep EXCEPT !.waiting = done.waiting, !.last = done.last, !.dropped = done.dropped,
                        !.frame = Len(camera.rows), !.reject = @ \/ Gap(ep, first)]

\* An iteration of _raw_camera_loop.
CameraStep ==
  /\ Served("camera") /\ active.uses
  /\ \E k \in 0..Len(active.waiting) : \E bad \in {{}} \cup {{f} : f \in Range(active.waiting)} :
       /\ bad \subseteq Range(SubSeq(active.waiting, 1, k))
       /\ active' = DrainedFrames(Committed(active, k, bad))
  /\ active' # active
  /\ UNCHANGED <<inputs, camera, states, starter, threads, stopping, stopper, episodes, saved,
                 torn>>

\* An iteration of _raw_robot_loop: revisions the backend has forgotten are a gap, a sample without
\* a field is a reason to reject.
RobotStep ==
  /\ Served("robot") /\ active.state < states
  /\ LET oldest == IF states < History THEN 1 ELSE states - History + 1
         first == IF oldest > active.state + 1 THEN oldest ELSE active.state + 1
     IN \E bad \in {{}} \cup {{s} : s \in first..states} :
          active' = [active EXCEPT !.state = states,
                                   !.reject = @ \/ bad # {} \/ first > active.state + 1,
                                   !.states = @ \o SelectSeq([n \in 1..(states - first + 1) |->
                                                first + n - 1], LAMBDA s : s \notin bad)]
  /\ UNCHANGED <<inputs, camera, states, starter, threads, stopping, stopper, episodes, saved,
                 torn>>

\* A thread sees the stop event between two iterations; the inputs' ends without an episode, too.
ThreadEnd(t) ==
  /\ t \in threads /\ (stopping \/ (t[1] = "input" /\ ~Recording)) /\ threads' = threads \ {t}
  /\ UNCHANGED <<inputs, camera, states, starter, active, stopping, stopper, episodes, saved, torn>>

\* ------------------------------------------------------------ stop()
StopBegin(s) ==
  /\ stopper[s].pc = "idle" /\ Recording /\ starter.pc = "idle" /\ stopping' = TRUE
  /\ stopper' = [stopper EXCEPT ![s] = [NoStop EXCEPT !.pc = "join", !.id = active.id]]
  /\ UNCHANGED <<inputs, camera, states, starter, active, threads, episodes, saved, torn>>

Joined(s) == [stopper EXCEPT ![s].pc = "final", ![s].i1 = inputs.received]

\* Mutant: the threads are given three seconds, and then the files are closed.
StopJoinImpatient(s) ==
  /\ stopper[s].pc = "join" /\ stopper' = Joined(s)
  /\ UNCHANGED <<inputs, camera, states, starter, active, threads, stopping, episodes, saved, torn>>

\* The threads are joined, and the end is stamped, without the lock. The request fails and may be
\* repeated if one takes too long, be it one of a later episode that has begun meanwhile. Once
\* another's stop() has judged its episode, it may find other threads to join, or none.
StopJoin(s) ==
  /\ stopper[s].pc = "join"
  /\ \/ /\ (\A t \in threads : t[2] # stopper[s].id) \/ stopper[s].id \in torn
        /\ stopper' = Joined(s)
     \/ (\E t \in threads : t[2] >= stopper[s].id) /\ stopper' = [stopper EXCEPT ![s] = NoStop]
  /\ UNCHANGED <<inputs, camera, states, starter, active, threads, stopping, episodes, saved, torn>>

\* Under the lock again stop() judges the episode it finds now, which may be a later one than it has
\* joined the threads of. These go on beside it and share its cursors: what the two write then is
\* left open (shared).
Judged(s) == [active EXCEPT !.end = stopper[s].i1, !.shared = @ \/ active.id # stopper[s].id]

\* The final drain fails with the files open: it has read nothing, has passed a row it could not
\* write, or cannot flush what it wrote. The request may be repeated.
DrainFails(ep) ==
  /\ active' \in {ep, DrainedInputs(ep, Len(inputs.rows))} \cup FailedDrains(ep)
  /\ UNCHANGED saved

\* The journal is drained, every frame committed and the files closed. The episode is saved,
\* rejected, or discarded when it is empty; or a step fails after the first file is closed, and
\* then no retry can succeed.
Finished(ep, bad) == Committed(DrainedInputs(ep, Len(inputs.rows)), Len(ep.waiting), bad)

Closes(ep) ==
  \E bad \in {{}} \cup {{f} : f \in Range(ep.waiting)}, completed \in BOOLEAN :
    LET done == Finished(ep, bad)
        missing == (done.uses /\ done.frames = <<>>) \/ done.states = <<>>
    IN \/ /\ active' = NoEpisode
          /\ saved' = [accepted |-> completed /\ ~done.reject /\ ~missing, ep |-> done,
                       rows |-> inputs.rows, film |-> camera.rows]
       \/ active' = [done EXCEPT !.open = FALSE] /\ UNCHANGED saved

\* A stop() that finds the episode gone, or its files closed, fails.
StopFinish(s) ==
  /\ stopper[s].pc = "final" /\ starter.pc = "idle"
  /\ stopper' = [stopper EXCEPT ![s] = NoStop]
  /\ IF Recording /\ active.open
     THEN /\ torn' = torn \cup ({active.id} \ {stopper[s].id})
          /\ DrainFails(Judged(s)) \/ Closes(Judged(s))
     ELSE UNCHANGED <<active, saved, torn>>
  /\ UNCHANGED <<inputs, camera, states, starter, threads, stopping, episodes>>

\* ------------------------------------------------------------ specification
Next ==
  \/ InputReceive \/ InputAppend \/ (\E p \in Previews : FrameCapture(p) \/ FrameAppend(p))
  \/ Activate \/ Deactivate \/ StateReceive \/ StartStamp \/ StartGo
  \/ InputStep \/ CameraStep \/ RobotStep \/ (\E t \in threads : ThreadEnd(t))
  \/ \E s \in Stoppers : StopBegin(s) \/ StopJoin(s) \/ StopFinish(s)

Spec == Init /\ [][Next]_vars

\* ------------------------------------------------------------ properties
\* The types of the state.
TypeOK ==
  /\ inputs.received \in 0..MaxInput /\ inputs.busy \subseteq 1..MaxInput
  /\ Range(inputs.rows) \subseteq 1..MaxInput /\ Range(camera.rows) \subseteq 1..MaxFrame
  /\ camera.loop \in [Previews -> -1..MaxFrame] /\ states \in 0..MaxState
  /\ threads \subseteq Kinds \X (1..MaxEpisode) /\ episodes \in 0..MaxEpisode
  /\ active.id \in 0..MaxEpisode /\ torn \subseteq 1..MaxEpisode
  /\ Len(active.waiting) <= Pending /\ {active.row, active.end} \subseteq 0..MaxInput
  /\ stopper \in [Stoppers -> [pc : {"idle", "join", "final"}, id : 0..MaxEpisode,
                              i1 : 0..MaxInput]]
  /\ stopping \in BOOLEAN

\* What is in an accepted episode: every input that was received after its start and is in the
\* journal when it is saved, once and in the journal's order, but for those that were later than the
\* stop() whose drain came to them and those at which a final drain failed (missed); every revision
\* of the feedback from its start to the last one drained; and, unless the camera was activated
\* meanwhile, every frame captured after its start that was put into the history after start() had
\* last looked at the camera, up to the last one drained, in order, but for those dropped as out of
\* order or too many: neither is a reason to reject. Nothing is said of an episode that a stop() of
\* an earlier one has judged or that began with threads of an earlier one alive (shared)
\* (tcp_vla_dataset_recorder.py:222, 263, 310-336, 419-512, 596-619, 659-745).
AcceptedComplete ==
  LET ep == saved.ep IN
  saved.accepted /\ ~ep.shared =>
    /\ ep.inputs = SelectSeq(SubSeq(saved.rows, ep.r0 + 1, Len(saved.rows)),
                             LAMBDA i : ep.i0 < i /\ i \notin ep.missed)
    /\ ep.states = [n \in 1..(ep.state - ep.s0) |-> ep.s0 + n]
    /\ \A n, m \in DOMAIN ep.frames : n < m => ep.frames[n] < ep.frames[m]
    /\ ~ep.mixed => \A n \in (ep.c0 + 1)..ep.frame :
                      saved.film[n] > ep.f0 => saved.film[n] \in Range(ep.frames) \cup ep.dropped

\* While a recorder thread runs, the episode it was started for is the active one and its files
\* are open, unless a stop() of an earlier episode has judged that episode: the code does let two
\* overlapping stop() calls close the files of the next episode under its threads, although its
\* message promises open files (tcp_vla_dataset_recorder.py:659-682).
ClosedWhenIdle == \A t \in threads : t[2] \notin torn => active.id = t[2] /\ active.open
=============================================================================
