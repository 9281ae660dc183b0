-------------------------------- MODULE Pico --------------------------------
\* Teleoperation with the PICO headset: the WebSocket gateway and its dispatcher
\* (scripts/nero_control_server.py) and the adapter (supervisor/pico_adapter.py). The Grip is a
\* dead man's handle: motion starts from an anchor made when it is pressed and ends in a HOLD when
\* it is released, when tracking is lost or when the connection is lost. A connection has a thread
\* that receives frames and a worker that processes them; HTTP requests replace the session and
\* reset the anchor.
\* The hand is counted by the edges of its Grip: an odd phase is a press. Poses are abstracted to
\* the phase they were taken in; sensitivity, axis maps and the heartbeat thread are left out.
EXTENDS Naturals, Sequences, FiniteSets

CONSTANTS
  Conns,       \* connections of the headset, 1..n in the order they come
  Depth,       \* maxlen of the queue of Grip edges (8 in the code)
  MaxPhase,    \* bound on Grip edges
  MaxFrame,    \* bound on frames sent
  MaxSession   \* bound on OSC sessions

PicoAssumption ==
  /\ IsFiniteSet(Conns) /\ Conns = 1..Cardinality(Conns)
  /\ {MaxPhase, MaxFrame, MaxSession} \subseteq Nat /\ Depth \in Nat \ {0}

VARIABLES
  hand,      \* the operator: Grip edges so far, frames sent so far
  gate,      \* gateway: session, a connection is active, which one, its dispatcher
  conn,      \* connection threads: place, its socket is open, it was the owner
  disp,      \* dispatchers: queued edges, latest frame, last Grip, stopping, marred
  work,      \* their workers: place, frame, what it has read, joined too late
  http,      \* the request thread: place, the session asked for
  pico,      \* adapter: bound session, anchor, waiting for one, previous Grip and validity
  osc        \* external: the OSC session in force, sessions so far, what the arm does

vars == <<hand, gate, conn, disp, work, http, pico, osc>>

Frame == [phase : 0..MaxPhase, valid : BOOLEAN]
Zero == [phase |-> 0, valid |-> FALSE]
Grip(phase) == phase % 2 = 1

\* An anchor: the phase of the pose it was made from, and the connection whose worker made it. What
\* press the console resets it in, if any, is not told apart.
NoAnchor == [phase |-> 0, conn |-> 0]
ByConsole == [phase |-> 1, conn |-> 0]
Anchored == pico.anchor # NoAnchor

\* A worker between two frames.
Blank == [pc |-> "idle", frame |-> Zero, anchor |-> NoAnchor]
NoRequest == [pc |-> "idle", session |-> 0]

Init ==
  /\ hand = [phase |-> 0, sent |-> 0]
  /\ gate = [session |-> 0, busy |-> FALSE, active |-> 0, dispatch |-> 0]
  /\ conn = [c \in Conns |->  [pc |-> "none", live |-> FALSE, owner |-> FALSE]]
  /\ disp = [c \in Conns |->
       [ctl |-> <<>>, latest |-> {}, grip |-> "none", stop |-> FALSE, marred |-> FALSE]]
  /\ work = [c \in Conns |-> [Blank EXCEPT !.pc = "none"]]
  /\ http = NoRequest
  /\ pico = [bound |-> 0, anchor |-> NoAnchor, pending |-> FALSE, grip |-> FALSE, seen |-> FALSE]
  /\ osc = [id |-> 0, made |-> 0, arm |-> "ready", excused |-> FALSE]

\* ------------------------------------------------------------ outside
\* The console starts an OSC session.
OscStart ==
  /\ osc.id = 0 /\ osc.made < MaxSession
  /\ osc' = [osc EXCEPT !.id = osc.made + 1, !.made = @ + 1, !.arm = "ready"]
  /\ UNCHANGED <<hand, gate, conn, disp, work, http, pico>>

\* FREEDRIVE or a fault ends it.
OscEnd ==
  /\ osc.id # 0 /\ osc' = [osc EXCEPT !.id = 0, !.arm = "ready", !.excused = FALSE]
  /\ UNCHANGED <<hand, gate, conn, disp, work, http, pico>>

\* Braking ends in HOLD_READY.
OscSettle ==
  /\ osc.arm = "braking" /\ osc' = [osc EXCEPT !.arm = "ready"]
  /\ UNCHANGED <<hand, gate, conn, disp, work, http, pico>>

\* ------------------------------------------------------------ stop()
\* It drops the anchor and then asks for a HOLD in the adapter's session, if that is still the one
\* in force. The request may fail; the anchor is gone all the same.
Dropped(p) == [p EXCEPT !.anchor = NoAnchor, !.pending = FALSE]

StopNow ==
  /\ pico' = Dropped(pico)
  /\ IF pico.bound # 0 /\ osc.id = pico.bound
     THEN \/ osc' = [osc EXCEPT !.arm = "braking", !.excused = FALSE]
          \/ osc' = [osc EXCEPT !.excused = TRUE]
     ELSE UNCHANGED osc

\* ------------------------------------------------------------ a connection's thread
C(c, pc) == conn' = [conn EXCEPT ![c].pc = pc]

\* _handle_connection: the headset connects and its first frame is there.
Accept(c) ==
  /\ conn[c].pc = "none" /\ (c > 1 => conn[c - 1].pc # "none") /\ gate.session # 0
  /\ ~gate.busy
  /\ gate' = [gate EXCEPT !.busy = TRUE, !.active = c]
  /\ conn' = [conn EXCEPT ![c].pc = "accepted", ![c].live = TRUE]
  /\ UNCHANGED <<hand, disp, work, http, pico, osc>>

\* Every change of the generation also changes the active connection, and none is active twice.
Owns(c) == gate.active = c

\* Nothing of a connection is left to run.
Settled(c) == conn[c].pc \in {"none", "done"} /\ work[c].pc \in {"none", "end"}

\* connected(), then the dispatcher, which is installed unless the socket was superseded meanwhile.
Install(c) ==
  /\ conn[c].pc = "accepted"
  /\ IF pico.bound = 0
     THEN C(c, "closing") /\ UNCHANGED <<gate, disp, work>>
     ELSE /\ work' = [work EXCEPT ![c].pc = "idle"]
          /\ disp' = [disp EXCEPT ![c].marred = @ \/ \E d \in Conns \ {c} : ~Settled(d)]
          /\ IF Owns(c)
             THEN gate' = [gate EXCEPT !.dispatch = c] /\ C(c, "open")
             ELSE UNCHANGED gate /\ C(c, "closing")
  /\ UNCHANGED <<hand, http, pico, osc>>

\* submit(): a frame whose Grip differs from the last one is queued as an edge; every frame is the
\* latest. A full queue drops its oldest edge.
Edge(d, f) == d.grip = "none" \/ (d.grip = "down") # Grip(f.phase)
\* Mutant: a queue without a limit.
QueuedAll(q, f) == Append(q, f)
Queued(q, f) == IF Len(q) < Depth THEN Append(q, f) ELSE Append(Tail(q), f)

\* Mutant: Grip edges are samples like any other.
SubmittedLatest(d, f) ==
  [d EXCEPT !.latest = {f}, !.grip = IF Grip(f.phase) THEN "down" ELSE "up"]

Submitted(d, f) ==
  [d EXCEPT !.ctl = IF Edge(d, f) THEN Queued(@, f) ELSE @,
            !.marred = @ \/ (Edge(d, f) /\ Len(d.ctl) = Depth),
            !.latest = {f}, !.grip = IF Grip(f.phase) THEN "down" ELSE "up"]

Receive(c) ==
  /\ conn[c].pc = "open" /\ conn[c].live /\ hand.sent < MaxFrame
  /\ \E phase \in hand.phase..MaxPhase, valid \in BOOLEAN :
       /\ disp[c].grip = "none" \/ phase <= hand.phase + 1
       /\ disp' = [disp EXCEPT ![c] = Submitted(@, [phase |-> phase, valid |-> valid])]
       /\ hand' = [phase |-> phase, sent |-> hand.sent + 1]
  /\ UNCHANGED <<gate, conn, work, http, pico, osc>>

\* The headset disconnects, times out or sends nonsense, or the gateway has closed the socket.
Leave(c) ==
  /\ conn[c].pc = "open" /\ C(c, "closing")
  /\ UNCHANGED <<hand, gate, disp, work, http, pico, osc>>

\* The finally block: the gateway is freed by its owner; the dispatcher is closed and joined:
\* its worker takes nothing more.
Stopped(d) == [d EXCEPT !.stop = TRUE, !.ctl = <<>>, !.latest = {}, !.grip = "none"]

Close(c) ==
  /\ conn[c].pc = "closing"
  /\ conn' = [conn EXCEPT ![c] = [pc |-> "join", live |-> FALSE, owner |-> Owns(c)]]
  /\ gate' = IF Owns(c) THEN [gate EXCEPT !.busy = FALSE, !.active = 0, !.dispatch = 0] ELSE gate
  /\ disp' = [disp EXCEPT ![c] = Stopped(@)]
  /\ UNCHANGED <<hand, work, http, pico, osc>>

\* The join ends with the worker or after two seconds. connection_lost(): stop(), then
\* WAITING_FOR_USB.
Lose(c) ==
  /\ conn[c].pc = "join"
  /\ conn' = [conn EXCEPT ![c] = [pc |-> "done", live |-> FALSE, owner |-> FALSE]]
  /\ IF conn[c].owner THEN StopNow ELSE UNCHANGED <<pico, osc>>
  /\ UNCHANGED <<hand, gate, disp, work, http>>

\* ------------------------------------------------------------ a dispatcher's worker
W(c, pc) == work' = [work EXCEPT ![c].pc = pc]
Rest(c) == work' = [work EXCEPT ![c] = Blank]

\* _take(): edges first, then the latest frame.
Take(c) ==
  /\ work[c].pc = "idle"
  /\ IF disp[c].stop
     THEN work' = [work EXCEPT ![c] = [Blank EXCEPT !.pc = "end"]] /\ UNCHANGED disp
     ELSE \/ /\ disp[c].ctl # <<>>
             /\ work' = [work EXCEPT ![c].pc = "frame", ![c].frame = Head(disp[c].ctl)]
             /\ disp' = [disp EXCEPT ![c].ctl = Tail(@)]
          \/ /\ disp[c].ctl = <<>>
             /\ \E f \in disp[c].latest : work' = [work EXCEPT ![c].pc = "frame", ![c].frame = f]
             /\ disp' = [disp EXCEPT ![c].latest = {}]
  /\ UNCHANGED <<hand, gate, conn, http, pico, osc>>

\* Mutant: an anchor outlives frames without tracking.
VerdictForgiving(f) ==
  CASE ~f.valid -> "idle"
    [] f.valid /\ Grip(f.phase) -> IF Anchored THEN "pose" ELSE "anchor"
    [] OTHER -> IF pico.grip THEN "stop" ELSE "idle"

\* What a frame asks for: a lost tracking is latched, a release outranks the anchor.
Verdict(f) ==
  CASE ~f.valid -> IF pico.seen \/ Anchored \/ pico.pending THEN "stop" ELSE "idle"
    [] f.valid /\ Grip(f.phase) -> IF Anchored THEN "pose" ELSE "anchor"
    [] OTHER -> IF pico.grip THEN "stop" ELSE "idle"

\* input_frame: its critical section.
InputFrame(c) ==
  LET f == work[c].frame IN
  /\ work[c].pc = "frame"
  /\ IF Verdict(f) = "idle" THEN Rest(c) ELSE W(c, Verdict(f))
  /\ pico' = [pico EXCEPT !.grip = Grip(f.phase), !.seen = f.valid]
  /\ UNCHANGED <<hand, gate, conn, disp, http, osc>>

Stop(c) ==
  /\ work[c].pc = "stop" /\ Rest(c) /\ StopNow
  /\ UNCHANGED <<hand, gate, conn, disp, http>>

\* anchor_begin: while the arm brakes the anchor is put off; without a measured TCP pose there is
\* none.
AnchorRead(c) ==
  /\ work[c].pc = "anchor"
  /\ \/ osc.arm = "braking" /\ Rest(c) /\ pico' = [pico EXCEPT !.pending = TRUE]
     \/ osc.arm # "braking" /\ Rest(c) /\ pico' = [pico EXCEPT !.pending = FALSE]
     \/ osc.arm # "braking" /\ W(c, "make") /\ UNCHANGED pico
  /\ UNCHANGED <<hand, gate, conn, disp, http, osc>>

MadeFrom(phase, c) ==
  [pico EXCEPT !.anchor = [phase |-> phase, conn |-> c], !.pending = FALSE]

AnchorMake(c) ==
  /\ work[c].pc = "make" /\ W(c, "pose")
  /\ pico' = MadeFrom(work[c].frame.phase, c)
  /\ UNCHANGED <<hand, gate, conn, disp, http, osc>>

\* pose(): the anchor is read under the lock, the target is computed and sent without it.
PoseRead(c) ==
  /\ work[c].pc = "pose"
  /\ IF Anchored THEN work' = [work EXCEPT ![c].pc = "track", ![c].anchor = pico.anchor]
                 ELSE Rest(c)
  /\ UNCHANGED <<hand, gate, conn, disp, http, pico, osc>>

\* _command: _ensure_osc_session starts a session if none is in force. The OSC takes the target,
\* refuses it for good, or refuses it at a limit of the workspace.
Resumed ==
  /\ osc.id = 0 /\ osc.made < MaxSession
  /\ osc' = [id |-> osc.made + 1, made |-> osc.made + 1, arm |-> "ready", excused |-> FALSE]
  /\ pico' = [pico EXCEPT !.bound = osc.made + 1]

Track(c) ==
  /\ work[c].pc = "track"
  /\ \/ /\ pico.bound # 0 /\ osc.id = pico.bound /\ Rest(c)
        /\ osc' = [osc EXCEPT !.arm = "tracking",
                              !.excused = @ \/ gate.dispatch # c \/ disp[c].marred]
        /\ UNCHANGED pico
     \/ /\ pico.bound # 0 /\ osc.id = pico.bound /\ W(c, "limit")
        /\ UNCHANGED <<pico, osc>>
     \/ pico.bound # 0 /\ Resumed /\ UNCHANGED work
     \/ (pico.bound = 0 \/ osc.id # pico.bound) /\ Rest(c) /\ UNCHANGED <<pico, osc>>
  /\ UNCHANGED <<hand, gate, conn, disp, http>>

\* At a limit the pose of the moment becomes the origin of the OSC's last safe target.
Limit(c) ==
  /\ work[c].pc = "limit" /\ Rest(c)
  /\ pico' = MadeFrom(work[c].frame.phase, c)
  /\ UNCHANGED <<hand, gate, conn, disp, http, osc>>

\* ------------------------------------------------------------ HTTP requests
\* start_session for another OSC session, and invalidate: the active connection is detached, its
\* socket closed and its dispatcher closed and joined.
Detach(session) ==
  /\ gate' = [gate EXCEPT !.busy = FALSE, !.active = 0, !.dispatch = 0, !.session = session]
  /\ conn' = [c \in Conns |-> [conn[c] EXCEPT !.live = FALSE]]
  /\ disp' = [c \in Conns |-> IF c = gate.dispatch THEN Stopped(disp[c]) ELSE disp[c]]

\* Neither it nor begin_connection asks for a HOLD of an arm that follows a target.
Unheld == osc' = [osc EXCEPT !.excused = @ \/ osc.arm = "tracking"]

ConnectBegin ==
  /\ http.pc = "idle" /\ osc.id # 0 /\ gate.session # osc.id /\ Detach(gate.session)
  /\ http' = [pc |-> "connect", session |-> osc.id] /\ Unheld
  /\ UNCHANGED <<hand, work, pico>>

DisconnectBegin ==
  /\ http.pc = "idle" /\ gate.session # 0 /\ Detach(0)
  /\ http' = [http EXCEPT !.pc = "disconnect"]
  /\ UNCHANGED <<hand, work, pico, osc>>

\* begin_connection binds the adapter to the session, if it is still in force, with a clean slate.
\* A connection accepted since the detaching lives on under it.
Connect ==
  /\ http.pc = "connect"
  /\ http' = NoRequest
  /\ IF osc.id = http.session
     THEN /\ pico' = [Dropped(pico) EXCEPT !.bound = http.session, !.grip = FALSE, !.seen = FALSE,
                                           !.pending = pico.pending]
          /\ gate' = [gate EXCEPT !.session = http.session, !.busy = FALSE]
          /\ disp' = [c \in Conns |-> [disp[c] EXCEPT !.marred = @ \/ gate.active = c]]
          /\ Unheld
     ELSE UNCHANGED <<pico, gate, disp, osc>>
  /\ UNCHANGED <<hand, conn, work>>

\* disconnected: stop(), then the adapter is unbound.
Disconnect ==
  /\ http.pc = "disconnect" /\ http' = [http EXCEPT !.pc = "unbind"] /\ StopNow
  /\ UNCHANGED <<hand, gate, conn, disp, work>>

Unbind ==
  /\ http.pc = "unbind" /\ http' = NoRequest
  /\ pico' = [pico EXCEPT !.bound = 0]
  /\ UNCHANGED <<hand, gate, conn, disp, work, osc>>

\* reset_anchor, for the console in whose session the adapter is, and anchor_begin from the pose
\* that was processed last, whether or not the Grip is pressed; it may have been without tracking.
ResetBegin ==
  /\ http.pc = "idle" /\ pico.bound # 0 /\ osc.id = pico.bound
  /\ http' = [http EXCEPT !.pc = "reset"]
  /\ UNCHANGED <<hand, gate, conn, disp, work, pico, osc>>

ResetRead ==
  /\ http.pc = "reset"
  /\ \/ http' = NoRequest /\ UNCHANGED pico
     \/ http' = NoRequest /\ pico' = [pico EXCEPT !.pending = osc.arm = "braking"]
     \/ osc.arm # "braking" /\ http' = [http EXCEPT !.pc = "rebase"] /\ UNCHANGED pico
  /\ UNCHANGED <<hand, gate, conn, disp, work, osc>>

ResetMake ==
  /\ http.pc = "rebase" /\ http' = NoRequest
  /\ pico' = [pico EXCEPT !.anchor = ByConsole, !.pending = FALSE]
  /\ UNCHANGED <<hand, gate, conn, disp, work, osc>>

\* ------------------------------------------------------------ specification
Serve(c) == Accept(c) \/ Install(c) \/ Receive(c) \/ Leave(c) \/ Close(c) \/ Lose(c)
Process(c) ==
  \/ Take(c) \/ InputFrame(c) \/ Stop(c) \/ AnchorRead(c) \/ AnchorMake(c) \/ PoseRead(c)
  \/ Track(c) \/ Limit(c)
Http ==
  \/ ConnectBegin \/ DisconnectBegin \/ Connect \/ Disconnect \/ Unbind
  \/ ResetBegin \/ ResetRead \/ ResetMake

Next ==
  \/ OscStart \/ OscEnd \/ OscSettle \/ Http
  \/ \E c \in Conns : Serve(c) \/ Process(c)

Spec == Init /\ [][Next]_vars

\* ------------------------------------------------------------ properties
\* The types of the state.
Anchors == [phase : 0..MaxPhase, conn : Conns \cup {0}]
TypeOK ==
  /\ hand \in [phase : 0..MaxPhase, sent : 0..MaxFrame]
  /\ {gate.active, gate.dispatch} \subseteq Conns \cup {0} /\ gate.busy \in BOOLEAN
  /\ \A c \in Conns :
       /\ Len(disp[c].ctl) <= Depth /\ Cardinality(disp[c].latest) <= 1
       /\ disp[c].latest \subseteq Frame /\ work[c].frame \in Frame /\ work[c].anchor \in Anchors
       /\ conn[c].pc \in {"none", "accepted", "open", "closing", "join", "done"}
  /\ pico.anchor \in Anchors /\ pico.bound \in 0..MaxSession
  /\ osc.id \in 0..MaxSession /\ osc.arm \in {"ready", "braking", "tracking"}

\* A target is computed from an anchor made in the very press its pose was taken in: however many
\* frames were overwritten while the OSC was slow, the arm never jumps by the way the hand went
\* with the Grip released (nero_control_server.py:649-709, pico_adapter.py:582-665, 742-800).
\* Excepted are anchors that another connection or the console made, and marred connections: those
\* whose queue of edges overflowed, whose session was replaced, or that came before the last one
\* was cleaned up.
SamePress ==
  \A c \in Conns :
    work[c].pc \in {"track", "limit"} /\ work[c].anchor.conn = c /\ ~disp[c].marred
      => work[c].anchor.phase = work[c].frame.phase

\* Dead man: when everything received has been processed and the last frame had the Grip released
\* or no tracking, the connection's anchor is gone and the arm is not tracking, unless a HOLD
\* failed, its session was replaced, or another or a marred connection's worker sent the target
\* (pico_adapter.py:610-640, 979-1002).
DeadMan ==
  \A c \in Conns :
    /\ gate.dispatch = c /\ work[c].pc = "idle" /\ disp[c].ctl = <<>> /\ disp[c].latest = {}
    /\ ~disp[c].marred
    /\ disp[c].grip = "up" \/ (disp[c].grip = "down" /\ ~pico.seen)
    => pico.anchor.conn # c /\ (osc.arm = "tracking" => osc.excused)
=============================================================================
