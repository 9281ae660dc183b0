----------------------------- MODULE Connection -----------------------------
\* The policy connection of the adapter (src/supervisor/pi05_adapter.py): one thread makes the
\* WebSocket clients, the worker previews with the current one, and HTTP requests switch the saved
\* endpoint or mode, start and stop runs, and close the adapter. A client is named by its
\* generation and the connection revision it was made under. The runs are module Policy.
EXTENDS Naturals

CONSTANTS
  Modes,     \* execution modes of a configuration
  MaxConn,   \* bound on connection revisions
  MaxRun,    \* bound on run revisions
  MaxGen     \* bound on clients made

ConnectionAssumption ==
  /\ Modes \subseteq {"rtc", "chunk"} /\ "rtc" \in Modes
  /\ MaxConn \in Nat \ {0} /\ {MaxRun, MaxGen} \subseteq Nat

VARIABLES
  conn, run,   \* _connection_revision, _run_revision
  mode,        \* mode of the configuration in force
  changing,    \* _changing_connection
  active,      \* a run is enabled or priming
  policy,      \* _policy: generation and revision of the published client
  gen,         \* clients made so far
  told,        \* stop_event of the current worker is set
  idle,        \* state["state"] = "IDLE"
  shown,       \* connection and run revision of the prediction on show, 0 if there is none
  worker,      \* the worker: its place, its mode, the revisions and the client it works with
  link,        \* the connection thread: its place and the revision it connects for
  config,      \* the request that switches the configuration: its place
  closing      \* close(): "open", "stopping", "stopped" or "closed"

vars == <<conn, run, mode, changing, active, policy, gen, told, idle, shown, worker, link, config,
          closing>>

NoClient == [gen |-> 0, conn |-> 0]
Dead == [pc |-> "dead", mode |-> "none", conn |-> 0, run |-> 0, client |-> NoClient]
Alive == worker.pc # "dead"
At(pc) == worker' = [worker EXCEPT !.pc = pc]

Init ==
  /\ conn = 1 /\ run = 0 /\ mode = "rtc" /\ changing = FALSE /\ active = FALSE
  /\ policy = NoClient /\ gen = 0 /\ told = FALSE /\ idle = TRUE /\ shown = [conn |-> 0, run |-> 0]
  /\ worker = Dead /\ link = [pc |-> "idle", conn |-> 0] /\ config = "idle" /\ closing = "open"

\* _ensure_worker: one worker at a time, with a stop event of its own.
EnsureWorker ==
  IF Alive THEN UNCHANGED <<told, idle, worker>>
  ELSE told' = FALSE /\ idle' = FALSE /\ worker' = [Dead EXCEPT !.pc = "begin"]

\* _invalidate_policy: only the current client is dropped; a client that was replaced stays.
Invalidate(client) == policy' = IF policy = client THEN NoClient ELSE policy

\* ------------------------------------------------------------ switching the configuration
\* _apply_connection_config, in its critical sections. It is refused during a run.
ConfigBegin ==
  /\ config = "idle" /\ closing = "open" /\ ~active /\ conn < MaxConn
  /\ conn' = conn + 1 /\ run' = run + 1 /\ mode' \in Modes /\ changing' = TRUE
  /\ policy' = NoClient /\ told' = TRUE /\ idle' = TRUE /\ shown' = [conn |-> 0, run |-> 0]
  /\ config' = "join" /\ UNCHANGED <<active, gen, worker, link, closing>>

\* The old worker is joined, or the join times out; either way the switch is over.
ConfigEnd ==
  /\ config = "join" /\ changing' = FALSE /\ config' = "ensure"
  /\ UNCHANGED <<conn, run, mode, active, policy, gen, told, idle, shown, worker, link, closing>>

ConfigEnsure ==
  /\ config = "ensure" /\ config' = "idle" /\ EnsureWorker
  /\ UNCHANGED <<conn, run, mode, changing, active, policy, gen, shown, link, closing>>

\* ------------------------------------------------------------ runs
\* start() discards a preview in flight with its client; stop() lets the worker preview again.
StartRun ==
  /\ closing = "open" /\ ~active /\ ~changing /\ run < MaxRun /\ (told => ~Alive)
  /\ active' = TRUE /\ run' = run + 1 /\ EnsureWorker
  /\ policy' = IF worker.pc \in {"client", "ask", "infer", "publish",
      "drop"} THEN NoClient ELSE policy
  /\ UNCHANGED <<conn, mode, changing, gen, shown, link, config, closing>>

StopRun ==
  /\ closing = "open" /\ active
  /\ active' = FALSE /\ run' = run + 1 /\ EnsureWorker
  /\ UNCHANGED <<conn, mode, changing, policy, gen, shown, link, config, closing>>

\* ------------------------------------------------------------ the worker
\* The thread looks up its mode once, when it begins.
WorkerBegin ==
  /\ worker.pc = "begin" /\ worker' = [worker EXCEPT !.pc = "loop", !.mode = mode]
  /\ UNCHANGED <<conn, run, mode, changing, active, policy, gen, told, idle, shown, link, config,
                 closing>>

\* A worker that is told to stop ends; one of chunks says so.
WorkerEnd ==
  /\ worker.pc = "loop" /\ told /\ worker' = Dead
  /\ idle' = (idle \/ worker.mode = "chunk")
  /\ UNCHANGED <<conn, run, mode, changing, active, policy, gen, told, shown, link, config,
                 closing>>

\* preview_once: between runs, a prediction for the revisions of this moment.
Preview ==
  /\ worker.pc = "loop" /\ ~told /\ ~active /\ ~changing
  /\ worker' = [worker EXCEPT !.pc = "client", !.conn = conn, !.run = run]
  /\ UNCHANGED <<conn, run, mode, changing, active, policy, gen, told, idle, shown, link, config,
                 closing>>

\* _policy_client waits for the connection thread's client, or gives up.
PreviewClient ==
  /\ worker.pc = "client"
  /\ \/ policy # NoClient /\ worker' = [worker EXCEPT !.pc = "ask", !.client = policy]
     \/ At("loop")
  /\ UNCHANGED <<conn, run, mode, changing, active, policy, gen, told, idle, shown, link, config,
                 closing>>

Current == worker.conn = conn /\ worker.run = run

PreviewAsk ==
  /\ worker.pc = "ask" /\ At(IF Current THEN "infer" ELSE "loop")
  /\ UNCHANGED <<conn, run, mode, changing, active, policy, gen, told, idle, shown, link, config,
                 closing>>

\* The answer comes, or the request fails; a failure counts if the revisions are still current.
PreviewInfer ==
  /\ worker.pc = "infer" /\ (At("publish") \/ At(IF Current THEN "drop" ELSE "loop"))
  /\ UNCHANGED <<conn, run, mode, changing, active, policy, gen, told, idle, shown, link, config,
                 closing>>

PreviewDrop ==
  /\ worker.pc = "drop" /\ Invalidate(worker.client) /\ At("loop")
  /\ UNCHANGED <<conn, run, mode, changing, active, gen, told, idle, shown, link, config, closing>>

\* Mutant: an answer is shown although the configuration was switched meanwhile.
PreviewPublishAny ==
  /\ worker.pc = "publish" /\ At("loop")
  /\ shown' = IF active THEN shown ELSE [conn |-> worker.conn, run |-> worker.run]
  /\ UNCHANGED <<conn, run, mode, changing, active, policy, gen, told, idle, link, config, closing>>

PreviewPublish ==
  /\ worker.pc = "publish" /\ At("loop")
  /\ shown' = IF Current /\ ~active THEN [conn |-> conn, run |-> run] ELSE shown
  /\ UNCHANGED <<conn, run, mode, changing, active, policy, gen, told, idle, link, config, closing>>

\* ------------------------------------------------------------ the connection thread
LinkOpen == closing \in {"open", "stopping"}

\* Without a client it connects for the endpoint it has just read.
LinkRead ==
  /\ link.pc = "idle" /\ LinkOpen /\ ~changing /\ policy = NoClient /\ gen < MaxGen
  /\ link' = [pc |-> "made", conn |-> conn]
  /\ UNCHANGED <<conn, run, mode, changing, active, policy, gen, told, idle, shown, worker,
                 config, closing>>

\* The handshake fails.
LinkFail ==
  /\ link.pc = "made" /\ link' = [pc |-> "idle", conn |-> 0]
  /\ UNCHANGED <<conn, run, mode, changing, active, policy, gen, told, idle, shown, worker,
                 config, closing>>

\* The handshake has taken its time: the client is published only for the revision in force, and
\* closed otherwise.
LinkPublishes == LinkOpen /\ ~changing /\ link.conn = conn

LinkPublish ==
  /\ link.pc = "made"
  /\ IF LinkPublishes THEN gen' = gen + 1 /\ policy' = [gen |-> gen + 1, conn |-> link.conn]
                      ELSE UNCHANGED <<gen, policy>>
  /\ link' = [pc |-> "ensure", conn |-> 0]
  /\ UNCHANGED <<conn, run, mode, changing, active, told, idle, shown, worker, config, closing>>

LinkEnsure ==
  /\ link.pc = "ensure" /\ link' = [pc |-> "idle", conn |-> 0] /\ EnsureWorker
  /\ UNCHANGED <<conn, run, mode, changing, active, policy, gen, shown, config, closing>>

\* A client without a worker is pinged: it is dropped, or the worker resumes its previews.
LinkPing ==
  /\ link.pc = "idle" /\ LinkOpen /\ ~changing /\ policy # NoClient /\ ~Alive
  /\ \/ Invalidate(policy) /\ UNCHANGED link
     \/ idle /\ link' = [pc |-> "ensure", conn |-> 0] /\ UNCHANGED policy
  /\ UNCHANGED <<conn, run, mode, changing, active, gen, told, idle, shown, worker, config,
                 closing>>

\* ------------------------------------------------------------ close()
\* The worker is told to stop and the run is stopped; then the connection thread is told; the
\* joins may time out; in the end no client is left.
CloseBegin ==
  /\ closing = "open" /\ closing' = "stopping"
  /\ told' = TRUE /\ active' = FALSE /\ run' = run + 1 /\ idle' = FALSE
  /\ UNCHANGED <<conn, mode, changing, policy, gen, shown, worker, link, config>>

CloseLink ==
  /\ closing = "stopping" /\ closing' = "stopped"
  /\ UNCHANGED <<conn, run, mode, changing, active, policy, gen, told, idle, shown, worker, link,
                 config>>

CloseEnd ==
  /\ closing = "stopped" /\ closing' = "closed" /\ policy' = NoClient
  /\ UNCHANGED <<conn, run, mode, changing, active, gen, told, idle, shown, worker, link, config>>

\* Closed, or every bound is reached, or the worker waits for a run to end.
Rest == UNCHANGED vars

Next ==
  \/ ConfigBegin \/ ConfigEnd \/ ConfigEnsure \/ StartRun \/ StopRun
  \/ WorkerBegin \/ WorkerEnd \/ Preview \/ PreviewClient \/ PreviewAsk \/ PreviewInfer
  \/ PreviewDrop \/ PreviewPublish
  \/ LinkRead \/ LinkFail \/ LinkPublish \/ LinkEnsure \/ LinkPing
  \/ CloseBegin \/ CloseLink \/ CloseEnd \/ Rest

Spec == Init /\ [][Next]_vars

\* ------------------------------------------------------------ properties
\* The types of the state.
Clients == [gen : 0..MaxGen, conn : 0..MaxConn]
TypeOK ==
  /\ conn \in 1..MaxConn /\ run \in Nat /\ mode \in Modes
  /\ {changing, active, told, idle} \subseteq BOOLEAN
  /\ policy \in Clients /\ gen \in 0..MaxGen /\ shown \in [conn : 0..MaxConn, run : Nat]
  /\ worker \in [pc : {"dead", "begin", "loop", "client", "ask", "infer", "publish", "drop"},
                 mode : Modes \cup {"none"}, conn : 0..MaxConn, run : Nat, client : Clients]
  /\ link \in [pc : {"idle", "made", "ensure"}, conn : 0..MaxConn]
  /\ config \in {"idle", "join", "ensure"} /\ closing \in {"open", "stopping", "stopped", "closed"}

\* Everything published belongs to the configuration in force: the client was made for its
\* endpoint, the prediction on show was asked under it, and a worker that has not been told to
\* stop works in its mode; and a closed adapter has no client. Handshakes, answers and joins
\* that outlast a switch change nothing of it (pi05_adapter.py:381-423, 465-552, 656-682,
\* inference_preview.py:114-208).
InForce ==
  /\ policy # NoClient => policy.conn = conn
  /\ shown.conn \in {0, conn}
  /\ Alive /\ ~told => worker.mode \in {mode, "none"}
  /\ closing = "closed" => policy = NoClient
=============================================================================
