----------------------------- MODULE Kinematics -----------------------------
\* The solver process and its client (KinematicsClient in motion/osc.py, motion/
\* osc_kinematics_server.py): one slot for the newest motion request, a thread that writes it to the
\* process, one slot for the newest request inside the process, a thread that reads its replies, and
\* a servo cycle that takes only the reply to the very sample it asked about. Every session closes
\* the process and starts another; threads of the old one may still be on their way. A request is
\* named by its number `n', which the code does not have; what is solved is left out.
EXTENDS Naturals, Sequences

CONSTANTS
  MaxProcess,   \* processes started
  MaxAsk,       \* requests of servo cycles and forward kinematics
  MaxGen,       \* target generations
  MaxEpoch      \* motion epochs

KinematicsAssumption == {MaxProcess, MaxAsk, MaxGen, MaxEpoch} \subseteq Nat \ {0}

VARIABLES
  client,       \* the process in use or 0, the session, sample, epoch, target generation
  ask,          \* the request a caller waits for: number and identity, or kind "none"
  took,         \* what the last call returned
  minimum,      \* minimum_epoch
  mailbox,      \* motion_requests: NoRequest, Pill or a request
  latest,       \* _latest_motion_response
  fks,          \* fk_responses
  server,       \* the processes: pipes, slot, the request being solved
  writer,       \* _motion_writer of every process: "off", "get", or the request it holds
  reader,       \* _read_stdout of every process: the line it holds
  asked,        \* history: requests made
  late          \* history: an FK call has given up

vars == <<client, ask, took, minimum, mailbox, latest, fks, server, writer, reader, asked, late>>

Processes == 1..MaxProcess
NoRequest == [kind |-> "none", n |-> 0, sample |-> 0, epoch |-> 0, gen |-> 0]
Pill == [NoRequest EXCEPT !.kind = "pill"]
NoCall == [asked |-> NoRequest, got |-> NoRequest]
Off == [alive |-> FALSE, stdin |-> <<>>, slot |-> NoRequest, busy |-> NoRequest, stdout |-> <<>>]
Threads == [on : BOOLEAN, held : [kind : {"none", "pill", "motion", "fk"}, n : 0..MaxAsk,
                                  sample : Nat, epoch : Nat, gen : Nat]]
Idle == [on |-> FALSE, held |-> NoRequest]
Killed(p) == [server EXCEPT ![p].alive = FALSE, ![p].stdin = <<>>, ![p].slot = NoRequest,
                            ![p].busy = NoRequest]

Init ==
  /\ client = [process |-> 0, next |-> 1, session |-> "off", sample |-> 0, epoch |-> 0, gen |-> 0]
  /\ ask = NoRequest /\ took = NoCall /\ minimum = 0
  /\ mailbox = NoRequest /\ latest = NoRequest /\ fks = NoRequest
  /\ server = [p \in Processes |-> Off]
  /\ writer = [p \in Processes |-> Idle] /\ reader = [p \in Processes |-> Idle]
  /\ asked = 0 /\ late = FALSE

Emptied == mailbox' = NoRequest /\ latest' = NoRequest /\ fks' = NoRequest

\* ------------------------------------------------------------ sessions
\* start_session: a new process and its threads, then a new sample count, target generation and, on
\* hardware, epoch.
StartSession ==
  LET p == client.next IN
  /\ client.session = "off" /\ client.process = 0
  /\ p \in Processes /\ client.gen < MaxGen
  /\ \E epoch \in {client.epoch, client.epoch + 1} :
       /\ epoch <= MaxEpoch
       /\ client' = [process |-> p, next |-> p + 1, session |-> "on", sample |-> 0, epoch |-> epoch,
                     gen |-> client.gen + 1]
       /\ minimum' = IF epoch > minimum THEN epoch ELSE minimum
  /\ server' = [server EXCEPT ![p].alive = TRUE]
  /\ writer' = [writer EXCEPT ![p].on = TRUE] /\ reader' = [reader EXCEPT ![p].on = TRUE]
  /\ Emptied
  /\ UNCHANGED <<ask, took, asked, late>>

\* The session ends when its loop has left the solver.
StopSession ==
  /\ client.session = "on" /\ ask = NoRequest
  /\ client' = [client EXCEPT !.session = "closing"]
  /\ UNCHANGED <<ask, took, minimum, mailbox, latest, fks, server, writer, reader, asked, late>>

\* close: the process is forgotten and killed; then, under the lock, the queues are emptied.
Close ==
  /\ client.session = "closing" /\ client.process # 0
  /\ client' = [client EXCEPT !.process = 0]
  /\ server' = Killed(client.process) /\ mailbox' = Pill
  /\ UNCHANGED <<ask, took, minimum, latest, fks, writer, reader, asked, late>>

CloseDrain ==
  /\ client.session = "closing" /\ client.process = 0
  /\ client' = [client EXCEPT !.session = "off"] /\ Emptied
  /\ UNCHANGED <<ask, took, minimum, server, writer, reader, asked, late>>

\* A new target, and a change of authority during the session (freeze_for_authority_change).
Intent ==
  /\ client.session = "on" /\ client.gen < MaxGen
  /\ client' = [client EXCEPT !.gen = @ + 1]
  /\ UNCHANGED <<ask, took, minimum, mailbox, latest, fks, server, writer, reader, asked, late>>

Freeze ==
  /\ client.session = "on" /\ client.gen < MaxGen /\ client.epoch < MaxEpoch
  /\ client' = [client EXCEPT !.gen = @ + 1, !.epoch = @ + 1]
  /\ minimum' = client.epoch + 1 /\ Emptied
  /\ UNCHANGED <<ask, took, server, writer, reader, asked, late>>

\* ------------------------------------------------------------ callers
Working == client.session = "on" /\ ask = NoRequest /\ asked < MaxAsk

Alive == client.process # 0 /\ server[client.process].alive

\* A servo cycle asks about its next sample; the request replaces one that was not written yet.
Ask ==
  /\ Working /\ Alive
  /\ client' = [client EXCEPT !.sample = @ + 1] /\ asked' = asked + 1
  /\ ask' = [kind |-> "motion", n |-> asked + 1, sample |-> client.sample + 1,
             epoch |-> client.epoch, gen |-> client.gen]
  /\ mailbox' = ask'
  /\ UNCHANGED <<took, minimum, latest, fks, server, writer, reader, late>>

\* Forward kinematics is written straight to the process.
AskFk ==
  /\ Working /\ Alive /\ asked' = asked + 1
  /\ ask' = [NoRequest EXCEPT !.kind = "fk", !.n = asked + 1]
  /\ server' = [server EXCEPT ![client.process].stdin = Append(@, ask')]
  /\ UNCHANGED <<client, took, minimum, mailbox, latest, fks, writer, reader, late>>

\* The process has died: a call starts another while it holds the client's lock, which the new
\* reader needs before it reads that the process is ready. The call waits in vain and closes it.
AskRestarts ==
  /\ Working /\ ~Alive
  /\ \E n \in {0, 1} : client' = [client EXCEPT !.process = 0, !.sample = @ + n]
  /\ asked' = asked + 1 /\ Emptied
  /\ UNCHANGED <<ask, took, minimum, server, writer, reader, late>>

IsAnswer(reply, request) ==
  reply.sample = request.sample /\ reply.epoch = request.epoch /\ reply.gen = request.gen

Take ==
  /\ ask.kind = "motion" /\ latest # NoRequest /\ IsAnswer(latest, ask)
  /\ took' = [asked |-> ask, got |-> latest] /\ latest' = NoRequest /\ ask' = NoRequest
  /\ UNCHANGED <<client, minimum, mailbox, fks, server, writer, reader, asked, late>>

Discard ==
  /\ ask.kind = "motion" /\ latest # NoRequest /\ ~IsAnswer(latest, ask)
  /\ latest.sample <= ask.sample /\ latest' = NoRequest
  /\ UNCHANGED <<client, ask, took, minimum, mailbox, fks, server, writer, reader, asked, late>>

TakeFk ==
  /\ ask.kind = "fk" /\ fks # NoRequest
  /\ took' = [asked |-> ask, got |-> fks] /\ fks' = NoRequest /\ ask' = NoRequest
  /\ UNCHANGED <<client, minimum, mailbox, latest, server, writer, reader, asked, late>>

\* The budget of the cycle, or the second of an FK call, is over.
Timeout ==
  /\ ask # NoRequest /\ ask' = NoRequest
  /\ late' = (late \/ ask.kind = "fk")
  /\ UNCHANGED <<client, took, minimum, mailbox, latest, fks, server, writer, reader, asked>>

\* ------------------------------------------------------------ the client's threads
\* A writer takes the request before it looks whether its process is still the one in use.
WriterGet(p) ==
  /\ writer[p].on /\ writer[p].held = NoRequest /\ mailbox # NoRequest
  /\ mailbox' = NoRequest
  /\ writer' = [writer EXCEPT ![p] =
                  IF mailbox = Pill \/ client.process # p THEN Idle ELSE [@ EXCEPT !.held = mailbox]]
  /\ UNCHANGED <<client, ask, took, minimum, latest, fks, server, reader, asked, late>>

\* It writes into a process that may be gone by now.
WriterWrite(p) ==
  /\ writer[p].held # NoRequest
  /\ server' = IF server[p].alive
               THEN [server EXCEPT ![p].stdin = Append(@, writer[p].held)] ELSE server
  /\ writer' = [writer EXCEPT ![p] = IF server[p].alive THEN [@ EXCEPT !.held = NoRequest] ELSE Idle]
  /\ UNCHANGED <<client, ask, took, minimum, mailbox, latest, fks, reader, asked, late>>

WriterEnd(p) ==
  /\ writer[p].on /\ writer[p].held = NoRequest
  /\ client.process # p \/ ~server[p].alive
  /\ writer' = [writer EXCEPT ![p] = Idle]
  /\ UNCHANGED <<client, ask, took, minimum, mailbox, latest, fks, server, reader, asked, late>>

\* A reader drops replies of older epochs and keeps the others for the next step.
ReaderLine(p) ==
  LET line == Head(server[p].stdout) IN
  /\ reader[p].on /\ reader[p].held = NoRequest /\ server[p].stdout # <<>>
  /\ server' = [server EXCEPT ![p].stdout = Tail(@)]
  /\ reader' = [reader EXCEPT ![p].held =
                  IF line.kind = "motion" /\ line.epoch < minimum THEN NoRequest ELSE line]
  /\ UNCHANGED <<client, ask, took, minimum, mailbox, latest, fks, writer, asked, late>>

ReaderPut(p) ==
  /\ reader[p].held # NoRequest
  /\ reader' = [reader EXCEPT ![p].held = NoRequest]
  /\ IF reader[p].held.kind = "motion"
     THEN latest' = reader[p].held /\ UNCHANGED fks
     ELSE fks' = (IF fks = NoRequest THEN reader[p].held ELSE fks) /\ UNCHANGED latest
  /\ UNCHANGED <<client, ask, took, minimum, mailbox, server, writer, asked, late>>

ReaderEnd(p) ==
  /\ reader[p].on /\ reader[p].held = NoRequest /\ ~server[p].alive /\ server[p].stdout = <<>>
  /\ reader' = [reader EXCEPT ![p] = Idle]
  /\ UNCHANGED <<client, ask, took, minimum, mailbox, latest, fks, server, writer, asked, late>>

\* ------------------------------------------------------------ the process
\* The newest request of either kind replaces the one in the slot.
Receive(p) ==
  /\ server[p].alive /\ server[p].stdin # <<>>
  /\ server' = [server EXCEPT ![p].slot = Head(server[p].stdin), ![p].stdin = Tail(@)]
  /\ UNCHANGED <<client, ask, took, minimum, mailbox, latest, fks, writer, reader, asked, late>>

Solve(p) ==
  /\ server[p].alive /\ server[p].busy = NoRequest /\ server[p].slot # NoRequest
  /\ server' = [server EXCEPT ![p].busy = server[p].slot, ![p].slot = NoRequest]
  /\ UNCHANGED <<client, ask, took, minimum, mailbox, latest, fks, writer, reader, asked, late>>

\* The reply carries the identity of its request; a failed FK call has no kind and no epoch and is
\* dropped by the reader.
Reply(p) ==
  LET request == server[p].busy IN
  /\ server[p].alive /\ request # NoRequest
  /\ \E failed \in {FALSE, request.kind = "fk"} :
       server' = [server EXCEPT ![p].busy = NoRequest,
                                ![p].stdout = IF failed THEN @ ELSE Append(@, request)]
  /\ UNCHANGED <<client, ask, took, minimum, mailbox, latest, fks, writer, reader, asked, late>>

Crash(p) ==
  /\ server[p].alive /\ server' = Killed(p)
  /\ UNCHANGED <<client, ask, took, minimum, mailbox, latest, fks, writer, reader, asked, late>>

Next ==
  \/ StartSession \/ StopSession \/ Close \/ CloseDrain \/ Intent \/ Freeze
  \/ Ask \/ AskFk \/ AskRestarts \/ Take \/ Discard \/ TakeFk \/ Timeout
  \/ \E p \in Processes : \/ WriterGet(p) \/ WriterWrite(p) \/ WriterEnd(p)
                          \/ ReaderLine(p) \/ ReaderPut(p) \/ ReaderEnd(p)
                          \/ Receive(p) \/ Solve(p) \/ Reply(p) \/ Crash(p)

Spec == Init /\ [][Next]_vars

\* ------------------------------------------------------------ properties
\* The types of the state.
TypeOK ==
  /\ client.process \in 0..MaxProcess /\ client.session \in {"off", "on", "closing"}
  /\ client.epoch \in 0..MaxEpoch /\ client.gen \in 0..MaxGen /\ minimum \in 0..MaxEpoch
  /\ writer \in [Processes -> Threads] /\ reader \in [Processes -> Threads]
  /\ asked \in 0..MaxAsk /\ late \in BOOLEAN

\* A cycle gets the reply to the very request it made: not one of an earlier session whose thread
\* was late, of an earlier target or of an earlier epoch. So does a call of forward kinematics, as
\* long as none has given up (osc.py:395-531, 592-627, 706-714).
AnswerIsAsked ==
  took.asked.kind = "motion" \/ ~late => took.got.n = took.asked.n
=============================================================================
