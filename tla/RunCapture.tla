----------------------------- MODULE RunCapture -----------------------------
\* The event log of an inference run (src/supervisor/inference_recording.py): the run's threads and
\* a sampler emit events into a bounded queue, a writer thread appends them to a file, and finish()
\* closes the log. A log may be exported when it says that it is complete. Events are numbered in
\* the order of their emission; 0 is the sentinel that ends the writer.
EXTENDS Naturals, Sequences

CONSTANTS
  Emitters,   \* threads of the run that emit events
  Depth,      \* maxsize of the queue (12000 in the code)
  MaxEvent    \* bound on events

RunCaptureAssumption == Depth \in Nat \ {0} /\ MaxEvent \in Nat

VARIABLES
  emitted,   \* history: events emitted while the log was open
  events,    \* the queue
  lost,      \* lost: events that found the queue full
  closed, error,
  emitter,   \* each emitter, the sampler among them: "idle", "copied" or "gone"
  sampling,  \* stop_sampling is not set
  writer,    \* the writer: "get", "write", "flush" or "dead", and the event it writes
  file,      \* events.jsonl
  finish,    \* finish(): its place
  exported   \* history: what an export contained, <<0>> before there is one

vars == <<emitted, events, lost, closed, error, emitter, sampling, writer, file, finish, exported>>

Threads == Emitters \cup {"sampler"}

\* The writer runs, run_start is in the queue, the sampler starts.
Init ==
  /\ emitted = 1 /\ events = <<1>> /\ lost = 0 /\ closed = FALSE /\ error = FALSE
  /\ emitter = [t \in Threads |-> "idle"] /\ sampling = TRUE
  /\ writer = [pc |-> "get", event |-> 0] /\ file = <<>> /\ finish = "open" /\ exported = <<0>>

\* emit(): the payload is copied outside of the lock.
EmitCopy(t) ==
  /\ emitter[t] = "idle" /\ emitted < MaxEvent
  /\ emitter' = [emitter EXCEPT ![t] = IF t = "sampler" /\ ~sampling THEN "gone" ELSE "copied"]
  /\ UNCHANGED <<emitted, events, lost, closed, error, sampling, writer, file, finish, exported>>

\* Then the event is numbered and queued under the lock, unless the log is closed. A full queue
\* loses it and counts it.
Enqueue ==
  IF closed THEN UNCHANGED <<emitted, events, lost>>
  ELSE /\ emitted' = emitted + 1
       /\ IF Len(events) < Depth
          THEN events' = Append(events, emitted + 1) /\ UNCHANGED lost
          ELSE lost' = lost + 1 /\ UNCHANGED events

EmitQueue(t) ==
  /\ emitter[t] = "copied" /\ emitter' = [emitter EXCEPT ![t] = "idle"] /\ Enqueue
  /\ UNCHANGED <<closed, error, sampling, writer, file, finish, exported>>

\* _writer.
WriterGet ==
  /\ writer.pc = "get" /\ events # <<>> /\ events' = Tail(events)
  /\ writer' = IF Head(events) = 0 THEN [pc |-> "flush", event |-> 0]
                                   ELSE [pc |-> "write", event |-> Head(events)]
  /\ UNCHANGED <<emitted, lost, closed, error, emitter, sampling, file, finish, exported>>

\* An event that cannot be serialised, or a full disk, ends the writer with an error.
WriterWrite ==
  /\ writer.pc = "write"
  /\ \/ /\ file' = Append(file, writer.event) /\ writer' = [pc |-> "get", event |-> 0]
        /\ UNCHANGED error
     \/ error' = TRUE /\ writer' = [pc |-> "dead", event |-> 0] /\ UNCHANGED file
  /\ UNCHANGED <<emitted, events, lost, closed, emitter, sampling, finish, exported>>

WriterFlush ==
  /\ writer.pc = "flush" /\ writer' = [pc |-> "dead", event |-> 0] /\ error' \in {error, TRUE}
  /\ UNCHANGED <<emitted, events, lost, closed, emitter, sampling, file, finish, exported>>

\* finish(), which _finish_capture lets one thread call: the sampler is told to stop and joined, or
\* the join times out.
FinishBegin ==
  /\ finish = "open" /\ sampling' = FALSE /\ finish' = "end"
  /\ UNCHANGED <<emitted, events, lost, closed, error, emitter, writer, file, exported>>

FinishEmit ==
  /\ finish = "end" /\ Enqueue /\ finish' = "close"
  /\ UNCHANGED <<closed, error, emitter, sampling, writer, file, exported>>

FinishClose ==
  /\ finish = "close" /\ closed' = TRUE /\ finish' = "pill"
  /\ UNCHANGED <<emitted, events, lost, error, emitter, sampling, writer, file, exported>>

\* The sentinel waits a second for room in the queue; then the writer is joined, or is not.
FinishPill ==
  /\ finish = "pill" /\ finish' = "join"
  /\ IF writer.pc = "dead" THEN UNCHANGED <<events, error>>
     ELSE IF Len(events) < Depth THEN events' = Append(events, 0) /\ UNCHANGED error
                                 ELSE error' = TRUE /\ UNCHANGED events
  /\ UNCHANGED <<emitted, lost, closed, emitter, sampling, writer, file, exported>>

FinishJoin ==
  /\ finish = "join" /\ finish' = "done"
  /\ error' \in {error \/ writer.pc # "dead", TRUE}    \* TRUE: the summary cannot be written
  /\ UNCHANGED <<emitted, events, lost, closed, emitter, sampling, writer, file, exported>>

\* status(): the log says that it is complete.
ExportReady == closed /\ writer.pc = "dead" /\ ~error /\ lost = 0

\* zip_bytes(), once the capture has been handed over.
Export ==
  /\ finish = "done" /\ ExportReady /\ exported' = file
  /\ UNCHANGED <<emitted, events, lost, closed, error, emitter, sampling, writer, file, finish>>

Next ==
  \/ \E t \in Threads : EmitCopy(t) \/ EmitQueue(t)
  \/ WriterGet \/ WriterWrite \/ WriterFlush
  \/ FinishBegin \/ FinishEmit \/ FinishClose \/ FinishPill \/ FinishJoin
  \/ Export

Spec == Init /\ [][Next]_vars

\* ------------------------------------------------------------ properties
\* The types of the state.
TypeOK ==
  /\ emitted \in Nat \ {0} /\ Len(events) <= Depth
  /\ {closed, error, sampling} \subseteq BOOLEAN
  /\ emitter \in [Threads -> {"idle", "copied", "gone"}]
  /\ writer.pc \in {"get", "write", "flush", "dead"}
  /\ finish \in {"open", "end", "close", "pill", "join", "done"}

\* An exported log is complete: it has every event that was emitted before the log was closed, each
\* once, in the order of emission, whatever thread emitted it and however the queue, the joins and
\* the disk behaved (inference_recording.py:107-133, 174-204).
ExportComplete == exported = <<0>> \/ exported = [e \in 1..emitted |-> e]
=============================================================================
