-------------------------------- MODULE Rpc --------------------------------
\* Calls of the service into the process that owns the hardware (BackendProcessProxy and
\* _backend_worker_main in scripts/nero_control_server.py). Each channel is a pair of pipes with a
\* lock and request numbers of its own: one for general calls, one for the servo's mailbox, one for
\* the model's sensors. A call that takes too long gives up and leaves its answer in the pipe.
\* A call is named by its number; what it does is left out.
EXTENDS Naturals, Sequences

CONSTANTS
  Channels,   \* of "general", "fast" and "sensor"
  Calls       \* calls made in the behaviour

RpcAssumption ==
  /\ Channels \subseteq {"general", "fast", "sensor"} /\ "general" \in Channels
  /\ 0 \notin Calls

VARIABLES
  call,       \* calls: place, channel, request number, and their outcome
  numbers,    \* _request_id of every channel
  holder,     \* the call that holds the lock of a channel, or 0
  requests,   \* the pipes to the process
  answers,    \* the pipes back
  serving,    \* what a server thread executes, or NoRequest
  process,    \* "on", "closing" when it has left its loop, or "dead"
  ran,        \* history: calls that were executed, per channel
  behind      \* history: a call of the channel has given up

vars == <<call, numbers, holder, requests, answers, serving, process, ran, behind>>

NoRequest == [id |-> 0, call |-> 0]
Free(c, ch) == holder' = [holder EXCEPT ![ch] = 0]
NoOutcome == [kind |-> "none", of |-> 0]
Unavailable == [kind |-> "unavailable", of |-> 0]

Init ==
  /\ call = [c \in Calls |-> [pc |-> "idle", on |-> "general", id |-> 0, out |-> NoOutcome]]
  /\ numbers = [ch \in Channels |-> 0] /\ holder = [ch \in Channels |-> 0]
  /\ requests = [ch \in Channels |-> <<>>] /\ answers = [ch \in Channels |-> <<>>]
  /\ serving = [ch \in Channels |-> NoRequest] /\ process = "on"
  /\ ran = [ch \in Channels |-> <<>>] /\ behind = [ch \in Channels |-> FALSE]

\* ------------------------------------------------------------ BackendProcessProxy.call
Begin(c) ==
  /\ call[c].pc = "idle"
  /\ \E ch \in Channels : call' = [call EXCEPT ![c].pc = "lock", ![c].on = ch]
  /\ UNCHANGED <<numbers, holder, requests, answers, serving, process, ran, behind>>

\* Under the lock of its channel the call is numbered and sent, unless the process is dead; sending
\* fails when the process has closed its end.
Lock(c) ==
  LET ch == call[c].on IN
  /\ call[c].pc = "lock" /\ holder[ch] = 0
  /\ IF process = "dead"
     THEN /\ call' = [call EXCEPT ![c].pc = "done", ![c].out = Unavailable]
          /\ UNCHANGED <<numbers, holder, requests>>
     ELSE /\ numbers' = [numbers EXCEPT ![ch] = @ + 1]
          /\ \/ /\ holder' = [holder EXCEPT ![ch] = c]
                /\ call' = [call EXCEPT ![c].pc = "wait", ![c].id = numbers[ch] + 1]
                /\ requests' = [requests EXCEPT ![ch] =
                                  Append(@, [id |-> numbers[ch] + 1, call |-> c])]
             \/ /\ process = "closing"
                /\ call' = [call EXCEPT ![c].pc = "done", ![c].out = Unavailable]
                /\ UNCHANGED <<holder, requests>>
  /\ UNCHANGED <<answers, serving, process, ran, behind>>

\* Mutant: whatever result comes next is the call's.
OutcomeAny(c, answer) == [kind |-> answer.kind, of |-> answer.call]

\* A result with the number of another request is turned into an error of this one; an error is
\* taken whatever its number is.
Outcome(c, answer) ==
  IF answer.kind = "result" /\ answer.id # call[c].id THEN [kind |-> "mismatch", of |-> c]
  ELSE [kind |-> answer.kind, of |-> answer.call]

Receive(c) ==
  LET ch == call[c].on IN
  /\ call[c].pc = "wait" /\ answers[ch] # <<>>
  /\ call' = [call EXCEPT ![c].pc = "done", ![c].out = Outcome(c, Head(answers[ch]))]
  /\ answers' = [answers EXCEPT ![ch] = Tail(@)] /\ Free(c, ch)
  /\ UNCHANGED <<numbers, requests, serving, process, ran, behind>>

\* Thirty seconds, or sixty, are over; or the pipe is broken.
GiveUp(c) ==
  LET ch == call[c].on IN
  /\ call[c].pc = "wait" /\ Free(c, ch)
  /\ call' = [call EXCEPT ![c].pc = "done", ![c].out = Unavailable]
  /\ behind' = [behind EXCEPT ![ch] = TRUE]
  /\ UNCHANGED <<numbers, requests, answers, serving, process, ran>>

\* ------------------------------------------------------------ the process
\* The main thread serves the general channel, a thread each the other ones, one at a time.
Serve(ch) ==
  /\ process = "on" \/ (process = "closing" /\ ch # "general")
  /\ serving[ch] = NoRequest /\ requests[ch] # <<>>
  /\ serving' = [serving EXCEPT ![ch] = Head(requests[ch])]
  /\ requests' = [requests EXCEPT ![ch] = Tail(@)]
  /\ ran' = [ran EXCEPT ![ch] = Append(@, Head(requests[ch]).call)]
  /\ UNCHANGED <<call, numbers, holder, answers, process, behind>>

\* The method returns or raises, and its answer is sent.
Answer(ch) ==
  /\ process # "dead" /\ serving[ch] # NoRequest
  /\ \E kind \in {"result", "error"} :
       answers' = [answers EXCEPT ![ch] = Append(@, [kind |-> kind, id |-> serving[ch].id,
                                                    call |-> serving[ch].call])]
  /\ serving' = [serving EXCEPT ![ch] = NoRequest]
  /\ UNCHANGED <<call, numbers, holder, requests, process, ran, behind>>

\* An interrupt ends the main loop, which reports it as a failed start, to whoever listens; the
\* other threads see that it is stopping between two requests.
Leave ==
  /\ process = "on" /\ serving["general"] = NoRequest /\ process' = "closing"
  /\ answers' = [answers EXCEPT !["general"] = Append(@, [kind |-> "error", id |-> 0, call |-> 0])]
  /\ UNCHANGED <<call, numbers, holder, requests, serving, ran, behind>>

\* The process ends, crashes in the SDK or is killed; what it had not sent is gone.
Die ==
  /\ process # "dead" /\ process' = "dead"
  /\ requests' = [ch \in Channels |-> <<>>] /\ serving' = [ch \in Channels |-> NoRequest]
  /\ UNCHANGED <<call, numbers, holder, answers, ran, behind>>

Next ==
  \/ \E c \in Calls : Begin(c) \/ Lock(c) \/ Receive(c) \/ GiveUp(c)
  \/ \E ch \in Channels : Serve(ch) \/ Answer(ch)
  \/ Leave \/ Die

Spec == Init /\ [][Next]_vars

\* ------------------------------------------------------------ properties
\* The types of the state.
TypeOK ==
  /\ \A c \in Calls : /\ call[c].pc \in {"idle", "lock", "wait", "done"}
                      /\ call[c].on \in Channels /\ call[c].id \in Nat
                      /\ call[c].out.kind \in {"none", "result", "error", "mismatch", "unavailable"}
  /\ numbers \in [Channels -> Nat] /\ holder \in [Channels -> Calls \cup {0}]
  /\ serving \in [Channels -> [id : Nat, call : Calls \cup {0}]]
  /\ process \in {"on", "closing", "dead"} /\ behind \in [Channels -> BOOLEAN]

\* Whoever gets a result gets that of its own request, executed once, however many calls before it
\* have given up; and as long as none has on its channel, every answer is its own, errors and
\* mismatches included, or tells that the process is ending
\* (nero_control_server.py:99-181, 206-271).
AnswersMatch ==
  /\ \A c \in Calls : call[c].out.kind = "result" =>
       /\ call[c].out.of = c
       /\ \E n \in DOMAIN ran[call[c].on] :
            \A m \in DOMAIN ran[call[c].on] : ran[call[c].on][m] = c <=> m = n
  /\ \A c \in Calls : ~behind[call[c].on] =>
       call[c].out.kind # "mismatch" /\ (call[c].out.kind = "error" => call[c].out.of \in {c, 0})
=============================================================================
