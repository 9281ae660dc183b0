------------------------------ MODULE Timeline ------------------------------
\* The plan of a real-time run (src/supervisor/inference_rtc.py): the planner (RtcRun.run) infers
\* from timestamped observations and splices every answer into a timeline of slots, while the
\* executor thread commits, sends and completes one slot after another. The run's life and its HOLD
\* are module Policy. The clock counts half slots, so that an observation may fall inside a slot.
\* A target is named by the inference it comes from; 0 is the HOLD the run starts in.
EXTENDS Integers

CONSTANTS
  H,         \* rows of a plan: the action horizon
  Delay,     \* inference_delay: rows the model takes as given
  Execute,   \* execute_horizon: rows between two observations
  Bridges,   \* lengths of the bridge a moving plan may need after HOLD; 0 is none
  Jitter,    \* age of an observation, and how late it may be without being tardy, in half slots
  MaxNow     \* bound on the clock, in half slots

\* RTCTiming.__post_init__ admits these.
TimelineAssumption ==
  /\ H \in Nat /\ Delay \in Nat /\ Execute \in Nat \ {0} /\ Delay <= Execute /\ Execute < H
  /\ Delay + Execute <= H /\ Bridges \subseteq Nat /\ Jitter \in Nat /\ MaxNow \in Nat

VARIABLES
  now,        \* the clock, from the first observation on
  phase,      \* the planner: "boot", "plan" between requests, "infer", or "over"
  failed,     \* what ended the run: "none", "slot", "late", or a reason of the splice
  next,       \* next_tick
  committed,  \* committed_until
  targets,    \* slots still to be sent, and their targets
  history,    \* slots that are behind, and what was sent in them
  revision,   \* revision of the plan
  context,    \* the request in flight: observation, revision, freeze_until, length of the prefix
  due,        \* next_request_ns
  bridged,    \* bridge_end + 1, or 0
  exec,       \* the executor: its place, the slot it has committed and the target it sends
  started     \* last_dispatch_started, or -1

vars == <<now, phase, failed, next, committed, targets, history, revision, context, due, bridged,
          exec, started>>

P == 2                                     \* half slots of a slot
Slot(t) == t \div P                        \* the slot that has begun at time t
SlotFrom(t) == (t + P - 1) \div P          \* the first slot that begins at t or later
Beyond(a, b) == IF a > b THEN a ELSE b
NoContext == [stamp |-> 0, rev |-> 0, freeze |-> 0, prefix |-> 0, tardy |-> FALSE]
Known == DOMAIN targets \cup DOMAIN history
Over(why) == phase' = "over" /\ failed' = why

Init ==
  /\ now = 0 /\ phase = "boot" /\ failed = "none" /\ next = 0 /\ committed = 0
  /\ targets = [t \in 0..(H - 1) |-> 0] /\ history = << >> /\ revision = 1
  /\ context = NoContext /\ due = 0 /\ bridged = 0
  /\ exec = [pc |-> "off", tick |-> 0, target |-> 0] /\ started = -1

Pass ==
  /\ phase # "over" /\ now < MaxNow /\ now' = now + 1
  /\ UNCHANGED <<phase, failed, next, committed, targets, history, revision, context, due, bridged,
                 exec, started>>

\* ------------------------------------------------------------ the planner
\* The plan inferred from HOLD takes over: slots that have begun stay HOLD, and the rows before
\* inference_delay. A bridge may replace the join; the first splice must not touch it. The answer is
\* compared with the freeze line before it is prepared, and its first slot is chosen after that; the
\* next observation is due from the comparison on.
Bootstrap ==
  /\ phase = "boot"
  /\ LET first == Slot(now) + 1
         join == Beyond(first, Delay)
     IN \E seen \in 0..now :
        IF seen > Delay * P \/ now >= (H - 1) * P \/ join >= H
        THEN /\ Over("late")
             /\ UNCHANGED <<next, committed, targets, history, revision, due, bridged, exec>>
        ELSE /\ phase' = "plan" /\ revision' = revision + 1
             /\ next' = first /\ committed' = first
             /\ targets' = [t \in first..(H - 1) |-> IF t < Delay THEN 0 ELSE 1]
             /\ history' = [t \in 0..(first - 1) |-> 0]
             /\ \E b \in Bridges : /\ b > 0 => join + b < H - 2
                                   /\ bridged' = IF b = 0 THEN 0 ELSE join + b + 1
             /\ exec' = [exec EXCEPT !.pc = "wait"] /\ due' = Beyond(0, seen - Jitter)
             /\ UNCHANGED failed
  /\ UNCHANGED <<now, context, started>>

\* Timeline.context: the freeze line, and the rows known from the observation on. A row between
\* two slots needs both.
FreezeAt(stamp) ==
  Beyond(Beyond(next, committed), Beyond(bridged, SlotFrom(stamp + Delay * P)))
RowKnown(stamp, i) ==
  LET t == stamp + i * P
  IN Slot(t) \in Known /\ SlotFrom(t) \in Known
PrefixLength(stamp) ==
  CHOOSE n \in 0..H : /\ \A i \in 0..(n - 1) : RowKnown(stamp, i)
                      /\ n < H => ~RowKnown(stamp, n)

Tardy(stamp) == stamp > due + Jitter

\* The planner asks with an observation made when the next one was due, or later.
Ask ==
  /\ phase = "plan" /\ now >= due
  /\ \E stamp \in Beyond(due, now - Jitter)..now :
       LET freeze == FreezeAt(stamp)
           n == PrefixLength(stamp)
       IN IF n < SlotFrom(freeze * P - stamp)
          THEN Over(IF Tardy(stamp) THEN "late" ELSE "runway") /\ UNCHANGED context
          ELSE /\ phase' = "infer" /\ UNCHANGED failed
               /\ context' = [stamp |-> stamp, rev |-> revision, freeze |-> freeze, prefix |-> n,
                              tardy |-> Tardy(stamp)]
  /\ UNCHANGED <<now, next, committed, targets, history, revision, due, bridged, exec, started>>

\* Timeline.merged and merge_response: the first slot an answer may replace, and the last it covers.
\* Mutant: only the freeze line of the request counts, not what was committed meanwhile.
CutFrozen == context.freeze
Cut == Beyond(Beyond(context.freeze, committed), Beyond(next, Slot(now) + 1))
Last == Slot(context.stamp + (H - 1) * P)

\* An answer at the very instant of the freeze line already moves the cut.
Late == now >= context.freeze * P
Kept == {t \in DOMAIN targets : next <= t /\ t < Cut}
\* Rows guided by the old plan: the splice must fall on one of them.
Guided == (IF context.prefix < H - Execute THEN context.prefix ELSE H - Execute) - 1
Refusal ==
  IF context.rev # revision THEN "obsolete"
  ELSE IF Cut > Last THEN "future"
  ELSE IF next..Last \ (Kept \cup Cut..Last) # {} THEN "gap"
  ELSE IF Cut \notin DOMAIN targets \/ Cut * P - context.stamp > Guided * P THEN "seam"
  ELSE "none"

\* The answer arrives: it is spliced, or refused, or does not continue the old plan closely enough.
Answer ==
  /\ phase = "infer" /\ context' = NoContext
  /\ \/ /\ Refusal = "none" /\ phase' = "plan" /\ UNCHANGED failed
        /\ targets' = [t \in Kept \cup Cut..Last |-> IF t < Cut THEN targets[t] ELSE revision]
        /\ revision' = revision + 1 /\ due' = context.stamp + Execute * P
     \/ /\ Over(IF Refusal = "none" THEN "unlike" ELSE IF Late \/ context.tardy THEN "late"
                ELSE IF context.freeze = bridged THEN "bridge" ELSE Refusal)
        /\ UNCHANGED <<targets, revision, due>>
  /\ UNCHANGED <<now, next, committed, history, bridged, exec, started>>

\* ------------------------------------------------------------ the executor
Lost == now >= (next + 1) * P              \* the slot the executor waits for is over

\* It sleeps until its slot begins, and asks for the row lock.
Wake ==
  /\ phase # "over" /\ exec.pc = "wait" /\ now >= next * P
  /\ IF Lost THEN Over("slot") /\ UNCHANGED exec
             ELSE exec' = [exec EXCEPT !.pc = "lock"] /\ UNCHANGED <<phase, failed>>
  /\ UNCHANGED <<now, next, committed, targets, history, revision, context, due, bridged, started>>

\* commit_next under the row lock, unless the slot is lost or the last command too recent.
Commit ==
  /\ phase # "over" /\ exec.pc = "lock"
  /\ IF Lost \/ (started >= 0 /\ 2 * (now - started) < P)
     THEN Over("slot") /\ UNCHANGED <<committed, exec, started>>
     ELSE IF next \notin DOMAIN targets
     THEN Over("exhausted") /\ UNCHANGED <<committed, exec, started>>
     ELSE /\ committed' = next + 1 /\ started' = now
          /\ exec' = [pc |-> "sent", tick |-> next, target |-> targets[next]]
          /\ UNCHANGED <<phase, failed>>
  /\ UNCHANGED <<now, next, targets, history, revision, context, due, bridged>>

\* The command has returned: complete(), or the slot has been exceeded.
Complete ==
  /\ phase # "over" /\ exec.pc = "sent"
  /\ IF Lost
     THEN Over("slot") /\ UNCHANGED <<next, targets, history, exec>>
     ELSE /\ history' = [t \in {s \in DOMAIN history : s >= next - H} \cup {next} |->
                           IF t = next THEN targets[next] ELSE history[t]]
          /\ targets' = [t \in DOMAIN targets \ {next} |-> targets[t]]
          /\ next' = next + 1 /\ exec' = [exec EXCEPT !.pc = "wait"]
          /\ UNCHANGED <<phase, failed>>
  /\ UNCHANGED <<now, committed, revision, context, due, bridged, started>>

\* The run is over, or the bound on the clock is reached.
Rest == (phase = "over" \/ now = MaxNow) /\ UNCHANGED vars

Next ==
  \/ Pass \/ Bootstrap \/ Ask \/ Answer \/ Wake \/ Commit \/ Complete \/ Rest

Spec == Init /\ [][Next]_vars

\* ------------------------------------------------------------ properties
\* The types of the state.
TypeOK ==
  /\ now \in 0..MaxNow /\ phase \in {"boot", "plan", "infer", "over"}
  /\ failed \in {"none", "slot", "late", "runway", "obsolete", "future", "gap", "seam", "unlike",
                 "bridge", "exhausted"}
  /\ next \in Nat /\ committed \in {next, next + 1} /\ revision \in Nat /\ due \in Nat
  /\ bridged \in 0..H
  /\ context \in [stamp : Nat, rev : Nat, freeze : Nat, prefix : 0..H, tardy : BOOLEAN]
  /\ exec \in [pc : {"off", "wait", "lock", "sent"}, tick : Nat, target : Nat]
  /\ started \in -1..now

\* A committed target stands: what is sent in a slot is what the timeline keeps for it and what
\* complete() records, although an answer may be spliced while the command is on its way
\* (inference_rtc.py:256-272, 274-318, 587-616).
CommittedStands == exec.pc = "sent" => exec.tick = next /\ targets[next] = exec.target

\* Rows that an answer covers beyond the next observation: they outlast the delay and the age of
\* two observations.
Spare == H - 1 - Execute
Fits == Spare >= Jitter + 2 /\ 2 * Spare >= 2 * Delay + Jitter + 3

\* An answer in time is spliced: while every observation is made when it is due, the first from the
\* moment the answer from HOLD was compared with its freeze line, and every answer comes before its
\* freeze line, and but for a bridge that outlives the guided rows, the run ends neither because the
\* plan is too short to ask again nor because the answer does not meet the old plan
\* (inference_rtc.py:219-305). It takes a horizon that the two others fit in, which __post_init__
\* does not ask for.
OnTimeIsSpliced == Fits => failed \notin {"runway", "obsolete", "future", "gap", "seam"}
=============================================================================
