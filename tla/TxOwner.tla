------------------------------- MODULE TxOwner -------------------------------
(***************************************************************************)
(* supervisor/authority.py, class HardwareTxOwner: the one thread that may *)
(* talk to the vendor SDK.  Blocking work reaches it as envelopes in a     *)
(* priority queue (P0 safety, P1 servo set-up, P2 everything else); the    *)
(* realtime position stream reaches it through a mailbox of capacity one.  *)
(* Ownership changes publish a new epoch, optionally with an exclusive     *)
(* category, from any thread at any moment between two steps of the owner. *)
(*                                                                         *)
(* One step is one critical section of the code (_epoch_lock, the CPV      *)
(* condition, the queue mutex) or the start or end of one SDK call.        *)
(***************************************************************************)
EXTENDS Integers, FiniteSets

CONSTANTS
  Calls,        \* one identifier per HardwareTxOwner.call in the behaviour
  Categories,   \* exclusive categories of the mode transitions
  Priorities,   \* queue priorities in use, of 0 (P0), 1 (P1) and 2 (P2)
  Joints,       \* frames of one MIT batch (seven on the arm)
  Modes,        \* output modes in use, "cpv" and "impedance"
  MaxEpoch, MaxRev, MaxGen,    \* bounds on the counters
  Closing,      \* whether close() is called in the behaviour
  ResultLimit, ResultKeep,     \* _trim_cpv_results: 256 and 192
  None

ASSUME BoundsAssumption ==
  /\ Joints \in Nat \ {0} /\ Modes \subseteq {"cpv", "impedance"}
  /\ MaxEpoch \in Nat /\ MaxRev \in Nat /\ MaxGen \in Nat
ASSUME InstanceAssumption == Closing \in BOOLEAN /\ Priorities \subseteq 0..2
ASSUME TrimAssumption ==
  /\ ResultLimit \in Nat /\ ResultKeep \in Nat \ {0}
  /\ ResultKeep =< ResultLimit
ASSUME CategoryAssumption == None \notin Categories /\ "normal" \notin Categories

Epochs == 0..MaxEpoch
Gens   == 0..MaxGen
Revs   == 1..MaxRev

\* A mailbox entry: what a publication fixes about itself.
Entry == [rev : Revs, epoch : Epochs, gen : Gens, mode : Modes]
\* An envelope of the priority queue.
Envelope == [prio : Priorities, epoch : Epochs, cat : Categories \cup {"normal"},
             seq : Nat]

ASSUME NoneAssumption ==
  /\ None \notin Entry /\ None \notin Envelope
  /\ None \notin Epochs /\ None \notin Calls

Terminal == {"superseded", "revoked", "sent", "failed"}
Statuses == Terminal \cup {"absent", "pending"}

VARIABLES
  epoch,        \* _epoch
  exclusive,    \* _exclusive_category
  purge,        \* an advance_epoch between its two critical sections
  mailbox,      \* _cpv_mailbox
  revision,     \* _cpv_revision
  result,       \* _cpv_results
  count,        \* the sent / superseded / revoked / failed counters
  lastSent,     \* _cpv_last_dispatched_revision
  barrier,      \* _cpv_generation_barrier (-1: no entry).  Every caller leaves
                \* interrupt_inflight at True, so _cpv_stop_generation_barrier
                \* always holds the same values and is not repeated here.
  failedEpoch,  \* _impedance_failed_epoch
  env,          \* the envelope of each call
  envState,     \* where that envelope is
  sequence,     \* _sequence
  closed,       \* _closed
  stopQueued,   \* the _STOP sentinel is in the queue
  pc,           \* where the owner thread is
  lastWasCpv,   \* _last_work_was_cpv
  cur,          \* the entry in _dispatch_cpv
  curCall,      \* the call in _dispatch_envelope
  frames,       \* MIT frames of cur already on the bus
  stale,        \* history: writes of this dispatch begun after their revocation
  overtaken,    \* history: CPV dispatches taken while a call was queued
  served,       \* history: envelopes taken while a call was queued
  broken        \* history: epochs in which a MIT batch failed

cpvVars   == <<mailbox, revision, result, count, lastSent, barrier>>
epochVars == <<epoch, exclusive, purge>>
callVars  == <<env, envState, sequence, closed, stopQueued, overtaken, served>>
txVars    == <<pc, lastWasCpv, cur, curCall, frames, stale, failedEpoch, broken>>
vars      == <<cpvVars, epochVars, callVars, txVars>>

NoCount == [sent |-> 0, superseded |-> 0, revoked |-> 0, failed |-> 0]

Init ==
  /\ epoch = 0 /\ exclusive = None /\ purge = None
  /\ mailbox = None /\ revision = 0 /\ lastSent = 0
  /\ result = [r \in Revs |-> "absent"]
  /\ count = NoCount
  /\ barrier = [e \in Epochs |-> -1]
  /\ failedEpoch = None
  /\ env = [c \in Calls |-> None]
  /\ envState = [c \in Calls |-> "none"]
  /\ sequence = 0 /\ closed = FALSE /\ stopQueued = FALSE
  /\ pc = "high" /\ lastWasCpv = FALSE
  /\ cur = None /\ curCall = None /\ frames = 0 /\ stale = 0
  /\ overtaken = [c \in Calls |-> 0] /\ served = [c \in Calls |-> 0]
  /\ broken = {}

Larger(a, b) == IF a > b THEN a ELSE b
Bump(outcome) == [count EXCEPT ![outcome] = @ + 1]

\* _trim_cpv_results: past the limit only the newest ResultKeep results stay.
Trim(res) ==
  LET known == {r \in Revs : res[r] # "absent"}
  IN  IF Cardinality(known) =< ResultLimit THEN res
      ELSE [r \in Revs |-> IF Cardinality({s \in known : s > r}) < ResultKeep
                           THEN res[r] ELSE "absent"]

-----------------------------------------------------------------------------
\* The realtime stream, as the threads outside the owner see it.

\* publish_cpv.  The servo thread fixed e before it took the lock, so e may
\* already be an epoch that has passed.
Publish(e, g, m) ==
  /\ revision < MaxRev
  /\ e =< epoch
  /\ LET r == revision + 1
         after == IF mailbox = None THEN result
                  ELSE [result EXCEPT ![mailbox.rev] = "superseded"]
     IN /\ revision' = r
        /\ mailbox' = [rev |-> r, epoch |-> e, gen |-> g, mode |-> m]
        /\ result' = Trim([after EXCEPT ![r] = "pending"])
        /\ count' = IF mailbox = None THEN count ELSE Bump("superseded")
  /\ UNCHANGED <<lastSent, barrier, epochVars, callVars, txVars>>

\* Mutants of DropMailbox: the counter, the result or the slot forgotten.
DropUncounted ==
  mailbox' = None /\ result' = [result EXCEPT ![mailbox.rev] = "revoked"] /\ UNCHANGED count
DropUnreported == mailbox' = None /\ count' = Bump("revoked") /\ UNCHANGED result
DropNotCleared ==
  result' = [result EXCEPT ![mailbox.rev] = "revoked"] /\ count' = Bump("revoked") /\ UNCHANGED mailbox

\* The pending entry leaves the mailbox without being dispatched.
DropMailbox ==
  /\ mailbox' = None
  /\ result' = [result EXCEPT ![mailbox.rev] = "revoked"]
  /\ count' = Bump("revoked")

KeepMailbox == UNCHANGED <<mailbox, result, count>>

\* Mutant: the barrier is one generation too high.
RevokeOneTooFar(e, g) ==
  /\ e =< epoch
  /\ barrier' = [barrier EXCEPT ![e] = Larger(g + 1, @)]
  /\ KeepMailbox
  /\ UNCHANGED <<revision, lastSent, epochVars, callVars, txVars>>

\* revoke_cpv_before_generation.  The servo increments its target generation
\* before it revokes, so g is never zero.
RevokeBefore(e, g) ==
  /\ e =< epoch
  /\ barrier' = [barrier EXCEPT ![e] = Larger(g, @)]
  /\ IF mailbox # None /\ mailbox.epoch = e /\ mailbox.gen < g
     THEN DropMailbox ELSE KeepMailbox
  /\ UNCHANGED <<revision, lastSent, epochVars, callVars, txVars>>

\* advance_epoch, first critical section: the barrier is published.
AdvanceEpoch(cat) ==
  /\ purge = None /\ epoch < MaxEpoch
  /\ epoch' = epoch + 1
  /\ exclusive' = cat
  /\ purge' = epoch + 1
  /\ UNCHANGED <<cpvVars, callVars, txVars>>

\* advance_epoch, second critical section: the mailbox loses an old entry.
PurgeMailbox ==
  /\ purge # None
  /\ purge' = None
  /\ IF mailbox # None /\ mailbox.epoch # purge THEN DropMailbox ELSE KeepMailbox
  /\ UNCHANGED <<revision, lastSent, barrier, epoch, exclusive,
                 callVars, txVars>>

\* complete_epoch_transition.
CompleteTransition(e, cat) ==
  /\ epoch = e /\ exclusive = cat
  /\ exclusive' = None
  /\ UNCHANGED <<epoch, purge, cpvVars, callVars, txVars>>

-----------------------------------------------------------------------------
\* HardwareTxOwner.call and close, in the calling threads.

\* The closed test and the sequence number.  The epoch e was captured under
\* _epoch_lock before that, or named by the caller (command_epoch), so it may
\* have passed.  Only a transition names an exclusive category, in a P2 call.
CallBegin(c, prio, e, cat) ==
  /\ envState[c] = "none" /\ ~closed
  /\ e =< epoch
  /\ cat \in Categories => prio = 2
  /\ sequence' = sequence + 1
  /\ env' = [env EXCEPT ![c] = [prio |-> prio, epoch |-> e, cat |-> cat,
                                seq |-> sequence + 1]]
  /\ envState' = [envState EXCEPT ![c] = "numbered"]
  /\ UNCHANGED <<closed, stopQueued, overtaken, served, cpvVars, epochVars, txVars>>

\* The envelope enters the priority queue.  From here on the caller only
\* waits: when its dispatch_timeout_s expires it leaves with TimeoutError and
\* the envelope stays queued, which changes none of these variables.
CallEnqueue(c) ==
  /\ envState[c] = "numbered"
  /\ envState' = [envState EXCEPT ![c] = "queued"]
  /\ UNCHANGED <<env, sequence, closed, stopQueued, overtaken, served,
                 cpvVars, epochVars, txVars>>

\* close: the sentinel goes in with priority 99, behind everything else.
Close ==
  /\ Closing /\ ~closed
  /\ closed' = TRUE /\ stopQueued' = TRUE
  /\ UNCHANGED <<env, envState, sequence, overtaken, served,
                 cpvVars, epochVars, txVars>>

-----------------------------------------------------------------------------
\* The owner thread: _loop.

Queued == {c \in Calls : envState[c] = "queued"}
Before(c, d) == \/ env[c].prio < env[d].prio
                \/ env[c].prio = env[d].prio /\ env[c].seq < env[d].seq
Head(c) == c \in Queued /\ \A d \in Queued \ {c} : Before(c, d)

\* The envelope c leaves the queue for _dispatch_envelope.
TakeEnvelope(c) ==
  /\ envState' = [envState EXCEPT ![c] = "taken"]
  /\ curCall' = c /\ stale' = 0
  /\ pc' = "envelope"
  /\ served' = [d \in Calls |-> IF d \in Queued \ {c} THEN served[d] + 1 ELSE 0]
  /\ overtaken' = [overtaken EXCEPT ![c] = 0]
  /\ UNCHANGED <<env, sequence, closed, stopQueued, lastWasCpv,
                 cur, frames, failedEpoch, broken, cpvVars, epochVars>>

StopThread ==
  /\ pc' = "stopped" /\ stopQueued' = FALSE
  /\ UNCHANGED <<env, envState, sequence, closed, overtaken, served, lastWasCpv,
                 cur, curCall, frames, stale, failedEpoch, broken, cpvVars, epochVars>>

Skip(next) ==
  /\ pc' = next
  /\ UNCHANGED <<lastWasCpv, cur, curCall, frames, stale, failedEpoch, broken,
                 callVars, cpvVars, epochVars>>

\* Mutant: the taken entry stays in the mailbox.
TakeEntryLeavesIt ==
  /\ cur' = mailbox /\ frames' = 0 /\ stale' = 0 /\ pc' = "entry"
  /\ UNCHANGED <<cpvVars, epochVars, callVars, lastWasCpv, curCall, failedEpoch, broken>>

\* _take_cpv found an entry.
TakeEntry ==
  /\ cur' = mailbox /\ mailbox' = None
  /\ frames' = 0 /\ stale' = 0
  /\ pc' = "entry"
  /\ overtaken' = [d \in Calls |-> IF d \in Queued THEN overtaken[d] + 1 ELSE overtaken[d]]
  /\ UNCHANGED <<revision, result, count, lastSent, barrier, epochVars,
                 env, envState, sequence, closed, stopQueued, served,
                 lastWasCpv, curCall, failedEpoch, broken>>

\* _take_high_priority_envelope, then the CPV turn unless it was the last.
TakeHigh ==
  /\ pc = "high"
  /\ \/ \E c \in Calls : Head(c) /\ env[c].prio =< 1 /\ TakeEnvelope(c)
     \/ /\ \A c \in Queued : env[c].prio > 1
        /\ Skip(IF lastWasCpv THEN "any" ELSE "cpv")

TakeCpv ==
  /\ pc = "cpv"
  /\ IF mailbox # None THEN TakeEntry ELSE Skip("any")

TakeAny ==
  /\ pc = "any"
  /\ \/ \E c \in Calls : Head(c) /\ TakeEnvelope(c)
     \/ Queued = {} /\ stopQueued /\ StopThread
     \/ Queued = {} /\ ~stopQueued /\ Skip("cpv2")

TakeCpvLast ==
  /\ pc = "cpv2"
  /\ IF mailbox # None THEN TakeEntry ELSE Skip("high")

-----------------------------------------------------------------------------
\* _dispatch_cpv.  A revocation is what the code can know at that instant;
\* the execute_guard of the supervisor is free here (see Authority).

EpochOpen(e) == e = epoch /\ exclusive = None
MayWrite   == EpochOpen(cur.epoch) /\ cur.gen >= barrier[cur.epoch]
MitLatched == cur.mode = "impedance" /\ failedEpoch = cur.epoch

\* Mutants of Settle: CPV may take two turns in a row; a batch that fails
\* after the guard refused one of its joints is not latched.
SettleWithoutTurn(outcome) ==
  /\ result' = [result EXCEPT ![cur.rev] = outcome] /\ count' = Bump(outcome)
  /\ cur' = None /\ pc' = "high" /\ lastWasCpv' = FALSE /\ frames' = 0 /\ stale' = 0
  /\ UNCHANGED <<mailbox, revision, barrier, lastSent, epochVars, callVars, curCall,
                 failedEpoch, broken>>
SettlePartialForgiven(outcome) ==
  /\ result' = [result EXCEPT ![cur.rev] = outcome] /\ count' = Bump(outcome)
  /\ failedEpoch' = IF outcome = "failed" /\ cur.mode = "impedance" /\ pc # "guard"
                    THEN cur.epoch ELSE failedEpoch
  /\ broken' = IF outcome = "failed" /\ cur.mode = "impedance"
               THEN broken \cup {cur.epoch} ELSE broken
  /\ cur' = None /\ pc' = "high" /\ lastWasCpv' = TRUE /\ frames' = 0 /\ stale' = 0
  /\ UNCHANGED <<mailbox, revision, barrier, lastSent, epochVars, callVars, curCall>>

\* The dispatch of cur ends with an outcome and the loop starts over.
Settle(outcome) ==
  /\ result' = LET res == [result EXCEPT ![cur.rev] = outcome]
               IN  IF outcome = "sent" THEN Trim(res) ELSE res
  /\ count' = Bump(outcome)
  /\ lastSent' = IF outcome = "sent" THEN cur.rev ELSE lastSent
  /\ failedEpoch' = IF outcome = "failed" /\ cur.mode = "impedance"
                    THEN cur.epoch ELSE failedEpoch
  /\ broken' = IF outcome = "failed" /\ cur.mode = "impedance"
               THEN broken \cup {cur.epoch} ELSE broken
  /\ cur' = None /\ pc' = "high" /\ lastWasCpv' = TRUE
  /\ frames' = 0 /\ stale' = 0
  /\ UNCHANGED <<mailbox, revision, barrier, epochVars, callVars, curCall>>

GoTo(next) ==
  /\ pc' = next
  /\ UNCHANGED <<lastWasCpv, cur, curCall, frames, stale, failedEpoch, broken,
                 cpvVars, epochVars, callVars>>

\* The only check a CPV batch gets: epoch, exclusivity, barrier and guard.
CheckEntry(guard) ==
  /\ pc = "entry"
  /\ IF MayWrite /\ guard THEN GoTo("checked") ELSE Settle("revoked")

\* Between the check and the SDK call: the reference is computed, which may
\* fail, and always does for MIT in an epoch whose batch already failed.
PrepareEntry(ok) ==
  /\ pc = "checked"
  /\ IF ok /\ ~MitLatched
     THEN GoTo(IF cur.mode = "cpv" THEN "write" ELSE "guard")
     ELSE Settle("failed")

\* Mutant: mit_guard is asked only before the first joint.
MitGuardOnce(guard) ==
  /\ pc = "guard"
  /\ IF frames > 0 \/ (MayWrite /\ guard) THEN GoTo("write") ELSE Settle("revoked")

\* mit_guard, before every joint of a MIT batch.
MitGuard(guard) ==
  /\ pc = "guard"
  /\ IF MayWrite /\ guard THEN GoTo("write")
     ELSE Settle(IF frames = 0 THEN "revoked" ELSE "failed")

\* One SDK write starts: a whole CPV batch, or one MIT joint frame.
WriteCur ==
  /\ pc = "write"
  /\ frames' = frames + 1
  /\ stale' = IF MayWrite THEN stale ELSE stale + 1
  /\ pc' = "sdk"
  /\ UNCHANGED <<lastWasCpv, cur, curCall, failedEpoch, broken, cpvVars, epochVars, callVars>>

\* The SDK call returns or raises.
WriteReturns(ok) ==
  /\ pc = "sdk"
  /\ IF ~ok THEN Settle("failed")
     ELSE IF cur.mode = "impedance" /\ frames < Joints THEN GoTo("guard")
     ELSE Settle("sent")

-----------------------------------------------------------------------------
\* _dispatch_envelope and _execute.

CurEnv == env[curCall]
\* Mutant: the exclusive category is not compared.
AdmittedAnyCategory(e) == e.prio = 0 \/ e.epoch = epoch
Admitted(e) == e.prio = 0 \/ (e.epoch = epoch /\ exclusive \in {None, e.cat})

EnvelopeDone(verdict) ==
  /\ envState' = [envState EXCEPT ![curCall] = verdict]
  /\ curCall' = None /\ pc' = "high" /\ lastWasCpv' = FALSE /\ stale' = 0
  /\ UNCHANGED <<cur, frames, failedEpoch, broken, env, sequence, closed, stopQueued,
                 overtaken, served, cpvVars, epochVars>>

EnvelopeMoves(state, next) ==
  /\ envState' = [envState EXCEPT ![curCall] = state]
  /\ pc' = next
  /\ UNCHANGED <<lastWasCpv, cur, curCall, frames, failedEpoch, broken, env, sequence,
                 closed, stopQueued, overtaken, served, cpvVars, epochVars>>

CheckEnvelope(guard) ==
  /\ pc = "envelope"
  /\ IF Admitted(CurEnv) /\ guard THEN EnvelopeMoves("cleared", "execute") /\ UNCHANGED stale
     ELSE EnvelopeDone("rejected")

StartEnvelope ==
  /\ pc = "execute"
  /\ EnvelopeMoves("running", "backend")
  /\ stale' = IF Admitted(CurEnv) THEN stale ELSE stale + 1

EnvelopeReturns ==
  /\ pc = "backend"
  /\ EnvelopeDone("served")

-----------------------------------------------------------------------------
Stream ==
  \/ \E e \in Epochs, g \in Gens, m \in Modes : Publish(e, g, m)
  \/ \E e \in Epochs, g \in Gens \ {0} : RevokeBefore(e, g)

Ownership ==
  \/ \E cat \in Categories \cup {None} : AdvanceEpoch(cat)
  \/ PurgeMailbox
  \/ \E e \in Epochs, cat \in Categories : CompleteTransition(e, cat)

Calling ==
  \/ \E c \in Calls, p \in Priorities, e \in Epochs, cat \in Categories \cup {"normal"} :
       CallBegin(c, p, e, cat)
  \/ \E c \in Calls : CallEnqueue(c)
  \/ Close

Owner ==
  \/ TakeHigh
  \/ TakeCpv
  \/ TakeAny
  \/ TakeCpvLast
  \/ \E g \in BOOLEAN : CheckEntry(g)
  \/ \E ok \in BOOLEAN : PrepareEntry(ok)
  \/ \E g \in BOOLEAN : MitGuard(g)
  \/ WriteCur
  \/ \E ok \in BOOLEAN : WriteReturns(ok)
  \/ \E g \in BOOLEAN : CheckEnvelope(g)
  \/ StartEnvelope
  \/ EnvelopeReturns

Next ==
  Stream \/ Ownership \/ Calling \/ Owner

Spec == Init /\ [][Next]_vars

\* The owner thread and every thread inside advance_epoch or call keep
\* running; nobody has to publish, revoke, advance or call.
Fairness == WF_vars(Owner) /\ WF_vars(PurgeMailbox) /\ \A c \in Calls : WF_vars(CallEnqueue(c))

FairSpec == Spec /\ Fairness

-----------------------------------------------------------------------------
EpochType ==
  /\ epoch \in Epochs /\ exclusive \in Categories \cup {None}
  /\ purge \in Epochs \cup {None}

StreamType ==
  /\ mailbox \in Entry \cup {None}
  /\ revision \in 0..MaxRev /\ lastSent \in 0..MaxRev
  /\ result \in [Revs -> Statuses]
  /\ count \in [{"sent", "superseded", "revoked", "failed"} -> Nat]
  /\ barrier \in [Epochs -> -1..MaxGen]

CallType ==
  /\ env \in [Calls -> Envelope \cup {None}]
  /\ envState \in [Calls -> {"none", "numbered", "queued", "taken", "cleared", "running",
                             "served", "rejected"}]
  /\ sequence \in Nat /\ closed \in BOOLEAN /\ stopQueued \in BOOLEAN
  /\ overtaken \in [Calls -> Nat] /\ served \in [Calls -> Nat]

\* cur and curCall are set exactly while the owner dispatches them, and an
\* envelope exists from the moment its call has begun.
ThreadType ==
  /\ pc \in {"high", "cpv", "any", "cpv2", "entry", "checked", "guard", "write",
             "sdk", "envelope", "execute", "backend", "stopped"}
  /\ lastWasCpv \in BOOLEAN /\ frames \in Nat /\ stale \in Nat
  /\ failedEpoch \in Epochs \cup {None} /\ broken \subseteq Epochs
  /\ IF pc \in {"entry", "checked", "guard", "write", "sdk"} THEN cur \in Entry ELSE cur = None
  /\ IF pc \in {"envelope", "execute", "backend"} 
     THEN curCall \in Calls /\ envState[curCall] \in {"taken", "cleared", "running"}
     ELSE curCall = None
  /\ \A c \in Calls : envState[c] # "none" => env[c] # None

\* Type invariant.
TypeOK == EpochType /\ StreamType /\ CallType /\ ThreadType

\* The refinement mapping.
Channel == INSTANCE LatestValue WITH
  waiting <- IF mailbox = None THEN 0 ELSE mailbox.rev,
  sending <- IF cur = None THEN 0 ELSE cur.rev,
  last    <- lastSent,
  settled <- count.sent + count.superseded + count.revoked + count.failed

\* The stream of HardwareTxOwner is the channel of LatestValue: publications,
\* revocations, epoch changes, failed and successful dispatches from every
\* thread together send values in publication order, each at most once, and
\* the four counters of cpv_diagnostics account for every published revision.
ImplementsChannel == Channel!Spec

Held == {e.rev : e \in {mailbox, cur} \ {None}}

\* A result reads "pending" only while the mailbox or the owner thread still
\* holds that revision, so wait_cpv_result never waits for a revision that a
\* publication, a revocation or an epoch change has silently dropped; and the
\* revision in the mailbox is never trimmed from the results.
PendingIsHeld ==
  /\ \A r \in Revs : result[r] = "pending" => r \in Held
  /\ mailbox # None => result[mailbox.rev] = "pending"

\* A revision reported sent, revoked, superseded or failed is never reported
\* as anything else later; trimming may only forget it.
ResultsFinal ==
  [][\A r \in Revs : result[r] \in Terminal => result'[r] \in {result[r], "absent"}]_vars

\* However an ownership change or a revocation interleaves with a dispatch
\* already under way, at most one write of that dispatch (a CPV batch, one
\* MIT joint frame, one SDK call of an envelope) begins after it.
StaleBound == stale =< 1

WriteStarts == (pc = "write" /\ pc' = "sdk") \/ (pc = "execute" /\ pc' = "backend")

TransitionBegan ==
  /\ exclusive # None
  /\ \E c \in Calls : /\ envState[c] \in {"running", "served"}
                     /\ env[c].cat = exclusive /\ env[c].epoch = epoch

\* Once the SDK transaction of an exclusive transition has begun, nothing but
\* that category and P0 is written until complete_epoch_transition.
TransitionIsolated ==
  [][WriteStarts /\ TransitionBegan =>
       pc = "execute" /\ (CurEnv.prio = 0 \/ CurEnv.cat = exclusive)]_vars

\* After a MIT batch failed, wholly or half-way, no further MIT frame is
\* written in that epoch: the latch holds one epoch and is enough.
NoMitAfterFailure == pc = "write" /\ cur.mode = "impedance" => cur.epoch \notin broken

\* "queued P0 work always wins at the next SDK-call boundary" (class
\* docstring): a queued P0 or P1 sees at most the one CPV dispatch that the
\* loop had already decided on.
P0NotOvertaken == \A c \in Queued : env[c].prio =< 1 => overtaken[c] =< 1

\* A continuous CPV stream cannot starve P2: a queued call sees at most one
\* CPV dispatch more than it sees envelopes leave the queue.
FairTurn == \A c \in Queued : overtaken[c] =< served[c] + 1

\* The one thread serves stream and queue in turn, whatever arrives while it is
\* between two of its looks at either.
TurnsKept == P0NotOvertaken /\ FairTurn

\* A call whose envelope is queued while the owner runs is served or rejected,
\* also when close() races with it.
QueuedCallServed ==
  \A c \in Calls :
    (envState[c] = "queued" /\ pc # "stopped") ~> envState[c] \in {"served", "rejected"}

\* A published revision is eventually decided, unless the owner has stopped.
PendingResolves ==
  \A r \in Revs : result[r] = "pending" ~> (result[r] # "pending" \/ pc = "stopped")

\* Nobody who waits for the owner, for a call or for a revision's verdict, does
\* so for ever.
EveryoneAnswered == QueuedCallServed /\ PendingResolves

=============================================================================
