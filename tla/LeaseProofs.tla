----------------------------- MODULE LeaseProofs -----------------------------
(***************************************************************************)
(* Proofs about the lease, the operator jobs and the watchdog, for every   *)
(* number of clients, jobs and leases and every kind of job: types,        *)
(* SingleFlight, TakeoverRevokes and VerdictsStand.                        *)
(***************************************************************************)
EXTENDS Lease, TLAPS

-----------------------------------------------------------------------------
\* Calls.

Pending == {"queued", "running", "entered"}
Waits   == {"cpv", "transition", "recovered", "asked"}

\* Places of a handoff: between _require_operational_control and its end.
HandoffPlaces ==
  {"waiting", "stopping", "cpv", "revoked", "promoted", "transition"}

Places ==
  {"none", "queued", "running", "begin", "waiting", "stopping", "cpv", "revoked", "promoted",
   "transition", "taken over", "recovering", "recovered", "verdict", "writing", "finally",
   "done", "jobs", "marking", "marked", "lease", "expired", "asking", "asked", "beat", "dead"}

PlaceType ==
  /\ at \in [Actors -> Places] /\ session \in BOOLEAN
  /\ mode \in {"HOLD", "FREEDRIVE", "TRANSITIONING", "FAULT"}

CallRecords ==
  [method : {"none", "stop_cpv", "hold", "freedrive"},
   category : Transitions \cup {"p2", "cpv_stop"}, current : BOOLEAN,
   state : {"none", "queued", "running", "entered", "ok", "already", "failed", "revoked"},
   superseded : BOOLEAN]

CallTyped == exclusive \in Transitions \cup {None} /\ call \in [Actors -> CallRecords]

Statuses   == {"none", "queued", "running", "completed", "failed", "timed_out"}
JobRecords == [status : Statuses, marked : BOOLEAN]
RunRecords == [kind : Kinds \cup {None}, ok : BOOLEAN, hit : BOOLEAN]

JobTyped ==
  /\ job \in [Jobs -> JobRecords] /\ run \in [Jobs -> RunRecords]
  /\ active \in Jobs \cup {None} /\ marking \in Jobs \cup {None}
  /\ handoff \in Actors \cup {None} /\ seen \in [Actors -> 0..MaxToken]

\* A thread that has not been submitted has not begun.
StartInv == \A j \in Jobs : job[j].status = "none" => at[j] = "none"

MarkInv == marking # None <=> DogAt("marking")

\* The queue holds each actor whose call is pending, once, and only the call
\* at its head has begun.
QueueInv ==
  /\ queue \in Seq(Actors)
  /\ \A i, k \in 1..Len(queue) : queue[i] = queue[k] => i = k
  /\ \A a \in Actors : call[a].state \in Pending <=> \E i \in 1..Len(queue) : queue[i] = a
  /\ \A i \in 2..Len(queue) : call[queue[i]].state = "queued"

\* Only an actor that waits for its call has one pending.
WaitInv == \A a \in Actors : call[a].state \in Pending => at[a] \in Waits

\* Whoever hands the arm over does so for a transition.
KindInv == \A a \in Actors : at[a] \in HandoffPlaces => Kind(a) \in Transitions

\* The actions with which an operation ends.
Ends(a) == Refused(a) \/ StopFails(a) \/ JoinFails(a) \/ TransitionEnds(a) \/ RecoveryEnds(a)

\* What TypeOK needs to be inductive.
Typed ==
  /\ LeaseType /\ JobTyped /\ MarkInv /\ PlaceType /\ CallTyped 
  /\ QueueInv /\ WaitInv /\ StartInv /\ KindInv

-----------------------------------------------------------------------------
\* Jobs.

Inside(place) == place \notin {"none", "queued", "running", "finally", "done"}

Busy(j) == at[j] \notin {"none", "done"}

\* A job's status follows its thread: before the thread has taken the job up
\* nobody marks it, and a thread that is inside holds _active_action.
JobAgrees(j) ==
  /\ at[j] = "none" => job[j].status = "none"
  /\ at[j] = "queued" => job[j].status = "queued"
  /\ at[j] = "running" => job[j].status = "running"
  /\ at[j] \notin {"none", "queued"} => job[j].status \notin {"none", "queued"}
  /\ at[j] \in {"finally", "done"} => job[j].status # "running"
  /\ Acting(j) => active = j
  /\ marking = j => at[j] \notin {"none", "queued", "running"}

\* One thread at a time, from its submission on.
FlightInv ==
  /\ \A j \in Jobs : JobAgrees(j)
  /\ \A i, j \in Jobs : Busy(i) /\ Busy(j) => i = j

\* Before its verdict is written a job is neither completed nor failed.
VerdictInv ==
  \A j \in Jobs :
    /\ at[j] = "none" => job[j].status = "none"
    /\ at[j] = "queued" => job[j].status = "queued"
    /\ job[j].status \in {"completed", "failed"} => at[j] \in {"finally", "done"}
    /\ at[j] \in {"finally", "done"}
       => job[j].status \in {"completed", "failed", "timed_out"}
    /\ marking = j => at[j] \notin {"none", "queued"}

\* What the places of a call say of it, and what a preempted call may have
\* come to.
CallInv ==
  /\ \A a \in Actors :
       /\ at[a] = "transition" => call[a].method = Kind(a)
       /\ at[a] = "recovered" => call[a].method = "hold"
       /\ call[a].state = "ok" /\ call[a].superseded
          => call[a].method = "stop_cpv"
  /\ \A j \in Jobs : /\ run[j].ok => ~run[j].hit
                     /\ at[j] = "none" => ~run[j].ok

\* A takeover has seen no later lease than there is.
Taking ==
  {"revoked", "promoted", "transition", "taken over", "recovering", "recovered"}

TakeoverInv ==
  \A a \in Actors :
    /\ seen[a] <= granted
    /\ at[a] \in Taking => lease = None \/ lease.token > seen[a]

-----------------------------------------------------------------------------
\* Types.

LEMMA ActorFacts ==
  /\ None \notin Actors /\ Jobs \subseteq Actors /\ Jobs \subseteq Nat
  /\ Dog \notin Jobs /\ None \notin Jobs /\ None # Dog
BY ActorAssumption DEF Actors, Jobs, Dog

LEMMA DogIsActor == Dog \in Actors
BY DEF Actors

LEMMA InitTyped == Init => Typed
<1> SUFFICES ASSUME Init PROVE Typed
  OBVIOUS
<1>1. LeaseType /\ JobTyped /\ MarkInv
  BY ActorAssumption, ActorFacts
     DEF Init, LeaseType, JobTyped, JobRecords, RunRecords, Statuses, MarkInv, NoJob, NoRun,
         NoCall, DogAt, Actors, Dog
<1>2. PlaceType
  BY DEF Init, PlaceType, Places
<1>3. QueueInv /\ KindInv /\ StartInv
  BY ActorFacts DEF Init, QueueInv, KindInv, StartInv, HandoffPlaces, Pending, NoCall, Dog
<1>4. CallTyped /\ WaitInv
  BY DEF Init, CallTyped, CallRecords, WaitInv, Pending, NoCall
<1> QED BY <1>1, <1>2, <1>3, <1>4 DEF Typed

LEMMA LeaseTypeStep ==
  ASSUME LeaseType, [Next]_vars PROVE LeaseType'
<1>1. ASSUME NEW a \in Actors, Ends(a) PROVE LeaseType'
  BY <1>1
     DEF Ends, Refused, StopFails, JoinFails, TransitionEnds, RecoveryEnds, LeaseType, leaseVars,
         Finishes
<1>2. ASSUME NEW c \in Clients, Acquire(c) PROVE LeaseType'
  BY <1>2, ActorAssumption DEF Acquire, LeaseType
<1>3. ASSUME NEW c \in Clients, Renew(c) \/ Release(c) PROVE LeaseType'
  BY <1>3 DEF Renew, Release, Owns, LeaseType
<1>4. ASSUME Expires PROVE LeaseType'
  BY <1>4 DEF Expires, LeaseType
<1>5. ASSUME NEW a \in Actors, Revokes(a) PROVE LeaseType'
  BY <1>5 DEF Revokes, Moves, LeaseType
<1>6. ASSUME NEW j \in Jobs, TakesOver(j) PROVE LeaseType'
  BY <1>6 DEF TakesOver, Moves, LeaseType
<1>7. ASSUME DogTakes PROVE LeaseType'
  BY <1>7 DEF DogTakes, DogAt, Moves, LeaseType
<1>8. ASSUME StartSession \/ CallBegins \/ CallEnters \/ DogMarks \/ DogLeavesJobs \/ DogHears \/
             DogBlames \/ DogPreempts
      PROVE  LeaseType'
  BY <1>8
     DEF StartSession, CallBegins, CallEnters, DogMarks, DogLeavesJobs, DogHears, DogBlames,
         DogPreempts, Outdated, Admitted, DogAt, Moves, Preempt, LeaseType, leaseVars
<1>9. ASSUME DogAsks \/ DogReturns PROVE LeaseType'
  BY <1>9 DEF DogAsks, DogReturns, DogAt, Request, Envelope, Moves, Answered, Done, LeaseType,
             leaseVars
<1>10. ASSUME NEW j \in Jobs, NEW kind \in Kinds, Submit(j, kind) PROVE LeaseType'
  BY <1>10 DEF Submit, Moves, LeaseType, leaseVars
<1>11. ASSUME NEW ok \in BOOLEAN, CallReturns(ok) \/ CallCommits(ok) PROVE LeaseType'
  BY <1>11 DEF CallReturns, CallCommits, Settles, Commits, LeaseType, leaseVars
<1>12. ASSUME NEW a \in Actors, Accepted(a) \/ Locks(a) \/ StopsSession(a) \/ Promotes(a) \/
              Joins(a)
       PROVE  LeaseType'
  BY <1>12
     DEF Accepted, Locks, StopsSession, Promotes, Joins, Moves, Preempt, Request, Envelope,
         Outdated, LeaseType, leaseVars
<1>13. ASSUME NEW j \in Jobs, TakeoverPreempts(j) \/ Recovers(j) \/ JobRuns(j) \/ JobActs(j) \/
              JobLooks(j) \/ JobWrites(j) \/ JobEnds(j) \/ DogLooks(j)
       PROVE  LeaseType'
  BY <1>13
     DEF TakeoverPreempts, Recovers, JobRuns, JobActs, JobLooks, JobWrites, JobEnds, DogLooks,
         Preempt, Moves, Request, Envelope, Markable, DogAt, LeaseType, leaseVars
<1>14. ASSUME UNCHANGED vars PROVE LeaseType'
  BY <1>14 DEF vars, leaseVars, jobVars, txVars, LeaseType
<1> QED BY <1>1, <1>2, <1>3, <1>4, <1>5, <1>6, <1>7, <1>8, <1>9, <1>10, <1>11, <1>12, <1>13,
       <1>14, DogIsActor, ActorFacts
       DEF Next, Environment, Owner, DogStep, JobStep, Handoff, Ends

LEMMA PlaceTypeStep ==
  ASSUME PlaceType, [Next]_vars PROVE PlaceType'
<1>1. ASSUME NEW a \in Actors, Ends(a) PROVE PlaceType'
  BY <1>1
     DEF Ends, Refused, StopFails, JoinFails, TransitionEnds, RecoveryEnds, PlaceType, Places,
         Finishes, Moves
<1>2. ASSUME NEW c \in Clients, Acquire(c) \/ Renew(c) \/ Release(c) PROVE PlaceType'
  BY <1>2 DEF Acquire, Renew, Release, Owns, PlaceType, Places
<1>3. ASSUME Expires \/ StartSession \/ CallBegins \/ CallEnters \/ DogMarks \/ DogLeavesJobs
      PROVE  PlaceType'
  BY <1>3
     DEF Expires, StartSession, CallBegins, CallEnters, DogMarks, DogLeavesJobs, Outdated,
         Admitted, DogAt, Moves, PlaceType, Places
<1>4. ASSUME DogTakes \/ DogHears \/ DogBlames \/ DogPreempts \/ DogAsks \/ DogReturns
      PROVE  PlaceType'
  BY <1>4
     DEF DogTakes, DogHears, DogBlames, DogPreempts, DogAsks, DogReturns, DogAt, Moves, Preempt,
         Request, Envelope, Answered, Done, PlaceType, Places
<1>5. ASSUME NEW j \in Jobs, NEW kind \in Kinds, Submit(j, kind) PROVE PlaceType'
  BY <1>5 DEF Submit, Moves, PlaceType, Places
<1>6. ASSUME NEW ok \in BOOLEAN, CallReturns(ok) \/ CallCommits(ok) PROVE PlaceType'
  BY <1>6 DEF CallReturns, CallCommits, Settles, Commits, PlaceType, Places
<1>7. ASSUME NEW a \in Actors, Accepted(a) \/ Locks(a) \/ StopsSession(a) \/ Revokes(a) \/
             Promotes(a) \/ Joins(a)
      PROVE  PlaceType'
  BY <1>7
     DEF Accepted, Locks, StopsSession, Revokes, Promotes, Joins, Moves, Preempt, Request,
         Envelope, Outdated, PlaceType, Places
<1>8. ASSUME NEW j \in Jobs, TakesOver(j) \/ TakeoverPreempts(j) \/ Recovers(j) \/ JobRuns(j) \/
             JobActs(j) \/ JobLooks(j)
      PROVE  PlaceType'
  BY <1>8
     DEF TakesOver, TakeoverPreempts, Recovers, JobRuns, JobActs, JobLooks, Moves, Preempt,
         Request, Envelope, PlaceType, Places
<1>9. ASSUME NEW j \in Jobs, JobWrites(j) \/ JobEnds(j) \/ DogLooks(j) PROVE PlaceType'
  BY <1>9 DEF JobWrites, JobEnds, DogLooks, Moves, Markable, DogAt, PlaceType, Places
<1>10. ASSUME UNCHANGED vars PROVE PlaceType'
  BY <1>10 DEF vars, leaseVars, jobVars, txVars, PlaceType
<1> QED BY <1>1, <1>2, <1>3, <1>4, <1>5, <1>6, <1>7, <1>8, <1>9, <1>10, DogIsActor, ActorFacts
       DEF Next, Environment, Owner, DogStep, JobStep, Handoff, Ends

-----------------------------------------------------------------------------
\* The queue: what a call's request, its start, its verdict and its end, and
\* the marks of an epoch or a preemption, do to it.

LEMMA QueueSame ==
  ASSUME QueueInv, UNCHANGED queue,
         \A a \in Actors : call'[a].state = call[a].state
  PROVE  QueueInv'
BY DEF QueueInv

LEMMA QueueRequest ==
  ASSUME CallTyped, QueueInv, NEW a \in Actors, NEW method, NEW category,
         call[a].state \notin Pending, Request(a, method, category)
  PROVE  QueueInv'
<1>1. /\ call'[a].state = "queued"
      /\ \A b \in Actors \ {a} : call'[b] = call[b]
  BY DEF CallTyped, Request, Envelope
<1>2. /\ queue' \in Seq(Actors) /\ Len(queue') = Len(queue) + 1
      /\ queue'[Len(queue) + 1] = a /\ Len(queue) \in Nat
      /\ \A i \in 1..Len(queue) : queue'[i] = queue[i] /\ queue[i] \in Actors
  BY DEF QueueInv, Request
<1>3. \A i \in 1..Len(queue) : queue[i] # a
  BY DEF QueueInv
<1>4. \A i, k \in 1..Len(queue') : queue'[i] = queue'[k] => i = k
  BY <1>2, <1>3 DEF QueueInv
<1>5. \A b \in Actors : call'[b].state \in Pending <=> \E i \in 1..Len(queue') : queue'[i] = b
  <2> TAKE b \in Actors
  <2>1. CASE b = a
    BY <2>1, <1>1, <1>2 DEF Pending
  <2>2. CASE b # a
    BY <2>2, <1>1, <1>2 DEF QueueInv
  <2> QED BY <2>1, <2>2
<1>6. \A i \in 2..Len(queue') : call'[queue'[i]].state = "queued"
  BY <1>1, <1>2, <1>3 DEF QueueInv
<1> QED BY <1>2, <1>4, <1>5, <1>6 DEF QueueInv

LEMMA QueueHead ==
  ASSUME QueueInv, queue # <<>>
  PROVE  Head(queue) \in Actors /\ Head(queue) = queue[1] /\ Len(queue) \in Nat \ {0}
BY DEF QueueInv

LEMMA QueueAdvance ==
  ASSUME CallTyped, QueueInv, queue # <<>>, NEW v \in Pending,
         call' = [call EXCEPT ![Head(queue)].state = v], UNCHANGED queue
  PROVE  QueueInv'
<1>1. \A a \in Actors : call'[a].state = IF a = Head(queue) THEN v ELSE call[a].state
  BY DEF CallTyped
<1>2. \A i \in 2..Len(queue) : queue[i] # Head(queue) /\ queue[i] \in Actors
  BY QueueHead DEF QueueInv
<1> QED BY <1>1, <1>2, QueueHead DEF QueueInv

LEMMA QueueSettle ==
  ASSUME CallTyped, QueueInv, queue # <<>>, NEW v, v \notin Pending,
         call' = [call EXCEPT ![Head(queue)].state = v], queue' = Tail(queue)
  PROVE  QueueInv'
<1>1. \A a \in Actors : call'[a].state = IF a = Head(queue) THEN v ELSE call[a].state
  BY DEF CallTyped
<1>2. /\ queue' \in Seq(Actors) /\ Len(queue') = Len(queue) - 1 /\ Len(queue) \in Nat \ {0}
      /\ \A i \in 1..Len(queue') : queue'[i] = queue[i + 1] /\ queue[i + 1] \in Actors
  <2>1. Len(queue) \in Nat \ {0} /\ queue \in Seq(Actors)
    BY QueueHead DEF QueueInv
  <2>2. queue' \in Seq(Actors) /\ Len(queue') = Len(queue) - 1
    BY <2>1
  <2>3. ASSUME NEW i \in 1..Len(queue') PROVE queue'[i] = queue[i + 1] /\ queue[i + 1] \in Actors
    BY <2>1, <2>2
  <2> QED BY <2>1, <2>2, <2>3
<1>3. \A i \in 2..Len(queue) : queue[i] # Head(queue)
  <2> TAKE i \in 2..Len(queue)
  <2>1. i \in 1..Len(queue) /\ 1 \in 1..Len(queue) /\ i # 1 /\ Head(queue) = queue[1]
    BY <1>2, QueueHead
  <2> QED BY <2>1 DEF QueueInv
<1>4. \A i, k \in 1..Len(queue') : queue'[i] = queue'[k] => i = k
  <2> TAKE i, k \in 1..Len(queue')
  <2>1. i + 1 \in 1..Len(queue) /\ k + 1 \in 1..Len(queue)
    BY <1>2
  <2> QED BY <2>1, <1>2 DEF QueueInv
<1>5. \A b \in Actors : call'[b].state \in Pending <=> \E i \in 1..Len(queue') : queue'[i] = b
  <2> TAKE b \in Actors
  <2>1. CASE b = Head(queue)
    <3>1. \A i \in 1..Len(queue') : queue'[i] # b
      BY <2>1, <1>2, <1>3
    <3> QED BY <3>1, <2>1, <1>1
  <2>2. CASE b # Head(queue)
    <3>1. call'[b].state = call[b].state
      BY <2>2, <1>1
    <3>2. ASSUME NEW i \in 1..Len(queue), queue[i] = b
          PROVE  \E k \in 1..Len(queue') : queue'[k] = b
      <4>1. i # 1
        BY <3>2, <2>2, QueueHead
      <4>2. i - 1 \in 1..Len(queue') /\ queue'[i - 1] = b
        BY <4>1, <3>2, <1>2
      <4> QED BY <4>2
    <3>3. ASSUME NEW k \in 1..Len(queue'), queue'[k] = b
          PROVE  \E i \in 1..Len(queue) : queue[i] = b
      <4>1. k + 1 \in 1..Len(queue) /\ queue[k + 1] = b
        BY <3>3, <1>2
      <4> QED BY <4>1
    <3> QED BY <3>1, <3>2, <3>3 DEF QueueInv
  <2> QED BY <2>1, <2>2
<1>6. \A i \in 2..Len(queue') : call'[queue'[i]].state = "queued"
  <2> TAKE i \in 2..Len(queue')
  <2>1. i + 1 \in 2..Len(queue) /\ queue'[i] = queue[i + 1] /\ queue[i + 1] \in Actors
    BY <1>2
  <2> QED BY <2>1, <1>1, <1>3 DEF QueueInv
<1> QED BY <1>2, <1>4, <1>5, <1>6 DEF QueueInv

LEMMA QueueDrop ==
  ASSUME CallTyped, QueueInv, NEW a \in Actors, call[a].state \notin Pending,
         call' = [call EXCEPT ![a] = NoCall], UNCHANGED queue
  PROVE  QueueInv'
<1>1. /\ call'[a].state \notin Pending
      /\ \A b \in Actors \ {a} : call'[b] = call[b]
  BY DEF CallTyped, NoCall, Pending
<1>2. \A i \in 1..Len(queue) : queue[i] # a /\ queue[i] \in Actors
  BY DEF QueueInv
<1> QED BY <1>1, <1>2 DEF QueueInv

-----------------------------------------------------------------------------
\* Every step keeps the types.

LEMMA MovesTo ==
  ASSUME PlaceType, NEW a \in Actors, NEW place, Moves(a, place)
  PROVE  at'[a] = place /\ \A b \in Actors \ {a} : at'[b] = at[b]
BY DEF PlaceType, Moves

LEMMA PreemptEffect ==
  ASSUME CallTyped, Preempt
  PROVE  /\ call' \in [Actors -> CallRecords]
         /\ \A a \in Actors : /\ call'[a].state = call[a].state
                              /\ call'[a].method = call[a].method
                              /\ call[a].state = "ok" => call'[a] = call[a]
<1> USE DEF CallTyped
<1>1. ASSUME NEW a \in Actors
      PROVE  /\ call'[a] \in CallRecords /\ call'[a].state = call[a].state
             /\ call'[a].method = call[a].method
             /\ call[a].state = "ok" => call'[a] = call[a]
  <2>1. call[a] \in CallRecords
    OBVIOUS
  <2>2. CASE call[a].state \in {"running", "entered"}
    <3>1. call'[a] = [call[a] EXCEPT !.superseded = TRUE]
      BY <2>2 DEF Preempt
    <3> QED BY <3>1, <2>1, <2>2 DEF CallRecords
  <2>3. CASE call[a].state \notin {"running", "entered"}
    BY <2>1, <2>3 DEF Preempt
  <2> QED BY <2>2, <2>3
<1>2. call' = [a \in Actors |-> call'[a]]
  BY DEF Preempt
<1> QED BY <1>1, <1>2

LEMMA OutdatedEffect ==
  ASSUME CallTyped, call' = Outdated
  PROVE  /\ call' \in [Actors -> CallRecords]
         /\ \A a \in Actors : /\ call'[a].state = call[a].state
                              /\ call'[a].method = call[a].method
                              /\ call[a].state = "ok" => call'[a] = call[a]
<1> USE DEF CallTyped
<1>1. ASSUME NEW a \in Actors
      PROVE  /\ call'[a] \in CallRecords /\ call'[a].state = call[a].state
             /\ call'[a].method = call[a].method
             /\ call[a].state = "ok" => call'[a] = call[a]
  <2>1. call[a] \in CallRecords
    OBVIOUS
  <2>2. CASE call[a].state = "queued"
    <3>1. call'[a] = [call[a] EXCEPT !.current = FALSE]
      BY <2>2 DEF Outdated
    <3> QED BY <3>1, <2>1, <2>2 DEF CallRecords
  <2>3. CASE call[a].state # "queued"
    BY <2>1, <2>3 DEF Outdated
  <2> QED BY <2>2, <2>3
<1>2. call' = [a \in Actors |-> call'[a]]
  BY DEF Outdated
<1> QED BY <1>1, <1>2

LEMMA HeadEffect ==
  ASSUME CallTyped, QueueInv, queue # <<>>,
         NEW v \in {"running", "entered", "ok", "already", "failed", "revoked"},
         call' = [call EXCEPT ![Head(queue)].state = v]
  PROVE  /\ call' \in [Actors -> CallRecords]
         /\ call'[Head(queue)] = [call[Head(queue)] EXCEPT !.state = v]
         /\ \A a \in Actors : /\ a # Head(queue) => call'[a] = call[a]
                              /\ call'[a].method = call[a].method
                              /\ call'[a].superseded = call[a].superseded
<1>1. Head(queue) \in Actors /\ call[Head(queue)] \in CallRecords
  BY QueueHead DEF CallTyped
<1>2. [call[Head(queue)] EXCEPT !.state = v] \in CallRecords
  BY <1>1 DEF CallRecords
<1>3. call' = [call EXCEPT ![Head(queue)] = [call[Head(queue)] EXCEPT !.state = v]]
  BY <1>1 DEF CallTyped
<1> QED BY <1>1, <1>2, <1>3 DEF CallTyped, CallRecords

LEMMA RequestEffect ==
  ASSUME CallTyped, NEW a \in Actors, NEW method \in {"stop_cpv", "hold", "freedrive"},
         NEW category \in Transitions \cup {"p2", "cpv_stop"}, Request(a, method, category)
  PROVE  /\ call' \in [Actors -> CallRecords]
         /\ call'[a] = Envelope(method, category)
         /\ \A b \in Actors \ {a} : call'[b] = call[b]
<1>1. Envelope(method, category) \in CallRecords
  BY DEF Envelope, CallRecords
<1> QED BY <1>1 DEF CallTyped, Request

LEMMA StatusEffect ==
  ASSUME JobTyped, NEW j \in Jobs, NEW status \in Statuses,
         job' = [job EXCEPT ![j].status = status]
  PROVE  /\ job' \in [Jobs -> JobRecords]
         /\ job'[j].status = status /\ job'[j].marked = job[j].marked
         /\ \A i \in Jobs \ {j} : job'[i] = job[i]
<1>1. [job[j] EXCEPT !.status = status] \in JobRecords /\ job[j] \in JobRecords
  BY DEF JobTyped, JobRecords
<1>2. job' = [job EXCEPT ![j] = [job[j] EXCEPT !.status = status]]
  BY DEF JobTyped
<1> QED BY <1>1, <1>2 DEF JobTyped, JobRecords

LEMMA MarkedEffect ==
  ASSUME JobTyped, NEW j \in Jobs, job' = [job EXCEPT ![j].marked = TRUE]
  PROVE  /\ job' \in [Jobs -> JobRecords] /\ job'[j].status = job[j].status
         /\ \A i \in Jobs \ {j} : job'[i] = job[i]
<1>1. [job[j] EXCEPT !.marked = TRUE] \in JobRecords /\ job[j] \in JobRecords
  BY DEF JobTyped, JobRecords
<1>2. job' = [job EXCEPT ![j] = [job[j] EXCEPT !.marked = TRUE]]
  BY DEF JobTyped
<1> QED BY <1>1, <1>2 DEF JobTyped, JobRecords

LEMMA SubmitEffect ==
  ASSUME JobTyped, NEW j \in Jobs, NEW kind \in Kinds, Submit(j, kind)
  PROVE  /\ run' \in [Jobs -> RunRecords] /\ run'[j].kind = kind
         /\ run'[j].ok = run[j].ok /\ run'[j].hit = run[j].hit
         /\ \A i \in Jobs \ {j} : run'[i] = run[i]
<1>1. [run[j] EXCEPT !.kind = kind] \in RunRecords /\ run[j] \in RunRecords
  BY DEF JobTyped, RunRecords
<1>2. run' = [run EXCEPT ![j] = [run[j] EXCEPT !.kind = kind]]
  BY DEF JobTyped, Submit
<1> QED BY <1>1, <1>2 DEF JobTyped, RunRecords

\* What the end of an operation leaves behind.
LEMMA FinishEffect ==
  ASSUME JobTyped, CallTyped, LeaseType, PlaceType, NEW a \in Actors, NEW ok \in BOOLEAN,
         Finishes(a, ok)
  PROVE  /\ run' \in [Jobs -> RunRecords] /\ seen' \in [Actors -> 0..MaxToken]
         /\ \A j \in Jobs \ {a} : run'[j] = run[j]
         /\ a \in Jobs => /\ run'[a].kind = run[a].kind /\ run'[a].ok = ok
                          /\ run'[a].hit = Hit(a)
         /\ call' \in [Actors -> CallRecords] /\ call'[a] = NoCall
         /\ \A b \in Actors \ {a} : call'[b] = call[b] /\ at'[b] = at[b] /\ seen'[b] = seen[b]
         /\ at'[a] = IF a = Dog THEN "jobs" ELSE "verdict"
         /\ seen'[a] = 0
<1>1. /\ call' \in [Actors -> CallRecords] /\ call'[a] = NoCall
      /\ \A b \in Actors \ {a} : call'[b] = call[b]
  BY DEF Finishes, CallTyped, CallRecords, NoCall
<1>2. /\ at'[a] = IF a = Dog THEN "jobs" ELSE "verdict"
      /\ \A b \in Actors \ {a} : at'[b] = at[b]
  BY MovesTo DEF Finishes
<1>3. /\ seen' \in [Actors -> 0..MaxToken] /\ seen'[a] = 0
      /\ \A b \in Actors \ {a} : seen'[b] = seen[b]
  BY ActorAssumption DEF Finishes, JobTyped
<1>4. /\ run' \in [Jobs -> RunRecords] /\ \A j \in Jobs \ {a} : run'[j] = run[j]
      /\ a \in Jobs => /\ run'[a].kind = run[a].kind /\ run'[a].ok = ok
                       /\ run'[a].hit = Hit(a)
  <2>1. CASE a = Dog
    BY <2>1, ActorFacts DEF Finishes, JobTyped
  <2>2. CASE a # Dog
    <3> DEFINE R == [kind |-> run[a].kind, ok |-> ok, hit |-> Hit(a)]
    <3>1. a \in Jobs /\ run[a] \in RunRecords /\ call[a] \in CallRecords
      BY <2>2 DEF Actors, JobTyped, CallTyped
    <3>2. R \in RunRecords
      BY <3>1 DEF RunRecords, CallRecords, Hit
    <3>3. run' = [run EXCEPT ![a] = R]
      BY <2>2 DEF Finishes, Kind
    <3> QED BY <3>1, <3>2, <3>3 DEF JobTyped
  <2> QED BY <2>1, <2>2
<1> QED BY <1>1, <1>2, <1>3, <1>4

LEMMA EndsEffect ==
  ASSUME JobTyped, CallTyped, LeaseType, PlaceType, WaitInv, NEW a \in Actors, Ends(a)
  PROVE  /\ run' \in [Jobs -> RunRecords] /\ seen' \in [Actors -> 0..MaxToken]
         /\ \A j \in Jobs \ {a} : run'[j] = run[j]
         /\ a \in Jobs => /\ run'[a].kind = run[a].kind /\ run'[a].hit = Hit(a)
                          /\ run'[a].ok => /\ at[a] \in {"transition", "recovered"}
                                           /\ Done(a)
         /\ call' \in [Actors -> CallRecords] /\ call'[a] = NoCall
         /\ \A b \in Actors \ {a} : call'[b] = call[b] /\ at'[b] = at[b] /\ seen'[b] = seen[b]
         /\ at'[a] = (IF a = Dog THEN "jobs" ELSE "verdict") /\ seen'[a] = 0
         /\ at[a] \in {"begin", "cpv", "promoted", "transition", "recovered"}
         /\ call[a].state \notin Pending /\ call' = [call EXCEPT ![a] = NoCall]
         /\ UNCHANGED <<leaseVars, job, active, marking, session, queue, mode>>
         /\ handoff' \in {handoff, None} /\ exclusive' \in {exclusive, None}
<1>1. /\ at[a] \in {"begin", "cpv", "promoted", "transition", "recovered"}
      /\ call[a].state \notin Pending
      /\ handoff' \in {handoff, None} /\ exclusive' \in {exclusive, None}
  BY DEF Ends, Refused, StopFails, JoinFails, TransitionEnds, RecoveryEnds, Answered, Done, WaitInv,
         Waits, Pending
<1>2. PICK ok \in BOOLEAN :
        /\ Finishes(a, ok)
        /\ ok => at[a] \in {"transition", "recovered"} /\ Done(a)
  <2>1. CASE TransitionEnds(a)
    <3>1. Finishes(a, Done(a)) /\ at[a] = "transition" /\ Done(a) \in BOOLEAN
      BY <2>1 DEF TransitionEnds, Done
    <3> QED BY <3>1
  <2>2. CASE RecoveryEnds(a)
    <3>1. Finishes(a, Done(a)) /\ at[a] = "recovered" /\ Done(a) \in BOOLEAN
      BY <2>2 DEF RecoveryEnds, Done
    <3> QED BY <3>1
  <2>3. CASE Refused(a) \/ StopFails(a) \/ JoinFails(a)
    BY <2>3 DEF Refused, StopFails, JoinFails
  <2> QED BY <2>1, <2>2, <2>3 DEF Ends
<1>3. /\ call' = [call EXCEPT ![a] = NoCall]
      /\ UNCHANGED <<leaseVars, job, active, marking, session, queue, mode>>
  BY <1>2 DEF Finishes
<1> QED BY <1>1, <1>2, <1>3, FinishEffect

LEMMA EndEffect ==
  ASSUME JobTyped, NEW j \in Jobs, JobEnds(j)
  PROVE  /\ run' \in [Jobs -> RunRecords] /\ run'[j] = NoRun
         /\ \A i \in Jobs \ {j} : run'[i] = run[i]
BY DEF JobEnds, JobTyped, RunRecords, NoRun

LEMMA JobTypeStep ==
  ASSUME LeaseType, JobTyped, PlaceType, MarkInv, CallTyped, WaitInv, [Next]_vars PROVE JobTyped'
<1>1. ASSUME NEW a \in Actors, Ends(a) PROVE JobTyped'
  BY <1>1, EndsEffect, ActorFacts DEF JobTyped
<1>2. ASSUME NEW j \in Jobs, NEW kind \in Kinds, Submit(j, kind) PROVE JobTyped'
  BY <1>2, SubmitEffect, StatusEffect DEF Submit, Moves, JobTyped, Statuses
<1>3. ASSUME NEW j \in Jobs, JobRuns(j) PROVE JobTyped'
  BY <1>3, StatusEffect DEF JobRuns, Moves, JobTyped, Statuses
<1>4. ASSUME NEW j \in Jobs, JobWrites(j) PROVE JobTyped'
  BY <1>4, StatusEffect DEF JobWrites, Moves, JobTyped, Statuses
<1>5. ASSUME NEW j \in Jobs, JobEnds(j) PROVE JobTyped'
  BY <1>5, EndEffect DEF JobEnds, Moves, JobTyped
<1>6. ASSUME NEW j \in Jobs, DogLooks(j) PROVE JobTyped'
  BY <1>6, MarkedEffect DEF DogLooks, Markable, DogAt, Moves, JobTyped
<1>7. ASSUME DogMarks PROVE JobTyped'
  <2>1. marking \in Jobs /\ "timed_out" \in Statuses
    BY <1>7 DEF DogMarks, MarkInv, JobTyped, Statuses
  <2>2. job' = [job EXCEPT ![marking].status = "timed_out"]
    BY <1>7 DEF DogMarks
  <2> QED
    BY <1>7, <2>1, <2>2, StatusEffect DEF DogMarks, JobTyped
<1>8. ASSUME NEW a \in Actors, Locks(a) PROVE JobTyped'
  BY <1>8, ActorFacts DEF Locks, Preempt, Moves, JobTyped, LeaseType, jobVars
<1>9. ASSUME NEW j \in Jobs, TakesOver(j) PROVE JobTyped'
  BY <1>9, ActorFacts DEF TakesOver, Moves, JobTyped, LeaseType, jobVars
<1>10. ASSUME NEW j \in Jobs, JobActs(j) PROVE JobTyped'
  BY <1>10, ActorFacts DEF JobActs, Moves, JobTyped, LeaseType, jobVars
<1>11. ASSUME NEW c \in Clients, Acquire(c) \/ Renew(c) \/ Release(c) PROVE JobTyped'
  BY <1>11 DEF Acquire, Renew, Release, Owns, JobTyped, jobVars
<1>12. ASSUME Expires \/ StartSession \/ CallBegins \/ CallEnters \/ DogLeavesJobs \/ DogTakes \/
              DogHears \/ DogBlames \/ DogPreempts
       PROVE  JobTyped'
  BY <1>12
     DEF Expires, StartSession, CallBegins, CallEnters, DogLeavesJobs, DogTakes, DogHears,
         DogBlames, DogPreempts, Outdated, Admitted, DogAt, Moves, Preempt, JobTyped, jobVars
<1>13. ASSUME DogAsks \/ DogReturns PROVE JobTyped'
  BY <1>13 DEF DogAsks, DogReturns, DogAt, Request, Envelope, Moves, Answered, Done, JobTyped,
             jobVars
<1>14. ASSUME NEW ok \in BOOLEAN, CallReturns(ok) \/ CallCommits(ok) PROVE JobTyped'
  BY <1>14 DEF CallReturns, CallCommits, Settles, Commits, JobTyped, jobVars
<1>15. ASSUME NEW a \in Actors, Accepted(a) \/ StopsSession(a) \/ Revokes(a) \/ Promotes(a) \/
              Joins(a)
       PROVE  JobTyped'
  BY <1>15
     DEF Accepted, StopsSession, Revokes, Promotes, Joins, Moves, Request, Envelope, Outdated,
         JobTyped, jobVars
<1>16. ASSUME NEW j \in Jobs, TakeoverPreempts(j) \/ Recovers(j) \/ JobLooks(j) PROVE JobTyped'
  BY <1>16
     DEF TakeoverPreempts, Recovers, JobLooks, Preempt, Moves, Request, Envelope, JobTyped,
         jobVars
<1>17. ASSUME UNCHANGED vars PROVE JobTyped'
  BY <1>17 DEF vars, leaseVars, jobVars, txVars, JobTyped
<1> QED BY <1>1, <1>2, <1>3, <1>4, <1>5, <1>6, <1>7, <1>8, <1>9, <1>10, <1>11, <1>12, <1>13,
       <1>14, <1>15, <1>16, <1>17, DogIsActor, ActorFacts
       DEF Next, Environment, Owner, DogStep, JobStep, Handoff, Ends

LEMMA MarkStep ==
  ASSUME LeaseType, CallTyped, WaitInv, JobTyped, MarkInv, PlaceType, [Next]_vars PROVE MarkInv'
<1>1. ASSUME NEW a \in Actors, Ends(a) PROVE MarkInv'
  BY <1>1, EndsEffect, DogIsActor DEF MarkInv, DogAt
<1>2. ASSUME NEW j \in Jobs, DogLooks(j) PROVE MarkInv'
  BY <1>2, ActorFacts, DogIsActor
     DEF DogLooks, Markable, DogAt, Moves, MarkInv, JobTyped, PlaceType
<1>3. ASSUME DogMarks PROVE MarkInv'
  BY <1>3, ActorFacts, DogIsActor DEF DogMarks, DogAt, Moves, MarkInv, JobTyped, PlaceType
<1>4. ASSUME NEW c \in Clients, Acquire(c) \/ Renew(c) \/ Release(c) PROVE MarkInv'
  BY <1>4, ActorFacts, DogIsActor
     DEF Acquire, Renew, Release, Owns, MarkInv, DogAt, PlaceType, jobVars, Finishes, Moves
<1>5. ASSUME Expires \/ StartSession \/ CallBegins \/ CallEnters \/ DogLeavesJobs \/ DogTakes \/
             DogHears \/ DogBlames \/ DogPreempts
      PROVE  MarkInv'
  BY <1>5, ActorFacts, DogIsActor
     DEF Expires, StartSession, CallBegins, CallEnters, DogLeavesJobs, DogTakes, DogHears,
         DogBlames, DogPreempts, Outdated, Admitted, DogAt, Moves, Preempt, MarkInv, PlaceType,
         jobVars, Finishes
<1>6. ASSUME DogAsks \/ DogReturns PROVE MarkInv'
  BY <1>6, ActorFacts, DogIsActor
     DEF DogAsks, DogReturns, DogAt, Request, Envelope, Moves, Answered, Done, MarkInv, PlaceType,
         jobVars, Finishes
<1>7. ASSUME NEW j \in Jobs, NEW kind \in Kinds, Submit(j, kind) PROVE MarkInv'
  BY <1>7, ActorFacts, DogIsActor DEF Submit, Moves, MarkInv, DogAt, PlaceType, jobVars, Finishes
<1>8. ASSUME NEW ok \in BOOLEAN, CallReturns(ok) \/ CallCommits(ok) PROVE MarkInv'
  BY <1>8, ActorFacts, DogIsActor
     DEF CallReturns, CallCommits, Settles, Commits, MarkInv, DogAt, PlaceType, jobVars, Finishes,
         Moves
<1>9. ASSUME NEW a \in Actors, Accepted(a) \/ Locks(a) \/ StopsSession(a) \/ Revokes(a) \/
             Promotes(a) \/ Joins(a)
      PROVE  MarkInv'
  BY <1>9, ActorFacts, DogIsActor
     DEF Accepted, Locks, StopsSession, Revokes, Promotes, Joins, Moves, Preempt, Request,
         Envelope, Outdated, MarkInv, DogAt, PlaceType, jobVars, Finishes
<1>10. ASSUME NEW j \in Jobs, TakesOver(j) \/ TakeoverPreempts(j) \/ Recovers(j) \/ JobRuns(j) \/
              JobActs(j) \/ JobLooks(j) \/ JobWrites(j) \/ JobEnds(j)
       PROVE  MarkInv'
  BY <1>10, ActorFacts, DogIsActor
     DEF TakesOver, TakeoverPreempts, Recovers, JobRuns, JobActs, JobLooks, JobWrites, JobEnds,
         Moves, Preempt, Request, Envelope, MarkInv, DogAt, PlaceType, jobVars, Finishes
<1>11. ASSUME UNCHANGED vars PROVE MarkInv'
  BY <1>11 DEF vars, leaseVars, jobVars, txVars, MarkInv, DogAt
<1> QED BY <1>1, <1>2, <1>3, <1>4, <1>5, <1>6, <1>7, <1>8, <1>9, <1>10, <1>11, DogIsActor,
       ActorFacts
       DEF Next, Environment, Owner, DogStep, JobStep, Handoff, Ends

LEMMA StartStep ==
  ASSUME JobTyped, MarkInv, StartInv, PlaceType, CallTyped, LeaseType, WaitInv, [Next]_vars
  PROVE  StartInv'
<1>1. ASSUME NEW a \in Actors, Ends(a) PROVE StartInv'
  BY <1>1, EndsEffect, ActorFacts DEF StartInv
<1>2. ASSUME NEW j \in Jobs, NEW kind \in Kinds, Submit(j, kind) PROVE StartInv'
  BY <1>2, ActorFacts, StatusEffect DEF Submit, Moves, StartInv, Statuses, PlaceType
<1>3. ASSUME NEW j \in Jobs, JobRuns(j) PROVE StartInv'
  BY <1>3, ActorFacts, StatusEffect DEF JobRuns, Moves, StartInv, Statuses, PlaceType
<1>4. ASSUME NEW j \in Jobs, JobWrites(j) PROVE StartInv'
  BY <1>4, ActorFacts, StatusEffect DEF JobWrites, Moves, StartInv, Statuses, PlaceType
<1>5. ASSUME NEW j \in Jobs, DogLooks(j) PROVE StartInv'
  BY <1>5, ActorFacts, MarkedEffect DEF DogLooks, Markable, DogAt, Moves, StartInv, PlaceType
<1>6. ASSUME DogMarks PROVE StartInv'
  <2>1. marking \in Jobs /\ "timed_out" \in Statuses
    BY <1>6 DEF DogMarks, MarkInv, JobTyped, Statuses
  <2>2. job' = [job EXCEPT ![marking].status = "timed_out"]
    BY <1>6 DEF DogMarks
  <2> QED
    BY <1>6, <2>1, <2>2, StatusEffect, MovesTo, ActorFacts, DogIsActor
       DEF DogMarks, StartInv, DogAt, PlaceType, Moves
<1>7. ASSUME NEW c \in Clients, Acquire(c) \/ Renew(c) \/ Release(c) PROVE StartInv'
  BY <1>7, ActorFacts DEF Acquire, Renew, Release, Owns, StartInv, PlaceType, jobVars
<1>8. ASSUME Expires \/ StartSession \/ CallBegins \/ CallEnters \/ DogLeavesJobs \/ DogTakes \/
             DogHears \/ DogBlames \/ DogPreempts
      PROVE  StartInv'
  BY <1>8, ActorFacts
     DEF Expires, StartSession, CallBegins, CallEnters, DogLeavesJobs, DogTakes, DogHears,
         DogBlames, DogPreempts, Outdated, Admitted, DogAt, Moves, Preempt, StartInv, PlaceType,
         jobVars
<1>9. ASSUME DogAsks \/ DogReturns PROVE StartInv'
  BY <1>9, ActorFacts
     DEF DogAsks, DogReturns, DogAt, Request, Envelope, Moves, Answered, Done, StartInv, PlaceType,
         jobVars
<1>10. ASSUME NEW ok \in BOOLEAN, CallReturns(ok) \/ CallCommits(ok) PROVE StartInv'
  BY <1>10, ActorFacts
     DEF CallReturns, CallCommits, Settles, Commits, StartInv, PlaceType, jobVars
<1>11. ASSUME NEW a \in Actors, Accepted(a) \/ Locks(a) \/ StopsSession(a) \/ Revokes(a) \/
              Promotes(a) \/ Joins(a)
       PROVE  StartInv'
  BY <1>11, ActorFacts
     DEF Accepted, Locks, StopsSession, Revokes, Promotes, Joins, Moves, Preempt, Request,
         Envelope, Outdated, StartInv, PlaceType, jobVars
<1>12. ASSUME NEW j \in Jobs, TakesOver(j) \/ TakeoverPreempts(j) \/ Recovers(j) \/ JobActs(j) \/
              JobLooks(j) \/ JobEnds(j)
       PROVE  StartInv'
  BY <1>12, ActorFacts
     DEF TakesOver, TakeoverPreempts, Recovers, JobActs, JobLooks, JobEnds, Moves, Preempt,
         Request, Envelope, StartInv, PlaceType, jobVars
<1>13. ASSUME UNCHANGED vars PROVE StartInv'
  BY <1>13 DEF vars, leaseVars, jobVars, txVars, StartInv
<1> QED BY <1>1, <1>2, <1>3, <1>4, <1>5, <1>6, <1>7, <1>8, <1>9, <1>10, <1>11, <1>12, <1>13,
       DogIsActor, ActorFacts
       DEF Next, Environment, Owner, DogStep, JobStep, Handoff, Ends

LEMMA CallTypedStep ==
  ASSUME CallTyped, QueueInv, KindInv, PlaceType, JobTyped, LeaseType, WaitInv, [Next]_vars
  PROVE  CallTyped'
<1>1. ASSUME NEW a \in Actors, Ends(a) PROVE CallTyped'
  BY <1>1, EndsEffect, ActorFacts DEF CallTyped
<1>2. ASSUME NEW ok \in BOOLEAN, CallReturns(ok) PROVE CallTyped'
  <2>1. queue # <<>> /\ \E v \in {"running", "entered", "ok", "already", "failed", "revoked"} :
          call' = [call EXCEPT ![Head(queue)].state = v]
    BY <1>2 DEF CallReturns, Settles
  <2>2. UNCHANGED exclusive
    BY <1>2 DEF CallReturns, Settles
  <2> QED BY <2>1, <2>2, HeadEffect DEF CallTyped
<1>3. ASSUME NEW ok \in BOOLEAN, CallCommits(ok) PROVE CallTyped'
  <2>1. queue # <<>> /\ \E v \in {"running", "entered", "ok", "already", "failed", "revoked"} :
          call' = [call EXCEPT ![Head(queue)].state = v]
    BY <1>3 DEF CallCommits, Commits, Settles
  <2>2. UNCHANGED exclusive
    BY <1>3 DEF CallCommits, Commits, Settles
  <2> QED BY <2>1, <2>2, HeadEffect DEF CallTyped
<1>4. ASSUME CallBegins PROVE CallTyped'
  <2>1. queue # <<>> /\ \E v \in {"running", "entered", "ok", "already", "failed", "revoked"} :
          call' = [call EXCEPT ![Head(queue)].state = v]
    BY <1>4 DEF CallBegins, Admitted
  <2>2. UNCHANGED exclusive
    BY <1>4 DEF CallBegins, Admitted
  <2> QED BY <2>1, <2>2, HeadEffect DEF CallTyped
<1>5. ASSUME CallEnters PROVE CallTyped'
  <2>1. queue # <<>> /\ \E v \in {"running", "entered", "ok", "already", "failed", "revoked"} :
          call' = [call EXCEPT ![Head(queue)].state = v]
    BY <1>5 DEF CallEnters
  <2>2. UNCHANGED exclusive
    BY <1>5 DEF CallEnters
  <2> QED BY <2>1, <2>2, HeadEffect DEF CallTyped
<1>6. ASSUME StartSession PROVE CallTyped'
  BY <1>6, ActorFacts, DogIsActor
     DEF StartSession, Outdated, CallTyped, CallRecords, NoCall, KindInv, HandoffPlaces,
         Transitions
<1>7. ASSUME NEW a \in Actors, Locks(a) PROVE CallTyped'
  BY <1>7, ActorFacts, DogIsActor
     DEF Locks, Preempt, Moves, CallTyped, CallRecords, NoCall, KindInv, HandoffPlaces,
         Transitions
<1>8. ASSUME NEW a \in Actors, StopsSession(a) PROVE CallTyped'
  BY <1>8, ActorFacts, DogIsActor
     DEF StopsSession, Request, Envelope, Moves, CallTyped, CallRecords, NoCall, KindInv,
         HandoffPlaces, Transitions
<1>9. ASSUME NEW a \in Actors, Promotes(a) PROVE CallTyped'
  BY <1>9, ActorFacts, DogIsActor
     DEF Promotes, Outdated, Moves, CallTyped, CallRecords, NoCall, KindInv, HandoffPlaces,
         Transitions
<1>10. ASSUME NEW a \in Actors, Joins(a) PROVE CallTyped'
  BY <1>10, ActorFacts, DogIsActor
     DEF Joins, Request, Envelope, Moves, CallTyped, CallRecords, NoCall, KindInv, HandoffPlaces,
         Transitions
<1>11. ASSUME NEW j \in Jobs, TakeoverPreempts(j) PROVE CallTyped'
  BY <1>11, ActorFacts, DogIsActor
     DEF TakeoverPreempts, Preempt, Moves, CallTyped, CallRecords, NoCall, KindInv, HandoffPlaces,
         Transitions
<1>12. ASSUME NEW j \in Jobs, Recovers(j) PROVE CallTyped'
  BY <1>12, ActorFacts, DogIsActor
     DEF Recovers, Request, Envelope, Moves, CallTyped, CallRecords, NoCall, KindInv,
         HandoffPlaces, Transitions
<1>13. ASSUME DogBlames PROVE CallTyped'
  BY <1>13, ActorFacts, DogIsActor
     DEF DogBlames, DogAt, Preempt, Moves, CallTyped, CallRecords, NoCall, KindInv, HandoffPlaces,
         Transitions
<1>14. ASSUME DogPreempts PROVE CallTyped'
  BY <1>14, ActorFacts, DogIsActor
     DEF DogPreempts, DogAt, Preempt, Moves, CallTyped, CallRecords, NoCall, KindInv,
         HandoffPlaces, Transitions
<1>15. ASSUME DogAsks PROVE CallTyped'
  BY <1>15, ActorFacts, DogIsActor
     DEF DogAsks, DogAt, Request, Envelope, Moves, CallTyped, CallRecords, NoCall, KindInv,
         HandoffPlaces, Transitions
<1>16. ASSUME DogReturns PROVE CallTyped'
  BY <1>16, ActorFacts, DogIsActor
     DEF DogReturns, DogAt, Answered, Done, Moves, CallTyped, CallRecords, NoCall, KindInv,
         HandoffPlaces, Transitions
<1>17. ASSUME NEW c \in Clients, Acquire(c) \/ Renew(c) \/ Release(c) PROVE CallTyped'
  BY <1>17 DEF Acquire, Renew, Release, Owns, CallTyped, txVars
<1>18. ASSUME Expires \/ DogMarks \/ DogLeavesJobs \/ DogTakes \/ DogHears PROVE CallTyped'
  BY <1>18
     DEF Expires, DogMarks, DogLeavesJobs, DogTakes, DogHears, DogAt, Moves, CallTyped, txVars
<1>19. ASSUME NEW j \in Jobs, NEW kind \in Kinds, Submit(j, kind) PROVE CallTyped'
  BY <1>19 DEF Submit, Moves, CallTyped, txVars
<1>20. ASSUME NEW a \in Actors, Accepted(a) \/ Revokes(a) PROVE CallTyped'
  BY <1>20 DEF Accepted, Revokes, Moves, CallTyped, txVars
<1>21. ASSUME NEW j \in Jobs, TakesOver(j) \/ JobRuns(j) \/ JobActs(j) \/ JobLooks(j) \/
              JobWrites(j) \/ JobEnds(j) \/ DogLooks(j)
       PROVE  CallTyped'
  BY <1>21
     DEF TakesOver, JobRuns, JobActs, JobLooks, JobWrites, JobEnds, DogLooks, Moves, Markable,
         DogAt, CallTyped, txVars
<1>22. ASSUME UNCHANGED vars PROVE CallTyped'
  BY <1>22 DEF vars, leaseVars, jobVars, txVars, CallTyped
<1> QED BY <1>1, <1>2, <1>3, <1>4, <1>5, <1>6, <1>7, <1>8, <1>9, <1>10, <1>11, <1>12, <1>13,
       <1>14, <1>15, <1>16, <1>17, <1>18, <1>19, <1>20, <1>21, <1>22, DogIsActor, ActorFacts
       DEF Next, Environment, Owner, DogStep, JobStep, Handoff, Ends

LEMMA QueueStep ==
  ASSUME LeaseType, JobTyped, PlaceType, CallTyped, QueueInv, WaitInv, [Next]_vars PROVE QueueInv'
<1>1. ASSUME CallBegins PROVE QueueInv'
  <2>1. queue # <<>>
    BY <1>1 DEF CallBegins
  <2>2. CASE Admitted(call[Head(queue)])
    <3>1. call' = [call EXCEPT ![Head(queue)].state = "running"] /\ UNCHANGED queue
      BY <1>1, <2>2 DEF CallBegins
    <3> QED BY <3>1, <2>1, QueueAdvance DEF Pending
  <2>3. CASE ~Admitted(call[Head(queue)])
    <3>1. call' = [call EXCEPT ![Head(queue)].state = "revoked"] /\ queue' = Tail(queue)
      BY <1>1, <2>3 DEF CallBegins
    <3>2. "revoked" \notin Pending
      BY DEF Pending
    <3> QED BY <3>1, <3>2, <2>1, QueueSettle
  <2> QED BY <2>2, <2>3
<1>2. ASSUME CallEnters PROVE QueueInv'
  <2>1. /\ queue # <<>> /\ UNCHANGED queue
        /\ call' = [call EXCEPT ![Head(queue)].state = "entered"]
    BY <1>2 DEF CallEnters
  <2> QED BY <2>1, QueueAdvance DEF Pending
<1>3. ASSUME NEW ok \in BOOLEAN, CallReturns(ok) PROVE QueueInv'
  <2>1. /\ queue # <<>> /\ queue' = Tail(queue)
        /\ \E v \in {"ok", "already", "failed"} : call' = [call EXCEPT ![Head(queue)].state = v]
    BY <1>3 DEF CallReturns, Settles
  <2> QED BY <2>1, QueueSettle DEF Pending
<1>4. ASSUME NEW ok \in BOOLEAN, CallCommits(ok) PROVE QueueInv'
  <2>1. /\ queue # <<>> /\ queue' = Tail(queue)
        /\ \E v \in {"ok", "already", "failed"} : call' = [call EXCEPT ![Head(queue)].state = v]
    BY <1>4 DEF CallCommits, Commits, Settles
  <2> QED BY <2>1, QueueSettle DEF Pending
<1>5. ASSUME StartSession PROVE QueueInv'
  <2>1. UNCHANGED queue /\ \A b \in Actors : call'[b].state = call[b].state
    BY <1>5, OutdatedEffect DEF StartSession
  <2> QED BY <2>1, QueueSame
<1>6. ASSUME NEW a \in Actors, Locks(a) PROVE QueueInv'
  <2>1. UNCHANGED queue /\ \A b \in Actors : call'[b].state = call[b].state
    BY <1>6, PreemptEffect DEF Locks
  <2> QED BY <2>1, QueueSame
<1>7. ASSUME NEW j \in Jobs, TakeoverPreempts(j) PROVE QueueInv'
  <2>1. UNCHANGED queue /\ \A b \in Actors : call'[b].state = call[b].state
    BY <1>7, PreemptEffect DEF TakeoverPreempts
  <2> QED BY <2>1, QueueSame
<1>8. ASSUME DogBlames PROVE QueueInv'
  <2>1. UNCHANGED queue /\ \A b \in Actors : call'[b].state = call[b].state
    BY <1>8, PreemptEffect DEF DogBlames
  <2> QED BY <2>1, QueueSame
<1>9. ASSUME DogPreempts PROVE QueueInv'
  <2>1. UNCHANGED queue /\ \A b \in Actors : call'[b].state = call[b].state
    BY <1>9, PreemptEffect DEF DogPreempts
  <2> QED BY <2>1, QueueSame
<1>10. ASSUME NEW a \in Actors, Promotes(a) PROVE QueueInv'
  <2>1. UNCHANGED queue /\ \A b \in Actors : call'[b].state = call[b].state
    BY <1>10, OutdatedEffect DEF Promotes
  <2> QED BY <2>1, QueueSame
<1>11. ASSUME NEW a \in Actors, StopsSession(a) PROVE QueueInv'
  <2>1. Request(a, "stop_cpv", "cpv_stop") /\ call[a].state \notin Pending /\ a \in Actors
    BY <1>11, ActorFacts, DogIsActor DEF StopsSession, WaitInv, Waits
  <2> QED BY <2>1, QueueRequest
<1>12. ASSUME NEW a \in Actors, Joins(a) PROVE QueueInv'
  <2>1. Request(a, Kind(a), Kind(a)) /\ call[a].state \notin Pending /\ a \in Actors
    BY <1>12, ActorFacts, DogIsActor DEF Joins, WaitInv, Waits
  <2> QED BY <2>1, QueueRequest
<1>13. ASSUME NEW j \in Jobs, Recovers(j) PROVE QueueInv'
  <2>1. Request(j, "hold", "p2") /\ call[j].state \notin Pending /\ j \in Actors
    BY <1>13, ActorFacts, DogIsActor DEF Recovers, WaitInv, Waits
  <2> QED BY <2>1, QueueRequest
<1>14. ASSUME DogAsks PROVE QueueInv'
  <2>1. Request(Dog, "hold", "p2") /\ call[Dog].state \notin Pending /\ Dog \in Actors
    BY <1>14, ActorFacts, DogIsActor DEF DogAsks, DogAt, WaitInv, Waits
  <2> QED BY <2>1, QueueRequest
<1>15. ASSUME NEW a \in Actors, Ends(a) PROVE QueueInv'
  BY <1>15, EndsEffect, QueueDrop
<1>16. ASSUME DogReturns PROVE QueueInv'
  <2>1. /\ call' = [call EXCEPT ![Dog] = NoCall] /\ UNCHANGED queue
        /\ call[Dog].state \notin Pending /\ Dog \in Actors
    BY <1>16, ActorFacts, DogIsActor DEF DogReturns, DogAt, Answered, Done, WaitInv, Waits, Pending
  <2> QED BY <2>1, QueueDrop
<1>17. ASSUME NEW c \in Clients, Acquire(c) \/ Renew(c) \/ Release(c) PROVE QueueInv'
  BY <1>17, QueueSame DEF Acquire, Renew, Release, Owns, txVars
<1>18. ASSUME Expires \/ DogMarks \/ DogLeavesJobs \/ DogTakes PROVE QueueInv'
  BY <1>18, QueueSame DEF Expires, DogMarks, DogLeavesJobs, DogTakes, DogAt, Moves, txVars
<1>19. ASSUME DogHears PROVE QueueInv'
  BY <1>19, QueueSame DEF DogHears, DogAt, Moves, txVars
<1>20. ASSUME NEW j \in Jobs, NEW kind \in Kinds, Submit(j, kind) PROVE QueueInv'
  BY <1>20, QueueSame DEF Submit, Moves, txVars
<1>21. ASSUME NEW a \in Actors, Accepted(a) \/ Revokes(a) PROVE QueueInv'
  BY <1>21, QueueSame DEF Accepted, Revokes, Moves, txVars
<1>22. ASSUME NEW j \in Jobs, TakesOver(j) \/ JobRuns(j) \/ JobActs(j) \/ JobLooks(j)
       PROVE  QueueInv'
  BY <1>22, QueueSame DEF TakesOver, JobRuns, JobActs, JobLooks, Moves, txVars
<1>23. ASSUME NEW j \in Jobs, JobWrites(j) \/ JobEnds(j) \/ DogLooks(j) PROVE QueueInv'
  BY <1>23, QueueSame DEF JobWrites, JobEnds, DogLooks, Moves, Markable, DogAt, txVars
<1>24. ASSUME UNCHANGED vars PROVE QueueInv'
  BY <1>24 DEF vars, leaseVars, jobVars, txVars, QueueInv
<1> QED BY <1>1, <1>2, <1>3, <1>4, <1>5, <1>6, <1>7, <1>8, <1>9, <1>10, <1>11, <1>12, <1>13,
       <1>14, <1>15, <1>16, <1>17, <1>18, <1>19, <1>20, <1>21, <1>22, <1>23, <1>24, DogIsActor,
       ActorFacts
       DEF Next, Environment, Owner, DogStep, JobStep, Handoff, Ends

LEMMA WaitStep ==
  ASSUME CallTyped, PlaceType, QueueInv, WaitInv, StartInv, JobTyped, LeaseType, [Next]_vars
  PROVE  WaitInv'
<1>1. ASSUME NEW a \in Actors, Ends(a) PROVE WaitInv'
  BY <1>1, EndsEffect, ActorFacts DEF WaitInv, Pending, NoCall
<1>2. ASSUME NEW j \in Jobs, NEW kind \in Kinds, Submit(j, kind) PROVE WaitInv'
  BY <1>2, ActorFacts DEF Submit, Moves, PlaceType, WaitInv, StartInv, Waits, txVars
<1>3. ASSUME NEW a \in Actors, Locks(a) PROVE WaitInv'
  BY <1>3, PreemptEffect DEF Locks, Preempt, Moves, PlaceType, WaitInv, Waits
<1>4. ASSUME NEW a \in Actors, Promotes(a) PROVE WaitInv'
  BY <1>4, OutdatedEffect DEF Promotes, Outdated, Moves, PlaceType, WaitInv, Waits
<1>5. ASSUME NEW j \in Jobs, TakeoverPreempts(j) PROVE WaitInv'
  BY <1>5, PreemptEffect, ActorFacts
     DEF TakeoverPreempts, Preempt, Moves, PlaceType, WaitInv, Waits
<1>6. ASSUME DogBlames PROVE WaitInv'
  BY <1>6, PreemptEffect, DogIsActor
     DEF DogBlames, DogAt, Preempt, Moves, PlaceType, WaitInv, Waits
<1>7. ASSUME DogPreempts PROVE WaitInv'
  BY <1>7, PreemptEffect, DogIsActor
     DEF DogPreempts, DogAt, Preempt, Moves, PlaceType, WaitInv, Waits
<1>8. ASSUME StartSession PROVE WaitInv'
  BY <1>8, OutdatedEffect DEF StartSession, Outdated, WaitInv
<1>9. ASSUME CallBegins PROVE WaitInv'
  BY <1>9, ActorFacts, DogIsActor
     DEF CallBegins, Admitted, CallTyped, PlaceType, WaitInv, Waits, Pending, NoCall
<1>10. ASSUME NEW ok \in BOOLEAN, CallReturns(ok) PROVE WaitInv'
  BY <1>10, ActorFacts, DogIsActor
     DEF CallReturns, Settles, CallTyped, PlaceType, WaitInv, Waits, Pending, NoCall
<1>11. ASSUME CallEnters PROVE WaitInv'
  BY <1>11, ActorFacts, DogIsActor
     DEF CallEnters, CallTyped, PlaceType, WaitInv, Waits, Pending, NoCall
<1>12. ASSUME NEW ok \in BOOLEAN, CallCommits(ok) PROVE WaitInv'
  BY <1>12, ActorFacts, DogIsActor
     DEF CallCommits, Commits, Settles, CallTyped, PlaceType, WaitInv, Waits, Pending, NoCall
<1>13. ASSUME NEW a \in Actors, StopsSession(a) PROVE WaitInv'
  BY <1>13, ActorFacts, DogIsActor
     DEF StopsSession, Request, Envelope, Moves, CallTyped, PlaceType, WaitInv, Waits, Pending,
         NoCall
<1>14. ASSUME NEW a \in Actors, Joins(a) PROVE WaitInv'
  BY <1>14, ActorFacts, DogIsActor
     DEF Joins, Request, Envelope, Moves, CallTyped, PlaceType, WaitInv, Waits, Pending, NoCall
<1>15. ASSUME NEW j \in Jobs, Recovers(j) PROVE WaitInv'
  BY <1>15, ActorFacts, DogIsActor
     DEF Recovers, Request, Envelope, Moves, CallTyped, PlaceType, WaitInv, Waits, Pending, NoCall
<1>16. ASSUME DogAsks PROVE WaitInv'
  BY <1>16, ActorFacts, DogIsActor
     DEF DogAsks, DogAt, Request, Envelope, Moves, CallTyped, PlaceType, WaitInv, Waits, Pending,
         NoCall
<1>17. ASSUME DogReturns PROVE WaitInv'
  BY <1>17, ActorFacts, DogIsActor
     DEF DogReturns, DogAt, Answered, Done, Moves, CallTyped, PlaceType, WaitInv, Waits, Pending,
         NoCall
<1>18. ASSUME NEW c \in Clients, Acquire(c) \/ Renew(c) \/ Release(c) PROVE WaitInv'
  BY <1>18, ActorFacts, DogIsActor
     DEF Acquire, Renew, Release, Owns, PlaceType, WaitInv, Waits, txVars, Pending
<1>19. ASSUME Expires \/ DogMarks \/ DogLeavesJobs \/ DogTakes \/ DogHears PROVE WaitInv'
  BY <1>19, ActorFacts, DogIsActor
     DEF Expires, DogMarks, DogLeavesJobs, DogTakes, DogHears, DogAt, Moves, PlaceType, WaitInv,
         Waits, txVars, Pending
<1>20. ASSUME NEW a \in Actors, Accepted(a) \/ Revokes(a) PROVE WaitInv'
  BY <1>20, ActorFacts, DogIsActor
     DEF Accepted, Revokes, Moves, PlaceType, WaitInv, Waits, txVars, Pending
<1>21. ASSUME NEW j \in Jobs, TakesOver(j) \/ JobRuns(j) \/ JobActs(j) \/ JobLooks(j) \/
              JobWrites(j) \/ JobEnds(j) \/ DogLooks(j)
       PROVE  WaitInv'
  BY <1>21, ActorFacts, DogIsActor
     DEF TakesOver, JobRuns, JobActs, JobLooks, JobWrites, JobEnds, DogLooks, Moves, Markable,
         DogAt, PlaceType, WaitInv, Waits, txVars, Pending
<1>22. ASSUME UNCHANGED vars PROVE WaitInv'
  BY <1>22 DEF vars, leaseVars, jobVars, txVars, WaitInv
<1> QED BY <1>1, <1>2, <1>3, <1>4, <1>5, <1>6, <1>7, <1>8, <1>9, <1>10, <1>11, <1>12, <1>13,
       <1>14, <1>15, <1>16, <1>17, <1>18, <1>19, <1>20, <1>21, <1>22, DogIsActor, ActorFacts
       DEF Next, Environment, Owner, DogStep, JobStep, Handoff, Ends

LEMMA KindStep ==
  ASSUME JobTyped, PlaceType, KindInv, CallTyped, LeaseType, WaitInv, [Next]_vars PROVE KindInv'
<1>1. ASSUME NEW a \in Actors, Ends(a) PROVE KindInv'
  BY <1>1, EndsEffect, ActorFacts DEF KindInv, Kind, HandoffPlaces, Actors
<1>2. ASSUME NEW j \in Jobs, NEW kind \in Kinds, Submit(j, kind) PROVE KindInv'
  BY <1>2, ActorFacts, SubmitEffect DEF Submit, Moves, PlaceType, KindInv, Kind, HandoffPlaces
<1>3. ASSUME NEW j \in Jobs, JobEnds(j) PROVE KindInv'
  BY <1>3, ActorFacts, EndEffect DEF JobEnds, Moves, PlaceType, KindInv, Kind, HandoffPlaces
<1>4. ASSUME NEW c \in Clients, Acquire(c) \/ Renew(c) \/ Release(c) PROVE KindInv'
  BY <1>4, ActorFacts, DogIsActor
     DEF Acquire, Renew, Release, Owns, PlaceType, KindInv, HandoffPlaces, Kind, jobVars
<1>5. ASSUME Expires \/ StartSession \/ CallBegins \/ CallEnters \/ DogMarks \/ DogLeavesJobs \/
             DogTakes \/ DogHears \/ DogBlames
      PROVE  KindInv'
  BY <1>5, ActorFacts, DogIsActor
     DEF Expires, StartSession, CallBegins, CallEnters, DogMarks, DogLeavesJobs, DogTakes,
         DogHears, DogBlames, Outdated, Admitted, DogAt, Moves, Preempt, PlaceType, KindInv,
         HandoffPlaces, Kind, jobVars
<1>6. ASSUME DogPreempts \/ DogAsks \/ DogReturns PROVE KindInv'
  BY <1>6, ActorFacts, DogIsActor
     DEF DogPreempts, DogAsks, DogReturns, DogAt, Preempt, Moves, Request, Envelope, Answered, Done,
         PlaceType, KindInv, HandoffPlaces, Kind, jobVars
<1>7. ASSUME NEW ok \in BOOLEAN, CallReturns(ok) \/ CallCommits(ok) PROVE KindInv'
  BY <1>7, ActorFacts, DogIsActor
     DEF CallReturns, CallCommits, Settles, Commits, PlaceType, KindInv, HandoffPlaces, Kind,
         jobVars
<1>8. ASSUME NEW a \in Actors, Accepted(a) \/ Locks(a) \/ StopsSession(a) \/ Revokes(a) \/
             Promotes(a) \/ Joins(a)
      PROVE  KindInv'
  BY <1>8, ActorFacts, DogIsActor
     DEF Accepted, Locks, StopsSession, Revokes, Promotes, Joins, Moves, Preempt, Request,
         Envelope, Outdated, PlaceType, KindInv, HandoffPlaces, Kind, jobVars
<1>9. ASSUME NEW j \in Jobs, TakesOver(j) \/ TakeoverPreempts(j) \/ Recovers(j) \/ JobRuns(j) \/
             JobActs(j) \/ JobLooks(j) \/ JobWrites(j) \/ DogLooks(j)
      PROVE  KindInv'
  BY <1>9, ActorFacts, DogIsActor
     DEF TakesOver, TakeoverPreempts, Recovers, JobRuns, JobActs, JobLooks, JobWrites, DogLooks,
         Moves, Preempt, Request, Envelope, Markable, DogAt, PlaceType, KindInv, HandoffPlaces,
         Kind, jobVars
<1>10. ASSUME UNCHANGED vars PROVE KindInv'
  BY <1>10 DEF vars, leaseVars, jobVars, txVars, KindInv, Kind
<1> QED BY <1>1, <1>2, <1>3, <1>4, <1>5, <1>6, <1>7, <1>8, <1>9, <1>10, DogIsActor, ActorFacts
       DEF Next, Environment, Owner, DogStep, JobStep, Handoff, Ends

LEMMA TypedStep == Typed /\ [Next]_vars => Typed'
BY LeaseTypeStep, JobTypeStep, MarkStep, PlaceTypeStep, CallTypedStep, QueueStep, WaitStep,
   StartStep, KindStep DEF Typed

LEMMA TypedAlways == Spec => []Typed
BY InitTyped, TypedStep, PTL DEF Spec

\* Type correctness, for every number of clients, jobs and leases: the queue
\* holds exactly the actors whose call is unanswered, and no call but the one
\* at its head has begun.
THEOREM TypeCorrect == Spec => []TypeOK
<1>1. Typed => TypeOK
  <2> SUFFICES ASSUME Typed PROVE TypeOK
    OBVIOUS
  <2>1. LeaseType /\ JobType
    BY DEF Typed, JobTyped, JobType, JobRecords, RunRecords, Statuses, MarkInv
  <2>2. CallType
    BY DEF Typed, CallTyped, CallRecords, CallType, QueueInv, Pending
  <2> QED BY <2>1, <2>2 DEF Typed, TypeOK, PlaceType, Places
<1> QED BY <1>1, TypedAlways, PTL

-----------------------------------------------------------------------------
\* One job at a time.

\* A thread that has entered its action, or the watchdog, goes on.
LEMMA FlightMove ==
  ASSUME FlightInv, PlaceType, UNCHANGED <<job, active, marking>>,
         NEW a \in Actors, Inside(at[a]), Inside(at'[a]),
         \A b \in Actors \ {a} : at'[b] = at[b]
  PROVE  FlightInv'
<1> USE ActorFacts
<1>1. ASSUME NEW j \in Jobs PROVE JobAgrees(j)'
  <2>1. CASE j = a
    BY <2>1 DEF FlightInv, JobAgrees, Acting, Inside
  <2>2. CASE j # a
    BY <2>2 DEF FlightInv, JobAgrees, Acting
  <2> QED BY <2>1, <2>2
<1>2. ASSUME NEW i \in Jobs, NEW j \in Jobs, Busy(i)', Busy(j)' PROVE i = j
  <2>1. Busy(i) /\ Busy(j)
    BY <1>2 DEF Busy, Inside
  <2> QED BY <2>1 DEF FlightInv
<1> QED BY <1>1, <1>2 DEF FlightInv

LEMMA FlightStep ==
  ASSUME LeaseType, JobTyped, MarkInv, PlaceType, CallTyped, WaitInv, StartInv, FlightInv,
         ~Stalls, [Next]_vars
  PROVE  FlightInv'
<1>1. ASSUME NEW a \in Actors, Accepted(a) PROVE FlightInv'
  <2>1. Inside(at'[a]) /\ \A b \in Actors \ {a} : at'[b] = at[b]
    BY <1>1, ActorFacts, DogIsActor DEF Accepted, PlaceType, Moves, Inside
  <2>2. UNCHANGED <<job, active, marking>> /\ Inside(at[a])
    BY <1>1 DEF Accepted, jobVars, Inside
  <2> QED BY <2>1, <2>2, FlightMove, ActorFacts, DogIsActor
<1>2. ASSUME NEW a \in Actors, Locks(a) PROVE FlightInv'
  <2>1. Inside(at'[a]) /\ \A b \in Actors \ {a} : at'[b] = at[b]
    BY <1>2, ActorFacts, DogIsActor DEF Locks, PlaceType, Moves, Inside
  <2>2. UNCHANGED <<job, active, marking>> /\ Inside(at[a])
    BY <1>2 DEF Locks, jobVars, Inside
  <2> QED BY <2>1, <2>2, FlightMove, ActorFacts, DogIsActor
<1>3. ASSUME NEW a \in Actors, StopsSession(a) PROVE FlightInv'
  <2>1. Inside(at'[a]) /\ \A b \in Actors \ {a} : at'[b] = at[b]
    BY <1>3, ActorFacts, DogIsActor DEF StopsSession, PlaceType, Moves, Inside
  <2>2. UNCHANGED <<job, active, marking>> /\ Inside(at[a])
    BY <1>3 DEF StopsSession, jobVars, Inside
  <2> QED BY <2>1, <2>2, FlightMove, ActorFacts, DogIsActor
<1>4. ASSUME NEW a \in Actors, Revokes(a) PROVE FlightInv'
  <2>1. Inside(at'[a]) /\ \A b \in Actors \ {a} : at'[b] = at[b]
    BY <1>4, ActorFacts, DogIsActor DEF Revokes, PlaceType, Moves, Inside
  <2>2. UNCHANGED <<job, active, marking>> /\ Inside(at[a])
    BY <1>4 DEF Revokes, jobVars, Inside
  <2> QED BY <2>1, <2>2, FlightMove, ActorFacts, DogIsActor
<1>5. ASSUME NEW a \in Actors, Promotes(a) PROVE FlightInv'
  <2>1. Inside(at'[a]) /\ \A b \in Actors \ {a} : at'[b] = at[b]
    BY <1>5, ActorFacts, DogIsActor DEF Promotes, PlaceType, Moves, Inside
  <2>2. UNCHANGED <<job, active, marking>> /\ Inside(at[a])
    BY <1>5 DEF Promotes, jobVars, Inside
  <2> QED BY <2>1, <2>2, FlightMove, ActorFacts, DogIsActor
<1>6. ASSUME NEW a \in Actors, Joins(a) PROVE FlightInv'
  <2>1. Inside(at'[a]) /\ \A b \in Actors \ {a} : at'[b] = at[b]
    BY <1>6, ActorFacts, DogIsActor DEF Joins, PlaceType, Moves, Inside
  <2>2. UNCHANGED <<job, active, marking>> /\ Inside(at[a])
    BY <1>6 DEF Joins, jobVars, Inside
  <2> QED BY <2>1, <2>2, FlightMove, ActorFacts, DogIsActor
<1>7. ASSUME NEW j \in Jobs, TakesOver(j) PROVE FlightInv'
  <2>1. Inside(at'[j]) /\ \A b \in Actors \ {j} : at'[b] = at[b]
    BY <1>7, ActorFacts, DogIsActor DEF TakesOver, PlaceType, Moves, Inside
  <2>2. UNCHANGED <<job, active, marking>> /\ Inside(at[j])
    BY <1>7 DEF TakesOver, jobVars, Inside
  <2> QED BY <2>1, <2>2, FlightMove, ActorFacts, DogIsActor
<1>8. ASSUME NEW j \in Jobs, TakeoverPreempts(j) PROVE FlightInv'
  <2>1. Inside(at'[j]) /\ \A b \in Actors \ {j} : at'[b] = at[b]
    BY <1>8, ActorFacts, DogIsActor DEF TakeoverPreempts, PlaceType, Moves, Inside
  <2>2. UNCHANGED <<job, active, marking>> /\ Inside(at[j])
    BY <1>8 DEF TakeoverPreempts, jobVars, Inside
  <2> QED BY <2>1, <2>2, FlightMove, ActorFacts, DogIsActor
<1>9. ASSUME NEW j \in Jobs, Recovers(j) PROVE FlightInv'
  <2>1. Inside(at'[j]) /\ \A b \in Actors \ {j} : at'[b] = at[b]
    BY <1>9, ActorFacts, DogIsActor DEF Recovers, PlaceType, Moves, Inside
  <2>2. UNCHANGED <<job, active, marking>> /\ Inside(at[j])
    BY <1>9 DEF Recovers, jobVars, Inside
  <2> QED BY <2>1, <2>2, FlightMove, ActorFacts, DogIsActor
<1>10. ASSUME DogBlames PROVE FlightInv'
  <2>1. Inside(at'[Dog]) /\ \A b \in Actors \ {Dog} : at'[b] = at[b]
    BY <1>10, ActorFacts, DogIsActor DEF DogBlames, PlaceType, Moves, Inside, DogAt
  <2>2. UNCHANGED <<job, active, marking>> /\ Inside(at[Dog])
    BY <1>10 DEF DogBlames, jobVars, Inside, DogAt
  <2> QED BY <2>1, <2>2, FlightMove, ActorFacts, DogIsActor
<1>11. ASSUME DogLeavesJobs PROVE FlightInv'
  <2>1. Inside(at'[Dog]) /\ \A b \in Actors \ {Dog} : at'[b] = at[b]
    BY <1>11, ActorFacts, DogIsActor DEF DogLeavesJobs, PlaceType, Moves, Inside, DogAt
  <2>2. UNCHANGED <<job, active, marking>> /\ Inside(at[Dog])
    BY <1>11 DEF DogLeavesJobs, jobVars, Inside, DogAt
  <2> QED BY <2>1, <2>2, FlightMove, ActorFacts, DogIsActor
<1>12. ASSUME DogTakes PROVE FlightInv'
  <2>1. Inside(at'[Dog]) /\ \A b \in Actors \ {Dog} : at'[b] = at[b]
    BY <1>12, ActorFacts, DogIsActor DEF DogTakes, PlaceType, Moves, Inside, DogAt
  <2>2. UNCHANGED <<job, active, marking>> /\ Inside(at[Dog])
    BY <1>12 DEF DogTakes, jobVars, Inside, DogAt
  <2> QED BY <2>1, <2>2, FlightMove, ActorFacts, DogIsActor
<1>13. ASSUME DogPreempts PROVE FlightInv'
  <2>1. Inside(at'[Dog]) /\ \A b \in Actors \ {Dog} : at'[b] = at[b]
    BY <1>13, ActorFacts, DogIsActor DEF DogPreempts, PlaceType, Moves, Inside, DogAt
  <2>2. UNCHANGED <<job, active, marking>> /\ Inside(at[Dog])
    BY <1>13 DEF DogPreempts, jobVars, Inside, DogAt
  <2> QED BY <2>1, <2>2, FlightMove, ActorFacts, DogIsActor
<1>14. ASSUME DogAsks PROVE FlightInv'
  <2>1. Inside(at'[Dog]) /\ \A b \in Actors \ {Dog} : at'[b] = at[b]
    BY <1>14, ActorFacts, DogIsActor DEF DogAsks, PlaceType, Moves, Inside, DogAt
  <2>2. UNCHANGED <<job, active, marking>> /\ Inside(at[Dog])
    BY <1>14 DEF DogAsks, jobVars, Inside, DogAt
  <2> QED BY <2>1, <2>2, FlightMove, ActorFacts, DogIsActor
<1>15. ASSUME DogReturns PROVE FlightInv'
  <2>1. Inside(at'[Dog]) /\ \A b \in Actors \ {Dog} : at'[b] = at[b]
    BY <1>15, ActorFacts, DogIsActor DEF DogReturns, PlaceType, Moves, Inside, DogAt
  <2>2. UNCHANGED <<job, active, marking>> /\ Inside(at[Dog])
    BY <1>15 DEF DogReturns, jobVars, Inside, DogAt
  <2> QED BY <2>1, <2>2, FlightMove, ActorFacts, DogIsActor
<1>16. ASSUME DogHears PROVE FlightInv'
  <2>1. Inside(at'[Dog]) /\ \A b \in Actors \ {Dog} : at'[b] = at[b]
    BY <1>16, ActorFacts, DogIsActor DEF DogHears, PlaceType, Moves, Inside, DogAt
  <2>2. UNCHANGED <<job, active, marking>> /\ Inside(at[Dog])
    BY <1>16 DEF DogHears, jobVars, Inside, DogAt
  <2> QED BY <2>1, <2>2, FlightMove, ActorFacts, DogIsActor
<1>17. ASSUME NEW a \in Actors, Ends(a) PROVE FlightInv'
  <2>1. /\ Inside(at'[a]) /\ \A b \in Actors \ {a} : at'[b] = at[b]
        /\ UNCHANGED <<job, active, marking>>
        /\ Inside(at[a])
    BY <1>17, EndsEffect DEF Inside
  <2> QED BY <2>1, FlightMove
<1>18. ASSUME NEW j \in Jobs, NEW kind \in Kinds, Submit(j, kind) PROVE FlightInv'
  <2>1. /\ job'[j].status = "queued" /\ \A i \in Jobs \ {j} : job'[i] = job[i]
        /\ at'[j] = "queued" /\ \A b \in Actors \ {j} : at'[b] = at[b]
        /\ UNCHANGED <<active, marking>>
    BY <1>18, ActorFacts, StatusEffect, MovesTo DEF Submit, Statuses, jobVars
  <2>2. at[j] = "none" /\ \A i \in Jobs : ~Busy(i)
    BY <1>18, ActorFacts DEF Submit, StartInv, FlightInv, JobAgrees, Busy, Acting
  <2>3. ASSUME NEW i \in Jobs PROVE JobAgrees(i)'
    BY <2>1, <2>2, ActorFacts DEF FlightInv, JobAgrees, Acting
  <2>4. ASSUME NEW i \in Jobs, NEW k \in Jobs, Busy(i)', Busy(k)' PROVE i = k
    BY <2>1, <2>2, <2>4, ActorFacts DEF Busy
  <2> QED BY <2>3, <2>4 DEF FlightInv
<1>19. ASSUME NEW j \in Jobs, JobRuns(j) PROVE FlightInv'
  <2>1. /\ job'[j].status = "running" /\ \A i \in Jobs \ {j} : job'[i] = job[i]
        /\ at'[j] = "running" /\ \A b \in Actors \ {j} : at'[b] = at[b]
        /\ UNCHANGED <<active, marking>>
    BY <1>19, ActorFacts, StatusEffect, MovesTo DEF JobRuns, Statuses, jobVars
  <2>2. at[j] = "queued"
    BY <1>19 DEF JobRuns
  <2>3. ASSUME NEW i \in Jobs PROVE JobAgrees(i)'
    BY <2>1, <2>2, ActorFacts DEF FlightInv, JobAgrees, Acting
  <2>4. ASSUME NEW i \in Jobs, NEW k \in Jobs, Busy(i)', Busy(k)' PROVE i = k
    BY <2>1, <2>2, <2>4, ActorFacts DEF Busy, FlightInv
  <2> QED BY <2>3, <2>4 DEF FlightInv
<1>20. ASSUME NEW j \in Jobs, JobWrites(j) PROVE FlightInv'
  <2>1. PICK s \in {"completed", "failed"} : job' = [job EXCEPT ![j].status = s]
    BY <1>20 DEF JobWrites
  <2>2. /\ job'[j].status = s /\ \A i \in Jobs \ {j} : job'[i] = job[i]
    BY <2>1, StatusEffect DEF Statuses
  <2>3. /\ at[j] = "writing" /\ at'[j] = "finally" /\ \A i \in Jobs \ {j} : at'[i] = at[i]
        /\ UNCHANGED <<active, marking>>
    BY <1>20, ActorFacts, MovesTo DEF JobWrites
  <2>4. ASSUME NEW i \in Jobs PROVE JobAgrees(i)'
    BY <2>2, <2>3 DEF FlightInv, JobAgrees, Acting
  <2>5. ASSUME NEW i \in Jobs, NEW k \in Jobs, Busy(i)', Busy(k)' PROVE i = k
    BY <2>3, <2>5 DEF Busy, FlightInv
  <2> QED BY <2>4, <2>5 DEF FlightInv
<1>21. ASSUME NEW j \in Jobs, JobActs(j) PROVE FlightInv'
  BY <1>21, ActorFacts DEF JobActs, Moves, FlightInv, JobAgrees, Acting, Busy, PlaceType
<1>22. ASSUME NEW j \in Jobs, JobLooks(j) PROVE FlightInv'
  BY <1>22, ActorFacts
     DEF JobLooks, Moves, FlightInv, JobAgrees, Acting, Busy, PlaceType, jobVars, JobTyped,
         JobRecords, Statuses
<1>23. ASSUME NEW j \in Jobs, JobEnds(j) PROVE FlightInv'
  BY <1>23, ActorFacts DEF JobEnds, Moves, FlightInv, JobAgrees, Acting, Busy, PlaceType
<1>24. ASSUME NEW j \in Jobs, DogLooks(j) PROVE FlightInv'
  BY <1>24, ActorFacts, MarkedEffect, DogIsActor
     DEF DogLooks, Markable, DogAt, Moves, FlightInv, JobAgrees, Acting, Busy, PlaceType
<1>25. ASSUME DogMarks PROVE FlightInv'
  <2>1. marking \in Jobs /\ "timed_out" \in Statuses
    BY <1>25 DEF DogMarks, MarkInv, JobTyped, Statuses
  <2>2. job' = [job EXCEPT ![marking].status = "timed_out"]
    BY <1>25 DEF DogMarks
  <2> QED
    BY <1>25, <2>1, <2>2, StatusEffect, ActorFacts, DogIsActor
       DEF DogMarks, DogAt, Moves, FlightInv, JobAgrees, Acting, Busy, PlaceType
<1>26. ASSUME NEW c \in Clients, Acquire(c) \/ Renew(c) \/ Release(c) PROVE FlightInv'
  BY <1>26 DEF Acquire, Renew, Release, Owns, FlightInv, JobAgrees, Acting, Busy, jobVars
<1>27. ASSUME Expires \/ StartSession \/ CallBegins \/ CallEnters PROVE FlightInv'
  BY <1>27
     DEF Expires, StartSession, CallBegins, CallEnters, Outdated, Admitted, FlightInv, JobAgrees,
         Acting, Busy, jobVars
<1>28. ASSUME NEW ok \in BOOLEAN, CallReturns(ok) \/ CallCommits(ok) PROVE FlightInv'
  BY <1>28
     DEF CallReturns, CallCommits, Settles, Commits, FlightInv, JobAgrees, Acting, Busy, jobVars
<1>29. ASSUME UNCHANGED vars PROVE FlightInv'
  BY <1>29 DEF vars, leaseVars, jobVars, txVars, FlightInv, JobAgrees, Acting, Busy
<1> QED BY <1>1, <1>2, <1>3, <1>4, <1>5, <1>6, <1>7, <1>8, <1>9, <1>10, <1>11, <1>12, <1>13,
       <1>14, <1>15, <1>16, <1>17, <1>18, <1>19, <1>20, <1>21, <1>22, <1>23, <1>24, <1>25, <1>26,
       <1>27, <1>28, <1>29, DogIsActor, ActorFacts
       DEF Next, Environment, Owner, DogStep, JobStep, Handoff, Ends

-----------------------------------------------------------------------------
\* Verdicts.

LEMMA VerdictMove ==
  ASSUME VerdictInv, UNCHANGED <<job, marking>>,
         NEW a \in Actors, Inside(at[a]), Inside(at'[a]),
         \A b \in Actors \ {a} : at'[b] = at[b]
  PROVE  VerdictInv'
<1> SUFFICES ASSUME NEW j \in Jobs
             PROVE  /\ at'[j] = "none" => job[j].status = "none"
                    /\ at'[j] = "queued" => job[j].status = "queued"
                    /\ job[j].status \in {"completed", "failed"} => at'[j] \in {"finally", "done"}
                    /\ at'[j] \in {"finally", "done"}
                       => job[j].status \in {"completed", "failed", "timed_out"}
                    /\ marking = j => at'[j] \notin {"none", "queued"}
  BY DEF VerdictInv
<1>1. CASE j = a
  BY <1>1 DEF VerdictInv, Inside
<1>2. CASE j # a
  BY <1>2, ActorFacts DEF VerdictInv
<1> QED BY <1>1, <1>2

LEMMA VerdictStep ==
  ASSUME LeaseType, JobTyped, MarkInv, PlaceType, CallTyped, WaitInv, StartInv, VerdictInv,
         [Next]_vars
  PROVE  VerdictInv'
<1>1. ASSUME NEW a \in Actors, Accepted(a) PROVE VerdictInv'
  <2>1. Inside(at'[a]) /\ \A b \in Actors \ {a} : at'[b] = at[b]
    BY <1>1, ActorFacts, DogIsActor DEF Accepted, PlaceType, Moves, Inside
  <2>2. UNCHANGED <<job, marking>> /\ Inside(at[a])
    BY <1>1 DEF Accepted, jobVars, Inside
  <2> QED BY <2>1, <2>2, VerdictMove, ActorFacts, DogIsActor
<1>2. ASSUME NEW a \in Actors, Locks(a) PROVE VerdictInv'
  <2>1. Inside(at'[a]) /\ \A b \in Actors \ {a} : at'[b] = at[b]
    BY <1>2, ActorFacts, DogIsActor DEF Locks, PlaceType, Moves, Inside
  <2>2. UNCHANGED <<job, marking>> /\ Inside(at[a])
    BY <1>2 DEF Locks, jobVars, Inside
  <2> QED BY <2>1, <2>2, VerdictMove, ActorFacts, DogIsActor
<1>3. ASSUME NEW a \in Actors, StopsSession(a) PROVE VerdictInv'
  <2>1. Inside(at'[a]) /\ \A b \in Actors \ {a} : at'[b] = at[b]
    BY <1>3, ActorFacts, DogIsActor DEF StopsSession, PlaceType, Moves, Inside
  <2>2. UNCHANGED <<job, marking>> /\ Inside(at[a])
    BY <1>3 DEF StopsSession, jobVars, Inside
  <2> QED BY <2>1, <2>2, VerdictMove, ActorFacts, DogIsActor
<1>4. ASSUME NEW a \in Actors, Revokes(a) PROVE VerdictInv'
  <2>1. Inside(at'[a]) /\ \A b \in Actors \ {a} : at'[b] = at[b]
    BY <1>4, ActorFacts, DogIsActor DEF Revokes, PlaceType, Moves, Inside
  <2>2. UNCHANGED <<job, marking>> /\ Inside(at[a])
    BY <1>4 DEF Revokes, jobVars, Inside
  <2> QED BY <2>1, <2>2, VerdictMove, ActorFacts, DogIsActor
<1>5. ASSUME NEW a \in Actors, Promotes(a) PROVE VerdictInv'
  <2>1. Inside(at'[a]) /\ \A b \in Actors \ {a} : at'[b] = at[b]
    BY <1>5, ActorFacts, DogIsActor DEF Promotes, PlaceType, Moves, Inside
  <2>2. UNCHANGED <<job, marking>> /\ Inside(at[a])
    BY <1>5 DEF Promotes, jobVars, Inside
  <2> QED BY <2>1, <2>2, VerdictMove, ActorFacts, DogIsActor
<1>6. ASSUME NEW a \in Actors, Joins(a) PROVE VerdictInv'
  <2>1. Inside(at'[a]) /\ \A b \in Actors \ {a} : at'[b] = at[b]
    BY <1>6, ActorFacts, DogIsActor DEF Joins, PlaceType, Moves, Inside
  <2>2. UNCHANGED <<job, marking>> /\ Inside(at[a])
    BY <1>6 DEF Joins, jobVars, Inside
  <2> QED BY <2>1, <2>2, VerdictMove, ActorFacts, DogIsActor
<1>7. ASSUME NEW j \in Jobs, TakesOver(j) PROVE VerdictInv'
  <2>1. Inside(at'[j]) /\ \A b \in Actors \ {j} : at'[b] = at[b]
    BY <1>7, ActorFacts, DogIsActor DEF TakesOver, PlaceType, Moves, Inside
  <2>2. UNCHANGED <<job, marking>> /\ Inside(at[j])
    BY <1>7 DEF TakesOver, jobVars, Inside
  <2> QED BY <2>1, <2>2, VerdictMove, ActorFacts, DogIsActor
<1>8. ASSUME NEW j \in Jobs, TakeoverPreempts(j) PROVE VerdictInv'
  <2>1. Inside(at'[j]) /\ \A b \in Actors \ {j} : at'[b] = at[b]
    BY <1>8, ActorFacts, DogIsActor DEF TakeoverPreempts, PlaceType, Moves, Inside
  <2>2. UNCHANGED <<job, marking>> /\ Inside(at[j])
    BY <1>8 DEF TakeoverPreempts, jobVars, Inside
  <2> QED BY <2>1, <2>2, VerdictMove, ActorFacts, DogIsActor
<1>9. ASSUME NEW j \in Jobs, Recovers(j) PROVE VerdictInv'
  <2>1. Inside(at'[j]) /\ \A b \in Actors \ {j} : at'[b] = at[b]
    BY <1>9, ActorFacts, DogIsActor DEF Recovers, PlaceType, Moves, Inside
  <2>2. UNCHANGED <<job, marking>> /\ Inside(at[j])
    BY <1>9 DEF Recovers, jobVars, Inside
  <2> QED BY <2>1, <2>2, VerdictMove, ActorFacts, DogIsActor
<1>10. ASSUME DogBlames PROVE VerdictInv'
  <2>1. Inside(at'[Dog]) /\ \A b \in Actors \ {Dog} : at'[b] = at[b]
    BY <1>10, ActorFacts, DogIsActor DEF DogBlames, PlaceType, Moves, Inside, DogAt
  <2>2. UNCHANGED <<job, marking>> /\ Inside(at[Dog])
    BY <1>10 DEF DogBlames, jobVars, Inside, DogAt
  <2> QED BY <2>1, <2>2, VerdictMove, ActorFacts, DogIsActor
<1>11. ASSUME DogLeavesJobs PROVE VerdictInv'
  <2>1. Inside(at'[Dog]) /\ \A b \in Actors \ {Dog} : at'[b] = at[b]
    BY <1>11, ActorFacts, DogIsActor DEF DogLeavesJobs, PlaceType, Moves, Inside, DogAt
  <2>2. UNCHANGED <<job, marking>> /\ Inside(at[Dog])
    BY <1>11 DEF DogLeavesJobs, jobVars, Inside, DogAt
  <2> QED BY <2>1, <2>2, VerdictMove, ActorFacts, DogIsActor
<1>12. ASSUME DogTakes PROVE VerdictInv'
  <2>1. Inside(at'[Dog]) /\ \A b \in Actors \ {Dog} : at'[b] = at[b]
    BY <1>12, ActorFacts, DogIsActor DEF DogTakes, PlaceType, Moves, Inside, DogAt
  <2>2. UNCHANGED <<job, marking>> /\ Inside(at[Dog])
    BY <1>12 DEF DogTakes, jobVars, Inside, DogAt
  <2> QED BY <2>1, <2>2, VerdictMove, ActorFacts, DogIsActor
<1>13. ASSUME DogPreempts PROVE VerdictInv'
  <2>1. Inside(at'[Dog]) /\ \A b \in Actors \ {Dog} : at'[b] = at[b]
    BY <1>13, ActorFacts, DogIsActor DEF DogPreempts, PlaceType, Moves, Inside, DogAt
  <2>2. UNCHANGED <<job, marking>> /\ Inside(at[Dog])
    BY <1>13 DEF DogPreempts, jobVars, Inside, DogAt
  <2> QED BY <2>1, <2>2, VerdictMove, ActorFacts, DogIsActor
<1>14. ASSUME DogAsks PROVE VerdictInv'
  <2>1. Inside(at'[Dog]) /\ \A b \in Actors \ {Dog} : at'[b] = at[b]
    BY <1>14, ActorFacts, DogIsActor DEF DogAsks, PlaceType, Moves, Inside, DogAt
  <2>2. UNCHANGED <<job, marking>> /\ Inside(at[Dog])
    BY <1>14 DEF DogAsks, jobVars, Inside, DogAt
  <2> QED BY <2>1, <2>2, VerdictMove, ActorFacts, DogIsActor
<1>15. ASSUME DogReturns PROVE VerdictInv'
  <2>1. Inside(at'[Dog]) /\ \A b \in Actors \ {Dog} : at'[b] = at[b]
    BY <1>15, ActorFacts, DogIsActor DEF DogReturns, PlaceType, Moves, Inside, DogAt
  <2>2. UNCHANGED <<job, marking>> /\ Inside(at[Dog])
    BY <1>15 DEF DogReturns, jobVars, Inside, DogAt
  <2> QED BY <2>1, <2>2, VerdictMove, ActorFacts, DogIsActor
<1>16. ASSUME DogHears PROVE VerdictInv'
  <2>1. Inside(at'[Dog]) /\ \A b \in Actors \ {Dog} : at'[b] = at[b]
    BY <1>16, ActorFacts, DogIsActor DEF DogHears, PlaceType, Moves, Inside, DogAt
  <2>2. UNCHANGED <<job, marking>> /\ Inside(at[Dog])
    BY <1>16 DEF DogHears, jobVars, Inside, DogAt
  <2> QED BY <2>1, <2>2, VerdictMove, ActorFacts, DogIsActor
<1>17. ASSUME NEW a \in Actors, Ends(a) PROVE VerdictInv'
  <2>1. /\ Inside(at'[a]) /\ \A b \in Actors \ {a} : at'[b] = at[b]
        /\ UNCHANGED <<job, marking>> /\ Inside(at[a])
    BY <1>17, EndsEffect DEF Inside
  <2> QED BY <2>1, VerdictMove
<1>18. ASSUME NEW j \in Jobs, NEW kind \in Kinds, Submit(j, kind) PROVE VerdictInv'
  <2>1. /\ job'[j].status = "queued" /\ \A i \in Jobs \ {j} : job'[i] = job[i]
        /\ at'[j] = "queued" /\ \A b \in Actors \ {j} : at'[b] = at[b]
        /\ UNCHANGED marking
    BY <1>18, ActorFacts, StatusEffect, MovesTo DEF Submit, Statuses, jobVars
  <2>2. at[j] = "none"
    BY <1>18 DEF Submit, StartInv
  <2> QED BY <2>1, <2>2, ActorFacts DEF VerdictInv
<1>19. ASSUME NEW j \in Jobs, JobRuns(j) PROVE VerdictInv'
  BY <1>19, ActorFacts, StatusEffect DEF JobRuns, Moves, VerdictInv, PlaceType, Statuses
<1>20. ASSUME NEW j \in Jobs, JobActs(j) PROVE VerdictInv'
  BY <1>20, ActorFacts DEF JobActs, Moves, VerdictInv, PlaceType
<1>21. ASSUME NEW j \in Jobs, JobLooks(j) PROVE VerdictInv'
  BY <1>21, ActorFacts DEF JobLooks, Moves, VerdictInv, PlaceType, jobVars
<1>22. ASSUME NEW j \in Jobs, JobWrites(j) PROVE VerdictInv'
  <2>1. PICK s \in {"completed", "failed"} : job' = [job EXCEPT ![j].status = s]
    BY <1>22 DEF JobWrites
  <2>2. /\ job'[j].status = s /\ \A i \in Jobs \ {j} : job'[i] = job[i]
    BY <2>1, StatusEffect DEF Statuses
  <2>3. /\ at[j] = "writing" /\ at'[j] = "finally" /\ \A i \in Jobs \ {j} : at'[i] = at[i]
        /\ UNCHANGED marking
    BY <1>22, ActorFacts, MovesTo DEF JobWrites
  <2> QED BY <2>2, <2>3 DEF VerdictInv
<1>23. ASSUME NEW j \in Jobs, JobEnds(j) PROVE VerdictInv'
  BY <1>23, ActorFacts DEF JobEnds, Moves, VerdictInv, PlaceType
<1>24. ASSUME NEW j \in Jobs, DogLooks(j) PROVE VerdictInv'
  BY <1>24, ActorFacts, MarkedEffect, DogIsActor
     DEF DogLooks, Markable, DogAt, Moves, VerdictInv, PlaceType
<1>25. ASSUME DogMarks PROVE VerdictInv'
  <2>1. marking \in Jobs /\ "timed_out" \in Statuses
    BY <1>25 DEF DogMarks, MarkInv, JobTyped, Statuses
  <2>2. job' = [job EXCEPT ![marking].status = "timed_out"]
    BY <1>25 DEF DogMarks
  <2> QED
    BY <1>25, <2>1, <2>2, StatusEffect, ActorFacts, DogIsActor
       DEF DogMarks, DogAt, Moves, VerdictInv, PlaceType
<1>26. ASSUME NEW c \in Clients, Acquire(c) \/ Renew(c) \/ Release(c) PROVE VerdictInv'
  BY <1>26 DEF Acquire, Renew, Release, Owns, VerdictInv, jobVars
<1>27. ASSUME Expires \/ StartSession \/ CallBegins \/ CallEnters PROVE VerdictInv'
  BY <1>27
     DEF Expires, StartSession, CallBegins, CallEnters, Outdated, Admitted, VerdictInv, jobVars
<1>28. ASSUME NEW ok \in BOOLEAN, CallReturns(ok) \/ CallCommits(ok) PROVE VerdictInv'
  BY <1>28 DEF CallReturns, CallCommits, Settles, Commits, VerdictInv, jobVars
<1>29. ASSUME UNCHANGED vars PROVE VerdictInv'
  BY <1>29 DEF vars, leaseVars, jobVars, txVars, VerdictInv
<1> QED BY <1>1, <1>2, <1>3, <1>4, <1>5, <1>6, <1>7, <1>8, <1>9, <1>10, <1>11, <1>12, <1>13,
       <1>14, <1>15, <1>16, <1>17, <1>18, <1>19, <1>20, <1>21, <1>22, <1>23, <1>24, <1>25, <1>26,
       <1>27, <1>28, <1>29, DogIsActor, ActorFacts
       DEF Next, Environment, Owner, DogStep, JobStep, Handoff, Ends

LEMMA CallStep ==
  ASSUME LeaseType, JobTyped, MarkInv, PlaceType, CallTyped, QueueInv, WaitInv, StartInv, KindInv,
         CallInv, [Next]_vars
  PROVE  CallInv'
<1>1. ASSUME NEW a \in Actors, Ends(a) PROVE CallInv'
  <2>1. ASSUME NEW b \in Actors
        PROVE  /\ at'[b] = "transition" => call'[b].method = Kind(b)'
               /\ at'[b] = "recovered" => call'[b].method = "hold"
               /\ call'[b].state = "ok" /\ call'[b].superseded
                  => call'[b].method = "stop_cpv"
    <3>1. CASE b = a
      BY <3>1, <1>1, EndsEffect DEF NoCall
    <3>2. CASE b # a
      <4>1. Kind(b)' = Kind(b)
        BY <3>2, <1>1, EndsEffect DEF Kind, Actors
      <4> QED BY <4>1, <3>2, <1>1, EndsEffect DEF CallInv
    <3> QED BY <3>1, <3>2
  <2>2. ASSUME NEW j \in Jobs
        PROVE  /\ run'[j].ok => ~run'[j].hit
               /\ at'[j] = "none" => ~run'[j].ok
    <3>1. CASE j = a
      <4>1. Kind(a) = run[a].kind
        BY <3>1, ActorFacts DEF Kind
      <4>2. /\ run'[j].hit = Hit(j) /\ at'[j] # "none"
            /\ run'[j].ok => at[j] \in {"transition", "recovered"} /\ Done(j)
        BY <3>1, <1>1, EndsEffect, ActorFacts
      <4>3. at[j] \in {"transition", "recovered"} => call[j].method # "stop_cpv"
        BY <3>1, <4>1 DEF CallInv, KindInv, HandoffPlaces, Transitions
      <4>4. Done(j) /\ call[j].method # "stop_cpv" => ~Hit(j)
        BY <3>1 DEF CallInv, Done, Hit
      <4> QED BY <4>2, <4>3, <4>4
    <3>2. CASE j # a
      BY <3>2, <1>1, EndsEffect, ActorFacts DEF CallInv
    <3> QED BY <3>1, <3>2
  <2> QED BY <2>1, <2>2 DEF CallInv
<1>2. ASSUME NEW j \in Jobs, NEW kind \in Kinds, Submit(j, kind) PROVE CallInv'
  <2>1. /\ at[j] = "none" /\ at'[j] = "queued" /\ \A b \in Actors \ {j} : at'[b] = at[b]
        /\ UNCHANGED call
    BY <1>2, ActorFacts, MovesTo DEF Submit, StartInv, txVars
  <2>2. \A b \in Actors \ {j} : Kind(b)' = Kind(b)
    BY <1>2, SubmitEffect DEF Kind, Actors
  <2>3. ~run[j].ok
    BY <2>1 DEF CallInv
  <2> QED BY <1>2, <2>1, <2>2, <2>3, ActorFacts, SubmitEffect DEF CallInv
<1>3. ASSUME NEW j \in Jobs, JobEnds(j) PROVE CallInv'
  <2>1. /\ at[j] = "finally" /\ at'[j] = "done" /\ \A b \in Actors \ {j} : at'[b] = at[b]
        /\ UNCHANGED call
    BY <1>3, ActorFacts, MovesTo DEF JobEnds, txVars
  <2>2. \A b \in Actors \ {j} : Kind(b)' = Kind(b)
    BY <1>3, EndEffect DEF Kind, Actors
  <2>3. /\ ~run'[j].ok /\ \A i \in Jobs \ {j} : run'[i] = run[i]
    BY <1>3, EndEffect DEF NoRun
  <2>4. ASSUME NEW i \in Jobs
        PROVE  /\ run'[i].ok => ~run'[i].hit
               /\ at'[i] = "none" => ~run'[i].ok
    BY <2>1, <2>3, ActorFacts DEF CallInv
  <2> QED BY <2>1, <2>2, <2>4, ActorFacts DEF CallInv
<1>4. ASSUME NEW a \in Actors, Locks(a) PROVE CallInv'
  <2>1. UNCHANGED run /\ \A b \in Actors :
          /\ at'[b] = at[b] \/ at'[b] \notin {"none", "transition", "recovered"}
    BY <1>4, MovesTo DEF Locks, jobVars, DogAt, PlaceType, Moves
  <2>2. \A b \in Actors : /\ call'[b].method = call[b].method
                          /\ call'[b].state = "ok" => call'[b] = call[b]
    BY <1>4, PreemptEffect DEF Locks
  <2> QED BY <2>1, <2>2, ActorFacts DEF CallInv, Kind
<1>5. ASSUME NEW j \in Jobs, TakeoverPreempts(j) PROVE CallInv'
  <2>1. UNCHANGED run /\ \A b \in Actors :
          /\ at'[b] = at[b] \/ at'[b] \notin {"none", "transition", "recovered"}
    BY <1>5, MovesTo DEF TakeoverPreempts, jobVars, DogAt, PlaceType, Moves
  <2>2. \A b \in Actors : /\ call'[b].method = call[b].method
                          /\ call'[b].state = "ok" => call'[b] = call[b]
    BY <1>5, PreemptEffect DEF TakeoverPreempts
  <2> QED BY <2>1, <2>2, ActorFacts DEF CallInv, Kind
<1>6. ASSUME DogBlames PROVE CallInv'
  <2>1. UNCHANGED run /\ \A b \in Actors :
          /\ at'[b] = at[b] \/ at'[b] \notin {"none", "transition", "recovered"}
    BY <1>6, MovesTo DEF DogBlames, jobVars, DogAt, PlaceType, Moves
  <2>2. \A b \in Actors : /\ call'[b].method = call[b].method
                          /\ call'[b].state = "ok" => call'[b] = call[b]
    BY <1>6, PreemptEffect DEF DogBlames
  <2> QED BY <2>1, <2>2, ActorFacts DEF CallInv, Kind
<1>7. ASSUME DogPreempts PROVE CallInv'
  <2>1. UNCHANGED run /\ \A b \in Actors :
          /\ at'[b] = at[b] \/ at'[b] \notin {"none", "transition", "recovered"}
    BY <1>7, MovesTo DEF DogPreempts, jobVars, DogAt, PlaceType, Moves
  <2>2. \A b \in Actors : /\ call'[b].method = call[b].method
                          /\ call'[b].state = "ok" => call'[b] = call[b]
    BY <1>7, PreemptEffect DEF DogPreempts
  <2> QED BY <2>1, <2>2, ActorFacts DEF CallInv, Kind
<1>8. ASSUME StartSession PROVE CallInv'
  <2>1. UNCHANGED run /\ \A b \in Actors :
          /\ at'[b] = at[b] \/ at'[b] \notin {"none", "transition", "recovered"}
    BY <1>8, MovesTo DEF StartSession, jobVars, DogAt, PlaceType, Moves
  <2>2. \A b \in Actors : /\ call'[b].method = call[b].method
                          /\ call'[b].state = "ok" => call'[b] = call[b]
    BY <1>8, OutdatedEffect DEF StartSession
  <2> QED BY <2>1, <2>2, ActorFacts DEF CallInv, Kind
<1>9. ASSUME NEW a \in Actors, Promotes(a) PROVE CallInv'
  <2>1. UNCHANGED run /\ \A b \in Actors :
          /\ at'[b] = at[b] \/ at'[b] \notin {"none", "transition", "recovered"}
    BY <1>9, MovesTo DEF Promotes, jobVars, DogAt, PlaceType, Moves
  <2>2. \A b \in Actors : /\ call'[b].method = call[b].method
                          /\ call'[b].state = "ok" => call'[b] = call[b]
    BY <1>9, OutdatedEffect DEF Promotes
  <2> QED BY <2>1, <2>2, ActorFacts DEF CallInv, Kind
<1>10. ASSUME NEW j \in Jobs, TakesOver(j) PROVE CallInv'
  BY <1>10, ActorFacts, MovesTo DEF TakesOver, Moves, CallInv, Kind, PlaceType, jobVars, txVars
<1>11. ASSUME NEW j \in Jobs, DogLooks(j) PROVE CallInv'
  BY <1>11, ActorFacts, DogIsActor, MovesTo
     DEF DogLooks, Markable, DogAt, Moves, CallInv, Kind, PlaceType, jobVars, txVars
<1>12. ASSUME NEW j \in Jobs, JobRuns(j) \/ JobActs(j) PROVE CallInv'
  BY <1>12, ActorFacts, MovesTo
     DEF JobRuns, JobActs, Moves, CallInv, Kind, PlaceType, jobVars, txVars
<1>13. ASSUME NEW j \in Jobs, JobLooks(j) \/ JobWrites(j) PROVE CallInv'
  BY <1>13, ActorFacts, MovesTo
     DEF JobLooks, JobWrites, Moves, CallInv, Kind, PlaceType, jobVars, txVars
<1>14. ASSUME NEW a \in Actors, StopsSession(a) PROVE CallInv'
  <2>1. /\ UNCHANGED run /\ at'[a] = "cpv" /\ \A b \in Actors \ {a} : at'[b] = at[b]
        /\ Request(a, "stop_cpv", "cpv_stop") /\ a \in Actors
    BY <1>14, MovesTo, ActorFacts, DogIsActor DEF StopsSession, jobVars
  <2>2. /\ "stop_cpv" \in {"stop_cpv", "hold", "freedrive"}
        /\ "cpv_stop" \in Transitions \cup {"p2", "cpv_stop"}
    BY <1>14 DEF StopsSession, KindInv, HandoffPlaces, Transitions
  <2>3. /\ call'[a] = Envelope("stop_cpv", "cpv_stop")
        /\ \A b \in Actors \ {a} : call'[b] = call[b]
    BY <2>1, <2>2, RequestEffect
  <2>4. \A b \in Actors : Kind(b)' = Kind(b)
    BY <2>1 DEF Kind
  <2> QED BY <2>1, <2>3, <2>4, ActorFacts DEF CallInv, Envelope
<1>15. ASSUME NEW a \in Actors, Joins(a) PROVE CallInv'
  <2>1. /\ UNCHANGED run /\ at'[a] = "transition" /\ \A b \in Actors \ {a} : at'[b] = at[b]
        /\ Request(a, Kind(a), Kind(a)) /\ a \in Actors
    BY <1>15, MovesTo, ActorFacts, DogIsActor DEF Joins, jobVars
  <2>2. /\ Kind(a) \in {"stop_cpv", "hold", "freedrive"}
        /\ Kind(a) \in Transitions \cup {"p2", "cpv_stop"}
    BY <1>15 DEF Joins, KindInv, HandoffPlaces, Transitions
  <2>3. /\ call'[a] = Envelope(Kind(a), Kind(a))
        /\ \A b \in Actors \ {a} : call'[b] = call[b]
    BY <2>1, <2>2, RequestEffect
  <2>4. \A b \in Actors : Kind(b)' = Kind(b)
    BY <2>1 DEF Kind
  <2> QED BY <2>1, <2>3, <2>4, ActorFacts DEF CallInv, Envelope
<1>16. ASSUME NEW j \in Jobs, Recovers(j) PROVE CallInv'
  <2>1. /\ UNCHANGED run /\ at'[j] = "recovered" /\ \A b \in Actors \ {j} : at'[b] = at[b]
        /\ Request(j, "hold", "p2") /\ j \in Actors
    BY <1>16, MovesTo, ActorFacts, DogIsActor DEF Recovers, jobVars
  <2>2. /\ "hold" \in {"stop_cpv", "hold", "freedrive"}
        /\ "p2" \in Transitions \cup {"p2", "cpv_stop"}
    BY <1>16 DEF Recovers, KindInv, HandoffPlaces, Transitions
  <2>3. /\ call'[j] = Envelope("hold", "p2")
        /\ \A b \in Actors \ {j} : call'[b] = call[b]
    BY <2>1, <2>2, RequestEffect
  <2>4. \A b \in Actors : Kind(b)' = Kind(b)
    BY <2>1 DEF Kind
  <2> QED BY <2>1, <2>3, <2>4, ActorFacts DEF CallInv, Envelope
<1>17. ASSUME DogAsks PROVE CallInv'
  <2>1. /\ UNCHANGED run /\ at'[Dog] = "asked" /\ \A b \in Actors \ {Dog} : at'[b] = at[b]
        /\ Request(Dog, "hold", "p2") /\ Dog \in Actors
    BY <1>17, MovesTo, ActorFacts, DogIsActor DEF DogAsks, jobVars, DogAt
  <2>2. /\ "hold" \in {"stop_cpv", "hold", "freedrive"}
        /\ "p2" \in Transitions \cup {"p2", "cpv_stop"}
    BY <1>17 DEF DogAsks, KindInv, HandoffPlaces, Transitions
  <2>3. /\ call'[Dog] = Envelope("hold", "p2")
        /\ \A b \in Actors \ {Dog} : call'[b] = call[b]
    BY <2>1, <2>2, RequestEffect
  <2>4. \A b \in Actors : Kind(b)' = Kind(b)
    BY <2>1 DEF Kind
  <2> QED BY <2>1, <2>3, <2>4, ActorFacts DEF CallInv, Envelope
<1>18. ASSUME CallBegins PROVE CallInv'
  <2>1. PICK v \in {"running", "entered", "ok", "already", "failed", "revoked"} :
          /\ call' = [call EXCEPT ![Head(queue)].state = v] /\ queue # <<>>
          /\ v = "ok" => FALSE
    BY <1>18 DEF CallBegins, Admitted
  <2>2. UNCHANGED <<at, run>>
    BY <1>18 DEF CallBegins, jobVars, Admitted
  <2>3. Head(queue) \in Actors /\ call[Head(queue)] \in CallRecords
    BY <2>1, QueueHead DEF CallTyped
  <2>4. /\ call'[Head(queue)] = [call[Head(queue)] EXCEPT !.state = v]
        /\ \A a \in Actors : /\ a # Head(queue) => call'[a] = call[a]
                             /\ call'[a].method = call[a].method
                             /\ call'[a].superseded = call[a].superseded
    BY <2>1, HeadEffect
  <2>5. call'[Head(queue)].state = v
    BY <2>3, <2>4 DEF CallRecords
  <2> QED BY <2>1, <2>2, <2>3, <2>4, <2>5 DEF CallInv, Kind
<1>19. ASSUME CallEnters PROVE CallInv'
  <2>1. PICK v \in {"running", "entered", "ok", "already", "failed", "revoked"} :
          /\ call' = [call EXCEPT ![Head(queue)].state = v] /\ queue # <<>>
          /\ v = "ok" => FALSE
    BY <1>19 DEF CallEnters
  <2>2. UNCHANGED <<at, run>>
    BY <1>19 DEF CallEnters, jobVars
  <2>3. Head(queue) \in Actors /\ call[Head(queue)] \in CallRecords
    BY <2>1, QueueHead DEF CallTyped
  <2>4. /\ call'[Head(queue)] = [call[Head(queue)] EXCEPT !.state = v]
        /\ \A a \in Actors : /\ a # Head(queue) => call'[a] = call[a]
                             /\ call'[a].method = call[a].method
                             /\ call'[a].superseded = call[a].superseded
    BY <2>1, HeadEffect
  <2>5. call'[Head(queue)].state = v
    BY <2>3, <2>4 DEF CallRecords
  <2> QED BY <2>1, <2>2, <2>3, <2>4, <2>5 DEF CallInv, Kind
<1>20. ASSUME NEW ok \in BOOLEAN, CallReturns(ok) PROVE CallInv'
  <2>1. PICK v \in {"running", "entered", "ok", "already", "failed", "revoked"} :
          /\ call' = [call EXCEPT ![Head(queue)].state = v] /\ queue # <<>>
          /\ v = "ok" => call[Head(queue)].method = "stop_cpv"
    BY <1>20 DEF CallReturns, Settles
  <2>2. UNCHANGED <<at, run>>
    BY <1>20 DEF CallReturns, jobVars, Settles
  <2>3. Head(queue) \in Actors /\ call[Head(queue)] \in CallRecords
    BY <2>1, QueueHead DEF CallTyped
  <2>4. /\ call'[Head(queue)] = [call[Head(queue)] EXCEPT !.state = v]
        /\ \A a \in Actors : /\ a # Head(queue) => call'[a] = call[a]
                             /\ call'[a].method = call[a].method
                             /\ call'[a].superseded = call[a].superseded
    BY <2>1, HeadEffect
  <2>5. call'[Head(queue)].state = v
    BY <2>3, <2>4 DEF CallRecords
  <2> QED BY <2>1, <2>2, <2>3, <2>4, <2>5 DEF CallInv, Kind
<1>21. ASSUME NEW ok \in BOOLEAN, CallCommits(ok) PROVE CallInv'
  <2>1. PICK v \in {"running", "entered", "ok", "already", "failed", "revoked"} :
          /\ call' = [call EXCEPT ![Head(queue)].state = v] /\ queue # <<>>
          /\ v = "ok" => ~call[Head(queue)].superseded
    BY <1>21 DEF CallCommits, Commits, Settles
  <2>2. UNCHANGED <<at, run>>
    BY <1>21 DEF CallCommits, jobVars, Commits, Settles
  <2>3. Head(queue) \in Actors /\ call[Head(queue)] \in CallRecords
    BY <2>1, QueueHead DEF CallTyped
  <2>4. /\ call'[Head(queue)] = [call[Head(queue)] EXCEPT !.state = v]
        /\ \A a \in Actors : /\ a # Head(queue) => call'[a] = call[a]
                             /\ call'[a].method = call[a].method
                             /\ call'[a].superseded = call[a].superseded
    BY <2>1, HeadEffect
  <2>5. call'[Head(queue)].state = v
    BY <2>3, <2>4 DEF CallRecords
  <2> QED BY <2>1, <2>2, <2>3, <2>4, <2>5 DEF CallInv, Kind
<1>22. ASSUME DogReturns PROVE CallInv'
  <2>1. /\ UNCHANGED run /\ at'[Dog] \in {"dead", "beat"}
        /\ \A b \in Actors \ {Dog} : at'[b] = at[b]
        /\ call'[Dog] = NoCall /\ \A b \in Actors \ {Dog} : call'[b] = call[b]
    BY <1>22, DogIsActor, MovesTo DEF DogReturns, jobVars, CallTyped
  <2>2. \A b \in Actors : Kind(b)' = Kind(b)
    BY <2>1 DEF Kind
  <2> QED BY <2>1, <2>2, ActorFacts DEF CallInv, NoCall
<1>23. ASSUME NEW c \in Clients, Acquire(c) \/ Renew(c) \/ Release(c) PROVE CallInv'
  BY <1>23, ActorFacts, DogIsActor, MovesTo
     DEF Acquire, Renew, Release, Owns, CallInv, Kind, PlaceType, jobVars, txVars
<1>24. ASSUME Expires \/ DogMarks \/ DogLeavesJobs \/ DogTakes \/ DogHears PROVE CallInv'
  BY <1>24, ActorFacts, DogIsActor, MovesTo
     DEF Expires, DogMarks, DogLeavesJobs, DogTakes, DogHears, DogAt, Moves, CallInv, Kind,
         PlaceType, jobVars, txVars
<1>25. ASSUME NEW a \in Actors, Accepted(a) \/ Revokes(a) PROVE CallInv'
  BY <1>25, ActorFacts, DogIsActor, MovesTo
     DEF Accepted, Revokes, Moves, CallInv, Kind, PlaceType, jobVars, txVars
<1>26. ASSUME UNCHANGED vars PROVE CallInv'
  BY <1>26 DEF vars, leaseVars, jobVars, txVars, CallInv, Kind
<1> QED BY <1>1, <1>2, <1>3, <1>4, <1>5, <1>6, <1>7, <1>8, <1>9, <1>10, <1>11, <1>12, <1>13,
       <1>14, <1>15, <1>16, <1>17, <1>18, <1>19, <1>20, <1>21, <1>22, <1>23, <1>24, <1>25, <1>26,
       DogIsActor, ActorFacts
       DEF Next, Environment, Owner, DogStep, JobStep, Handoff, Ends

-----------------------------------------------------------------------------
\* Takeovers.

LEMMA TakeoverStep ==
  ASSUME LeaseType, JobTyped, PlaceType, CallTyped, WaitInv, TakeoverInv, [Next]_vars
  PROVE  TakeoverInv'
<1>1. ASSUME NEW a \in Actors, Ends(a) PROVE TakeoverInv'
  <2>1. UNCHANGED <<lease, granted>> /\ granted \in Nat
    BY <1>1, EndsEffect, ActorAssumption DEF leaseVars, LeaseType
  <2>2. ASSUME NEW b \in Actors
        PROVE  /\ seen'[b] <= granted
               /\ at'[b] \in Taking => lease = None \/ lease.token > seen'[b]
    <3>1. CASE b = a
      <4>1. seen'[b] = 0 /\ at'[b] \in {"jobs", "verdict"}
        BY <3>1, <1>1, EndsEffect
      <4>2. 0 <= granted
        BY <2>1
      <4> QED BY <4>1, <4>2 DEF Taking
    <3>2. CASE b # a
      BY <3>2, <1>1, EndsEffect DEF TakeoverInv
    <3> QED BY <3>1, <3>2
  <2> QED BY <2>1, <2>2 DEF TakeoverInv
<1>2. ASSUME NEW c \in Clients, Acquire(c) PROVE TakeoverInv'
  <2>1. /\ granted \in Nat /\ \A b \in Actors : seen[b] \in Nat
    BY ActorAssumption DEF LeaseType, JobTyped
  <2>2. granted' = granted + 1 /\ lease'.token = granted + 1 /\ UNCHANGED seen
    BY <1>2 DEF Acquire
  <2>3. ASSUME NEW b \in Actors
        PROVE  seen[b] <= granted + 1 /\ granted + 1 > seen[b]
    BY <2>1 DEF TakeoverInv
  <2> QED BY <2>2, <2>3 DEF TakeoverInv
<1>3. ASSUME NEW c \in Clients, Renew(c) \/ Release(c) PROVE TakeoverInv'
  <2>1. lease' = None \/ lease'.token = lease.token
    BY <1>3 DEF Renew, Release, Owns, LeaseType
  <2>2. UNCHANGED <<granted, seen, at>> /\ lease # None
    BY <1>3 DEF Renew, Release, Owns
  <2> QED BY <2>1, <2>2 DEF TakeoverInv
<1>4. ASSUME Expires PROVE TakeoverInv'
  <2>1. lease'.token = lease.token /\ lease # None
    BY <1>4 DEF Expires, LeaseType
  <2>2. UNCHANGED <<granted, seen, at>>
    BY <1>4 DEF Expires
  <2> QED BY <2>1, <2>2 DEF TakeoverInv
<1>5. ASSUME NEW a \in Actors, Locks(a) PROVE TakeoverInv'
  <2>1. /\ at'[a] = "stopping" /\ \A b \in Actors \ {a} : at'[b] = at[b]
        /\ seen'[a] = granted /\ \A b \in Actors \ {a} : seen'[b] = seen[b]
        /\ UNCHANGED <<lease, granted>>
    BY <1>5, MovesTo DEF Locks, leaseVars, JobTyped
  <2>2. granted <= granted
    BY ActorAssumption DEF LeaseType
  <2> QED BY <2>1, <2>2 DEF TakeoverInv, Taking
<1>6. ASSUME NEW j \in Jobs, TakesOver(j) PROVE TakeoverInv'
  <2>1. /\ lease' = None /\ UNCHANGED granted /\ seen'[j] = granted
        /\ \A b \in Actors \ {j} : seen'[b] = seen[b] /\ at'[b] = at[b]
    BY <1>6, ActorFacts, MovesTo DEF TakesOver, JobTyped
  <2>2. granted <= granted
    BY ActorAssumption DEF LeaseType
  <2> QED BY <2>1, <2>2 DEF TakeoverInv
<1>7. ASSUME NEW a \in Actors, Revokes(a) PROVE TakeoverInv'
  BY <1>7 DEF Revokes, Moves, TakeoverInv, Taking, PlaceType
<1>8. ASSUME DogTakes PROVE TakeoverInv'
  BY <1>8, DogIsActor DEF DogTakes, DogAt, Moves, TakeoverInv, Taking, PlaceType
<1>9. ASSUME StartSession \/ CallBegins \/ CallEnters \/ DogMarks \/ DogLeavesJobs \/ DogHears \/
             DogBlames \/ DogPreempts \/ DogAsks
      PROVE  TakeoverInv'
  BY <1>9, ActorFacts, DogIsActor
     DEF StartSession, CallBegins, CallEnters, DogMarks, DogLeavesJobs, DogHears, DogBlames,
         DogPreempts, DogAsks, Outdated, Admitted, DogAt, Moves, Preempt, Request, Envelope,
         TakeoverInv, Taking, PlaceType, leaseVars
<1>10. ASSUME DogReturns PROVE TakeoverInv'
  BY <1>10, ActorFacts, DogIsActor
     DEF DogReturns, DogAt, Answered, Done, Moves, TakeoverInv, Taking, PlaceType, leaseVars
<1>11. ASSUME NEW j \in Jobs, NEW kind \in Kinds, Submit(j, kind) PROVE TakeoverInv'
  BY <1>11, ActorFacts, DogIsActor DEF Submit, Moves, TakeoverInv, Taking, PlaceType, leaseVars
<1>12. ASSUME NEW ok \in BOOLEAN, CallReturns(ok) \/ CallCommits(ok) PROVE TakeoverInv'
  BY <1>12, ActorFacts, DogIsActor
     DEF CallReturns, CallCommits, Settles, Commits, TakeoverInv, Taking, PlaceType, leaseVars
<1>13. ASSUME NEW a \in Actors, Accepted(a) \/ StopsSession(a) \/ Promotes(a) \/ Joins(a)
       PROVE  TakeoverInv'
  BY <1>13, ActorFacts, DogIsActor
     DEF Accepted, StopsSession, Promotes, Joins, Moves, Request, Envelope, Outdated, TakeoverInv,
         Taking, PlaceType, leaseVars
<1>14. ASSUME NEW j \in Jobs, TakeoverPreempts(j) \/ Recovers(j) \/ JobRuns(j) \/ JobActs(j) \/
              JobLooks(j) \/ JobWrites(j) \/ JobEnds(j) \/ DogLooks(j)
       PROVE  TakeoverInv'
  BY <1>14, ActorFacts, DogIsActor
     DEF TakeoverPreempts, Recovers, JobRuns, JobActs, JobLooks, JobWrites, JobEnds, DogLooks,
         Preempt, Moves, Request, Envelope, Markable, DogAt, TakeoverInv, Taking, PlaceType,
         leaseVars
<1>15. ASSUME UNCHANGED vars PROVE TakeoverInv'
  BY <1>15 DEF vars, leaseVars, jobVars, txVars, TakeoverInv
<1> QED BY <1>1, <1>2, <1>3, <1>4, <1>5, <1>6, <1>7, <1>8, <1>9, <1>10, <1>11, <1>12, <1>13,
       <1>14, <1>15, DogIsActor, ActorFacts
       DEF Next, Environment, Owner, DogStep, JobStep, Handoff, Ends

-----------------------------------------------------------------------------
\* The theorems.

\* Single flight (docstring of submit_action_job), for any number of jobs: no
\* two threads are inside an action together, also when the watchdog has marked
\* one of them as timed out, provided no thread is marked before it has taken
\* the action up (~Stalls: that takes the whole time-out between two lines).
THEOREM OneJobActs == ~Stalls => (Spec => []SingleFlight)
<1> SUFFICES ASSUME ~Stalls PROVE Spec => []SingleFlight
  OBVIOUS
<1>1. Init => FlightInv
  BY ActorFacts DEF Init, FlightInv, JobAgrees, Acting, Busy, NoJob, Dog
<1>2. Typed /\ FlightInv /\ [Next]_vars => FlightInv'
  BY FlightStep DEF Typed
<1>3. FlightInv => SingleFlight
  BY DEF FlightInv, SingleFlight, Acting, Busy
<1> QED BY <1>1, <1>2, <1>3, TypedAlways, PTL DEF Spec

\* "Operator takeover revokes leases" (docs/SAFETY.md): from the revocation to
\* the end of the operation, whoever holds a lease was granted it after the
\* takeover began, for any number of clients, leases, jobs and handoffs.
THEOREM TakeoversRevoke == Spec => []TakeoverRevokes
<1>1. Init => TakeoverInv
  BY DEF Init, TakeoverInv, Taking
<1>2. Typed /\ TakeoverInv /\ [Next]_vars => TakeoverInv'
  BY TakeoverStep DEF Typed
<1>3. TakeoverInv => TakeoverRevokes
  BY DEF TakeoverInv, TakeoverRevokes, Taking
<1> QED BY <1>1, <1>2, <1>3, TypedAlways, PTL DEF Spec

LEMMA VerdictInvariant == Spec => [](Typed /\ VerdictInv /\ CallInv)
<1>1. Init => VerdictInv /\ CallInv
  BY ActorFacts DEF Init, VerdictInv, CallInv, NoJob, NoRun, NoCall, Dog
<1>2. Typed /\ VerdictInv /\ CallInv /\ [Next]_vars => VerdictInv' /\ CallInv'
  BY VerdictStep, CallStep DEF Typed
<1> QED BY <1>1, <1>2, TypedAlways, PTL DEF Spec

\* The two actions VerdictsStand speaks of.
VerdictKept ==
  \A j \in Jobs : job[j].status \in {"completed", "failed", "timed_out"} /\ Settled(j)
                  => job'[j].status = job[j].status /\ Settled(j)'

VerdictEarned ==
  \A j \in Jobs : job'[j].status = "completed" /\ job[j].status # "completed" => ~run[j].hit

\* A step that writes no status and sends nobody to write one keeps the verdicts.
LEMMA KeptMove ==
  ASSUME PlaceType, UNCHANGED <<job, marking>>, NEW a \in Actors, NEW place, Moves(a, place),
         place # "writing"
  PROVE  VerdictKept
<1>1. \A b \in Actors : at'[b] = at[b] \/ at'[b] # "writing"
  BY MovesTo
<1> QED BY <1>1, ActorFacts DEF VerdictKept, Settled

LEMMA KeptStep ==
  ASSUME LeaseType, JobTyped, MarkInv, PlaceType, CallTyped, WaitInv, VerdictInv, [Next]_vars
  PROVE  VerdictKept
<1>1. ASSUME NEW j \in Jobs, NEW kind \in Kinds, Submit(j, kind) PROVE VerdictKept
  <2>1. /\ job[j].status = "none" /\ \A i \in Jobs \ {j} : job'[i] = job[i] /\ at'[i] = at[i]
        /\ UNCHANGED marking
    BY <1>1, StatusEffect, MovesTo, ActorFacts DEF Submit, Statuses
  <2> QED BY <2>1 DEF VerdictKept, Settled
<1>2. ASSUME NEW j \in Jobs, JobRuns(j) PROVE VerdictKept
  <2>1. /\ at[j] = "queued" /\ \A i \in Jobs \ {j} : job'[i] = job[i] /\ at'[i] = at[i]
        /\ UNCHANGED marking
    BY <1>2, StatusEffect, MovesTo, ActorFacts DEF JobRuns, Statuses
  <2> QED BY <2>1 DEF VerdictKept, VerdictInv, Settled
<1>3. ASSUME NEW j \in Jobs, JobWrites(j) PROVE VerdictKept
  <2>1. PICK s \in {"completed", "failed"} : job' = [job EXCEPT ![j].status = s]
    BY <1>3 DEF JobWrites
  <2>2. \A i \in Jobs \ {j} : job'[i] = job[i] /\ at'[i] = at[i]
    BY <1>3, <2>1, StatusEffect, MovesTo, ActorFacts DEF Statuses, JobWrites
  <2>3. at[j] = "writing" /\ UNCHANGED marking
    BY <1>3 DEF JobWrites
  <2> QED BY <2>2, <2>3 DEF VerdictKept, Settled
<1>4. ASSUME NEW j \in Jobs, DogLooks(j) PROVE VerdictKept
  <2>1. /\ job[j].status = "running" /\ job'[j].status = job[j].status
        /\ \A i \in Jobs \ {j} : job'[i] = job[i]
        /\ marking' = j /\ \A i \in Jobs : at'[i] = at[i]
    BY <1>4, MarkedEffect, MovesTo, ActorFacts, DogIsActor DEF DogLooks, Markable
  <2> QED BY <2>1 DEF VerdictKept, Settled
<1>5. ASSUME DogMarks PROVE VerdictKept
  <2>1. marking \in Jobs /\ "timed_out" \in Statuses
    BY <1>5 DEF DogMarks, MarkInv, JobTyped, Statuses
  <2>2. \A i \in Jobs \ {marking} : job'[i] = job[i]
    BY <1>5, <2>1, StatusEffect DEF DogMarks
  <2>3. marking' = None /\ \A i \in Jobs : at'[i] = at[i]
    BY <1>5, MovesTo, ActorFacts, DogIsActor DEF DogMarks
  <2> QED BY <2>2, <2>3, ActorFacts DEF VerdictKept, Settled
<1>6. ASSUME NEW a \in Actors, Ends(a) PROVE VerdictKept
  <2>1. /\ UNCHANGED <<job, marking>> /\ at'[a] # "writing"
        /\ \A b \in Actors \ {a} : at'[b] = at[b]
    BY <1>6, EndsEffect
  <2> QED BY <2>1, ActorFacts DEF VerdictKept, Settled
<1>7. ASSUME NEW j \in Jobs, JobLooks(j) PROVE VerdictKept
  <2>1. /\ UNCHANGED <<job, marking>> /\ at[j] = "verdict"
        /\ job[j].status = "timed_out" => at'[j] = "finally"
        /\ \A b \in Actors \ {j} : at'[b] = at[b]
    BY <1>7, MovesTo, ActorFacts DEF JobLooks, jobVars
  <2>2. job[j].status \notin {"completed", "failed"}
    BY <2>1 DEF VerdictInv
  <2> QED BY <2>1, <2>2, ActorFacts DEF VerdictKept, Settled
<1>8. ASSUME NEW j \in Jobs, JobEnds(j) PROVE VerdictKept
  <2>1. UNCHANGED <<job, marking>> /\ Moves(j, "done")
    BY <1>8 DEF JobEnds
  <2> QED BY <2>1, KeptMove, ActorFacts
<1>9. ASSUME NEW c \in Clients, Acquire(c) \/ Renew(c) \/ Release(c) PROVE VerdictKept
  BY <1>9 DEF Acquire, Renew, Release, Owns, VerdictKept, Settled, jobVars
<1>10. ASSUME Expires \/ StartSession \/ CallBegins \/ CallEnters \/ DogTakes PROVE VerdictKept
  <2>1. CASE DogTakes
    BY <2>1, KeptMove, DogIsActor DEF DogTakes, jobVars
  <2>2. CASE Expires \/ StartSession \/ CallBegins \/ CallEnters
    BY <2>2
       DEF Expires, StartSession, CallBegins, CallEnters, Outdated, Admitted, VerdictKept, Settled,
           jobVars
  <2> QED BY <1>10, <2>1, <2>2
<1>11. ASSUME DogLeavesJobs \/ DogHears \/ DogBlames \/ DogPreempts \/ DogAsks \/ DogReturns
       PROVE  VerdictKept
  BY <1>11, KeptMove, DogIsActor
     DEF DogLeavesJobs, DogHears, DogBlames, DogPreempts, DogAsks, DogReturns, jobVars
<1>12. ASSUME NEW ok \in BOOLEAN, CallReturns(ok) \/ CallCommits(ok) PROVE VerdictKept
  BY <1>12 DEF CallReturns, CallCommits, Settles, Commits, VerdictKept, Settled, jobVars
<1>13. ASSUME NEW a \in Actors, Accepted(a) \/ Locks(a) \/ StopsSession(a) \/ Revokes(a) \/
              Promotes(a) \/ Joins(a)
       PROVE  VerdictKept
  BY <1>13, KeptMove DEF Accepted, Locks, StopsSession, Revokes, Promotes, Joins, jobVars
<1>14. ASSUME NEW j \in Jobs, TakesOver(j) \/ TakeoverPreempts(j) \/ Recovers(j) \/ JobActs(j)
       PROVE  VerdictKept
  BY <1>14, KeptMove, ActorFacts DEF TakesOver, TakeoverPreempts, Recovers, JobActs, jobVars
<1>15. ASSUME UNCHANGED vars PROVE VerdictKept
  BY <1>15 DEF vars, leaseVars, jobVars, txVars, VerdictKept, Settled
<1> QED BY <1>1, <1>2, <1>3, <1>4, <1>5, <1>6, <1>7, <1>8, <1>9, <1>10, <1>11, <1>12, <1>13,
       <1>14, <1>15, DogIsActor, ActorFacts
       DEF Next, Environment, Owner, DogStep, JobStep, Handoff, Ends

LEMMA EarnedStep ==
  ASSUME LeaseType, JobTyped, MarkInv, PlaceType, CallTyped, WaitInv, CallInv, [Next]_vars
  PROVE  VerdictEarned
<1>1. ASSUME NEW j \in Jobs, NEW kind \in Kinds, Submit(j, kind) PROVE VerdictEarned
  <2>1. /\ job'[j].status = "queued" /\ \A i \in Jobs \ {j} : job'[i] = job[i]
    BY <1>1, StatusEffect DEF Submit, Statuses
  <2> QED BY <2>1 DEF VerdictEarned
<1>2. ASSUME NEW j \in Jobs, JobRuns(j) PROVE VerdictEarned
  <2>1. /\ job'[j].status = "running" /\ \A i \in Jobs \ {j} : job'[i] = job[i]
    BY <1>2, StatusEffect DEF JobRuns, Statuses
  <2> QED BY <2>1 DEF VerdictEarned
<1>3. ASSUME NEW j \in Jobs, JobWrites(j) PROVE VerdictEarned
  <2>1. CASE run[j].ok
    BY <1>3, <2>1, StatusEffect DEF JobWrites, VerdictEarned, CallInv, Statuses
  <2>2. CASE ~run[j].ok
    BY <1>3, <2>2, StatusEffect DEF JobWrites, VerdictEarned, Statuses
  <2> QED BY <2>1, <2>2
<1>4. ASSUME NEW j \in Jobs, DogLooks(j) PROVE VerdictEarned
  <2>1. \A i \in Jobs : job'[i].status = job[i].status
    BY <1>4, MarkedEffect DEF DogLooks
  <2> QED BY <2>1 DEF VerdictEarned
<1>5. ASSUME DogMarks PROVE VerdictEarned
  <2>1. marking \in Jobs /\ "timed_out" \in Statuses
    BY <1>5 DEF DogMarks, MarkInv, JobTyped, Statuses
  <2>2. job'[marking].status = "timed_out" /\ \A i \in Jobs \ {marking} : job'[i] = job[i]
    BY <1>5, <2>1, StatusEffect DEF DogMarks
  <2> QED BY <2>2 DEF VerdictEarned
<1>6. ASSUME NEW a \in Actors, Ends(a) PROVE VerdictEarned
  BY <1>6, EndsEffect DEF VerdictEarned
<1>7. ASSUME NEW c \in Clients, Acquire(c) \/ Renew(c) \/ Release(c) PROVE VerdictEarned
  BY <1>7 DEF Acquire, Renew, Release, Owns, VerdictEarned, jobVars
<1>8. ASSUME Expires \/ StartSession \/ CallBegins \/ CallEnters \/ DogLeavesJobs \/ DogTakes \/
             DogHears \/ DogBlames \/ DogPreempts
      PROVE  VerdictEarned
  BY <1>8
     DEF Expires, StartSession, CallBegins, CallEnters, DogLeavesJobs, DogTakes, DogHears,
         DogBlames, DogPreempts, Outdated, Admitted, DogAt, Moves, Preempt, VerdictEarned, jobVars
<1>9. ASSUME DogAsks \/ DogReturns PROVE VerdictEarned
  BY <1>9
     DEF DogAsks, DogReturns, DogAt, Request, Envelope, Moves, Answered, Done, VerdictEarned,
         jobVars
<1>10. ASSUME NEW ok \in BOOLEAN, CallReturns(ok) \/ CallCommits(ok) PROVE VerdictEarned
  BY <1>10 DEF CallReturns, CallCommits, Settles, Commits, VerdictEarned, jobVars
<1>11. ASSUME NEW a \in Actors, Accepted(a) \/ Locks(a) \/ StopsSession(a) \/ Revokes(a) \/
              Promotes(a) \/ Joins(a)
       PROVE  VerdictEarned
  BY <1>11
     DEF Accepted, Locks, StopsSession, Revokes, Promotes, Joins, Moves, Preempt, Request,
         Envelope, Outdated, VerdictEarned, jobVars
<1>12. ASSUME NEW j \in Jobs, TakesOver(j) \/ TakeoverPreempts(j) \/ Recovers(j) \/ JobActs(j) \/
              JobLooks(j) \/ JobEnds(j)
       PROVE  VerdictEarned
  BY <1>12
     DEF TakesOver, TakeoverPreempts, Recovers, JobActs, JobLooks, JobEnds, Moves, Preempt,
         Request, Envelope, VerdictEarned, jobVars
<1>13. ASSUME UNCHANGED vars PROVE VerdictEarned
  BY <1>13 DEF vars, leaseVars, jobVars, txVars, VerdictEarned
<1> QED BY <1>1, <1>2, <1>3, <1>4, <1>5, <1>6, <1>7, <1>8, <1>9, <1>10, <1>11, <1>12, <1>13,
       DogIsActor, ActorFacts
       DEF Next, Environment, Owner, DogStep, JobStep, Handoff, Ends

\* Once neither the job's thread nor the watchdog is between its look at the
\* status and its write, a reported verdict is final and no such write begins;
\* and a job whose transition was preempted while it changed the mode is not
\* reported completed.
THEOREM VerdictsAreKept == Spec => VerdictsStand
<1>1. Typed /\ VerdictInv /\ CallInv /\ [Next]_vars => VerdictKept /\ VerdictEarned
  BY KeptStep, EarnedStep DEF Typed
<1>2. Spec => [][VerdictKept]_vars
  BY <1>1, VerdictInvariant, PTL DEF Spec
<1>3. Spec => [][VerdictEarned]_vars
  BY <1>1, VerdictInvariant, PTL DEF Spec
<1>4. VerdictFinal <=> [][VerdictKept]_vars
  BY DEF VerdictFinal, VerdictKept
<1>5. PreemptedNotCompleted <=> [][VerdictEarned]_vars
  BY DEF PreemptedNotCompleted, VerdictEarned
<1> QED BY <1>2, <1>3, <1>4, <1>5 DEF VerdictsStand

=============================================================================
