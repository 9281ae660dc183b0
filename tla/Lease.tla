-------------------------------- MODULE Lease --------------------------------
(***************************************************************************)
(* The motion lease, the single-flight operator jobs and the watchdog of   *)
(* OperationalSpaceController (supervisor/control.py), and the P2 calls    *)
(* they make on the transport owner.                                       *)
(*                                                                         *)
(* Threads: clients that acquire, renew and release the lease; one thread  *)
(* per submitted job; the watchdog, which marks overdue jobs, collects an  *)
(* expired lease, and runs a handoff of its own for a silent OSC session;  *)
(* and the transport's owner thread.  A handoff takes _handoff_lock; its   *)
(* authority changes are module Authority's subject and appear here as the *)
(* epoch and the exclusive category that decide which P2 call is admitted. *)
(* Time is a choice: a lease, a job or a heartbeat may run out any moment. *)
(***************************************************************************)
EXTENDS Integers, Sequences

CONSTANTS
  Clients,      \* who may lease motion control
  MaxJob,       \* bound on the jobs submitted
  Kinds,        \* the kinds of job they are
  MaxToken,     \* bound on the leases granted
  Stalls,       \* a job thread may lose its whole time-out, of at least one
                \* second, between setting its status and _active_action
  None

Jobs   == 1..MaxJob
Dog    == 0             \* the watchdog
Actors == Jobs \cup {Dog}

ASSUME ActorAssumption ==
  /\ MaxJob \in Nat /\ MaxToken \in Nat /\ Stalls \in BOOLEAN
  /\ Kinds \subseteq {"hold", "freedrive", "recover"}
  /\ None \notin Actors

Transitions == {"hold", "freedrive"}

VARIABLES
  lease,        \* LeaseManager._lease; live: expires_monotonic is ahead
  held,         \* the token a client was last given
  granted,      \* tokens granted so far, the last token
  job,          \* _jobs
  run,          \* locals of a job thread: its kind, outcome, and (history)
                \* whether its transition was preempted after it had left
                \* the mode it found
  active,       \* _active_action: the job it names
  at,           \* where each job thread and the watchdog are
  seen,         \* history: granted when an actor's takeover began
  marking,      \* the job the watchdog is marking
  handoff,      \* holder of _handoff_lock
  session,      \* there is an OSC session
  exclusive,    \* HardwareTxOwner._exclusive_category
  queue,        \* actors with a P2 call queued, in order of sequence
  call,         \* the P2 call an actor waits for, or its last
  mode          \* NeroRobot._control_mode

leaseVars == <<lease, held, granted>>
jobVars   == <<job, run, active, marking>>
txVars    == <<exclusive, queue, call>>
vars == <<leaseVars, jobVars, at, seen, handoff, session, txVars, mode>>

NoJob  == [status |-> "none", marked |-> FALSE]
NoRun  == [kind |-> None, ok |-> FALSE, hit |-> FALSE]
NoCall == [method |-> "none", category |-> "p2", current |-> TRUE, state |-> "none",
           superseded |-> FALSE]

Init ==
  /\ lease = None /\ held = [c \in Clients |-> 0] /\ granted = 0
  /\ job = [j \in Jobs |-> NoJob] /\ run = [j \in Jobs |-> NoRun] /\ active = None /\ marking = None
  /\ at = [a \in Actors |-> IF a = Dog THEN "jobs" ELSE "none"]
  /\ seen = [a \in Actors |-> 0]
  /\ handoff = None /\ session = FALSE
  /\ exclusive = None /\ queue = <<>>
  /\ call = [a \in Actors |-> NoCall] /\ mode = "HOLD"

-----------------------------------------------------------------------------
\* LeaseManager.

Owns(c) == lease # None /\ held[c] = lease.token

\* An expired lease that nobody has collected refuses as well.
Acquire(c) ==
  /\ lease = None /\ granted < MaxToken
  /\ granted' = granted + 1
  /\ lease' = [token |-> granted + 1, live |-> TRUE]
  /\ held' = [held EXCEPT ![c] = granted + 1]
  /\ UNCHANGED <<jobVars, at, seen, handoff, session, txVars, mode>>

Renew(c) ==
  /\ Owns(c) /\ lease.live
  /\ lease' = [lease EXCEPT !.live = TRUE]
  /\ UNCHANGED <<held, granted, jobVars, at, seen, handoff, session, txVars, mode>>

\* The owner may release an expired lease too.
Release(c) ==
  /\ Owns(c)
  /\ lease' = None
  /\ UNCHANGED <<held, granted, jobVars, at, seen, handoff, session, txVars, mode>>

Expires ==
  /\ lease # None /\ lease.live
  /\ lease' = [lease EXCEPT !.live = FALSE]
  /\ UNCHANGED <<held, granted, jobVars, at, seen, handoff, session, txVars, mode>>

-----------------------------------------------------------------------------
\* The transport: one owner thread, the queued P2 calls in order.

Envelope(method, category) ==
  [method |-> method, category |-> category, current |-> TRUE, state |-> "queued",
   superseded |-> FALSE]

Request(a, method, category) ==
  /\ queue' = Append(queue, a)
  /\ call' = [call EXCEPT ![a] = Envelope(method, category)]

\* advance_epoch: what is queued belongs to an older epoch from now on.
Outdated == [a \in Actors |-> IF call[a].state = "queued" THEN [call[a] EXCEPT !.current = FALSE]
                              ELSE call[a]]

\* request_preempt: a transition under way will find its epoch changed;
\* one that is still queued starts with the new one.
Preempt == call' = [a \in Actors |-> IF call[a].state \in {"running", "entered"}
                                     THEN [call[a] EXCEPT !.superseded = TRUE]
                                     ELSE call[a]]

Admitted(c) == c.current /\ exclusive \in {None, c.category}

CallBegins ==
  /\ queue # <<>> /\ call[Head(queue)].state = "queued"
  /\ LET a == Head(queue)
     IN  IF Admitted(call[a])
         THEN call' = [call EXCEPT ![a].state = "running"] /\ UNCHANGED queue
         ELSE call' = [call EXCEPT ![a].state = "revoked"] /\ queue' = Tail(queue)
  /\ UNCHANGED <<leaseVars, jobVars, at, seen, handoff, session, exclusive, mode>>

Settles(verdict) ==
  /\ call' = [call EXCEPT ![Head(queue)].state = verdict]
  /\ queue' = Tail(queue)
  /\ UNCHANGED <<leaseVars, jobVars, at, seen, handoff, session, exclusive>>

\* A call that changes no mode: the CPV stop, or FREEDRIVE where it is already,
\* which compares no epoch.
CallReturns(ok) ==
  /\ queue # <<>> /\ call[Head(queue)].state = "running"
  /\ \/ call[Head(queue)].method = "stop_cpv"
     \/ ok /\ call[Head(queue)].method = "freedrive" /\ mode = "FREEDRIVE"
  /\ Settles(IF ~ok THEN "failed" ELSE IF call[Head(queue)].method = "freedrive"
                                       THEN "already" ELSE "ok")
  /\ UNCHANGED mode

CallEnters ==
  /\ queue # <<>> /\ call[Head(queue)].state = "running"
  /\ call[Head(queue)].method \in Transitions
  /\ mode' = "TRANSITIONING"
  /\ call' = [call EXCEPT ![Head(queue)].state = "entered"]
  /\ UNCHANGED <<leaseVars, jobVars, at, seen, handoff, session, exclusive, queue>>

Commits(ok) ==
  /\ mode' = IF ~ok THEN "FAULT"
             ELSE IF call[Head(queue)].method = "hold" THEN "HOLD" ELSE "FREEDRIVE"
  /\ Settles(IF ok THEN "ok" ELSE "failed")

\* Mutant: the transition does not look at preempt_epoch again.
CallCommitsUnchecked(ok) ==
  /\ queue # <<>> /\ call[Head(queue)].state = "entered"
  /\ Commits(ok)

\* A transition commits only if nobody has preempted it.
CallCommits(ok) ==
  /\ queue # <<>> /\ call[Head(queue)].state = "entered"
  /\ Commits(ok /\ ~call[Head(queue)].superseded)

Done(a)     == call[a].state \in {"ok", "already"}
Answered(a) == Done(a) \/ call[a].state \in {"failed", "revoked"}

-----------------------------------------------------------------------------
\* The OSC session, as far as the watchdog sees it.  A start prepares the
\* hardware under _handoff_lock in an epoch of its own.

StartSession ==
  /\ ~session /\ handoff = None /\ queue = <<>>
  /\ mode # "FAULT" /\ mode' = "HOLD"
  /\ session' = TRUE
  /\ call' = Outdated /\ exclusive' = None
  /\ UNCHANGED <<leaseVars, jobVars, at, seen, handoff, queue>>

-----------------------------------------------------------------------------
\* handoff_to_console and freedrive, by a job or by the watchdog, and
\* recover_stale_leader_to_hold.

Kind(a) == IF a = Dog THEN "hold" ELSE run[a].kind

\* History: the last call of a was preempted while it changed the mode.
Hit(a) == call[a].superseded /\ call[a].state # "already"
Moves(a, place) == at' = [at EXCEPT ![a] = place]

\* The operation is over: a job goes on to its verdict, the watchdog, which
\* catches what hold() raises, to its next round.
Finishes(a, ok) ==
  /\ Moves(a, IF a = Dog THEN "jobs" ELSE "verdict")
  /\ run' = IF a = Dog THEN run
             ELSE [run EXCEPT ![a] = [kind |-> Kind(a), ok |-> ok,
                                      hit |-> Hit(a)]]
  /\ seen' = [seen EXCEPT ![a] = 0] /\ call' = [call EXCEPT ![a] = NoCall]
  /\ UNCHANGED <<leaseVars, job, active, marking, session, queue, mode>>

\* _require_operational_control raises, or lets the request wait for the lock.
Refused(a) ==
  /\ at[a] = "begin" /\ Kind(a) \in Transitions
  /\ Finishes(a, FALSE)
  /\ UNCHANGED <<handoff, exclusive>>

Accepted(a) ==
  /\ at[a] = "begin" /\ Kind(a) \in Transitions
  /\ Moves(a, "waiting")
  /\ UNCHANGED <<leaseVars, jobVars, seen, handoff, session, txVars, mode>>

\* _stop_osc_for_mode_transition: preempt, then stop the session.
Locks(a) ==
  /\ at[a] = "waiting" /\ handoff = None
  /\ handoff' = a /\ Moves(a, "stopping")
  /\ Preempt
  /\ seen' = [seen EXCEPT ![a] = granted]
  /\ UNCHANGED <<leaseVars, jobVars, session, exclusive, queue, mode>>

StopsSession(a) ==
  /\ at[a] = "stopping"
  /\ session' = FALSE /\ Moves(a, "cpv")
  /\ Request(a, "stop_cpv", "cpv_stop")
  /\ UNCHANGED <<leaseVars, jobVars, seen, handoff, exclusive, mode>>

\* The servo or CPV did not stop: the request ends with the lease in place.
StopFails(a) ==
  /\ at[a] = "cpv" /\ Answered(a) /\ call[a].state # "ok"
  /\ handoff' = None /\ Finishes(a, FALSE)
  /\ UNCHANGED exclusive

\* Mutant: only an expired lease is revoked.
RevokesExpired(a) ==
  /\ at[a] = "cpv" /\ call[a].state = "ok"
  /\ lease' = (IF lease # None /\ lease.live THEN lease ELSE None) /\ Moves(a, "revoked")
  /\ UNCHANGED <<held, granted, jobVars, seen, handoff, session, txVars, mode>>

Revokes(a) ==
  /\ at[a] = "cpv" /\ call[a].state = "ok"
  /\ lease' = None /\ Moves(a, "revoked")
  /\ UNCHANGED <<held, granted, jobVars, seen, handoff, session, txVars, mode>>

\* The new epoch is exclusive to the transition.
Promotes(a) ==
  /\ at[a] = "revoked"
  /\ exclusive' = Kind(a) /\ call' = Outdated
  /\ Moves(a, "promoted")
  /\ UNCHANGED <<leaseVars, jobVars, seen, handoff, session, queue, mode>>

\* The servo's workers are joined; then the transition is requested ...
Joins(a) ==
  /\ at[a] = "promoted"
  /\ Request(a, Kind(a), Kind(a)) /\ Moves(a, "transition")
  /\ UNCHANGED <<leaseVars, jobVars, seen, handoff, session, exclusive, mode>>

\* ... or, if they have not stopped, given up.
JoinFails(a) ==
  /\ at[a] = "promoted"
  /\ exclusive' = None /\ handoff' = None
  /\ Finishes(a, FALSE)

\* The finally clause completes the transition, whatever the call has said.
TransitionEnds(a) ==
  /\ at[a] = "transition" /\ Answered(a)
  /\ exclusive' = None /\ handoff' = None
  /\ Finishes(a, Done(a))

\* _operator_takeover, without _handoff_lock: stop the session and revoke ...
TakesOver(j) ==
  /\ at[j] = "begin" /\ Kind(j) = "recover"
  /\ session' = FALSE /\ lease' = None
  /\ seen' = [seen EXCEPT ![j] = granted]
  /\ Moves(j, "taken over")
  /\ UNCHANGED <<held, granted, jobVars, handoff, txVars, mode>>

\* ... then preempt ...
TakeoverPreempts(j) ==
  /\ at[j] = "taken over"
  /\ Preempt /\ Moves(j, "recovering")
  /\ UNCHANGED <<leaseVars, jobVars, seen, handoff, session, exclusive, queue, mode>>

\* ... and hold, as an ordinary P2 call of whatever epoch it finds.
Recovers(j) ==
  /\ at[j] = "recovering"
  /\ Request(j, "hold", "p2") /\ Moves(j, "recovered")
  /\ UNCHANGED <<leaseVars, jobVars, seen, handoff, session, exclusive, mode>>

RecoveryEnds(j) ==
  /\ at[j] = "recovered" /\ Answered(j)
  /\ Finishes(j, Done(j))
  /\ UNCHANGED <<handoff, exclusive>>

Handoff(a) ==
  \/ Refused(a) \/ Accepted(a) \/ Locks(a) \/ StopsSession(a) \/ StopFails(a) \/ Revokes(a)
  \/ Promotes(a) \/ Joins(a) \/ JoinFails(a) \/ TransitionEnds(a)

-----------------------------------------------------------------------------
\* Jobs: submit_action_job and its thread.

\* Mutant: only the jobs' statuses are looked at.
SubmitByStatus(j, kind) ==
  /\ job[j].status = "none" /\ \A i \in 1..(j - 1) : job[i].status # "none"
  /\ \A i \in Jobs : job[i].status \notin {"queued", "running"}
  /\ job' = [job EXCEPT ![j].status = "queued"] /\ run' = [run EXCEPT ![j].kind = kind]
  /\ Moves(j, "queued")
  /\ UNCHANGED <<leaseVars, active, marking, seen, handoff, session, txVars, mode>>

\* A request while a job is pending or an action is set is answered with that
\* one and submits nothing.
Submit(j, kind) ==
  /\ job[j].status = "none" /\ \A i \in 1..(j - 1) : job[i].status # "none"
  /\ \A i \in Jobs : job[i].status \notin {"queued", "running"}
  /\ active = None
  /\ job' = [job EXCEPT ![j].status = "queued"] /\ run' = [run EXCEPT ![j].kind = kind]
  /\ Moves(j, "queued")
  /\ UNCHANGED <<leaseVars, active, marking, seen, handoff, session, txVars, mode>>

JobRuns(j) ==
  /\ at[j] = "queued"
  /\ job' = [job EXCEPT ![j].status = "running"]
  /\ Moves(j, "running")
  /\ UNCHANGED <<leaseVars, run, active, marking, seen, handoff, session, txVars, mode>>

JobActs(j) ==
  /\ at[j] = "running"
  /\ active' = j /\ Moves(j, "begin")
  /\ UNCHANGED <<leaseVars, job, run, marking, seen, handoff, session, txVars, mode>>

\* The verdict: the thread looks at the status ...
JobLooks(j) ==
  /\ at[j] = "verdict"
  /\ Moves(j, IF job[j].status = "timed_out" THEN "finally" ELSE "writing")
  /\ UNCHANGED <<leaseVars, jobVars, seen, handoff, session, txVars, mode>>

\* ... and writes; _jobs_lock keeps no one out, for the watchdog marks without.
JobWrites(j) ==
  /\ at[j] = "writing"
  /\ job' = [job EXCEPT ![j].status = IF run[j].ok THEN "completed" ELSE "failed"]
  /\ Moves(j, "finally")
  /\ UNCHANGED <<leaseVars, run, active, marking, seen, handoff, session, txVars, mode>>

JobEnds(j) ==
  /\ at[j] = "finally"
  /\ active' = IF active = j THEN None ELSE active
  /\ Moves(j, "done")
  /\ run' = [run EXCEPT ![j] = NoRun]
  /\ UNCHANGED <<leaseVars, job, marking, seen, handoff, session, txVars, mode>>

JobStep(j) ==
  \/ JobRuns(j) \/ JobActs(j) \/ Handoff(j)
  \/ TakesOver(j) \/ TakeoverPreempts(j) \/ Recovers(j) \/ RecoveryEnds(j)
  \/ JobLooks(j) \/ JobWrites(j) \/ JobEnds(j)

-----------------------------------------------------------------------------
\* The watchdog.  A round looks at the jobs, the lease and the heartbeat.

DogAt(place) == at[Dog] = place

\* Overdue, if the thread has taken its time.
Markable(j) ==
  /\ job[j].status = "running" /\ ~job[j].marked
  /\ at[j] = "running" => Stalls

DogLooks(j) ==
  /\ DogAt("jobs") /\ Markable(j)
  /\ job' = [job EXCEPT ![j].marked = TRUE]
  /\ marking' = j /\ Moves(Dog, "marking")
  /\ UNCHANGED <<leaseVars, run, active, seen, handoff, session, txVars, mode>>

\* The status is overwritten, whatever the thread has made of it meanwhile.
DogMarks ==
  /\ DogAt("marking")
  /\ job' = [job EXCEPT ![marking].status = "timed_out"]
  /\ marking' = None /\ Moves(Dog, "marked")
  /\ UNCHANGED <<leaseVars, run, active, seen, handoff, session, txVars, mode>>

\* The preemption names no job: it meets whatever transition is under way.
DogBlames ==
  /\ DogAt("marked")
  /\ Preempt /\ Moves(Dog, "jobs")
  /\ UNCHANGED <<leaseVars, jobVars, seen, handoff, session, exclusive, queue, mode>>

DogLeavesJobs ==
  /\ DogAt("jobs")
  /\ Moves(Dog, "lease")
  /\ UNCHANGED <<leaseVars, jobVars, seen, handoff, session, txVars, mode>>

\* Mutant: take_expired returns the lease and does not clear it.
DogKeeps ==
  /\ DogAt("lease")
  /\ Moves(Dog, IF lease # None /\ ~lease.live THEN "expired" ELSE "beat")
  /\ UNCHANGED <<leaseVars, jobVars, seen, handoff, session, txVars, mode>>

DogTakes ==
  /\ DogAt("lease")
  /\ IF lease # None /\ ~lease.live
     THEN lease' = None /\ Moves(Dog, "expired")
     ELSE UNCHANGED lease /\ Moves(Dog, "beat")
  /\ UNCHANGED <<held, granted, jobVars, seen, handoff, session, txVars, mode>>

DogPreempts ==
  /\ DogAt("expired")
  /\ Preempt /\ Moves(Dog, "asking")
  /\ UNCHANGED <<leaseVars, jobVars, seen, handoff, session, exclusive, queue, mode>>

DogAsks ==
  /\ DogAt("asking")
  /\ Request(Dog, "hold", "p2") /\ Moves(Dog, "asked")
  /\ UNCHANGED <<leaseVars, jobVars, seen, handoff, session, exclusive, mode>>

\* CommandRevoked is raised through the loop and ends the thread.
DogReturns ==
  /\ DogAt("asked") /\ Answered(Dog)
  /\ Moves(Dog, IF call[Dog].state = "revoked" THEN "dead" ELSE "beat")
  /\ call' = [call EXCEPT ![Dog] = NoCall]
  /\ UNCHANGED <<leaseVars, jobVars, seen, handoff, session, exclusive, queue, mode>>

\* Nothing to do, or a session whose heartbeat has expired.
DogHears ==
  /\ DogAt("beat")
  /\ Moves(Dog, "jobs") \/ (session /\ Moves(Dog, "begin"))
  /\ UNCHANGED <<leaseVars, jobVars, seen, handoff, session, txVars, mode>>

DogStep ==
  \/ \E j \in Jobs : DogLooks(j)
  \/ DogMarks \/ DogBlames \/ DogLeavesJobs
  \/ DogTakes \/ DogPreempts \/ DogAsks \/ DogReturns
  \/ DogHears \/ Handoff(Dog)

-----------------------------------------------------------------------------
Owner ==
  \/ CallBegins \/ CallEnters
  \/ \E ok \in BOOLEAN : CallReturns(ok) \/ CallCommits(ok)

Environment ==
  \/ \E c \in Clients : Acquire(c) \/ Renew(c) \/ Release(c)
  \/ Expires \/ StartSession
  \/ \E j \in Jobs, kind \in Kinds : Submit(j, kind)

Next == Environment \/ Owner \/ DogStep \/ \E j \in Jobs : JobStep(j)

Spec == Init /\ [][Next]_vars

\* The owner thread, the watchdog and the one job under way run; the watchdog
\* sleeps between its rounds, so a job waiting for _handoff_lock gets it.
\* Clients and time are free.
FairSpec ==
  /\ Spec
  /\ WF_vars(Owner) /\ WF_vars(DogStep)
  /\ WF_vars(\E j \in Jobs : JobStep(j)) /\ SF_vars(\E j \in Jobs : Locks(j))

-----------------------------------------------------------------------------
LeaseType ==
  /\ lease \in [token : 1..MaxToken, live : BOOLEAN] \cup {None}
  /\ held \in [Clients -> 0..MaxToken] /\ granted \in 0..MaxToken
  /\ lease # None => lease.token = granted

JobType ==
  /\ job \in [Jobs -> [status : {"none", "queued", "running", "completed", "failed", "timed_out"},
                       marked : BOOLEAN]]
  /\ run \in [Jobs -> [kind : Kinds \cup {None}, ok : BOOLEAN, hit : BOOLEAN]]
  /\ active \in Jobs \cup {None}
  /\ marking \in Jobs \cup {None} /\ (marking # None <=> DogAt("marking"))
  /\ handoff \in Actors \cup {None} /\ seen \in [Actors -> 0..MaxToken]

CallType ==
  /\ exclusive \in Transitions \cup {None}
  /\ call \in [Actors -> [method : {"none", "stop_cpv", "hold", "freedrive"},
                          category : Transitions \cup {"p2", "cpv_stop"}, current : BOOLEAN,
                          state : {"none", "queued", "running", "entered", "ok", "already",
                                   "failed", "revoked"},
                          superseded : BOOLEAN]]
  /\ \A a \in Actors : (call[a].state \in {"queued", "running", "entered"}) <=>
                       \E i \in 1..Len(queue) : queue[i] = a
  /\ \A i \in 2..Len(queue) : call[queue[i]].state = "queued"

\* Type invariant; a call is queued exactly while it is unanswered.
TypeOK ==
  /\ LeaseType /\ JobType /\ CallType
  /\ at \in [Actors -> {"none", "queued", "running", "begin", "waiting", "stopping", "cpv",
                        "revoked", "promoted", "transition", "taken over", "recovering",
                        "recovered", "verdict", "writing", "finally", "done", "jobs", "marking",
                        "marked", "lease", "expired", "asking", "asked", "beat", "dead"}]
  /\ session \in BOOLEAN
  /\ mode \in {"HOLD", "FREEDRIVE", "TRANSITIONING", "FAULT"}

Acting(j) == at[j] \notin {"none", "queued", "running", "done"}

\* Single flight (docstring of submit_action_job): a job that was timed out
\* keeps others out until its thread has really ended, so no two threads are
\* ever inside an action together.
SingleFlight == \A i, j \in Jobs : Acting(i) /\ Acting(j) => i = j

\* "Operator takeover revokes leases" (docs/SAFETY.md): while the transition an
\* operator asked for is requested or under way, whoever holds a lease got it
\* after that takeover began; no client renews itself across it.
TakeoverRevokes ==
  \A a \in Actors :
    at[a] \in {"revoked", "promoted", "transition", "taken over", "recovering", "recovered"}
    => lease = None \/ lease.token > seen[a]

\* Neither the job's thread nor the watchdog is between its look at the status
\* and its write.
Settled(j) == marking # j /\ at[j] # "writing"

\* A reported verdict is final once the two writers are through: each of them
\* looks at the status and writes later, the watchdog without _jobs_lock, so
\* that either may replace what the other wrote in between (control.py:2379-2384,
\* 2111-2119); no write begins after that. So a job marked timed_out before its
\* thread looks is never reported completed, and one that has ended is never
\* marked by a later round.
VerdictFinal ==
  [][\A j \in Jobs : job[j].status \in {"completed", "failed", "timed_out"} /\ Settled(j)
                     => job'[j].status = job[j].status /\ Settled(j)']_vars

\* A job whose transition was preempted while the owner ran it is not reported
\* completed, unless it asked for the FREEDRIVE that the arm was in already
\* (which "hit" leaves out: that call changes no mode and compares no epoch).
PreemptedNotCompleted ==
  [][\A j \in Jobs : job'[j].status = "completed" /\ job[j].status # "completed"
                     => ~run[j].hit]_vars

\* The verdicts on jobs: when they are final, and that no preempted transition
\* is reported completed.
VerdictsStand == VerdictFinal /\ PreemptedNotCompleted

\* Every submitted job ends, also when it waits for the lock a handoff of the
\* watchdog holds, or for a call that is revoked.
JobsEnd == \A j \in Jobs : job[j].status = "queued" ~> at[j] = "done"

\* An expired lease is collected while the watchdog lives.
ExpiredCollected ==
  (lease # None /\ ~lease.live) ~> (lease = None \/ DogAt("dead"))

\* Neither a job nor an expired lease waits for ever.
EverythingEnds == JobsEnd /\ ExpiredCollected

\* "Expired leases trigger HOLD" (docs/SAFETY.md:12): at least the watchdog
\* collects each of them.  The code does not do this for ever.
ExpiredHolds == (lease # None /\ ~lease.live) ~> lease = None

=============================================================================
