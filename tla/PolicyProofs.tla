----------------------------- MODULE PolicyProofs -----------------------------
(***************************************************************************)
(* Proofs about the policy adapter's runs, for every number of HTTP        *)
(* threads, runs and sessions, in both modes of execution and whatever the *)
(* disk does: HOLD has the last word on every run, and a run starts alone  *)
(* unless a run has gone without its capture.                              *)
(***************************************************************************)
EXTENDS Policy, TLAPS

------------------------------------------------------------------------------
\* Types and places.

RunRecords == [session : Nat, cancel : BOOLEAN, finished : BOOLEAN, confirmed : BOOLEAN]
Locals     == [pc : Places, ep : Nat, at : Nat, ret : Places]

KindType == mode \in {"rtc", "chunk"} /\ oscMode \in {"shadow", "hardware"}
OscType ==
  /\ opened \in Nat \ {0} /\ session \in {0, opened}
  /\ last \in [1..MaxRev -> {"none", "track", "held"}]
StateType ==
  /\ rev \in Nat /\ enabled \in BOOLEAN /\ priming \in BOOLEAN /\ capture \in BOOLEAN
  /\ bare \in BOOLEAN /\ owner \in Nat /\ job \in Nat
RunType == current \in Runs /\ current =< rev /\ run \in [Runs -> RunRecords]

HoldPlaces == {"pend", "holdRow", "holdSent"}
StopPlaces == {"stop", "stopRow", "stopHold"}
FailPlaces == {"fail", "failed"} \cup StopPlaces

\* Where each thread may be, and where it goes on after fail(), stop() or a
\* rejection, in which mode.
HttpAt(r) ==
  \/ r.pc \in {"idle", "read", "commit", "tail", "retry", "finish", "stopped"}
  \/ mode = "rtc" /\ r.pc \in {"cancel"} \cup StopPlaces /\ r.ret \in {"tail", "retry"}
  \/ r.pc \in HoldPlaces /\ r.ret = "finish"
WorkerAt(r) ==
  \/ r.pc = "loop"
  \/ mode = "rtc" /\ r.pc \in {"make", "boot", "infer", "plan", "exit", "joined"}
  \/ mode = "rtc" /\ r.pc \in FailPlaces /\ r.ret = "exit"
  \/ mode = "chunk" /\ r.pc \in {"rows", "row", "send", "sent", "refused", "final", "ended"}
  \/ mode = "chunk" /\ r.pc = "asked" /\ r.ret \in {"rows", "loop"}
  \/ /\ mode = "chunk" /\ r.pc \in {"reject", "rejectAny"} \cup HoldPlaces
     /\ r.ret \in {"final", "loop"}
ExecAt(r) ==
  \/ r.pc = "idle"
  \/ mode = "rtc" /\ r.pc \in {"wait", "row", "send", "sent", "refused"}
  \/ mode = "rtc" /\ r.pc \in FailPlaces /\ r.ret = "idle"
HealthAt(r) ==
  \/ r.pc = "idle"
  \/ mode = "rtc" /\ r.pc = "beat"
  \/ mode = "rtc" /\ r.pc \in FailPlaces /\ r.ret = "idle"
GripAt(r) ==
  \/ r.pc \in {"idle", "check", "send"}
  \/ mode = "rtc" /\ r.pc \in FailPlaces /\ r.ret = "idle"
  \/ r.pc \in {"reject"} \cup HoldPlaces /\ r.ret = "idle"
ObserverAt(r) ==
  \/ r.pc = "idle"
  \/ r.pc \in {"fault", "rejectAny", "unlock"} \cup HoldPlaces /\ r.ret = "unlock"
PrimeAt(r) ==
  \/ r.pc = "idle"
  \/ /\ mode = "chunk" /\ oscMode = "hardware"
     /\ r.pc \in {"prime", "send", "settle", "error", "close"}

\* r may be the place and the locals of thread t.
Home(t, r) ==
  /\ t \in Http => HttpAt(r)
  /\ t = "worker" => WorkerAt(r)
  /\ t = "exec" => ExecAt(r)
  /\ t = "health" => HealthAt(r)
  /\ t = "grip" => GripAt(r)
  /\ t = "observer" => ObserverAt(r)
  /\ t = "prime" => PrimeAt(r)

PlaceInv == /\ th \in [Threads -> Locals]
            /\ \A t \in Threads : Home(t, th[t])

\* Only a real-time run has an object.
ObjectInv ==
  /\ run[0] = NoRun
  /\ mode = "chunk" => current = 0 /\ run = [e \in Runs |-> NoRun]

Typed == KindType /\ OscType /\ StateType /\ RunType /\ ObjectInv /\ PlaceInv

------------------------------------------------------------------------------
\* The row lock: whoever sends a row, or HOLD, has it. The feedback loop keeps
\* it while it rejects.
NeedsRow(t, r) ==
  \/ t \in {"worker", "exec"} /\ r.pc \in {"row", "send", "sent"}
  \/ r.pc \in {"stopHold", "holdSent"}
  \/ t = "observer" /\ r.pc \in {"rejectAny", "unlock"} \cup HoldPlaces

RowInv == \A t \in Threads : NeedsRow(t, th[t]) => row = t

\* Revisions and sessions in hand. Nobody is ahead of the current revision; a
\* thread that works for it has its session; only a start() that has not been
\* accepted may know a later one.
Dated(t, r) ==
  /\ r.ep =< rev /\ r.at =< opened /\ (r.pc # "commit" => r.at =< owner)
  /\ r.pc = "commit" /\ r.ep = rev /\ r.at # 0 => owner =< r.at
  /\ t \in {"worker", "exec", "prime"} /\ r.pc \notin Resting =>
       r.ep # 0 /\ r.at # 0 /\ (r.ep = rev => r.at = owner)

DateInv ==
  /\ owner =< opened /\ job =< rev /\ (Active => rev \in 1..MaxRev /\ owner # 0)
  /\ \A t \in Threads : Dated(t, th[t])

\* A thread that works for a real-time run has an object, of the latest run
\* or of an earlier one; who stops a run has cancelled it.
HasObject(t, r) ==
  \/ r.pc \in FailPlaces \cup {"cancel"}
  \/ t = "worker" /\ r.pc \in {"boot", "infer", "plan", "exit", "joined"}
  \/ t \in {"exec", "health"} /\ r.pc # "idle"

Tied(t, r) ==
  /\ HasObject(t, r) =>
       /\ r.ep \in 1..current
       /\ r.pc \in {"failed", "joined"} \cup StopPlaces => run[r.ep].cancel
  /\ t = "worker" /\ r.pc = "make" /\ r.ep = rev => current # rev

CancelInv ==
  /\ \A t \in Threads : Tied(t, th[t])
  /\ \A e \in Runs : run[e].finished \/ run[e].confirmed => run[e].cancel

\* A HOLD speaks for runs that are over, the ones the primer may work for
\* included.
Speaks(t, r) ==
  /\ r.pc \in HoldPlaces => (r.ep < rev \/ ~Active)
  /\ r.pc \in {"tail", "retry"} /\ current = 0 => r.ep < rev
  /\ r.pc \notin {"read", "commit"} /\ ~In("prime", {"idle"}) /\ th["prime"].ep =< r.ep
     => th["prime"].at =< r.at

SpeakInv == \A t \in Threads : Speaks(t, th[t])

\* A run that is held is over, and nobody is about to send a target of it to
\* the session there is.
Over(e) == e < rev \/ ~Active \/ session # owner \/ (current = e /\ run[e].cancel)

HeldInv ==
  \A e \in 1..MaxRev : last[e] = "held" =>
    /\ e =< rev /\ Over(e)
    /\ \A t \in {"worker", "exec", "prime"} :
         In(t, {"send"}) /\ th[t].ep = e => th[t].at # session

\* Without its capture no run is active, but for a real-time run that is
\* finished while its HOLD is still to come.
CaptureInv ==
  ~bare /\ Active /\ ~capture => mode = "rtc" /\ current = rev /\ run[rev].finished

\* Who is about to send a row when start() may be accepted.
AloneInv ==
  ~bare =>
    /\ Active => \A t \in {"worker", "exec"} : In(t, {"send"}) => th[t].ep = rev
    /\ ~capture \/ ~In("prime", {"idle"}) => ~In("worker", {"send"})
    /\ In("exec", {"send"}) => th["exec"].ep = current
    /\ \A h \in Http : In(h, {"read", "commit"}) /\ th[h].ep = rev => ~In("exec", {"send"})

StartInv == \A h \in Http : In(h, {"read", "commit"}) /\ th[h].ep = rev => ~capture
PrimerInv == ~In("prime", {"idle"}) => ~enabled
SendInv == In("exec", {"send"}) => ~run[th["exec"].ep].confirmed

------------------------------------------------------------------------------
\* What the operators that move threads do.

LEMMA ThreadsExist ==
  /\ \A h \in Http : h \in Threads /\ h \notin Services /\ h # Free
  /\ \A s \in Services : s \in Threads /\ s \notin Http /\ s # Free
  BY PolicyAssumption DEF Threads, Services, Free

\* Thread t is at l, with revision e, session s and return place b; nobody else moved.
Moved(t, l, e, s, b) ==
  /\ th'[t].pc = l /\ th'[t].ep = e /\ th'[t].at = s /\ th'[t].ret = b
  /\ \A u \in Threads : u # t => th'[u] = th[u]
  /\ th' \in [Threads -> Locals]

LEMMA GotoMoves ==
  ASSUME th \in [Threads -> Locals], NEW t \in Threads, NEW l \in Places, Goto(t, l)
  PROVE  IF l \in Resting THEN Moved(t, l, 0, 0, "idle")
                          ELSE Moved(t, l, th[t].ep, th[t].at, th[t].ret)
  <1>1. th[t] \in Locals
    OBVIOUS
  <1>2. CASE l \in Resting
    <2>1. th' = [th EXCEPT ![t] = At(l)]
      BY <1>2 DEF Goto
    <2>2. At(l) \in Locals
      BY DEF At, Locals, Places
    <2> QED  BY <1>2, <2>1, <2>2 DEF Moved, At
  <1>3. CASE l \notin Resting
    <2> DEFINE r == [th[t] EXCEPT !.pc = l]
    <2>1. th' = [th EXCEPT ![t] = r]
      BY <1>3 DEF Goto
    <2>2. r \in Locals /\ r.pc = l /\ r.ep = th[t].ep /\ r.at = th[t].at /\ r.ret = th[t].ret
      BY <1>1 DEF Locals
    <2> QED  BY <1>3, <2>1, <2>2 DEF Moved
  <1> QED  BY <1>2, <1>3

LEMMA EnterMoves ==
  ASSUME th \in [Threads -> Locals], NEW t \in Threads, NEW l \in Places, NEW e \in Nat,
         NEW s \in Nat, NEW b \in Places, Enter(t, l, e, s, b)
  PROVE  Moved(t, l, e, s, b)
  <1> DEFINE r == [pc |-> l, ep |-> e, at |-> s, ret |-> b]
  <1>1. th' = [th EXCEPT ![t] = r]
    BY DEF Enter
  <1>2. r \in Locals
    BY DEF Locals
  <1> QED  BY <1>1, <1>2 DEF Moved

LEMMA CallMoves ==
  ASSUME th \in [Threads -> Locals], NEW t \in Threads, NEW l \in Places, NEW b \in Places,
         Call(t, l, b)
  PROVE  Moved(t, l, th[t].ep, th[t].at, b)
  <1>1. th[t].ep \in Nat /\ th[t].at \in Nat
    BY DEF Locals
  <1> QED  BY <1>1, EnterMoves DEF Call

\* The worker is at l for the same run, and t begins at m for that run.
Spawned(l, t, m) ==
  /\ th'["worker"].pc = l /\ th'["worker"].ep = th["worker"].ep
  /\ th'["worker"].at = th["worker"].at /\ th'["worker"].ret = th["worker"].ret
  /\ th'[t].pc = m /\ th'[t].ep = th["worker"].ep
  /\ th'[t].at = th["worker"].at /\ th'[t].ret = "idle"
  /\ \A u \in Threads \ {t, "worker"} : th'[u] = th[u]
  /\ th' \in [Threads -> Locals]

LEMMA SpawnMoves ==
  ASSUME th \in [Threads -> Locals], NEW t \in Threads, t # "worker", NEW l \in Places,
         NEW m \in Places, Spawn(l, t, m)
  PROVE  Spawned(l, t, m)
  <1>1. "worker" \in Threads /\ th["worker"] \in Locals
    BY ThreadsExist DEF Services
  <1> DEFINE r == [th["worker"] EXCEPT !.pc = l]
             s == Works(m, th["worker"].ep, th["worker"].at)
  <1>2. /\ r \in Locals /\ r.pc = l /\ r.ep = th["worker"].ep /\ r.at = th["worker"].at
        /\ r.ret = th["worker"].ret
    BY <1>1 DEF Locals
  <1>3. /\ s \in Locals /\ s.pc = m /\ s.ep = th["worker"].ep /\ s.at = th["worker"].at
        /\ s.ret = "idle"
    BY <1>1 DEF Locals, Works, Places
  <1>4. th' = [th EXCEPT !["worker"] = r, ![t] = s]
    BY DEF Spawn
  <1> QED  BY <1>1, <1>2, <1>3, <1>4 DEF Spawned

LEMMA CommitMoves ==
  ASSUME Typed, NEW h \in Http, StartCommit(h)
  PROVE  /\ th'[h].pc = "idle" /\ th'[h].ep = 0 /\ th'[h].at = 0 /\ th'[h].ret = "idle"
         /\ \A u \in Threads \ {h, "prime"} : th'[u] = th[u]
         /\ IF priming' /\ mode # "rtc" /\ In("prime", {"idle"})
            THEN /\ th'["prime"].pc = "prime" /\ th'["prime"].ep = rev'
                 /\ th'["prime"].at = owner' /\ th'["prime"].ret = "idle"
            ELSE th'["prime"] = th["prime"]
         /\ th' \in [Threads -> Locals]
  <1>1. h \in Threads /\ h # "prime" /\ "prime" \in Threads /\ th \in [Threads -> Locals]
    BY ThreadsExist DEF Services, Typed, PlaceInv
  <1>2. rev' \in Nat /\ owner' \in Nat
    BY <1>1 DEF StartCommit, Typed, StateType, Locals
  <1> DEFINE p == [th EXCEPT ![h] = At("idle")]
             r == Works("prime", rev', owner')
  <1>3. At("idle") \in Locals /\ r \in Locals
    BY <1>2 DEF At, Works, Locals, Places
  <1>4. /\ p \in [Threads -> Locals] /\ p[h] = At("idle")
        /\ \A u \in Threads \ {h} : p[u] = th[u]
    BY <1>1, <1>3
  <1>5. th' = IF priming' /\ mode # "rtc" /\ In("prime", {"idle"})
              THEN [p EXCEPT !["prime"] = r] ELSE p
    BY DEF StartCommit
  <1> HIDE DEF p
  <1> QED  BY <1>1, <1>3, <1>4, <1>5 DEF At, Works

------------------------------------------------------------------------------
\* Where each step leads.

MovesTo(t, l) == Moved(t, l, th[t].ep, th[t].at, th[t].ret)
Rested(t, l)  == Moved(t, l, 0, 0, "idle")
Called(t, l, b) == Moved(t, l, th[t].ep, th[t].at, b)
Back(t) == IF th[t].ret \in Resting THEN Rested(t, th[t].ret) ELSE MovesTo(t, th[t].ret)

LEMMA Returns ==
  ASSUME th \in [Threads -> Locals], NEW t \in Threads, Goto(t, th[t].ret)
  PROVE  Back(t)
  <1>1. th[t].ret \in Places
    BY DEF Locals
  <1> QED  BY <1>1, GotoMoves DEF Back, Rested, MovesTo

LEMMA Goes ==
  ASSUME th \in [Threads -> Locals], NEW t \in Threads, NEW l \in Places \ Resting, Goto(t, l)
  PROVE  MovesTo(t, l)
  BY GotoMoves DEF MovesTo

LEMMA ComesToRest ==
  ASSUME th \in [Threads -> Locals], NEW t \in Threads, NEW l \in Resting, Goto(t, l)
  PROVE  Rested(t, l)
  <1>1. l \in Places
    BY DEF Resting, Places
  <1> QED  BY <1>1, GotoMoves DEF Rested

LEMMA HttpMoves ==
  ASSUME Typed, NEW h \in Http
  PROVE  /\ StartCheck(h) => Moved(h, "read", rev, 0, "idle")
         /\ StartRead(h) => Moved(h, "commit", th[h].ep, session, "idle")
         /\ StartRefused(h) \/ StopReturn(h) => Rested(h, "idle")
         /\ StopBegin(h) =>
              IF run[current].confirmed
              THEN Moved(h, IF Active THEN "tail" ELSE "retry", rev, owner, "idle")
              ELSE Moved(h, "cancel", current, owner, IF Active THEN "tail" ELSE "retry")
         /\ StopCancel(h) => MovesTo(h, "stop")
         /\ StopTail(h) => \/ Called(h, "pend", "finish") /\ (current = 0 \/ mode # "rtc")
                           \/ MovesTo(h, "finish")
         /\ StopFinish(h) => Moved(h, "stopped", 0, 0, "idle")
  <1>1. /\ h \in Threads /\ th \in [Threads -> Locals] /\ th[h] \in Locals
        /\ rev \in Nat /\ owner \in Nat /\ session \in Nat /\ current \in Nat
    BY ThreadsExist DEF Typed, PlaceInv, StateType, OscType, RunType, Runs
  <1>2. th[h].ep \in Nat /\ th[h].at \in Nat
    BY <1>1 DEF Locals
  <1>3. /\ {"read", "commit", "stop", "finish", "stopped", "cancel", "pend", "tail", "retry"}
              \subseteq Places \ Resting
        /\ "idle" \in Resting /\ "idle" \in Places
    BY DEF Places, Resting
  <1>4. StartCheck(h) => Moved(h, "read", rev, 0, "idle")
    BY <1>1, <1>3, EnterMoves DEF StartCheck
  <1>5. StartRead(h) => Moved(h, "commit", th[h].ep, session, "idle")
    BY <1>1, <1>2, <1>3, EnterMoves DEF StartRead
  <1>6. StartRefused(h) \/ StopReturn(h) => Rested(h, "idle")
    BY <1>1, <1>3, ComesToRest DEF StartRefused, StopReturn
  <1>7. StopBegin(h) =>
              IF run[current].confirmed
              THEN Moved(h, IF Active THEN "tail" ELSE "retry", rev, owner, "idle")
              ELSE Moved(h, "cancel", current, owner, IF Active THEN "tail" ELSE "retry")
    BY <1>1, <1>3, EnterMoves DEF StopBegin
  <1>8. StopCancel(h) => MovesTo(h, "stop")
    BY <1>1, <1>3, Goes DEF StopCancel
  <1>9. StopTail(h) => \/ Called(h, "pend", "finish") /\ (current = 0 \/ mode # "rtc")
                       \/ MovesTo(h, "finish")
    BY <1>1, <1>3, Goes, CallMoves DEF StopTail, Called
  <1>10. StopFinish(h) => Moved(h, "stopped", 0, 0, "idle")
    BY <1>1, <1>3, EnterMoves DEF StopFinish
  <1> QED  BY <1>4, <1>5, <1>6, <1>7, <1>8, <1>9, <1>10

LEMMA HoldMoves ==
  ASSUME Typed, NEW t \in Threads
  PROVE  /\ FailEnter(t) => IF run[th[t].ep].cancel THEN Back(t) ELSE MovesTo(t, "failed")
         /\ FailPublish(t) => IF th[t].ep # rev THEN Back(t) ELSE MovesTo(t, "stop")
         /\ RunStop(t) => IF run[th[t].ep].confirmed THEN Back(t) ELSE MovesTo(t, "stopRow")
         /\ RunStopRow(t) =>
              IF session # run[th[t].ep].session THEN Back(t) ELSE MovesTo(t, "stopHold")
         /\ RunStopHold(t) => Back(t) \/ (t \in Http /\ Rested(t, "idle"))
         /\ Reject(t) =>
              IF In(t, {"reject"}) /\ th[t].ep # rev THEN Back(t)
              ELSE Moved(t, "pend", IF th[t].at = owner THEN rev ELSE th[t].ep, th[t].at,
                         th[t].ret)
         /\ HoldPending(t) => MovesTo(t, "holdRow")
         /\ HoldRow(t) =>
              IF session = th[t].at /\ session # 0 THEN MovesTo(t, "holdSent") ELSE Back(t)
         /\ HoldSent(t) => Back(t) \/ (t \in Http /\ Rested(t, "idle"))
  <1>1. /\ th \in [Threads -> Locals] /\ th[t] \in Locals
        /\ rev \in Nat /\ owner \in Nat
    BY DEF Typed, PlaceInv, StateType, OscType, Runs
  <1>2. th[t].ep \in Nat /\ th[t].at \in Nat /\ th[t].ret \in Places
    BY <1>1 DEF Locals
  <1>3. /\ {"failed", "stop", "stopRow", "stopHold", "pend", "holdRow", "holdSent"}
              \subseteq Places \ Resting
        /\ "idle" \in Resting
    BY DEF Places, Resting
  <1>4. FailEnter(t) => IF run[th[t].ep].cancel THEN Back(t) ELSE MovesTo(t, "failed")
    BY <1>1, <1>3, Goes, Returns DEF FailEnter
  <1>5. FailPublish(t) => IF th[t].ep # rev THEN Back(t) ELSE MovesTo(t, "stop")
    BY <1>1, <1>3, Goes, Returns DEF FailPublish
  <1>6. RunStop(t) => IF run[th[t].ep].confirmed THEN Back(t) ELSE MovesTo(t, "stopRow")
    BY <1>1, <1>3, Goes, Returns DEF RunStop, Outcome
  <1>7. RunStopRow(t) =>
              IF session # run[th[t].ep].session THEN Back(t) ELSE MovesTo(t, "stopHold")
    BY <1>1, <1>3, Goes, Returns DEF RunStopRow, Outcome
  <1>8. RunStopHold(t) => Back(t) \/ (t \in Http /\ Rested(t, "idle"))
    BY <1>1, <1>3, ComesToRest, Returns DEF RunStopHold, Outcome
  <1>9. Reject(t) =>
              IF In(t, {"reject"}) /\ th[t].ep # rev THEN Back(t)
              ELSE Moved(t, "pend", IF th[t].at = owner THEN rev ELSE th[t].ep, th[t].at,
                         th[t].ret)
    BY <1>1, <1>2, <1>3, EnterMoves, Returns DEF Reject
  <1>10. HoldPending(t) => MovesTo(t, "holdRow")
    BY <1>1, <1>3, Goes DEF HoldPending
  <1>11. HoldRow(t) =>
              IF session = th[t].at /\ session # 0 THEN MovesTo(t, "holdSent") ELSE Back(t)
    BY <1>1, <1>3, Goes, Returns DEF HoldRow, HoldOver
  <1>12. HoldSent(t) => Back(t) \/ (t \in Http /\ Rested(t, "idle"))
    BY <1>1, <1>3, ComesToRest, Returns DEF HoldSent, HoldOver
  <1> QED  BY <1>4, <1>5, <1>6, <1>7, <1>8, <1>9, <1>10, <1>11, <1>12

LEMMA WorkerMoves ==
  ASSUME Typed
  PROVE  /\ RtcPick => Moved("worker", "make", rev, owner, "idle")
         /\ RtcMake => IF th["worker"].ep # rev \/ ~Active THEN Rested("worker", "loop")
                                                           ELSE MovesTo("worker", "boot")
         /\ RtcError => Called("worker", "fail", "exit")
         /\ RtcExit => MovesTo("worker", "joined")
         /\ RtcFinish => Rested("worker", "loop")
         /\ ChunkAsk => Moved("worker", "asked", rev, owner, IF enabled THEN "rows" ELSE "loop")
         /\ ChunkAnswer => \/ Rested("worker", "loop")
                           \/ Called("worker", "reject", "final") \/ Back("worker")
         /\ ChunkRow => IF ChunkLive THEN MovesTo("worker", "row") ELSE Rested("worker", "loop")
         /\ ChunkCheck => IF ChunkLive THEN MovesTo("worker", "send") ELSE Rested("worker", "loop")
         /\ ChunkSend => MovesTo("worker", IF session = th["worker"].at THEN "sent" ELSE "refused")
         /\ ChunkDone => MovesTo("worker", "rows") \/ Rested("worker", "loop")
         /\ ChunkRefused => \/ Called("worker", "rejectAny", "loop")
                            \/ Rested("worker", "loop")
         /\ ChunkFinal => MovesTo("worker", "ended")
         /\ ChunkEnded => IF Active THEN Moved("worker", "pend", rev, owner, "loop")
                                    ELSE Rested("worker", "loop")
  <1>1. /\ th \in [Threads -> Locals] /\ "worker" \in Threads
        /\ rev \in Nat /\ owner \in Nat
    BY ThreadsExist DEF Typed, PlaceInv, StateType, OscType, Services
  <1>2. /\ {"make", "boot", "fail", "exit", "joined", "asked", "rows", "reject", "final", "row",
           "send", "sent", "refused", "rejectAny", "ended", "pend"} \subseteq Places \ Resting
        /\ {"idle", "loop"} \subseteq Places /\ "loop" \in Resting
    BY DEF Places, Resting
  <1>3. RtcPick => Moved("worker", "make", rev, owner, "idle")
    BY <1>1, <1>2, EnterMoves DEF RtcPick
  <1>4. RtcMake => IF th["worker"].ep # rev \/ ~Active THEN Rested("worker", "loop")
                                                       ELSE MovesTo("worker", "boot")
    BY <1>1, <1>2, Goes, ComesToRest DEF RtcMake
  <1>5. RtcError => Called("worker", "fail", "exit")
    BY <1>1, <1>2, CallMoves DEF RtcError, Called
  <1>6. /\ RtcExit => MovesTo("worker", "joined")
        /\ RtcFinish => Rested("worker", "loop")
        /\ ChunkFinal => MovesTo("worker", "ended")
    BY <1>1, <1>2, Goes, ComesToRest DEF RtcExit, RtcFinish, ChunkFinal
  <1>7. ChunkAsk => Moved("worker", "asked", rev, owner, IF enabled THEN "rows" ELSE "loop")
    BY <1>1, <1>2, EnterMoves DEF ChunkAsk
  <1>8. ChunkAnswer => \/ Rested("worker", "loop")
                       \/ Called("worker", "reject", "final") \/ Back("worker")
    BY <1>1, <1>2, ComesToRest, CallMoves, Returns DEF ChunkAnswer, Called
  <1>9. ChunkRow => IF ChunkLive THEN MovesTo("worker", "row") ELSE Rested("worker", "loop")
    BY <1>1, <1>2, Goes, ComesToRest DEF ChunkRow
  <1>10. ChunkCheck => IF ChunkLive THEN MovesTo("worker", "send") ELSE Rested("worker", "loop")
    BY <1>1, <1>2, Goes, ComesToRest DEF ChunkCheck
  <1>11. ChunkSend => MovesTo("worker", IF session = th["worker"].at THEN "sent" ELSE "refused")
    BY <1>1, <1>2, Goes DEF ChunkSend
  <1>12. ChunkDone => MovesTo("worker", "rows") \/ Rested("worker", "loop")
    BY <1>1, <1>2, Goes, ComesToRest DEF ChunkDone
  <1>13. ChunkRefused => \/ Called("worker", "rejectAny", "loop")
                         \/ Rested("worker", "loop")
    BY <1>1, <1>2, ComesToRest, CallMoves DEF ChunkRefused, Called
  <1>14. ChunkEnded => IF Active THEN Moved("worker", "pend", rev, owner, "loop")
                                 ELSE Rested("worker", "loop")
    BY <1>1, <1>2, EnterMoves, ComesToRest DEF ChunkEnded
  <1> QED  BY <1>3, <1>4, <1>5, <1>6, <1>7, <1>8, <1>9, <1>10, <1>11, <1>12, <1>13, <1>14

LEMMA RunMoves ==
  ASSUME Typed
  PROVE  /\ RtcObserve => Spawned("infer", "health", "beat")
         /\ RtcEnable => Spawned("plan", "exec", "wait")
  <1>1. th \in [Threads -> Locals] /\ "exec" \in Threads /\ "health" \in Threads
    BY ThreadsExist DEF Typed, PlaceInv, Services
  <1>2. {"infer", "beat", "plan", "wait"} \subseteq Places
    BY DEF Places
  <1> QED  BY <1>1, <1>2, SpawnMoves DEF RtcObserve, RtcEnable

LEMMA ExecMoves ==
  ASSUME Typed
  PROVE  /\ ExecGone => Rested("exec", "idle")
         /\ ExecError \/ ExecRefused => Called("exec", "fail", "idle")
         /\ ExecRow => MovesTo("exec", "row")
         /\ ExecLive => MovesTo("exec", "send")
         /\ ExecSend => MovesTo("exec", IF session = th["exec"].at THEN "sent" ELSE "refused")
         /\ ExecDone => MovesTo("exec", "wait")
         /\ HealthStep => Rested("health", "idle") \/ Called("health", "fail", "idle")
  <1>1. th \in [Threads -> Locals] /\ {"exec", "health"} \subseteq Threads
    BY ThreadsExist DEF Typed, PlaceInv, Services
  <1>2. /\ {"row", "send", "sent", "refused", "wait", "fail"} \subseteq Places \ Resting
        /\ "idle" \in Resting /\ "idle" \in Places
    BY DEF Places, Resting
  <1>3. /\ ExecGone => Rested("exec", "idle")
        /\ ExecRow => MovesTo("exec", "row")
        /\ ExecLive => MovesTo("exec", "send")
        /\ ExecDone => MovesTo("exec", "wait")
    BY <1>1, <1>2, Goes, ComesToRest DEF ExecGone, ExecRow, ExecLive, ExecDone
  <1>4. ExecError \/ ExecRefused => Called("exec", "fail", "idle")
    BY <1>1, <1>2, CallMoves DEF ExecError, ExecRefused, ExecFail, Called
  <1>5. ExecSend => MovesTo("exec", IF session = th["exec"].at THEN "sent" ELSE "refused")
    BY <1>1, <1>2, Goes DEF ExecSend
  <1>6. HealthStep => Rested("health", "idle") \/ Called("health", "fail", "idle")
    BY <1>1, <1>2, ComesToRest, CallMoves DEF HealthStep, Called
  <1> QED  BY <1>3, <1>4, <1>5, <1>6

LEMMA SideMoves ==
  ASSUME Typed
  PROVE  /\ PrimeReady => \/ MovesTo("prime", "error") \/ Rested("prime", "idle")
                          \/ MovesTo("prime", "send") /\ priming /\ th["prime"].ep = rev
         /\ PrimeSend => MovesTo("prime", IF session = th["prime"].at THEN "settle" ELSE "error")
         /\ PrimeDone => \/ Rested("prime", "idle")
                         \/ MovesTo("prime", "close") /\ In("prime", {"error"})
         /\ PrimeClose => Rested("prime", "idle")
         /\ GripTake => Moved("grip", "check", job, owner, "idle")
         /\ GripCheck => \/ MovesTo("grip", "send") \/ Rested("grip", "idle")
         /\ GripReturn => \/ Rested("grip", "idle") \/ Called("grip", "reject", "idle")
                          \/ /\ Called("grip", "fail", "idle")
                             /\ mode = "rtc" /\ current = rev /\ th["grip"].ep = rev /\ enabled
         /\ GripFault => \/ Moved("observer", "fault", rev, owner, "unlock")
                         \/ UNCHANGED th
         /\ GripFaultRow => IF th["observer"].ep # rev THEN Rested("observer", "idle")
                         ELSE MovesTo("observer", "rejectAny")
         /\ GripFaultEnd => Rested("observer", "idle")
  <1>1. /\ th \in [Threads -> Locals] /\ {"prime", "grip", "observer"} \subseteq Threads
        /\ rev \in Nat /\ owner \in Nat /\ job \in Nat
    BY ThreadsExist DEF Typed, PlaceInv, Services, StateType, OscType
  <1>2. /\ {"error", "send", "settle", "close", "check", "fail", "reject", "fault", "unlock",
           "rejectAny"} \subseteq Places \ Resting
        /\ "idle" \in Resting /\ "idle" \in Places
    BY DEF Places, Resting
  <1>3. PrimeReady => \/ MovesTo("prime", "error") \/ Rested("prime", "idle")
                      \/ MovesTo("prime", "send") /\ priming /\ th["prime"].ep = rev
    BY <1>1, <1>2, Goes, ComesToRest DEF PrimeReady
  <1>4. PrimeSend => MovesTo("prime", IF session = th["prime"].at THEN "settle" ELSE "error")
    BY <1>1, <1>2, Goes DEF PrimeSend
  <1>5. PrimeDone => \/ Rested("prime", "idle")
                     \/ MovesTo("prime", "close") /\ In("prime", {"error"})
    BY <1>1, <1>2, Goes, ComesToRest DEF PrimeDone
  <1>6. /\ PrimeClose => Rested("prime", "idle")
        /\ GripFaultEnd => Rested("observer", "idle")
    BY <1>1, <1>2, ComesToRest DEF PrimeClose, GripFaultEnd
  <1>7. GripTake => Moved("grip", "check", job, owner, "idle")
    BY <1>1, <1>2, EnterMoves DEF GripTake
  <1>8. GripCheck => \/ MovesTo("grip", "send") \/ Rested("grip", "idle")
    BY <1>1, <1>2, Goes, ComesToRest DEF GripCheck
  <1>9. GripReturn => \/ Rested("grip", "idle") \/ Called("grip", "reject", "idle")
                      \/ /\ Called("grip", "fail", "idle")
                         /\ mode = "rtc" /\ current = rev /\ th["grip"].ep = rev /\ enabled
    BY <1>1, <1>2, ComesToRest, CallMoves DEF GripReturn, Called
  <1>10. GripFault => \/ Moved("observer", "fault", rev, owner, "unlock")
                      \/ UNCHANGED th
    BY <1>1, <1>2, EnterMoves DEF GripFault
  <1>11. GripFaultRow => IF th["observer"].ep # rev THEN Rested("observer", "idle")
                         ELSE MovesTo("observer", "rejectAny")
    BY <1>1, <1>2, Goes, ComesToRest DEF GripFaultRow
  <1> QED  BY <1>3, <1>4, <1>5, <1>6, <1>7, <1>8, <1>9, <1>10, <1>11

------------------------------------------------------------------------------
\* Which steps change what.

KindKept == UNCHANGED kind
OscChanges ==
  \/ UNCHANGED osc
  \/ OscSession \/ ExecSend \/ ChunkSend \/ PrimeSend
  \/ \E t \in Threads : RunStopRow(t) \/ RunStopHold(t) \/ HoldRow(t) \/ HoldSent(t)
SessionChanges ==
  \/ UNCHANGED <<session, opened>>
  \/ OscSession \/ \E t \in Threads : RunStopHold(t) \/ HoldSent(t)
RevChanges ==
  \/ UNCHANGED <<rev, owner>>
  \/ \E h \in Http : StartCommit(h) \/ StopBegin(h)
  \/ \E t \in Threads : Reject(t)
Activates == (Active' => Active) \/ \E h \in Http : StartCommit(h)
Enables == (enabled' => enabled) \/ RtcEnable \/ PrimeDone \/ \E h \in Http : StartCommit(h)
CaptureChanges ==
  \/ UNCHANGED <<capture, bare>>
  \/ RtcFinish \/ ChunkFinal \/ PrimeClose
  \/ \E h \in Http : StartCommit(h) \/ StopFinish(h)
  \/ \E t \in Threads : HoldRow(t) \/ HoldSent(t)
RunChanges ==
  \/ UNCHANGED run
  \/ RtcMake \/ RtcExit \/ RtcFinish \/ \E h \in Http : StopCancel(h)
  \/ \E t \in Threads : FailEnter(t) \/ RunStopRow(t) \/ RunStopHold(t)
CurrentChanges == UNCHANGED current \/ RtcMake
JobChanges ==
  \/ UNCHANGED job
  \/ ExecDone \/ ChunkDone \/ GripTake
  \/ \E h \in Http : StartCommit(h) \/ StopBegin(h)

LEMMA Changes ==
  ASSUME Next
  PROVE  /\ KindKept /\ OscChanges /\ SessionChanges /\ RevChanges /\ Activates /\ Enables
         /\ CaptureChanges /\ RunChanges /\ CurrentChanges /\ JobChanges
  <1> USE DEF Next, Rest, vars, Failures, Request, Progress, StopSteps, HoldSteps, WorkerSteps,
              ExecSteps, SideSteps, ExecFail, OscSession, StartCheck, StartRead, StartRefused,
              StartCommit, StopBegin, StopCancel, StopTail, StopFinish, StopReturn, FailEnter,
              FailPublish, RunStop, RunStopRow, RunStopHold, Reject, HoldPending, HoldRow,
              HoldSent, RtcPick, RtcMake, RtcObserve, RtcEnable, RtcError, RtcExit, RtcFinish,
              ChunkAsk, ChunkAnswer, ChunkRow, ChunkCheck, ChunkSend, ChunkDone, ChunkRefused,
              ChunkFinal, ChunkEnded, ExecGone, ExecError, ExecRefused, ExecRow, ExecLive,
              ExecSend, ExecDone, HealthStep, PrimeReady, PrimeSend, PrimeDone, PrimeClose,
              GripTake, GripCheck, GripReturn, GripFault, GripFaultRow, GripFaultEnd
  <1>1. KindKept
    BY DEF KindKept, kind
  <1>2. OscChanges
    BY DEF OscChanges, osc
  <1>3. SessionChanges
    BY DEF SessionChanges, osc
  <1>4. RevChanges
    BY DEF RevChanges, state
  <1>5. Activates
    BY DEF Activates, state, Active, Live
  <1>6. Enables
    BY DEF Enables, state
  <1>7. CaptureChanges
    BY DEF CaptureChanges, state, HoldOver
  <1>8. RunChanges
    BY DEF RunChanges, rtc
  <1>9. CurrentChanges
    BY DEF CurrentChanges, rtc
  <1>10. JobChanges
    BY DEF JobChanges, grip
  <1> QED  BY <1>1, <1>2, <1>3, <1>4, <1>5, <1>6, <1>7, <1>8, <1>9, <1>10

------------------------------------------------------------------------------
\* The types and the places are kept.

Mover(t) == /\ \A u \in Threads : u # t => th'[u] = th[u]
            /\ th' \in [Threads -> Locals]

LEMMA HomeOf ==
  ASSUME NEW r
  PROVE  /\ \A h \in Http : Home(h, r) <=> HttpAt(r)
         /\ Home("worker", r) <=> WorkerAt(r)
         /\ Home("exec", r) <=> ExecAt(r)
         /\ Home("health", r) <=> HealthAt(r)
         /\ Home("grip", r) <=> GripAt(r)
         /\ Home("observer", r) <=> ObserverAt(r)
         /\ Home("prime", r) <=> PrimeAt(r)
  BY ThreadsExist DEF Home, Services

LEMMA HomeKept ==
  ASSUME PlaceInv, UNCHANGED kind, NEW t \in Threads, Mover(t), Home(t, th'[t])
  PROVE  PlaceInv'
  <1>1. ASSUME NEW u \in Threads PROVE Home(u, th'[u])
    BY DEF PlaceInv, Mover
  <1> QED  BY <1>1 DEF PlaceInv, Mover, Home, HttpAt, WorkerAt, ExecAt, HealthAt, GripAt,
                       ObserverAt, PrimeAt, kind

LEMMA PlacesKept ==
  ASSUME Typed, Next
  PROVE  PlaceInv'
  <1> USE DEF Mover, Moved, MovesTo, Rested, Called, Back, Resting, In
  <1>1. PlaceInv /\ \A t \in Threads : Home(t, th[t])
    BY DEF Typed, PlaceInv
  <1>0. UNCHANGED kind
    BY Changes DEF KindKept
  <1>2. CASE OscSession \/ Rest
    BY <1>1, <1>2 DEF OscSession, Rest, vars, PlaceInv, Home, HttpAt, WorkerAt, ExecAt, HealthAt,
                      GripAt, ObserverAt, PrimeAt, kind
  <1>3. ASSUME NEW h \in Http, Request(h) \/ StopSteps(h) PROVE PlaceInv'
    <2>1. h \in Threads /\ h # "prime" /\ HttpAt(th[h])
      BY <1>1, ThreadsExist, HomeOf DEF Services
    <2>2. CASE StartCommit(h)
      <3>1. priming' /\ mode # "rtc" => (mode = "chunk" /\ oscMode = "hardware")
        BY <2>2 DEF StartCommit, Typed, KindType
      <3>2. HttpAt(th'[h]) /\ PrimeAt(th'["prime"])
        BY <1>1, <2>1, <2>2, <3>1, CommitMoves, HomeOf, ThreadsExist DEF HttpAt, PrimeAt, Services
      <3> QED
        BY <1>0, <1>1, <2>1, <2>2, <3>2, CommitMoves, HomeOf, ThreadsExist
           DEF Services, PlaceInv, Home, HttpAt, WorkerAt, ExecAt, HealthAt, GripAt, ObserverAt,
               PrimeAt, kind
    <2>3. CASE StartCheck(h) \/ StartRead(h) \/ StartRefused(h) \/ StopBegin(h) \/ StopSteps(h)
      <3>2. StopBegin(h) /\ ~run[current].confirmed => mode = "rtc"
        BY DEF Typed, ObjectInv, KindType, NoRun
      <3>3. StopBegin(h) => HttpAt(th'[h]) /\ Mover(h)
        BY <2>1, <3>2, HttpMoves DEF HttpAt
      <3>4. StopCancel(h) => HttpAt(th'[h]) /\ Mover(h)
        BY <2>1, HttpMoves DEF StopCancel, HttpAt, StopPlaces, HoldPlaces
      <3>5. StartCheck(h) \/ StartRead(h) \/ StartRefused(h) => HttpAt(th'[h]) /\ Mover(h)
        BY <2>1, HttpMoves DEF HttpAt
      <3>6. StopTail(h) \/ StopFinish(h) \/ StopReturn(h) => HttpAt(th'[h]) /\ Mover(h)
        BY <2>1, HttpMoves DEF HttpAt, HoldPlaces
      <3> QED  BY <1>0, <1>1, <2>1, <2>3, <3>3, <3>4, <3>5, <3>6, HomeOf, HomeKept DEF StopSteps
    <2> QED  BY <1>3, <2>2, <2>3 DEF Request
  <1>4. ASSUME NEW t \in Threads, HoldSteps(t) PROVE PlaceInv'
    <2> USE DEF Home, HttpAt, WorkerAt, ExecAt, HealthAt, GripAt, ObserverAt, PrimeAt,
                HoldPlaces, StopPlaces, FailPlaces
    <2>0. Home(t, th[t])
      BY <1>1
    <2>2. FailEnter(t) => Home(t, th'[t]) /\ Mover(t)
      BY <2>0, HoldMoves DEF FailEnter
    <2>3. FailPublish(t) => Home(t, th'[t]) /\ Mover(t)
      BY <2>0, HoldMoves DEF FailPublish
    <2>4. RunStop(t) => Home(t, th'[t]) /\ Mover(t)
      BY <2>0, HoldMoves DEF RunStop
    <2>5. RunStopRow(t) => Home(t, th'[t]) /\ Mover(t)
      BY <2>0, HoldMoves DEF RunStopRow
    <2>6. RunStopHold(t) => Home(t, th'[t]) /\ Mover(t)
      BY <2>0, HoldMoves DEF RunStopHold
    <2>7. Reject(t) => Home(t, th'[t]) /\ Mover(t)
      BY <2>0, HoldMoves DEF Reject
    <2>8. HoldPending(t) => Home(t, th'[t]) /\ Mover(t)
      BY <2>0, HoldMoves DEF HoldPending
    <2>9. HoldRow(t) => Home(t, th'[t]) /\ Mover(t)
      BY <2>0, HoldMoves DEF HoldRow
    <2>10. HoldSent(t) => Home(t, th'[t]) /\ Mover(t)
      BY <2>0, HoldMoves DEF HoldSent
    <2> QED
      <3> HIDE DEF Home, Mover
      <3> QED
      BY <1>1, <1>0, <1>4, <2>2, <2>3, <2>4, <2>5, <2>6, <2>7, <2>8, <2>9, <2>10,
         HomeKept
         DEF HoldSteps
  <1>5. CASE WorkerSteps \/ RtcError
    <2>2. /\ WorkerAt(th["worker"]) /\ ExecAt(th["exec"]) /\ HealthAt(th["health"])
          /\ "worker" \in Threads /\ "exec" \in Threads /\ "health" \in Threads
      BY <1>1, ThreadsExist, HomeOf DEF Services
    <2>3. CASE RtcObserve
      <3>1. Spawned("infer", "health", "beat") /\ mode = "rtc"
        BY <2>2, <2>3, RunMoves DEF RtcObserve, WorkerAt, FailPlaces, StopPlaces, HoldPlaces
      <3>2. WorkerAt(th'["worker"]) /\ HealthAt(th'["health"])
        BY <3>1 DEF Spawned, WorkerAt, HealthAt
      <3> QED
        BY <1>0, <1>1, <2>2, <3>1, <3>2, HomeOf
           DEF Spawned, PlaceInv, Home, HttpAt, WorkerAt, ExecAt, HealthAt, GripAt, ObserverAt,
               PrimeAt, kind
    <2>4. CASE RtcEnable
      <3>1. Spawned("plan", "exec", "wait") /\ mode = "rtc"
        BY <2>2, <2>4, RunMoves DEF RtcEnable, WorkerAt, FailPlaces, StopPlaces, HoldPlaces
      <3>2. WorkerAt(th'["worker"]) /\ ExecAt(th'["exec"])
        BY <3>1 DEF Spawned, WorkerAt, ExecAt
      <3> QED
        BY <1>0, <1>1, <2>2, <3>1, <3>2, HomeOf
           DEF Spawned, PlaceInv, Home, HttpAt, WorkerAt, ExecAt, HealthAt, GripAt, ObserverAt,
               PrimeAt, kind
    <2>5. RtcPick \/ RtcMake \/ RtcError \/ RtcExit \/ RtcFinish =>
            WorkerAt(th'["worker"]) /\ Mover("worker")
      BY <2>2, WorkerMoves
         DEF RtcPick, RtcMake, RtcError, RtcExit, WorkerAt, FailPlaces, StopPlaces, HoldPlaces
    <2>6. ChunkAsk \/ ChunkAnswer \/ ChunkRow \/ ChunkCheck \/ ChunkSend \/ ChunkDone =>
            WorkerAt(th'["worker"]) /\ Mover("worker")
      BY <2>2, WorkerMoves DEF ChunkAsk, ChunkAnswer, ChunkRow, ChunkCheck, ChunkSend, ChunkDone,
         WorkerAt, FailPlaces, StopPlaces, HoldPlaces
    <2>7. ChunkRefused \/ ChunkFinal \/ ChunkEnded => WorkerAt(th'["worker"]) /\ Mover("worker")
      BY <2>2, WorkerMoves DEF ChunkRefused, ChunkFinal, ChunkEnded,
         WorkerAt, FailPlaces, StopPlaces, HoldPlaces
    <2> HIDE DEF Mover
    <2> QED
      BY <1>1, <1>0, <1>5, <2>2, <2>3, <2>4, <2>5, <2>6, <2>7, HomeOf, HomeKept DEF WorkerSteps
  <1>6. CASE ExecSteps \/ ExecError \/ HealthStep
    <2>2. /\ ExecAt(th["exec"]) /\ HealthAt(th["health"])
          /\ "exec" \in Threads /\ "health" \in Threads
      BY <1>1, ThreadsExist, HomeOf DEF Services
    <2>3. ExecSteps \/ ExecError => ExecAt(th'["exec"]) /\ Mover("exec")
      BY <2>2, ExecMoves
         DEF ExecSteps, ExecGone, ExecRow, ExecLive, ExecSend, ExecDone, ExecRefused,
                             ExecError, ExecAt, FailPlaces, StopPlaces
    <2>4. HealthStep => HealthAt(th'["health"]) /\ Mover("health")
      BY <2>2, ExecMoves DEF HealthStep, HealthAt, FailPlaces, StopPlaces
    <2> HIDE DEF Mover
    <2> QED  BY <1>1, <1>0, <1>6, <2>2, <2>3, <2>4, HomeOf, HomeKept
  <1>7. CASE SideSteps \/ GripFault
    <2>2. /\ PrimeAt(th["prime"]) /\ GripAt(th["grip"]) /\ ObserverAt(th["observer"])
          /\ {"prime", "grip", "observer"} \subseteq Threads /\ th \in [Threads -> Locals]
      BY <1>1, ThreadsExist, HomeOf DEF Services, PlaceInv
    <2>3. PrimeReady \/ PrimeSend \/ PrimeDone \/ PrimeClose =>
            PrimeAt(th'["prime"]) /\ Mover("prime")
      BY <2>2, SideMoves DEF PrimeReady, PrimeSend, PrimeDone, PrimeClose, PrimeAt
    <2>4. GripTake \/ GripCheck \/ GripReturn => GripAt(th'["grip"]) /\ Mover("grip")
      BY <2>2, SideMoves
         DEF GripTake, GripCheck, GripReturn, GripAt, FailPlaces, StopPlaces, HoldPlaces
    <2>5. GripFault \/ GripFaultRow \/ GripFaultEnd =>
            ObserverAt(th'["observer"]) /\ Mover("observer")
      BY <2>2, SideMoves DEF GripFault, GripFaultRow, GripFaultEnd, ObserverAt, HoldPlaces
    <2> HIDE DEF Mover
    <2> QED  BY <1>1, <1>0, <1>7, <2>2, <2>3, <2>4, <2>5, HomeOf, HomeKept DEF SideSteps
  <1> QED  BY <1>2, <1>3, <1>4, <1>5, <1>6, <1>7 DEF Next, Failures, Progress

LEMMA TypesKept ==
  ASSUME Typed, DateInv, CancelInv, Next
  PROVE  Typed'
  <1>1. /\ KindType /\ OscType /\ StateType /\ RunType /\ ObjectInv /\ PlaceInv
        /\ th \in [Threads -> Locals] /\ {"worker", "exec", "prime", "grip"} \subseteq Threads
        /\ \A t \in Threads : th[t] \in Locals /\ th[t].ep \in Nat /\ th[t].at \in Nat
    BY ThreadsExist DEF Typed, PlaceInv, Locals, Services
  <1>0. /\ KindKept /\ OscChanges /\ RevChanges /\ CaptureChanges /\ RunChanges
        /\ CurrentChanges /\ JobChanges
    BY Changes
  <1>2. KindType' /\ UNCHANGED mode
    BY <1>0, <1>1 DEF KindKept, KindType, kind
  <1>3. OscType'
    <2> USE DEF OscType
    <2>1. ASSUME NEW e \in Nat PROVE Quiet(e) \in [1..MaxRev -> {"none", "track", "held"}]
      BY <1>1 DEF Quiet
    <2>2. CASE UNCHANGED osc
      BY <1>1, <2>2 DEF osc
    <2>3. CASE OscSession
      BY <1>1, <2>1, <2>3 DEF OscSession, StateType
    <2>4. CASE ExecSend \/ ChunkSend \/ PrimeSend
      BY <1>1, <2>4 DEF ExecSend, ChunkSend, PrimeSend, Track
    <2>5. ASSUME NEW t \in Threads, RunStopRow(t) \/ RunStopHold(t) PROVE OscType'
      BY <1>1, <2>1, <2>5 DEF RunStopRow, RunStopHold, Confirms, OscHold
    <2>6. ASSUME NEW t \in Threads, HoldRow(t) \/ HoldSent(t) PROVE OscType'
      BY <1>1, <2>1, <2>6 DEF HoldRow, HoldSent, OscHold
    <2> QED  BY <2>2, <2>3, <2>4, <2>5, <2>6, <1>0 DEF OscChanges
  <1>4. StateType'
    <2>1. rev' \in Nat /\ owner' \in Nat
      BY <1>0, <1>1, ThreadsExist DEF RevChanges, StateType, StartCommit, StopBegin, Reject
    <2>2. job' \in Nat
      BY <1>0, <1>1 DEF JobChanges, StateType, StartCommit, StopBegin, ExecDone, ChunkDone,
                           GripTake, QueuesGripper
    <2>3. capture' \in BOOLEAN /\ bare' \in BOOLEAN
      BY <1>0, <1>1, PolicyAssumption
         DEF CaptureChanges, StateType, StartCommit, StopFinish, HoldRow, HoldSent, HoldOver,
             RtcFinish, ChunkFinal, PrimeClose
    <2>4. enabled' \in BOOLEAN /\ priming' \in BOOLEAN
      <3> USE DEF Next, Rest, vars, Failures, Request, Progress, StopSteps, HoldSteps, WorkerSteps,
                ExecSteps, SideSteps, ExecFail, OscSession, StartCheck, StartRead, StartRefused,
                StartCommit, StopBegin, StopCancel, StopTail, StopFinish, StopReturn, FailEnter,
                FailPublish, RunStop, RunStopRow, RunStopHold, Reject, HoldPending, HoldRow,
                HoldSent, RtcPick, RtcMake, RtcObserve, RtcEnable, RtcError, RtcExit, RtcFinish,
                ChunkAsk, ChunkAnswer, ChunkRow, ChunkCheck, ChunkSend, ChunkDone, ChunkRefused,
                ChunkFinal, ChunkEnded, ExecGone, ExecError, ExecRefused, ExecRow, ExecLive,
                ExecSend, ExecDone, HealthStep, PrimeReady, PrimeSend, PrimeDone, PrimeClose,
                GripTake, GripCheck, GripReturn, GripFault, GripFaultRow, GripFaultEnd
      <3> QED  BY <1>1 DEF StateType, state
    <2> QED  BY <2>1, <2>2, <2>3, <2>4 DEF StateType
  <1>5. current' \in Runs /\ current' =< rev'
    <2>1. rev =< rev'
      BY <1>0, <1>1 DEF RevChanges, StateType, StartCommit, StopBegin, Reject
    <2>2. CASE UNCHANGED current
      BY <1>1, <1>4, <2>1, <2>2 DEF RunType, StateType, Runs
    <2>3. CASE RtcMake /\ ~UNCHANGED current
      BY <1>1, <2>3, PolicyAssumption DEF RtcMake, DateInv, RunType, rtc, state, Runs
    <2> QED  BY <2>2, <2>3, <1>0 DEF CurrentChanges
  <1>6. run' \in [Runs -> RunRecords] /\ run'[0] = NoRun /\ (mode = "chunk" => UNCHANGED run)
    <2> USE DEF RunType, ObjectInv
    <2>1. ASSUME NEW e \in 1..current,
                 \/ run' = [run EXCEPT ![e].cancel = TRUE]
                 \/ run' = [run EXCEPT ![e].finished = TRUE]
                 \/ run' = [run EXCEPT ![e].confirmed = TRUE]
          PROVE  /\ run' \in [Runs -> RunRecords] /\ run'[0] = NoRun /\ mode # "chunk"
      <3>1. e \in Runs /\ e # 0 /\ 0 \in Runs
        BY <1>1, PolicyAssumption DEF Runs
      <3>2. [run[e] EXCEPT !.cancel = TRUE] \in RunRecords
        BY <1>1, <3>1 DEF RunRecords
      <3>3. [run[e] EXCEPT !.finished = TRUE] \in RunRecords
        BY <1>1, <3>1 DEF RunRecords
      <3>4. [run[e] EXCEPT !.confirmed = TRUE] \in RunRecords
        BY <1>1, <3>1 DEF RunRecords
      <3>5. mode # "chunk"
        BY <1>1, <2>1, <3>1
      <3> QED  BY <1>1, <2>1, <3>1, <3>2, <3>3, <3>4, <3>5
    <2>2. CASE UNCHANGED run
      BY <1>1, <2>2
    <2>3. CASE RtcMake /\ ~UNCHANGED run
      <3>1. rev \in 1..MaxRev /\ mode = "rtc"
        BY <1>1, <2>3, HomeOf DEF RtcMake, DateInv, rtc, PlaceInv, WorkerAt, In, HoldPlaces,
                                  FailPlaces, StopPlaces
      <3>2. rev \in Runs /\ rev # 0 /\ 0 \in Runs
        BY <3>1, PolicyAssumption DEF Runs
      <3>3. run' = [run EXCEPT ![rev] = [session |-> th["worker"].at, cancel |-> FALSE,
                                           finished |-> FALSE, confirmed |-> FALSE]]
        BY <2>3 DEF RtcMake, rtc
      <3> QED  BY <1>1, <3>1, <3>2, <3>3 DEF RunRecords
    <2>4. CASE RtcExit \/ RtcFinish
      <3>1. th["worker"].ep \in 1..current
        BY <1>1, <2>4 DEF RtcExit, RtcFinish, CancelInv, Tied, HasObject, In
      <3> QED  BY <2>1, <2>4, <3>1 DEF RtcExit, RtcFinish, Cancels
    <2>5. ASSUME NEW h \in Http, StopCancel(h)
          PROVE  run' \in [Runs -> RunRecords] /\ run'[0] = NoRun /\ mode # "chunk"
      <3>1. th[h].ep \in 1..current
        BY <2>5, ThreadsExist DEF StopCancel, CancelInv, Tied, HasObject, In
      <3> QED  BY <2>1, <2>5, <3>1 DEF StopCancel, Cancels
    <2>6. ASSUME NEW t \in Threads, FailEnter(t) \/ RunStopRow(t) \/ RunStopHold(t)
          PROVE  /\ run' \in [Runs -> RunRecords] /\ run'[0] = NoRun
                 /\ mode = "chunk" => UNCHANGED run
      <3>1. th[t].ep \in 1..current
        BY <2>6 DEF FailEnter, RunStopRow, RunStopHold, CancelInv, Tied, HasObject, In, FailPlaces,
                    StopPlaces
      <3> QED  BY <1>1, <2>1, <2>6, <3>1 DEF FailEnter, RunStopRow, RunStopHold, Cancels, Confirms
    <2> QED  BY <2>2, <2>3, <2>4, <2>5, <2>6, <1>0 DEF RunChanges
  <1>7. RunType' /\ ObjectInv'
    <2>1. UNCHANGED current \/ mode # "chunk"
      BY <1>0, <1>1, HomeOf DEF CurrentChanges, RtcMake, PlaceInv, WorkerAt, In, HoldPlaces,
                                FailPlaces, StopPlaces
    <2> QED  BY <1>1, <1>2, <1>5, <1>6, <2>1 DEF RunType, ObjectInv
  <1>8. PlaceInv'
    BY PlacesKept
  <1> QED  BY <1>2, <1>3, <1>4, <1>7, <1>8 DEF Typed

------------------------------------------------------------------------------
\* The row lock.

\* Who is in fail(), stop() or a rejection goes on to a place without the row
\* lock, but for the feedback loop.
LEMMA ReturnPlaces ==
  ASSUME PlaceInv, NEW t \in Threads,
         In(t, FailPlaces \cup {"reject", "rejectAny"} \cup HoldPlaces)
  PROVE  /\ t = "observer" => th[t].ret = "unlock" /\ In(t, {"rejectAny"} \cup HoldPlaces)
         /\ t # "observer" =>
              th[t].ret \in {"tail", "retry", "finish", "exit", "final", "loop", "idle"}
  BY DEF PlaceInv, Threads, Services, In, Home, HttpAt, WorkerAt, ExecAt, HealthAt, GripAt,
         ObserverAt, PrimeAt, HoldPlaces, FailPlaces, StopPlaces

LEMMA RowStep ==
  ASSUME RowInv, NEW t \in Threads, Mover(t),
         row' = row \/ row \in {Free, t}, NeedsRow(t, th'[t]) => row' = t
  PROVE  RowInv'
  <1>1. ASSUME NEW u \in Threads, NeedsRow(u, th'[u]) PROVE row' = u
    <2>1. CASE u # t
      BY <1>1, <2>1, ThreadsExist DEF RowInv, Mover, Threads
    <2> QED  BY <1>1, <2>1
  <1> QED  BY <1>1 DEF RowInv, NeedsRow

LEMMA RowKept ==
  ASSUME Typed, RowInv, Next
  PROVE  RowInv'
  <1> USE DEF Mover, Moved, MovesTo, Rested, Called, Back, Resting, In, NeedsRow
  <1>1. /\ PlaceInv /\ th \in [Threads -> Locals]
        /\ \A t \in Threads : Home(t, th[t]) /\ (NeedsRow(t, th[t]) => row = t)
    BY DEF Typed, PlaceInv, RowInv
  <1>2. CASE OscSession \/ Rest
    BY <1>2 DEF OscSession, Rest, vars, RowInv, locks
  <1>3. ASSUME NEW h \in Http, Request(h) \/ StopSteps(h) PROVE RowInv'
    <2>1. h \in Threads /\ h \notin Services /\ HttpAt(th[h])
      BY <1>1, ThreadsExist, HomeOf
    <2>2. UNCHANGED row
      BY <1>3 DEF Request, StopSteps, StartCheck, StartRead, StartRefused, StartCommit, StopBegin,
                  StopCancel, StopTail, StopFinish, StopReturn, locks
    <2>3. CASE StartCommit(h)
      BY <1>1, <2>1, <2>2, <2>3, CommitMoves DEF RowInv, Services
    <2>4. CASE ~StartCommit(h)
      <3>1. /\ Mover(h)
            /\ th'[h].pc \in {"read", "commit", "idle", "tail", "retry", "cancel", "stop", "pend",
                              "finish", "stopped"}
        BY <1>3, <2>4, HttpMoves DEF Request, StopSteps
      <3>2. ~NeedsRow(h, th'[h])
        BY <2>1, <3>1 DEF Services
      <3> HIDE DEF NeedsRow, Mover
      <3> QED  BY <2>1, <2>2, <3>1, <3>2, RowStep
    <2> QED  BY <2>3, <2>4
  <1>4. ASSUME NEW t \in Threads, HoldSteps(t) PROVE RowInv'
    <2> USE DEF HoldPlaces, StopPlaces, FailPlaces
    <2>0. /\ NeedsRow(t, th[t]) => row = t
          /\ In(t, FailPlaces \cup {"reject", "rejectAny"} \cup HoldPlaces) =>
               /\ t = "observer" => th[t].ret = "unlock" /\ In(t, {"rejectAny"} \cup HoldPlaces)
               /\ t # "observer" =>
                    th[t].ret \in {"tail", "retry", "finish", "exit", "final", "loop", "idle"}
      BY <1>1, ReturnPlaces
    <2> DEFINE Good == /\ Mover(t) /\ (row' = row \/ row \in {Free, t})
                       /\ NeedsRow(t, th'[t]) => row' = t
    <2>1. FailEnter(t) \/ FailPublish(t) \/ RunStop(t) => Good
      BY <2>0, HoldMoves DEF FailEnter, FailPublish, RunStop, locks
    <2>2. RunStopRow(t) => Good
      BY <2>0, HoldMoves DEF RunStopRow
    <2>3. RunStopHold(t) => Good
      BY <2>0, HoldMoves DEF RunStopHold
    <2>4. Reject(t) \/ HoldPending(t) => Good
      BY <2>0, HoldMoves DEF Reject, HoldPending, locks
    <2>5. HoldRow(t) => Good
      BY <2>0, HoldMoves DEF HoldRow
    <2>6. HoldSent(t) => Good
      BY <2>0, HoldMoves DEF HoldSent
    <2> QED
      <3> HIDE DEF Mover, NeedsRow
      <3> QED  BY <1>1, <1>4, <2>1, <2>2, <2>3, <2>4, <2>5, <2>6, RowStep DEF HoldSteps
  <1>5. CASE WorkerSteps \/ RtcError
    <2>1. /\ WorkerAt(th["worker"]) /\ {"worker", "exec", "health"} \subseteq Threads
          /\ NeedsRow("worker", th["worker"]) => row = "worker"
      BY <1>1, ThreadsExist, HomeOf DEF Services
    <2> DEFINE Good == /\ Mover("worker") /\ (row' = row \/ row \in {Free, "worker"})
                       /\ NeedsRow("worker", th'["worker"]) => row' = "worker"
    <2>2. RtcObserve \/ RtcEnable => UNCHANGED row
      BY DEF RtcObserve, RtcEnable, locks
    <2>3. RtcObserve => RowInv'
      BY <1>1, <2>1, <2>2, RunMoves DEF Spawned, RowInv
    <2>4. RtcEnable => RowInv'
      BY <1>1, <2>1, <2>2, RunMoves DEF Spawned, RowInv
    <2>5. RtcPick \/ RtcMake \/ RtcError \/ RtcExit \/ RtcFinish => Good
      BY <2>1, WorkerMoves DEF RtcPick, RtcMake, RtcError, RtcExit, RtcFinish, locks
    <2>6. ChunkAsk \/ ChunkAnswer \/ ChunkRefused \/ ChunkFinal \/ ChunkEnded => Good
      BY <2>1, WorkerMoves DEF ChunkAsk, ChunkAnswer, ChunkRefused, ChunkFinal, ChunkEnded, locks,
                               WorkerAt, FailPlaces, StopPlaces, HoldPlaces
    <2>7. ChunkRow \/ ChunkCheck \/ ChunkSend \/ ChunkDone => Good
      BY <2>1, WorkerMoves DEF ChunkRow, ChunkCheck, ChunkSend, ChunkDone, locks
    <2> HIDE DEF Mover, NeedsRow
    <2> QED  BY <1>1, <1>5, <2>1, <2>3, <2>4, <2>5, <2>6, <2>7, RowStep DEF WorkerSteps
  <1>6. CASE ExecSteps \/ ExecError \/ HealthStep
    <2>1. /\ {"exec", "health"} \subseteq Threads
          /\ NeedsRow("exec", th["exec"]) => row = "exec"
      BY <1>1, ThreadsExist DEF Services
    <2> DEFINE Good == /\ Mover("exec") /\ (row' = row \/ row \in {Free, "exec"})
                       /\ NeedsRow("exec", th'["exec"]) => row' = "exec"
    <2>2. ExecSteps \/ ExecError => Good
      BY <2>1, ExecMoves DEF ExecSteps, ExecGone, ExecRow, ExecLive, ExecSend, ExecDone,
                             ExecRefused, ExecError, ExecFail, locks
    <2>3. HealthStep => Mover("health") /\ UNCHANGED row /\ ~NeedsRow("health", th'["health"])
      BY <2>1, ExecMoves DEF HealthStep, locks
    <2> HIDE DEF Mover, NeedsRow
    <2> QED  BY <1>1, <1>6, <2>1, <2>2, <2>3, RowStep
  <1>7. CASE SideSteps \/ GripFault
    <2>1. /\ {"prime", "grip", "observer"} \subseteq Threads /\ ObserverAt(th["observer"])
          /\ NeedsRow("observer", th["observer"]) => row = "observer"
      BY <1>1, ThreadsExist, HomeOf DEF Services
    <2>2. PrimeReady \/ PrimeSend \/ PrimeDone \/ PrimeClose =>
            Mover("prime") /\ UNCHANGED row /\ ~NeedsRow("prime", th'["prime"])
      BY <2>1, SideMoves DEF PrimeReady, PrimeSend, PrimeDone, PrimeClose, locks
    <2>3. GripTake \/ GripCheck \/ GripReturn =>
            Mover("grip") /\ UNCHANGED row /\ ~NeedsRow("grip", th'["grip"])
      BY <2>1, SideMoves DEF GripTake, GripCheck, GripReturn, locks
    <2> DEFINE Good == /\ Mover("observer") /\ (row' = row \/ row \in {Free, "observer"})
                       /\ NeedsRow("observer", th'["observer"]) => row' = "observer"
    <2>4. GripFaultRow => Good
      BY <2>1, SideMoves DEF GripFaultRow, HoldPlaces
    <2>6. GripFaultEnd => Good
      BY <2>1, SideMoves DEF GripFaultEnd, HoldPlaces
    <2>5. GripFault => Good
      <3>1. GripFault => UNCHANGED row /\ In("observer", {"idle"})
        BY DEF GripFault, locks
      <3>2. GripFault => UNCHANGED th \/ Moved("observer", "fault", rev, owner, "unlock")
        BY SideMoves
      <3> QED  BY <1>1, <2>1, <3>1, <3>2 DEF HoldPlaces
    <2> HIDE DEF Mover, NeedsRow
    <2> QED  BY <1>1, <1>7, <2>1, <2>2, <2>3, <2>4, <2>5, <2>6, RowStep DEF SideSteps
  <1> QED  BY <1>2, <1>3, <1>4, <1>5, <1>6, <1>7 DEF Next, Failures, Progress

------------------------------------------------------------------------------
\* Revisions and sessions in hand.

LEMMA DateKept ==
  ASSUME Typed, DateInv, CancelInv, Next
  PROVE  DateInv'
  <1>0. /\ SessionChanges /\ RevChanges /\ Activates /\ JobChanges
    BY Changes
  <1>1. /\ OscType /\ StateType /\ RunType /\ PlaceInv /\ th \in [Threads -> Locals]
        /\ \A t \in Threads : th[t] \in Locals /\ th[t].ep \in Nat /\ th[t].at \in Nat
        /\ owner =< opened /\ job =< rev /\ (Active => rev \in 1..MaxRev /\ owner # 0)
        /\ \A t \in Threads : Dated(t, th[t])
    BY DEF DateInv, Typed, PlaceInv, Locals
  \* The globals.
  <1>2. opened =< opened' /\ opened' \in Nat
    <2>1. OscSession => opened =< opened' /\ opened' \in Nat
      BY <1>1 DEF OscSession, OscType
    <2>2. ~OscSession => UNCHANGED opened
      BY <1>0 DEF SessionChanges, RunStopHold, HoldSent
    <2> QED  BY <1>1, <2>1, <2>2 DEF OscType
  <1>3. /\ rev =< rev' /\ owner =< owner' /\ owner' =< opened' /\ rev' \in Nat /\ owner' \in Nat
        /\ (rev' = rev => owner' = owner)
    <2>1. CASE UNCHANGED <<rev, owner>>
      BY <1>1, <1>2, <2>1 DEF StateType, OscType
    <2>2. ASSUME NEW h \in Http, StartCommit(h) 
          PROVE  /\ rev =< rev' /\ owner =< owner' /\ owner' =< opened' /\ rev' \in Nat
                 /\ owner' \in Nat /\ (rev' = rev => owner' = owner)
      BY <1>1, <1>2, <2>2, ThreadsExist DEF StartCommit, MayStart, StateType, OscType, In, Dated
    <2>3. CASE (\E h \in Http : StopBegin(h)) \/ \E t \in Threads : Reject(t)
      BY <1>1, <1>2, <2>3 DEF StopBegin, Reject, StateType, OscType
    <2> QED  BY <1>0, <2>1, <2>2, <2>3 DEF RevChanges
  <1>4. Active' => rev' \in 1..MaxRev /\ owner' # 0
    <2>1. ASSUME NEW h \in Http, StartCommit(h) PROVE Active' => rev' \in 1..MaxRev /\ owner' # 0
      BY <1>1, <2>1, PolicyAssumption DEF StartCommit, MayStart, StateType
    <2>2. CASE (Active' => Active) /\ UNCHANGED <<rev, owner>>
      BY <1>1, <2>2
    <2>3. CASE (\E h \in Http : StopBegin(h)) \/ \E t \in Threads : Reject(t)
      BY <1>1, <2>3 DEF StopBegin, Reject, Active, state
    <2> QED  BY <1>0, <2>1, <2>2, <2>3 DEF RevChanges, Activates
  <1>5. job' =< rev'
    BY <1>0, <1>1, <1>3 DEF JobChanges, StartCommit, StopBegin, ExecDone, ChunkDone,
                            GripTake, QueuesGripper, StateType, state
  \* Every thread: who does not move, and who does.
  <1>6. ASSUME NEW u \in Threads, th'[u] = th[u] PROVE Dated(u, th[u])'
    BY <1>1, <1>2, <1>3, <1>6 DEF Dated, StateType, OscType
  <1> USE DEF Mover, Moved, MovesTo, Rested, Called, Back, Resting, In
  <1> DEFINE Same == \A u \in Threads : Dated(u, th[u])'
  <1>7. ASSUME NEW t \in Threads, Mover(t), Dated(t, th[t])' PROVE Same
    BY <1>6, <1>7
  <1>8. ASSUME NEW t \in Threads, NEW l, Rested(t, l), l \in Resting PROVE Same
    BY <1>1, <1>2, <1>3, <1>7, <1>8 DEF Dated
  <1>9. ASSUME NEW t \in Threads, NEW l, NEW b, Called(t, l, b), ~In(t, Resting \cup {"commit"}),
               l \notin Resting \cup {"commit"}
        PROVE  Same
    BY <1>1, <1>2, <1>3, <1>7, <1>9 DEF Dated, StateType, OscType
  <1>10. ASSUME NEW t \in Threads, NEW l, NEW b, Moved(t, l, rev, owner, b), l \notin {"commit"},
                t \in {"worker", "exec", "prime"} => Active
         PROVE  Same
    BY <1>1, <1>2, <1>3, <1>7, <1>10 DEF Dated, StateType, OscType
  <1>11. ASSUME OscSession \/ Rest PROVE Same
    BY <1>6, <1>11 DEF OscSession, Rest, vars
  <1>12. ASSUME NEW h \in Http, Request(h) \/ StopSteps(h) PROVE Same
    <2>1. h \in Threads /\ h \notin Services /\ Dated(h, th[h])
      BY <1>1, ThreadsExist
    <2>2. StartCheck(h) => Same
      BY <1>1, <1>2, <1>3, <1>7, <2>1, HttpMoves DEF Dated, Services, StateType, OscType
    <2>3. StartRead(h) => Same
      <3>1. StartRead(h) => session \in {0, opened} /\ In(h, {"read"})
        BY <1>1 DEF StartRead, OscType
      <3> QED
        BY <1>1, <1>2, <1>3, <1>7, <2>1, <3>1, HttpMoves DEF Dated, Services, StateType, OscType
    <2>4. StartCommit(h) => Same
      <3>1. StartCommit(h) => /\ rev' = rev + 1 /\ owner' = th[h].at /\ owner' # 0
                              /\ th[h].at \in Nat
        BY <1>1, <2>1 DEF StartCommit, MayStart
      <3>2. ASSUME StartCommit(h), NEW u \in Threads PROVE Dated(u, th[u])'
        <4>1. CASE u = h
          BY <1>1, <1>2, <1>3, <2>1, <3>2, <4>1, CommitMoves DEF Dated, Services, StateType, OscType
        <4>2. CASE u = "prime" /\ th'[u] # th[u]
          BY <1>1, <1>2, <1>3, <2>1, <3>1, <3>2, <4>2, CommitMoves DEF Dated, StateType, OscType
        <4> QED  BY <1>6, <3>2, <4>1, <4>2, CommitMoves
      <3> QED  BY <3>2
    <2>5. StopBegin(h) => Same
      <3>1. StopBegin(h) => /\ rev' = rev + 1
                            /\ \/ \E l \in {"tail", "retry"} : Moved(h, l, rev, owner, "idle")
                               \/ \E b : Moved(h, "cancel", current, owner, b)
        BY HttpMoves DEF StopBegin
      <3> QED
        BY <1>1, <1>2, <1>3, <1>7, <2>1, <3>1 DEF Dated, Services, StateType, OscType, RunType, Runs
    <2>6. StopCancel(h) \/ StopTail(h) => Same
      <3>1. StopCancel(h) \/ StopTail(h) =>
              /\ In(h, {"cancel", "tail", "retry"})
              /\ \/ MovesTo(h, "stop") \/ Called(h, "pend", "finish") \/ MovesTo(h, "finish")
        BY HttpMoves DEF StopCancel, StopTail
      <3> QED  BY <1>9, <2>1, <3>1
    <2>7. StopFinish(h) \/ StopReturn(h) \/ StartRefused(h) => Same
      BY <1>1, <1>2, <1>3, <1>7, <2>1, HttpMoves DEF Dated, Services, StateType, OscType
    <2> QED  BY <1>12, <2>2, <2>3, <2>4, <2>5, <2>6, <2>7 DEF Request, StopSteps
  <1>13. ASSUME NEW t \in Threads, HoldSteps(t) PROVE Same
    <2> USE DEF HoldPlaces, StopPlaces, FailPlaces
    <2>1. In(t, FailPlaces \cup {"reject", "rejectAny"} \cup HoldPlaces)
      BY <1>13 DEF HoldSteps, FailEnter, FailPublish, RunStop, RunStopRow, RunStopHold, Reject,
                   HoldPending, HoldRow, HoldSent
    <2>2. th[t].ret \in {"unlock", "tail", "retry", "finish", "exit", "final", "loop", "idle"}
      BY <1>1, <2>1, ReturnPlaces
    <2>3. ASSUME Back(t) PROVE Same
      BY <1>8, <1>9, <2>1, <2>2, <2>3
    <2>4. ASSUME NEW l, MovesTo(t, l), l \notin Resting \cup {"commit"} PROVE Same
      BY <1>9, <2>1, <2>4
    <2>5. ASSUME Rested(t, "idle") PROVE Same
      BY <1>8, <2>5
    <2>6. Reject(t) => Same
      <3>1. Reject(t) => \/ Back(t)
                         \/ /\ Moved(t, "pend", IF th[t].at = owner THEN rev ELSE th[t].ep,
                                     th[t].at, th[t].ret)
                            /\ rev' = rev + 1
        BY HoldMoves DEF Reject
      <3>2. ASSUME NEW e \in Nat, Moved(t, "pend", e, th[t].at, th[t].ret), e =< rev,
                   th[t].ep # 0 => e # 0, rev' = rev + 1
            PROVE  Same
        <4>1. Mover(t) /\ th'[t].pc = "pend" /\ th'[t].ep = e /\ th'[t].at = th[t].at
          BY <3>2
        <4>2. e # rev'
          BY <1>1, <3>2 DEF StateType
        <4>3. t \in {"worker", "exec", "prime"} => e # 0 /\ th[t].at # 0
          BY <1>1, <2>1, <3>2 DEF Dated
        <4>4. e =< rev' /\ th[t].at =< opened' /\ th[t].at =< owner'
          BY <1>1, <1>2, <1>3, <2>1, <3>2 DEF Dated, StateType, OscType
        <4> QED  BY <1>7, <4>1, <4>2, <4>3, <4>4 DEF Dated
      <3>3. /\ th[t].ep \in Nat /\ th[t].ep =< rev /\ rev \in Nat
            /\ (th[t].ep # 0 => rev # 0)
        BY <1>1 DEF Dated, StateType
      <3> QED  BY <2>3, <3>1, <3>2, <3>3
    <2> HIDE DEF Back, MovesTo, Rested
    <2> QED  BY <1>13, <2>3, <2>4, <2>5, <2>6, HoldMoves DEF HoldSteps
  <1>14. ASSUME WorkerSteps \/ RtcError PROVE Same
    <2>1. /\ {"worker", "exec", "health"} \subseteq Threads /\ WorkerAt(th["worker"])
      BY <1>1, ThreadsExist, HomeOf DEF Services, PlaceInv
    <2>2. RtcPick \/ ChunkAsk => Same
      BY <1>10, <2>1, WorkerMoves DEF RtcPick, ChunkAsk
    <2>3. ASSUME NEW l, MovesTo("worker", l), l \notin Resting \cup {"commit"},
                 ~In("worker", {"loop", "idle", "commit"})
          PROVE  Same
      BY <1>9, <2>1, <2>3
    <2>4. ASSUME NEW l, Rested("worker", l), l \in Resting PROVE Same
      BY <1>8, <2>1, <2>4
    <2>5. RtcMake \/ RtcExit \/ RtcFinish \/ ChunkRow \/ ChunkCheck \/ ChunkSend \/ ChunkDone
          \/ ChunkFinal => Same
      <3> HIDE DEF MovesTo, Rested
      <3> QED
        BY <2>3, <2>4, WorkerMoves
           DEF RtcMake, RtcExit, RtcFinish, ChunkRow, ChunkCheck, ChunkSend, ChunkDone, ChunkFinal
    <2>6. RtcError \/ ChunkRefused => Same
      BY <1>9, <2>1, <2>4, WorkerMoves DEF RtcError, ChunkRefused
    <2>7. ChunkAnswer => Same
      BY <1>9, <2>1, <2>3, <2>4, WorkerMoves DEF ChunkAnswer, WorkerAt
    <2>8. ChunkEnded => Same
      BY <1>10, <2>1, <2>4, WorkerMoves DEF ChunkEnded
    <2>9. RtcObserve \/ RtcEnable => Same
      <3>1. ASSUME NEW l, NEW t \in {"exec", "health"}, NEW m, Spawned(l, t, m),
                   {l, m} \cap (Resting \cup {"commit"}) = {},
                   ~In("worker", {"loop", "idle", "commit"})
            PROVE  Same
        <4>1. ASSUME NEW u \in Threads PROVE Dated(u, th[u])'
          BY <1>1, <1>2, <1>3, <1>6, <2>1, <3>1 DEF Dated, Spawned, StateType, OscType
        <4> QED  BY <4>1
      <3> QED  BY <3>1, RunMoves DEF RtcObserve, RtcEnable
    <2> QED  BY <1>14, <2>2, <2>5, <2>6, <2>7, <2>8, <2>9 DEF WorkerSteps
  <1>15. ASSUME ExecSteps \/ ExecError \/ HealthStep PROVE Same
    <2>1. {"exec", "health"} \subseteq Threads
      BY ThreadsExist DEF Services
    <2>2. ExecError \/ ExecRefused \/ ExecGone => Same
      BY <1>8, <1>9, <2>1, ExecMoves DEF ExecError, ExecRefused, ExecGone
    <2>3. ExecRow \/ ExecLive \/ ExecSend \/ ExecDone => Same
      BY <1>9, <2>1, ExecMoves DEF ExecRow, ExecLive, ExecSend, ExecDone
    <2>4. HealthStep => Same
      BY <1>8, <1>9, <2>1, ExecMoves DEF HealthStep
    <2> QED  BY <1>15, <2>2, <2>3, <2>4 DEF ExecSteps
  <1>16. ASSUME SideSteps \/ GripFault PROVE Same
    <2>1. {"prime", "grip", "observer"} \subseteq Threads
      BY ThreadsExist DEF Services
    <2>2. PrimeReady \/ PrimeSend => Same
      BY <1>8, <1>9, <2>1, SideMoves DEF PrimeReady, PrimeSend
    <2>7. PrimeDone \/ PrimeClose => Same
      BY <1>8, <1>9, <2>1, SideMoves DEF PrimeDone, PrimeClose
    <2>3. GripTake => Same
      <3>1. GripTake => Moved("grip", "check", job, owner, "idle")
        BY SideMoves
      <3> QED  BY <1>1, <1>2, <1>3, <1>7, <2>1, <3>1 DEF Dated, StateType, OscType
    <2>4. GripCheck \/ GripReturn => Same
      BY <1>8, <1>9, <2>1, SideMoves DEF GripCheck, GripReturn
    <2>5. GripFault => Same
      BY <1>6, <1>10, <2>1, SideMoves
    <2>6. GripFaultRow \/ GripFaultEnd => Same
      BY <1>8, <1>9, <2>1, SideMoves DEF GripFaultRow, GripFaultEnd
    <2> QED  BY <1>16, <2>2, <2>3, <2>4, <2>5, <2>6, <2>7 DEF SideSteps
  <1>17. Same
    BY <1>11, <1>12, <1>13, <1>14, <1>15, <1>16 DEF Next, Failures, Progress
  <1> QED  BY <1>3, <1>4, <1>5, <1>17 DEF Dated, DateInv

------------------------------------------------------------------------------
\* Who works for a run has its object.

\* What a run has been told stays true of it.
LEMMA FlagsStay ==
  ASSUME Typed, CancelInv, Next, NEW e \in 1..current
  PROVE  /\ run[e].cancel => run'[e].cancel
         /\ run[e].finished => run'[e].finished
         /\ run[e].confirmed => run'[e].confirmed
  <1>0. RunChanges
    BY Changes
  <1>1. /\ RunType /\ rev \in Nat /\ current \in Nat /\ current =< rev
        /\ In("worker", {"make"}) /\ th["worker"].ep = rev => current # rev
        /\ e \in Runs /\ run \in [Runs -> RunRecords]
    BY ThreadsExist, PolicyAssumption
       DEF Typed, RunType, StateType, CancelInv, Tied, In, Runs, Services
  <1>2. CASE RtcMake
    <2>1. \/ UNCHANGED run
          \/ e # rev /\ \E r : run' = [run EXCEPT ![rev] = r]
      BY <1>1, <1>2 DEF RtcMake, rtc
    <2> QED  BY <1>1, <2>1
  <1>3. CASE ~RtcMake
    <2>1. \/ UNCHANGED run
          \/ \E f : \/ run' = [run EXCEPT ![f].cancel = TRUE]
                    \/ run' = [run EXCEPT ![f].finished = TRUE]
                    \/ run' = [run EXCEPT ![f].confirmed = TRUE]
      BY <1>0, <1>3 DEF RunChanges, RtcExit, RtcFinish, StopCancel, FailEnter,
                        RunStopRow, RunStopHold, Confirms, Cancels
    <2>2. run[e] \in RunRecords
      BY <1>1
    <2> QED  BY <1>1, <2>1, <2>2 DEF RunRecords
  <1> QED  BY <1>2, <1>3

LEMMA CancelKept ==
  ASSUME Typed, DateInv, CancelInv, Next
  PROVE  CancelInv'
  <1>0. /\ KindKept /\ RevChanges /\ RunChanges /\ CurrentChanges
    BY Changes
  <1>1. /\ StateType /\ RunType /\ ObjectInv /\ PlaceInv /\ th \in [Threads -> Locals]
        /\ \A t \in Threads : th[t] \in Locals /\ th[t].ep \in Nat /\ th[t].ep =< rev
        /\ \A t \in Threads : Tied(t, th[t]) /\ Home(t, th[t])
        /\ {"worker", "exec", "health", "prime", "grip", "observer"} \subseteq Threads
        /\ current \in Nat /\ current =< rev /\ rev \in Nat /\ MaxRev \in Nat
    BY ThreadsExist, PolicyAssumption
       DEF Typed, PlaceInv, Locals, DateInv, Dated, CancelInv, RunType, StateType, Runs, Services
  \* The runs.
  <1>3. current =< current' /\ current' \in Nat
    BY <1>0, <1>1 DEF CurrentChanges, RtcMake, rtc
  <1>4. ASSUME NEW e \in Runs, run'[e].finished \/ run'[e].confirmed PROVE run'[e].cancel
    <2>0. /\ run \in [Runs -> RunRecords] /\ run[e] \in RunRecords
          /\ run[e].finished \/ run[e].confirmed => run[e].cancel
      BY <1>1 DEF RunType, CancelInv
    <2>1. CASE UNCHANGED run
      BY <1>4, <2>0, <2>1
    <2>2. CASE RtcMake /\ ~UNCHANGED run
      <3>1. run' = [run EXCEPT ![rev] = [session |-> th["worker"].at, cancel |-> FALSE,
                                           finished |-> FALSE, confirmed |-> FALSE]]
        BY <2>2 DEF RtcMake, rtc
      <3> QED  BY <1>4, <2>0, <3>1
    <2>3. ASSUME NEW f, run' = [run EXCEPT ![f].cancel = TRUE] PROVE run'[e].cancel
      BY <1>4, <2>0, <2>3 DEF RunRecords
    <2>4. ASSUME NEW t \in Threads, HasObject(t, th[t]), In(t, {"joined"} \cup StopPlaces),
                 \/ run' = [run EXCEPT ![th[t].ep].finished = TRUE]
                 \/ run' = [run EXCEPT ![th[t].ep].confirmed = TRUE]
          PROVE  run'[e].cancel
      <3>1. run[th[t].ep].cancel
        BY <1>1, <2>4 DEF Tied, In
      <3> QED  BY <1>4, <2>0, <2>4, <3>1 DEF RunRecords
    <2> QED
      <3>1. RtcExit \/ (\E h \in Http : StopCancel(h)) \/ (\E t \in Threads : FailEnter(t)) =>
              UNCHANGED run \/ \E f : run' = [run EXCEPT ![f].cancel = TRUE]
        BY DEF RtcExit, StopCancel, FailEnter, Cancels
      <3>2. RtcFinish => run'[e].cancel
        BY <1>1, <2>4 DEF RtcFinish, HasObject, In
      <3>3. ASSUME NEW t \in Threads, RunStopRow(t) \/ RunStopHold(t)
            PROVE  UNCHANGED run \/ run'[e].cancel
        BY <2>4, <3>3 DEF RunStopRow, RunStopHold, Confirms, HasObject, In, FailPlaces, StopPlaces
      <3> QED  BY <1>0, <2>1, <2>2, <2>3, <3>1, <3>2, <3>3 DEF RunChanges
  <1>5. rev =< rev' /\ rev' \in Nat
    BY <1>0, <1>1 DEF RevChanges, StartCommit, StopBegin, Reject
  <1>6. RtcMake => th'["worker"].pc # "make"
    BY WorkerMoves DEF RtcMake, Moved, MovesTo, Rested
  \* The threads.
  <1> USE DEF Mover, Moved, MovesTo, Rested, Called, Back, Resting, In
  <1> DEFINE Same == \A u \in Threads : Tied(u, th[u])'
  <1>7. ASSUME NEW u \in Threads, th'[u] = th[u] PROVE Tied(u, th[u])'
    BY <1>0, <1>1, <1>3, <1>5, <1>6, <1>7, FlagsStay DEF Tied, HasObject, CurrentChanges
  <1>8. ASSUME NEW t \in Threads, Mover(t), ~HasObject(t, th'[t]), th'[t].pc # "make"
        PROVE  Same
    BY <1>7, <1>8 DEF Tied, HasObject
  <1>9. ASSUME NEW t \in Threads, NEW l, NEW b, Called(t, l, b), HasObject(t, th[t]),
               l # "make",
               \/ l \notin {"failed", "joined"} \cup StopPlaces
               \/ In(t, {"failed", "joined"} \cup StopPlaces)
               \/ run'[th[t].ep].cancel
        PROVE  Same
    BY <1>1, <1>3, <1>7, <1>9, FlagsStay DEF Tied
  <1>10. ASSUME NEW t \in Threads, NEW l, NEW e \in 1..current', NEW s, NEW b, Moved(t, l, e, s, b),
                l \notin {"make", "failed", "joined"} \cup StopPlaces
         PROVE  Same
    BY <1>7, <1>10 DEF Tied
  <1>11. ASSUME OscSession \/ Rest PROVE Same
    BY <1>7, <1>11 DEF OscSession, Rest, vars
  <1>12. ASSUME NEW h \in Http, Request(h) \/ StopSteps(h) PROVE Same
    <2>1. h \in Threads /\ h \notin Services /\ HttpAt(th[h])
      BY <1>1, ThreadsExist, HomeOf
    <2> USE DEF HasObject, HoldPlaces, StopPlaces, FailPlaces
    <2>2. StartCheck(h) \/ StartRead(h) \/ StartRefused(h) => Same
      BY <1>8, <2>1, HttpMoves DEF Services
    <2>3. StartCommit(h) => Same
      BY <1>1, <1>3, <1>5, <1>7, <2>1, CommitMoves DEF Tied, Services
    <2>4. StopBegin(h) => Same
      <3>1. ASSUME StopBegin(h), ~run[current].confirmed PROVE current \in 1..current'
        BY <1>1, <1>3, <3>1 DEF ObjectInv, NoRun
      <3> QED  BY <1>8, <1>10, <2>1, <3>1, HttpMoves DEF Services
    <2>5. StopCancel(h) => Same
      <3>1. ASSUME StopCancel(h) PROVE run'[th[h].ep].cancel
        BY <1>1, <2>1, <3>1 DEF StopCancel, Cancels, Tied, RunType, RunRecords, Runs
      <3> QED  BY <1>9, <2>1, <3>1, HttpMoves DEF StopCancel
    <2>6. StopTail(h) \/ StopFinish(h) \/ StopReturn(h) => Same
      BY <1>8, <2>1, HttpMoves DEF Services
    <2> QED  BY <1>12, <2>2, <2>3, <2>4, <2>5, <2>6 DEF Request, StopSteps
  <1>13. ASSUME NEW t \in Threads, HoldSteps(t) PROVE Same
    <2> USE DEF HasObject, HoldPlaces, StopPlaces, FailPlaces
    <2>1. In(t, FailPlaces \cup {"reject", "rejectAny"} \cup HoldPlaces)
      BY <1>13 DEF HoldSteps, FailEnter, FailPublish, RunStop, RunStopRow, RunStopHold, Reject,
                   HoldPending, HoldRow, HoldSent
    <2>2. /\ th[t].ret \in {"unlock", "tail", "retry", "finish", "exit", "final", "loop", "idle"}
          /\ t \in {"exec", "health"} => th[t].ret = "idle" /\ In(t, FailPlaces)
          /\ t = "worker" /\ th[t].ret = "exit" => In(t, FailPlaces)
      BY <1>1, <2>1, ReturnPlaces DEF Home, WorkerAt, ExecAt, HealthAt
    <2>3. ASSUME Back(t) PROVE Same
      <3>1. (th[t].ret = "exit" /\ t = "worker") \/ ~HasObject(t, th'[t])
        BY <2>2, <2>3
      <3> QED  BY <1>8, <1>9, <2>2, <2>3, <3>1
    <2>4. ASSUME NEW l \in StopPlaces, MovesTo(t, l), In(t, {"failed"} \cup StopPlaces) PROVE Same
      BY <1>9, <2>4
    <2>5. FailEnter(t) => Same
      <3>1. ASSUME FailEnter(t), ~run[th[t].ep].cancel PROVE run'[th[t].ep].cancel
        BY <1>1, <3>1 DEF FailEnter, Cancels, Tied, RunType, RunRecords, Runs
      <3> QED  BY <1>9, <2>3, <3>1, HoldMoves DEF FailEnter
    <2>6. FailPublish(t) \/ RunStop(t) \/ RunStopRow(t) \/ RunStopHold(t) => Same
      <3>1. Rested(t, "idle") /\ t \in Http => Same
        BY <1>8, ThreadsExist DEF Services
      <3> HIDE DEF Back, MovesTo, Rested
      <3> QED  BY <2>3, <2>4, <3>1, HoldMoves DEF FailPublish, RunStop, RunStopRow, RunStopHold
    <2>7. Reject(t) \/ HoldPending(t) \/ HoldRow(t) \/ HoldSent(t) => Same
      <3>1. Reject(t) \/ HoldPending(t) \/ HoldRow(t) \/ HoldSent(t) => t \notin {"exec", "health"}
        BY <2>2 DEF Reject, HoldPending, HoldRow, HoldSent
      <3>2. Rested(t, "idle") /\ t \in Http => Same
        BY <1>8, ThreadsExist DEF Services
      <3>3. ASSUME NEW l \in HoldPlaces, NEW e, NEW s, NEW b, Moved(t, l, e, s, b),
                   t \notin {"exec", "health"}
            PROVE  Same
        BY <1>8, <3>3
      <3>4. /\ Reject(t) => Back(t) \/ \E e, s, b : Moved(t, "pend", e, s, b)
            /\ HoldPending(t) => MovesTo(t, "holdRow")
            /\ HoldRow(t) => Back(t) \/ MovesTo(t, "holdSent")
            /\ HoldSent(t) => Back(t) \/ (t \in Http /\ Rested(t, "idle"))
        BY HoldMoves
      <3> QED  BY <2>3, <3>1, <3>2, <3>3, <3>4
    <2> QED  BY <1>13, <2>5, <2>6, <2>7 DEF HoldSteps
  <1>14. ASSUME WorkerSteps \/ RtcError PROVE Same
    <2>1. /\ {"worker", "exec", "health"} \subseteq Threads /\ WorkerAt(th["worker"])
          /\ Tied("worker", th["worker"])
      BY <1>1, HomeOf
    <2> USE DEF HasObject, HoldPlaces, StopPlaces, FailPlaces
    <2>2. ASSUME NEW l, NEW e, NEW s, NEW b, Moved("worker", l, e, s, b),
                 l \in {"loop", "asked", "rows", "row", "send", "sent", "refused", "reject",
                        "rejectAny", "final", "ended", "pend"}
          PROVE  Same
      BY <1>8, <2>1, <2>2
    <2>3. RtcPick => Same
      <3>1. ASSUME RtcPick, NEW u \in Threads PROVE Tied(u, th[u])'
        <4>1. CASE u = "worker"
          <5>1. /\ th'[u].pc = "make" /\ th'[u].ep = rev /\ current # rev /\ current' = current
                /\ rev' = rev
            BY <3>1, <4>1, WorkerMoves DEF RtcPick, rtc, state
          <5> QED  BY <4>1, <5>1 DEF Tied
        <4>2. CASE u # "worker"
          BY <1>7, <3>1, <4>2, WorkerMoves
        <4> QED  BY <4>1, <4>2
      <3> QED  BY <3>1
    <2>4. RtcMake => Same
      <3>1. RtcMake => \/ Rested("worker", "loop")
                       \/ /\ MovesTo("worker", "boot") /\ th["worker"].ep = rev
                          /\ current' = rev /\ Active
        BY WorkerMoves DEF RtcMake
      <3>2. Active => rev \in 1..rev
        BY <1>1 DEF DateInv
      <3> QED  BY <1>10, <2>1, <2>2, <3>1, <3>2
    <2>5. RtcObserve \/ RtcEnable => Same
      <3>1. ASSUME NEW l \in {"infer", "plan"}, NEW t \in {"exec", "health"},
                   NEW m \in {"beat", "wait"}, Spawned(l, t, m), In("worker", {"boot", "infer"})
            PROVE  Same
        <4>1. ASSUME NEW u \in Threads PROVE Tied(u, th[u])'
          BY <1>1, <1>3, <1>7, <2>1, <3>1, <4>1 DEF Tied, Spawned
        <4> QED  BY <4>1
      <3> QED  BY <3>1, RunMoves DEF RtcObserve, RtcEnable
    <2>6. RtcError => Same
      BY <1>9, <2>1, WorkerMoves DEF RtcError
    <2>7. RtcExit => Same
      <3>1. ASSUME RtcExit PROVE run'[th["worker"].ep].cancel /\ HasObject("worker", th["worker"])
        BY <1>1, <2>1, <3>1 DEF RtcExit, Cancels, Tied, RunType, RunRecords, Runs
      <3> QED  BY <1>9, <2>1, <3>1, WorkerMoves
    <2>8. RtcFinish \/ ChunkAsk \/ ChunkRow \/ ChunkCheck \/ ChunkSend \/ ChunkDone \/ ChunkFinal
          => Same
      BY <2>2, WorkerMoves
    <2>9. ChunkAnswer \/ ChunkRefused \/ ChunkEnded => Same
      BY <2>1, <2>2, WorkerMoves DEF ChunkAnswer, WorkerAt
    <2> QED  BY <1>14, <2>3, <2>4, <2>5, <2>6, <2>7, <2>8, <2>9 DEF WorkerSteps
  <1>15. ASSUME ExecSteps \/ ExecError \/ HealthStep PROVE Same
    <2>1. {"exec", "health"} \subseteq Threads
      BY <1>1
    <2> USE DEF HasObject, HoldPlaces, StopPlaces, FailPlaces
    <2>2. ExecError \/ ExecRefused \/ ExecGone => Same
      BY <1>8, <1>9, <2>1, ExecMoves DEF ExecError, ExecRefused, ExecGone
    <2>3. ExecRow \/ ExecLive \/ ExecSend \/ ExecDone => Same
      BY <1>9, <2>1, ExecMoves DEF ExecRow, ExecLive, ExecSend, ExecDone
    <2>4. HealthStep => Same
      BY <1>8, <1>9, <2>1, ExecMoves DEF HealthStep
    <2> QED  BY <1>15, <2>2, <2>3, <2>4 DEF ExecSteps
  <1>16. ASSUME SideSteps \/ GripFault PROVE Same
    <2>1. {"prime", "grip", "observer"} \subseteq Threads
      BY <1>1
    <2> USE DEF HasObject, HoldPlaces, StopPlaces, FailPlaces
    <2>2. ASSUME NEW t \in {"prime", "grip", "observer"}, NEW l, NEW e, NEW s, NEW b,
                 Moved(t, l, e, s, b), l \notin {"make", "cancel"} \cup FailPlaces
          PROVE  Same
      BY <1>8, <2>1, <2>2
    <2>3. PrimeReady \/ PrimeSend \/ PrimeDone \/ PrimeClose => Same
      BY <2>2, SideMoves
    <2>4. GripTake \/ GripCheck => Same
      BY <2>2, SideMoves
    <2>5. GripReturn => Same
      <3>1. GripReturn => \/ Rested("grip", "idle") \/ Called("grip", "reject", "idle")
                          \/ /\ Called("grip", "fail", "idle")
                             /\ mode = "rtc" /\ current = rev /\ th["grip"].ep = rev /\ Active
        BY SideMoves DEF Active
      <3>2. Active => rev \in 1..rev
        BY <1>1 DEF DateInv
      <3> QED  BY <1>3, <1>10, <2>1, <2>2, <3>1, <3>2
    <2>6. GripFault => Same
      BY <1>7, <2>2, SideMoves
    <2>7. GripFaultRow \/ GripFaultEnd => Same
      BY <2>2, SideMoves
    <2> QED  BY <1>16, <2>3, <2>4, <2>5, <2>6, <2>7 DEF SideSteps
  <1>17. Same
    BY <1>11, <1>12, <1>13, <1>14, <1>15, <1>16 DEF Next, Failures, Progress
  <1> QED  BY <1>4, <1>17 DEF CancelInv, Tied, HasObject

------------------------------------------------------------------------------
\* Who moves whom, and into which of the places the properties speak of.

LEMMA WhoMoves ==
  ASSUME Typed, Next
  PROVE  /\ \/ UNCHANGED th["worker"]
            \/ WorkerSteps \/ RtcError \/ HoldSteps("worker")
         /\ \/ UNCHANGED th["exec"]
            \/ ExecSteps \/ ExecError \/ RtcEnable \/ HoldSteps("exec")
         /\ \/ UNCHANGED th["prime"]
            \/ PrimeReady \/ PrimeSend \/ PrimeDone \/ PrimeClose \/ HoldSteps("prime")
            \/ \E h \in Http : StartCommit(h)
         /\ \A h \in Http : \/ UNCHANGED th[h]
                            \/ Request(h) \/ StopSteps(h) \/ HoldSteps(h)
  <1> USE DEF Moved, MovesTo, Rested, Called, Back
  <1> DEFINE Own(t) == \A u \in Threads : u # t => th'[u] = th[u]
  <1>1. /\ {"worker", "exec", "health", "prime", "grip", "observer"} \subseteq Threads
        /\ \A h \in Http : h \in Threads /\ h \notin Services
    BY ThreadsExist DEF Services
  <1>2. OscSession \/ Rest => UNCHANGED th
    BY DEF OscSession, Rest, vars
  <1>3. ASSUME NEW h \in Http, Request(h) \/ StopSteps(h), ~StartCommit(h) PROVE Own(h)
    BY <1>3, HttpMoves DEF Request, StopSteps
  <1>4. ASSUME NEW h \in Http, StartCommit(h)
        PROVE  \A u \in Threads \ {h, "prime"} : th'[u] = th[u]
    BY <1>4, CommitMoves
  <1>5. ASSUME NEW t \in Threads, HoldSteps(t) PROVE Own(t)
    BY <1>5, HoldMoves DEF HoldSteps
  <1>6. ASSUME WorkerSteps \/ RtcError, ~RtcObserve, ~RtcEnable PROVE Own("worker")
    BY <1>6, WorkerMoves DEF WorkerSteps
  <1>7. RtcObserve => \A u \in Threads \ {"worker", "health"} : th'[u] = th[u]
    BY RunMoves DEF Spawned
  <1>8. RtcEnable => \A u \in Threads \ {"worker", "exec"} : th'[u] = th[u]
    BY RunMoves DEF Spawned
  <1>9. ExecSteps \/ ExecError => Own("exec")
    BY ExecMoves DEF ExecSteps
  <1>10. HealthStep => Own("health")
    BY ExecMoves
  <1>11. PrimeReady \/ PrimeSend \/ PrimeDone \/ PrimeClose => Own("prime")
    BY SideMoves
  <1>12. GripTake \/ GripCheck \/ GripReturn => Own("grip")
    BY SideMoves
  <1>13. GripFault \/ GripFaultRow \/ GripFaultEnd => Own("observer")
    BY SideMoves
  <1> HIDE DEF Own
  <1>14. \/ UNCHANGED th
         \/ \E h \in Http : (Request(h) \/ StopSteps(h)) /\ Own(h)
         \/ \E h \in Http : Request(h) /\ StartCommit(h)
         \/ \E t \in Threads : HoldSteps(t) /\ Own(t)
         \/ (WorkerSteps \/ RtcError) /\ Own("worker")
         \/ WorkerSteps /\ (RtcObserve \/ RtcEnable)
         \/ (ExecSteps \/ ExecError) /\ Own("exec")
         \/ Own("health") \/ Own("grip") \/ Own("observer")
         \/ (PrimeReady \/ PrimeSend \/ PrimeDone \/ PrimeClose) /\ Own("prime")
    BY <1>2, <1>3, <1>5, <1>6, <1>9, <1>10, <1>11, <1>12, <1>13
       DEF Next, Failures, Progress, SideSteps, Request, WorkerSteps
  <1> QED  BY <1>1, <1>4, <1>7, <1>8, <1>14 DEF Own, Services

LEMMA HoldLeads ==
  ASSUME Typed, NEW t \in Threads, HoldSteps(t)
  PROVE  /\ In(t, FailPlaces \cup {"reject", "rejectAny"} \cup HoldPlaces) /\ t # "prime"
         /\ th'[t].pc \in FailPlaces \cup HoldPlaces \cup
              {"unlock", "tail", "retry", "finish", "exit", "final", "loop", "idle"}
  <1> USE DEF HoldPlaces, StopPlaces, FailPlaces, In
  <1>1. In(t, FailPlaces \cup {"reject", "rejectAny"} \cup HoldPlaces)
    BY DEF HoldSteps, FailEnter, FailPublish, RunStop, RunStopRow, RunStopHold, Reject,
           HoldPending, HoldRow, HoldSent
  <1>2. /\ PlaceInv
        /\ th[t].ret \in {"unlock", "tail", "retry", "finish", "exit", "final", "loop", "idle"}
    BY <1>1, ReturnPlaces DEF Typed
  <1>3. t # "prime"
    BY <1>1, <1>2, HomeOf DEF PlaceInv, PrimeAt
  <1>4. th'[t].pc \in {th[t].ret, "idle"} \cup FailPlaces \cup HoldPlaces
    BY <1>2, HoldMoves DEF HoldSteps, Back, Moved, MovesTo, Rested
  <1> QED  BY <1>1, <1>2, <1>3, <1>4

LEMMA Sends ==
  ASSUME Typed, Next
  PROVE  /\ th'["worker"].pc = "send" => UNCHANGED th["worker"] \/ ChunkCheck
         /\ th'["exec"].pc = "send" => UNCHANGED th["exec"] \/ ExecLive
         /\ th'["prime"].pc = "send" => UNCHANGED th["prime"] \/ PrimeReady
         /\ th'["prime"].pc # "idle" =>
              \/ /\ th["prime"].pc # "idle"
                 /\ th'["prime"].ep = th["prime"].ep /\ th'["prime"].at = th["prime"].at
              \/ /\ \E h \in Http : StartCommit(h)
                 /\ priming' /\ mode # "rtc" /\ th'["prime"].pc = "prime"
                 /\ th'["prime"].ep = rev' /\ th'["prime"].at = owner'
         /\ \A h \in Http : th'[h].pc \in {"read", "commit"} =>
              UNCHANGED th[h] \/ StartCheck(h) \/ StartRead(h)
  <1> USE DEF Moved, MovesTo, Rested, Called, Back, HoldPlaces, StopPlaces, FailPlaces
  <1>1. /\ {"worker", "exec", "health", "prime", "grip", "observer"} \subseteq Threads
        /\ \A h \in Http : h \in Threads /\ h \notin Services
        /\ WorkerAt(th["worker"]) /\ ExecAt(th["exec"]) /\ PrimeAt(th["prime"])
    BY ThreadsExist, HomeOf DEF Services, Typed, PlaceInv
  <1>2. ASSUME th'["worker"].pc = "send" PROVE UNCHANGED th["worker"] \/ ChunkCheck
    <2>1. ~HoldSteps("worker")
      BY <1>1, <1>2, HoldLeads
    <2>2. RtcObserve \/ RtcEnable => th'["worker"].pc # "send"
      BY RunMoves DEF Spawned
    <2>3. ASSUME WorkerSteps \/ RtcError, ~RtcObserve, ~RtcEnable PROVE ChunkCheck
      <3>1. ChunkAnswer => In("worker", {"asked"})
        BY DEF ChunkAnswer
      <3> QED  BY <1>1, <1>2, <2>3, <3>1, WorkerMoves DEF WorkerSteps, WorkerAt, In
    <2> QED  BY <1>2, <2>1, <2>2, <2>3, WhoMoves
  <1>3. ASSUME th'["exec"].pc = "send" PROVE UNCHANGED th["exec"] \/ ExecLive
    <2>1. ~HoldSteps("exec")
      BY <1>1, <1>3, HoldLeads
    <2>2. RtcEnable => th'["exec"].pc # "send"
      BY RunMoves DEF Spawned
    <2>3. ASSUME ExecSteps \/ ExecError PROVE ExecLive
      BY <1>3, <2>3, ExecMoves DEF ExecSteps
    <2> QED  BY <1>3, <2>1, <2>2, <2>3, WhoMoves
  <1>4. ASSUME NEW h \in Http, th'[h].pc \in {"read", "commit"}
        PROVE  UNCHANGED th[h] \/ StartCheck(h) \/ StartRead(h)
    <2>1. ~HoldSteps(h)
      BY <1>1, <1>4, HoldLeads
    <2>2. StartCommit(h) => th'[h].pc = "idle"
      BY CommitMoves
    <2>3. ASSUME Request(h) \/ StopSteps(h) PROVE StartCheck(h) \/ StartRead(h)
      BY <1>4, <2>2, <2>3, HttpMoves DEF Request, StopSteps
    <2> QED  BY <2>1, <2>3, WhoMoves
  <1>5. ASSUME NEW h \in Http, StartCommit(h)
        PROVE  \/ UNCHANGED th["prime"]
               \/ /\ priming' /\ mode # "rtc" /\ th'["prime"].pc = "prime"
                  /\ th'["prime"].ep = rev' /\ th'["prime"].at = owner'
    BY <1>5, CommitMoves
  <1>6. ASSUME PrimeReady \/ PrimeSend \/ PrimeDone \/ PrimeClose
        PROVE  /\ th["prime"].pc # "idle"
               /\ th'["prime"].pc = "idle" \/ MovesTo("prime", th'["prime"].pc)
               /\ th'["prime"].pc = "send" => PrimeReady
    BY <1>1, <1>6, SideMoves DEF PrimeReady, PrimeSend, PrimeDone, PrimeClose, In
  <1>7. ~HoldSteps("prime")
    BY <1>1, HoldLeads
  <1>8. th'["prime"].pc = "send" => UNCHANGED th["prime"] \/ PrimeReady
    BY <1>5, <1>6, <1>7, WhoMoves
  <1>9. th'["prime"].pc # "idle" =>
              \/ /\ th["prime"].pc # "idle"
                 /\ th'["prime"].ep = th["prime"].ep /\ th'["prime"].at = th["prime"].at
              \/ /\ \E h \in Http : StartCommit(h)
                 /\ priming' /\ mode # "rtc" /\ th'["prime"].pc = "prime"
                 /\ th'["prime"].ep = rev' /\ th'["prime"].at = owner'
    BY <1>5, <1>6, <1>7, WhoMoves
  <1> QED  BY <1>2, <1>3, <1>4, <1>8, <1>9

------------------------------------------------------------------------------
\* A HOLD speaks for runs that are over.

LEMMA SpeakKept ==
  ASSUME Typed, DateInv, CancelInv, SpeakInv, Next
  PROVE  SpeakInv'
  <1>0. /\ KindKept /\ RevChanges /\ Activates /\ CurrentChanges
    BY Changes
  <1>1. /\ StateType /\ RunType /\ ObjectInv /\ PlaceInv /\ th \in [Threads -> Locals]
        /\ \A t \in Threads : th[t] \in Locals /\ th[t].ep \in Nat /\ th[t].ep =< rev
                              /\ th[t].at \in Nat
        /\ \A t \in Threads : /\ Speaks(t, th[t]) /\ Home(t, th[t]) /\ Dated(t, th[t])
                              /\ Tied(t, th[t])
        /\ {"worker", "exec", "health", "prime", "grip", "observer"} \subseteq Threads
        /\ current \in Nat /\ rev \in Nat /\ owner \in Nat /\ job \in Nat /\ job =< rev
    BY ThreadsExist, PolicyAssumption
       DEF Typed, PlaceInv, Locals, DateInv, Dated, SpeakInv, RunType, StateType, Runs, Services,
           CancelInv
  <1>2. rev =< rev' /\ rev' \in Nat /\ (Active' => Active \/ rev' = rev + 1)
    BY <1>0, <1>1 DEF RevChanges, Activates, StartCommit, StopBegin, Reject
  <1>3. current' = 0 => current = 0
    BY <1>0, <1>1 DEF CurrentChanges, RtcMake, rtc, DateInv
  <1>4. th'["prime"].pc # "idle" =>
           \/ /\ th["prime"].pc # "idle" /\ th["prime"].ep # 0
              /\ th'["prime"].ep = th["prime"].ep /\ th'["prime"].at = th["prime"].at
              /\ th["prime"].at =< owner /\ th["prime"].ep \in Nat
           \/ th'["prime"].ep = rev + 1
    <2>1. \A h \in Http : StartCommit(h) => rev' = rev + 1
      BY DEF StartCommit
    <2>2. th["prime"].pc # "idle" =>
            th["prime"].ep # 0 /\ th["prime"].at =< owner /\ th["prime"].ep \in Nat
      BY <1>1, HomeOf DEF Dated, PrimeAt, Resting
    <2> QED  BY <2>1, <2>2, Sends
  <1> USE DEF Mover, Moved, MovesTo, Rested, Called, Back, Resting, In
  <1> DEFINE Same == \A u \in Threads : Speaks(u, th[u])'
             Sourced(t) == \/ th'[t].pc \in {"read", "commit"} \/ th'[t].ep = 0
                           \/ th'[t].ep =< rev /\ th'[t].at = owner
                           \/ \E u \in Threads : /\ th[u].pc \notin {"read", "commit"}
                                                 /\ th'[t].ep = th[u].ep /\ th'[t].at = th[u].at
             Good(t) == /\ t = "prime" \/ Sourced(t)
                        /\ th'[t].pc \in HoldPlaces => th'[t].ep < rev' \/ ~Active'
                        /\ th'[t].pc \in {"tail", "retry"} /\ current' = 0 => th'[t].ep < rev'
  <1>5. ASSUME NEW t \in Threads, Good(t) PROVE Speaks(t, th[t])'
    <2>1. ASSUME t # "prime", th'[t].pc \notin {"read", "commit"}, th'["prime"].pc # "idle",
                 th'["prime"].ep =< th'[t].ep
          PROVE  th'["prime"].at =< th'[t].at
      <3>1. CASE th'[t].ep = 0
        BY <1>1, <1>4, <2>1, <3>1
      <3>2. CASE th'[t].ep =< rev /\ th'[t].at = owner
        <4>1. PlaceInv'
          BY PlacesKept
        <4>2. th'[t].ep \in Nat
          BY <4>1 DEF PlaceInv, Locals
        <4> QED  BY <1>1, <1>4, <2>1, <3>2, <4>2
      <3>3. ASSUME NEW u \in Threads, th[u].pc \notin {"read", "commit"}, th'[t].ep = th[u].ep,
                   th'[t].at = th[u].at
            PROVE  th'["prime"].at =< th'[t].at
        BY <1>1, <1>4, <2>1, <3>3 DEF Speaks
      <3> QED  BY <1>5, <2>1, <3>1, <3>2, <3>3
    <2>2. th'["prime"].at =< th'["prime"].at
      <3>1. PlaceInv'
        BY PlacesKept
      <3> QED  BY <1>1, <3>1 DEF PlaceInv, Locals
    <2> QED  BY <1>5, <2>1, <2>2 DEF Speaks
  <1>6. ASSUME NEW t \in Threads, th'[t] = th[t] PROVE Good(t)
    BY <1>1, <1>2, <1>3, <1>6 DEF Speaks
  <1> HIDE DEF Good
  <1>7. ASSUME NEW t \in Threads, Mover(t), Good(t) PROVE Same
    BY <1>5, <1>6, <1>7
  <1>8. ASSUME NEW t \in Threads, Rested(t, th'[t].pc), th'[t].pc \in {"idle", "loop"}
        PROVE  Same
    BY <1>7, <1>8 DEF Good, HoldPlaces
  <1>9. ASSUME NEW t \in Threads, NEW l \in Places, NEW b, Called(t, l, b),
               l \notin HoldPlaces \/ In(t, HoldPlaces),
               l \notin {"tail", "retry"}, ~In(t, {"read", "commit"})
        PROVE  Same
    <2>1. Sourced(t)
      BY <1>9
    <2> QED  BY <1>1, <1>2, <1>7, <1>9, <2>1 DEF Good, Speaks
  <1>10. ASSUME NEW t \in Threads, NEW l, NEW e, NEW b, Moved(t, l, e, owner, b),
                e \in Nat, e =< rev,
                \/ l \notin HoldPlaces \cup {"tail", "retry"} \/ e < rev'
                \/ ~Active' /\ l \in HoldPlaces
         PROVE  Same
    BY <1>7, <1>10 DEF Good, HoldPlaces
  <1>11. ASSUME OscSession \/ Rest PROVE Same
    BY <1>5, <1>6, <1>11 DEF OscSession, Rest, vars
  <1>12. ASSUME NEW h \in Http, Request(h) \/ StopSteps(h) PROVE Same
    <2>1. h \in Threads /\ h \notin Services /\ HttpAt(th[h])
      BY <1>1, ThreadsExist, HomeOf
    <2>2. StartCheck(h) \/ StartRead(h) => Same
      BY <1>7, <2>1, HttpMoves DEF Good, HoldPlaces
    <2>3. StartRefused(h) \/ StopReturn(h) => Same
      BY <1>7, <2>1, HttpMoves DEF Good, HoldPlaces
    <2>4. StartCommit(h) => Same
      <3>1. ASSUME StartCommit(h), NEW u \in Threads PROVE Good(u)
        <4>1. CASE u \notin {h, "prime"}
          BY <1>6, <3>1, <4>1, CommitMoves
        <4>2. CASE u = h
          BY <3>1, <4>2, CommitMoves DEF Good, HoldPlaces
        <4>3. CASE u = "prime"
          BY <1>1, <1>6, <3>1, <4>3, CommitMoves DEF Good, HoldPlaces
        <4> QED  BY <4>1, <4>2, <4>3
      <3> QED  BY <1>5, <3>1
    <2>5. StopBegin(h) => Same
      <3>1. StopBegin(h) => rev' = rev + 1
        BY DEF StopBegin
      <3>2. ASSUME StopBegin(h)
            PROVE  \E l \in {"tail", "retry", "cancel"} : \E e, b :
                     Moved(h, l, e, owner, b) /\ e \in Nat /\ e =< rev /\ (l = "cancel" \/ e = rev)
        <4>1. CASE run[current].confirmed
          <5>1. Moved(h, IF Active THEN "tail" ELSE "retry", rev, owner, "idle")
            BY <3>2, <4>1, HttpMoves
          <5> QED  BY <1>1, <5>1
        <4>2. CASE ~run[current].confirmed
          <5>1. Moved(h, "cancel", current, owner, IF Active THEN "tail" ELSE "retry")
            BY <3>2, <4>2, HttpMoves
          <5> QED  BY <1>1, <5>1 DEF RunType
        <4> QED  BY <4>1, <4>2
      <3> QED  BY <1>1, <1>7, <2>1, <3>1, <3>2 DEF Good, HoldPlaces
    <2>6. StopCancel(h) => Same
      BY <1>9, <2>1, HttpMoves DEF StopCancel, HoldPlaces, Places
    <2>7. StopTail(h) => Same
      <3>1. ASSUME StopTail(h), current = 0 \/ mode # "rtc" PROVE th[h].ep < rev
        BY <1>1, <2>1, <3>1 DEF StopTail, Speaks, ObjectInv, Typed, KindType
      <3>2. ASSUME StopTail(h), Called(h, "pend", "finish"), current = 0 \/ mode # "rtc" PROVE Same
        BY <1>1, <1>2, <1>7, <2>1, <3>1, <3>2 DEF Good, HoldPlaces, StopTail
      <3>3. ASSUME StopTail(h), MovesTo(h, "finish") PROVE Same
        BY <1>9, <2>1, <3>3 DEF StopTail, HoldPlaces, Places
      <3> QED  BY <3>2, <3>3, HttpMoves
    <2>8. StopFinish(h) => Same
      BY <1>7, <2>1, HttpMoves DEF Good, HoldPlaces
    <2> QED  BY <1>12, <2>2, <2>3, <2>4, <2>5, <2>6, <2>7, <2>8 DEF Request, StopSteps
  <1>13. ASSUME NEW t \in Threads, HoldSteps(t) PROVE Same
    <2>1. In(t, FailPlaces \cup {"reject", "rejectAny"} \cup HoldPlaces)
      BY <1>13, HoldLeads
    <2>2. /\ th[t].ret \in {"unlock", "tail", "retry", "finish", "exit", "final", "loop", "idle"}
          /\ ~In(t, {"read", "commit"})
      BY <1>1, <2>1, ReturnPlaces DEF FailPlaces, HoldPlaces, StopPlaces
    <2>3. ASSUME Back(t) PROVE Same
      <3>1. CASE th[t].ret \in {"idle", "loop"}
        BY <1>7, <2>3, <3>1 DEF Good, HoldPlaces
      <3>2. CASE th[t].ret \in {"tail", "retry"}
        <4>1. In(t, FailPlaces)
          <5>1. t \in Http
            BY <1>1, <2>1, <3>2, ThreadsExist, HomeOf DEF Threads, Services, WorkerAt, ExecAt,
               HealthAt, GripAt, ObserverAt, PrimeAt, HoldPlaces, FailPlaces, StopPlaces
          <5>2. HttpAt(th[t])
            BY <1>1, <5>1, HomeOf
          <5> QED  BY <2>1, <3>2, <5>2 DEF HttpAt, FailPlaces, HoldPlaces, StopPlaces
        <4>2. current # 0
          BY <1>1, <4>1 DEF Tied, HasObject
        <4>3. Sourced(t)
          BY <2>2, <2>3, <3>2
        <4> QED  BY <1>3, <1>7, <2>3, <3>2, <4>2, <4>3 DEF Good, HoldPlaces
      <3>3. CASE th[t].ret \in {"unlock", "finish", "exit", "final"}
        BY <1>9, <2>2, <2>3, <3>3 DEF HoldPlaces, Places
      <3> QED  BY <2>2, <3>1, <3>2, <3>3
    <2>4. ASSUME NEW l \in {"failed"} \cup StopPlaces, MovesTo(t, l) PROVE Same
      BY <1>9, <2>2, <2>4 DEF StopPlaces, HoldPlaces, Places
    <2>5. ASSUME Rested(t, "idle") PROVE Same
      BY <1>7, <2>5 DEF Good, HoldPlaces
    <2>6. FailEnter(t) \/ FailPublish(t) \/ RunStop(t) \/ RunStopRow(t) \/ RunStopHold(t) => Same
      <3> HIDE DEF Back, MovesTo, Rested
      <3> QED  BY <2>3, <2>4, <2>5, HoldMoves DEF StopPlaces
    <2>7. Reject(t) => Same
      <3>1. ASSUME Reject(t), ~Back(t)
            PROVE  /\ Moved(t, "pend", IF th[t].at = owner THEN rev ELSE th[t].ep, th[t].at,
                         th[t].ret)
                   /\ ~Active'
        <4> HIDE DEF Back
        <4>1. ~(In(t, {"reject"}) /\ th[t].ep # rev)
          BY <3>1, HoldMoves
        <4> QED  BY <3>1, <4>1, HoldMoves DEF Reject, Active
      <3>2. ASSUME Reject(t), ~Back(t) PROVE Good(t)
        <4>1. Sourced(t)
          BY <1>1, <2>2, <3>1, <3>2
        <4> QED  BY <3>1, <3>2, <4>1 DEF Good
      <3> QED  BY <1>7, <2>3, <3>1, <3>2
    <2>8. HoldPending(t) => Same
      BY <1>9, HoldMoves DEF HoldPending, HoldPlaces, Places
    <2>9. HoldRow(t) \/ HoldSent(t) => Same
      <3>1. HoldRow(t) /\ MovesTo(t, "holdSent") => Same
        BY <1>9 DEF HoldRow, HoldPlaces, Places
      <3> HIDE DEF Back, MovesTo, Rested
      <3> QED  BY <2>3, <2>5, <3>1, HoldMoves
    <2> QED  BY <1>13, <2>6, <2>7, <2>8, <2>9 DEF HoldSteps
  <1>14. ASSUME WorkerSteps \/ RtcError PROVE Same
    <2>1. {"worker", "exec", "health"} \subseteq Threads /\ WorkerAt(th["worker"])
      BY <1>1, HomeOf
    <2>2. ASSUME NEW l \in Places \ ({"tail", "retry"} \cup HoldPlaces),
                 NEW b, Called("worker", l, b), ~In("worker", {"read", "commit"})
          PROVE  Same
      BY <1>9, <2>1, <2>2
    <2>3. ASSUME NEW l \in {"idle", "loop"}, Rested("worker", l) PROVE Same
      BY <1>7, <2>1, <2>3 DEF Good, HoldPlaces
    <2>4. RtcPick \/ ChunkAsk => Same
      <3>1. RtcPick \/ ChunkAsk =>
              \E l \in {"make", "asked"} : \E b : Moved("worker", l, rev, owner, b)
        BY WorkerMoves
      <3> HIDE DEF Moved
      <3> QED  BY <1>1, <1>10, <2>1, <3>1 DEF HoldPlaces
    <2>5. RtcMake \/ RtcError \/ RtcExit \/ RtcFinish => Same
      <3>1. RtcMake \/ RtcError \/ RtcExit \/ RtcFinish =>
              /\ In("worker", {"make", "boot", "infer", "plan", "exit", "joined"})
              /\ \/ Rested("worker", "loop")
                 \/ \E l \in {"boot", "fail", "joined"} : \E b : Called("worker", l, b)
        BY WorkerMoves DEF RtcMake, RtcError, RtcExit, RtcFinish
      <3> HIDE DEF Called, Rested
      <3> QED  BY <2>2, <2>3, <3>1 DEF HoldPlaces, Places
    <2>6. RtcObserve \/ RtcEnable => Same
      <3>1. ASSUME NEW l \in {"infer", "plan"}, NEW t \in {"exec", "health"},
                   NEW m \in {"beat", "wait"}, Spawned(l, t, m), In("worker", {"boot", "infer"}),
                   NEW u \in Threads
            PROVE  Good(u)
        BY <1>6, <2>1, <3>1 DEF Spawned, Good, HoldPlaces
      <3> QED  BY <1>5, <3>1, RunMoves DEF RtcObserve, RtcEnable
    <2>7. ChunkRow \/ ChunkCheck \/ ChunkSend \/ ChunkDone \/ ChunkFinal => Same
      <3>1. ChunkRow \/ ChunkCheck \/ ChunkSend \/ ChunkDone \/ ChunkFinal =>
              /\ In("worker", {"rows", "row", "send", "sent", "final"})
              /\ \/ Rested("worker", "loop")
                 \/ \E l \in {"row", "send", "sent", "refused", "rows", "ended"} : \E b :
                      Called("worker", l, b)
        BY WorkerMoves DEF ChunkRow, ChunkCheck, ChunkSend, ChunkDone, ChunkFinal
      <3> HIDE DEF Called, Rested
      <3> QED  BY <2>2, <2>3, <3>1 DEF HoldPlaces, Places
    <2>8. ChunkAnswer \/ ChunkRefused => Same
      <3>1. ChunkAnswer \/ ChunkRefused =>
              /\ In("worker", {"asked", "refused"})
              /\ \/ Rested("worker", "loop")
                 \/ \E l \in {"reject", "rejectAny", "rows"} : \E b : Called("worker", l, b)
        BY <2>1, WorkerMoves DEF ChunkAnswer, ChunkRefused, WorkerAt, HoldPlaces, FailPlaces,
                                 StopPlaces
      <3> HIDE DEF Called, Rested
      <3> QED  BY <2>2, <2>3, <3>1 DEF HoldPlaces, Places
    <2>9. ChunkEnded => Same
      <3>1. ChunkEnded => ~Active'
        BY DEF ChunkEnded, Active
      <3>2. ChunkEnded => \/ Rested("worker", "loop")
                          \/ Moved("worker", "pend", rev, owner, "loop")
        BY WorkerMoves
      <3> QED  BY <1>1, <1>10, <2>1, <2>3, <3>1, <3>2 DEF HoldPlaces
    <2> QED  BY <1>14, <2>4, <2>5, <2>6, <2>7, <2>8, <2>9 DEF WorkerSteps
  <1>15. ASSUME ExecSteps \/ ExecError \/ HealthStep PROVE Same
    <2>1. \E t \in {"exec", "health"} :
            /\ ~In(t, {"read", "commit"})
            /\ \/ Rested(t, "idle")
               \/ \E l \in {"fail", "row", "send", "sent", "refused", "wait"} :
                    \E b : Called(t, l, b)
      <3>1. ExecGone \/ ExecError \/ ExecRefused => \/ Rested("exec", "idle")
                                                  \/ Called("exec", "fail", "idle")
        BY ExecMoves
      <3>2. ExecRow \/ ExecLive \/ ExecSend \/ ExecDone =>
              \E l \in {"row", "send", "sent", "refused", "wait"} : \E b : Called("exec", l, b)
        BY ExecMoves
      <3>3. HealthStep => Rested("health", "idle") \/ Called("health", "fail", "idle")
        BY ExecMoves
      <3>4. ~In("exec", {"read", "commit"}) /\ ~In("health", {"read", "commit"})
        BY <1>1, HomeOf DEF ExecAt, HealthAt, FailPlaces, StopPlaces
      <3> HIDE DEF Called, Rested, In
      <3> QED  BY <1>15, <3>1, <3>2, <3>3, <3>4 DEF ExecSteps
    <2>2. PICK t \in {"exec", "health"} :
            /\ ~In(t, {"read", "commit"})
            /\ \/ Rested(t, "idle")
               \/ \E l \in {"fail", "row", "send", "sent", "refused", "wait"} :
                    \E b : Called(t, l, b)
      BY <2>1
    <2>3. Rested(t, "idle") => Same
      BY <1>1, <1>7 DEF Good, HoldPlaces
    <2> HIDE DEF Called, Rested, In
    <2> QED  BY <1>1, <1>9, <2>2, <2>3 DEF HoldPlaces, Places
  <1>16. ASSUME SideSteps \/ GripFault PROVE Same
    <2>1. {"prime", "grip", "observer"} \subseteq Threads /\ PrimeAt(th["prime"])
          /\ GripAt(th["grip"]) /\ ObserverAt(th["observer"])
      BY <1>1, HomeOf
    <2>2. ASSUME NEW t \in {"prime", "grip", "observer"}, Rested(t, "idle") PROVE Same
      BY <1>7, <2>1, <2>2 DEF Good, HoldPlaces
    <2>3. ASSUME NEW t \in {"prime", "grip", "observer"},
                 NEW l \in {"error", "send", "settle", "close", "reject", "fail", "rejectAny"},
                 NEW b, Called(t, l, b)
          PROVE  Same
      <3>1. ~In(t, {"read", "commit"})
        BY <2>1 DEF PrimeAt, GripAt, ObserverAt, HoldPlaces, FailPlaces, StopPlaces
      <3> HIDE DEF Called, In
      <3> QED  BY <1>9, <2>1, <2>3, <3>1 DEF HoldPlaces, Places
    <2>4. PrimeReady \/ PrimeSend \/ PrimeDone \/ PrimeClose => Same
      <3>1. PrimeReady \/ PrimeSend \/ PrimeDone \/ PrimeClose =>
              \/ Rested("prime", "idle")
              \/ \E l \in {"error", "send", "settle", "close"} : \E b : Called("prime", l, b)
        BY SideMoves
      <3> HIDE DEF Called, Rested
      <3> QED  BY <2>2, <2>3, <3>1
    <2>5. GripTake => Same
      <3> HIDE DEF Moved
      <3> QED  BY <1>1, <1>10, <2>1, SideMoves DEF HoldPlaces
    <2>6. GripCheck \/ GripReturn => Same
      <3>1. GripCheck \/ GripReturn =>
              \/ Rested("grip", "idle")
              \/ \E l \in {"send", "reject", "fail"} : \E b : Called("grip", l, b)
        BY SideMoves
      <3> HIDE DEF Called, Rested
      <3> QED  BY <2>2, <2>3, <3>1
    <2>7. GripFault => Same
      <3>1. GripFault => UNCHANGED th \/ Moved("observer", "fault", rev, owner, "unlock")
        BY SideMoves
      <3>2. UNCHANGED th => Same
        BY <1>5, <1>6
      <3> HIDE DEF Moved
      <3> QED  BY <1>1, <1>10, <2>1, <3>1, <3>2 DEF HoldPlaces
    <2>8. GripFaultRow \/ GripFaultEnd => Same
      <3>1. GripFaultRow \/ GripFaultEnd =>
              \/ Rested("observer", "idle")
              \/ \E l \in {"rejectAny"} : \E b : Called("observer", l, b)
        BY SideMoves
      <3> HIDE DEF Called, Rested
      <3> QED  BY <2>2, <2>3, <3>1
    <2> QED  BY <1>16, <2>4, <2>5, <2>6, <2>7, <2>8 DEF SideSteps
  <1>17. Same
    BY <1>11, <1>12, <1>13, <1>14, <1>15, <1>16 DEF Next, Failures, Progress
  <1> QED  BY <1>17 DEF SpeakInv

------------------------------------------------------------------------------
\* start() and the capture.

\* Revisions only grow, one at a time; only an accepted start() activates a run,
\* opens a capture or changes the owner, and any other new revision ends the run.
LEMMA Grows ==
  ASSUME Typed, Next
  PROVE  /\ rev \in Nat /\ rev' \in Nat /\ rev =< rev' /\ (bare => bare')
         /\ \/ rev' = rev /\ owner' = owner /\ (Active' => Active) /\ (capture' => capture)
            \/ rev' = rev + 1 /\ owner' = owner /\ ~Active' /\ (capture' => capture)
            \/ \E h \in Http : StartCommit(h) /\ rev' = rev + 1
  <1>0. /\ RevChanges /\ Activates /\ CaptureChanges
    BY Changes
  <1>1. rev \in Nat /\ StateType
    BY DEF Typed, StateType
  <1>2. CASE \E h \in Http : StartCommit(h)
    <2>1. PICK h \in Http : StartCommit(h)
      BY <1>2
    <2>2. rev' = rev + 1
      BY <2>1 DEF StartCommit
    <2>3. bare => bare'
      BY <2>1, Zenon DEF StartCommit
    <2> QED  BY <1>1, <2>1, <2>2, <2>3
  <1>3. CASE ~\E h \in Http : StartCommit(h)
    <2>1. (bare => bare') /\ (capture' => capture)
      BY <1>0, <1>1, <1>3 DEF CaptureChanges, StateType, RtcFinish, ChunkFinal, PrimeClose,
                              StopFinish, HoldRow, HoldSent, HoldOver
    <2>2. \/ rev' = rev /\ owner' = owner
          \/ rev' = rev + 1 /\ owner' = owner /\ ~Active'
      BY <1>0, <1>3 DEF RevChanges, StopBegin, Reject, Active
    <2> QED  BY <1>0, <1>1, <1>3, <2>1, <2>2 DEF Activates
  <1> QED  BY <1>2, <1>3

LEMMA StartKept ==
  ASSUME Typed, DateInv, StartInv, Next
  PROVE  StartInv'
  <1>1. ASSUME NEW h \in Http, In(h, {"read", "commit"})', th'[h].ep = rev' PROVE ~capture'
    <2>1. h \in Threads /\ th[h].ep =< rev /\ th[h].ep \in Nat
      BY ThreadsExist DEF DateInv, Dated, Typed, PlaceInv, Locals
    <2>2. CASE StartCheck(h)
      BY <2>2 DEF StartCheck, state
    <2>3. CASE StartRead(h)
      <3>1. In(h, {"read"}) /\ th'[h].ep = th[h].ep /\ UNCHANGED <<rev, capture>>
        BY <2>3, HttpMoves DEF StartRead, state, Moved
      <3> QED  BY <1>1, <3>1 DEF StartInv, In
    <2>4. CASE UNCHANGED th[h]
      <3>1. rev' = rev /\ (capture' => capture)
        BY <1>1, <2>1, <2>4, Grows
      <3> QED  BY <1>1, <2>4, <3>1 DEF StartInv, In
    <2> QED  BY <1>1, <2>2, <2>3, <2>4, Sends DEF In
  <1> QED  BY <1>1 DEF StartInv, In

LEMMA PrimerKept ==
  ASSUME Typed, PrimerInv, Next
  PROVE  PrimerInv'
  <1>1. /\ WorkerAt(th["worker"]) /\ PrimeAt(th["prime"]) /\ "prime" \in Threads
    BY ThreadsExist, HomeOf DEF Typed, PlaceInv, Services
  <1>2. ASSUME th'["prime"].pc # "idle", enabled' PROVE FALSE
    <2>1. CASE th["prime"].pc = "idle"
      <3>1. (\E h \in Http : StartCommit(h)) /\ priming'
        BY <1>2, <2>1, Sends
      <3> QED  BY <1>2, <3>1 DEF StartCommit
    <2>2. CASE th["prime"].pc # "idle"
      <3>1. ~enabled /\ mode = "chunk" /\ oscMode = "hardware"
        BY <1>1, <2>2 DEF PrimerInv, PrimeAt, In
      <3>2. ~RtcEnable
        BY <1>1, <3>1 DEF RtcEnable, In, WorkerAt, FailPlaces, StopPlaces, HoldPlaces
      <3>3. PrimeDone => ~enabled'
        <4>1. ASSUME PrimeDone, enabled' PROVE Goto("prime", "idle")
          BY <3>1, <4>1 DEF PrimeDone, In
        <4>2. PrimeDone /\ Goto("prime", "idle") => th'["prime"].pc = "idle"
          BY <1>1, ComesToRest DEF Typed, PlaceInv, Resting, Rested, Moved
        <4> QED  BY <1>2, <4>1, <4>2
      <3>4. \A h \in Http : StartCommit(h) => ~enabled'
        BY <3>1 DEF StartCommit
      <3> QED  BY <1>2, <3>1, <3>2, <3>3, <3>4, Changes DEF Enables
    <2> QED  BY <2>1, <2>2
  <1> QED  BY <1>2 DEF PrimerInv, In

LEMMA SendKept ==
  ASSUME Typed, RowInv, CancelInv, SendInv, Next
  PROVE  SendInv'
  <1>1. /\ ExecAt(th["exec"]) /\ "exec" \in Threads /\ Tied("exec", th["exec"]) /\ RunType
        /\ current \in Nat /\ "exec" # Free /\ MaxRev \in Nat
    BY ThreadsExist, HomeOf, PolicyAssumption
       DEF Typed, PlaceInv, Services, CancelInv, RunType, Runs
  <1>2. ASSUME th'["exec"].pc = "send" PROVE ~run'[th'["exec"].ep].confirmed
    <2>1. CASE ExecLive
      <3>1. /\ th'["exec"].ep = th["exec"].ep /\ UNCHANGED run /\ ~run[th["exec"].ep].cancel
            /\ In("exec", {"row"})
        BY <2>1, ExecMoves DEF ExecLive, Live, rtc, MovesTo, Moved
      <3>2. th["exec"].ep \in Runs
        BY <1>1, <3>1 DEF Tied, HasObject, In, RunType, Runs
      <3> QED  BY <3>1, <3>2 DEF CancelInv
    <2>2. CASE UNCHANGED th["exec"]
      <3>1. th["exec"].pc = "send" /\ th'["exec"].ep = th["exec"].ep
        BY <1>2, <2>2
      <3>2. row = "exec"
        BY <1>1, <3>1 DEF RowInv, NeedsRow
      <3>3. ASSUME NEW t \in Threads, RunStopRow(t) \/ RunStopHold(t) PROVE FALSE
        <4>1. ~RunStopRow(t)
          BY <1>1, <3>2 DEF RunStopRow
        <4>2. RunStopHold(t) => row = t /\ th[t].pc = "stopHold"
          BY DEF RunStopHold, RowInv, NeedsRow, In
        <4> QED  BY <3>1, <3>2, <3>3, <4>1, <4>2
      <3>4. /\ th["exec"].ep \in Runs /\ ~run[th["exec"].ep].confirmed
            /\ run[th["exec"].ep] \in RunRecords /\ run \in [Runs -> RunRecords]
        BY <1>1, <3>1 DEF Tied, HasObject, RunType, Runs, SendInv, In
      <3>5. UNCHANGED run \/ RtcMake \/ RtcExit \/ RtcFinish
            \/ (\E h \in Http : StopCancel(h)) \/ (\E t \in Threads : FailEnter(t))
        BY <3>3, Changes DEF RunChanges
      <3>6. \/ UNCHANGED run
            \/ \E f, s : run' = [run EXCEPT ![f] = [session |-> s, cancel |-> FALSE,
                                           finished |-> FALSE, confirmed |-> FALSE]]
            \/ \E f : \/ run' = [run EXCEPT ![f].cancel = TRUE]
                      \/ run' = [run EXCEPT ![f].finished = TRUE]
        BY <3>5 DEF RtcMake, RtcExit, RtcFinish, StopCancel, FailEnter, Cancels, rtc
      <3> QED  BY <3>1, <3>4, <3>6 DEF RunRecords
    <2> QED  BY <1>2, <2>1, <2>2, Sends
  <1> QED  BY <1>2 DEF SendInv, In

LEMMA CaptureKept ==
  ASSUME Typed, DateInv, CancelInv, CaptureInv, Next
  PROVE  CaptureInv'
  <1>0. /\ KindKept /\ CaptureChanges /\ CurrentChanges
    BY Changes
  <1>1. /\ WorkerAt(th["worker"]) /\ Tied("worker", th["worker"]) /\ RunType
        /\ current \in Nat /\ current =< rev /\ rev \in Nat /\ MaxRev \in Nat /\ StateType
        /\ Active => rev \in 1..MaxRev
    BY ThreadsExist, HomeOf, PolicyAssumption
       DEF Typed, PlaceInv, Services, CancelInv, RunType, Runs, StateType, DateInv
  <1>2. ASSUME ~bare', Active', ~capture'
        PROVE  mode' = "rtc" /\ current' = rev' /\ run'[rev'].finished
    <2>1. ~\E h \in Http : StartCommit(h)
      BY <1>2 DEF StartCommit
    <2>2. ~bare /\ Active /\ rev' = rev /\ rev \in 1..MaxRev
      BY <1>1, <1>2, <2>1, Grows
    <2>3. CASE ~capture
      <3>1. mode = "rtc" /\ current = rev /\ run[rev].finished
        BY <2>2, <2>3 DEF CaptureInv
      <3>2. current' = rev
        BY <1>0, <3>1 DEF CurrentChanges, RtcMake, rtc
      <3> QED  BY <1>0, <2>2, <3>1, <3>2, FlagsStay DEF KindKept, kind
    <2>4. CASE capture
      <3>1. RtcFinish
        BY <1>0, <1>1, <1>2, <2>1, <2>2, <2>4
           DEF CaptureChanges, StateType, ChunkFinal, PrimeClose, StopFinish, HoldRow, HoldSent,
               HoldOver
      <3>2. In("worker", {"joined"}) /\ th["worker"].ep = rev /\ UNCHANGED current
        BY <1>1, <1>2, <2>4, <3>1 DEF RtcFinish, StateType
      <3>3. current = rev /\ mode = "rtc"
        BY <1>1, <3>2 DEF Tied, HasObject, In, WorkerAt, FailPlaces, StopPlaces, HoldPlaces
      <3>4. run' = [run EXCEPT ![rev].finished = TRUE]
        BY <3>1, <3>2 DEF RtcFinish
      <3>5. run'[rev].finished
        BY <1>1, <3>3, <3>4 DEF RunType, RunRecords
      <3> QED  BY <1>0, <2>2, <3>2, <3>3, <3>5 DEF KindKept, kind
    <2> QED  BY <2>3, <2>4
  <1> QED  BY <1>2 DEF CaptureInv

LEMMA AloneKept ==
  ASSUME Typed, RowInv, DateInv, CancelInv, CaptureInv, AloneInv, StartInv, PrimerInv, SendInv, Next
  PROVE  AloneInv'
  <1>0. /\ CaptureChanges /\ CurrentChanges
    BY Changes
  <1>1. /\ {"worker", "exec", "prime"} \subseteq Threads
        /\ {"worker", "exec", "prime"} \cap Http = {}
        /\ \A t \in Threads : t # Free
        /\ WorkerAt(th["worker"]) /\ ExecAt(th["exec"]) /\ StateType
        /\ Tied("exec", th["exec"]) /\ Tied("worker", th["worker"]) /\ th["exec"].ep \in Nat
        /\ current \in Nat /\ current =< rev /\ rev \in Nat /\ (Active => rev \in 1..MaxRev)
        /\ \A h \in Http : h \in Threads /\ th[h].ep \in Nat /\ th[h].ep =< rev
    BY ThreadsExist, HomeOf, PolicyAssumption
       DEF Typed, PlaceInv, Services, CancelInv, RunType, Runs, StateType, DateInv, Dated, Threads,
           Locals
  <1>2. /\ In("worker", {"send"}) => row = "worker"
        /\ In("exec", {"send"}) => row = "exec"
        /\ \A t \in Threads : In(t, {"stopHold", "holdSent"}) => row = t
    BY <1>1 DEF RowInv, NeedsRow, In
  <1>3. ChunkCheck => /\ In("worker", {"row"}) /\ mode = "chunk" /\ UNCHANGED <<rev, capture, bare>>
                      /\ \A u \in Threads : u # "worker" => th'[u] = th[u]
                      /\ th'["worker"].pc = "send" =>
                           enabled /\ th["worker"].ep = rev /\ th'["worker"].ep = rev
    <2>1. ASSUME ChunkCheck
          PROVE  /\ In("worker", {"row"}) /\ UNCHANGED <<rev, capture, bare>>
                 /\ (ChunkLive /\ MovesTo("worker", "send")) \/ Rested("worker", "loop")
      BY <2>1, WorkerMoves DEF ChunkCheck, state
    <2>2. In("worker", {"row"}) => mode = "chunk"
      BY <1>1 DEF WorkerAt, In, FailPlaces, StopPlaces, HoldPlaces
    <2> QED  BY <2>1, <2>2 DEF ChunkLive, MovesTo, Rested, Moved
  <1>4. ExecLive => /\ In("exec", {"row"}) /\ UNCHANGED <<rev, capture, bare, current, run>>
                    /\ th'["exec"].ep = th["exec"].ep /\ Live(th["exec"].ep)
                    /\ th["exec"].ep = rev /\ rev = current /\ Active
                    /\ \A u \in Threads : u # "exec" => th'[u] = th[u]
    <2>1. ASSUME ExecLive
          PROVE  /\ In("exec", {"row"}) /\ UNCHANGED <<rev, capture, bare, current, run>>
                 /\ Live(th["exec"].ep) /\ MovesTo("exec", "send")
      BY <2>1, ExecMoves DEF ExecLive, state, rtc
    <2>2. In("exec", {"row"}) => th["exec"].ep \in 1..current
      BY <1>1 DEF Tied, HasObject, In
    <2> QED  BY <1>1, <2>1, <2>2 DEF Live, MovesTo, Moved
  <1>5. ASSUME ~bare' PROVE ~bare /\ rev' \in Nat /\ rev =< rev'
    BY <1>5, Grows
  <1>6. ASSUME ~bare', Active', NEW t \in {"worker", "exec"}, th'[t].pc = "send"
        PROVE  th'[t].ep = rev'
    <2>1. CASE t = "worker" /\ ChunkCheck
      BY <1>3, <1>6, <2>1
    <2>2. CASE t = "exec" /\ ExecLive
      BY <1>4, <1>6, <2>2
    <2>3. CASE UNCHANGED th[t]
      <3>1. In(t, {"send"})
        BY <1>6, <2>3 DEF In
      <3>2. ASSUME NEW h \in Http PROVE ~StartCommit(h)
        <4>1. StartCommit(h) => In(h, {"read", "commit"}) /\ th[h].ep = rev /\ ~capture
          BY DEF StartCommit, MayStart, In
        <4> QED  BY <1>5, <1>6, <3>1, <4>1 DEF AloneInv
      <3>3. Active /\ rev' = rev
        BY <1>6, <3>2, Grows
      <3> QED  BY <1>5, <1>6, <2>3, <3>1, <3>3 DEF AloneInv
    <2> QED  BY <1>6, <2>1, <2>2, <2>3, Sends
  <1>7. ASSUME ~bare', ~capture' \/ th'["prime"].pc # "idle", th'["worker"].pc = "send" PROVE FALSE
    <2>1. CASE ChunkCheck
      <3>1. ~In("prime", {"idle"})
        <4>1. Active /\ mode # "rtc"
          BY <1>3, <1>7, <2>1 DEF Active
        <4>2. capture
          BY <1>5, <1>7, <4>1 DEF CaptureInv
        <4> QED  BY <1>1, <1>3, <1>7, <2>1, <4>2 DEF In
      <3> QED  BY <1>3, <1>7, <2>1, <3>1 DEF PrimerInv
    <2>2. CASE UNCHANGED th["worker"]
      <3>1. In("worker", {"send"}) /\ capture /\ In("prime", {"idle"})
        BY <1>5, <1>7, <2>2 DEF AloneInv, In
      <3>2. ASSUME NEW h \in Http PROVE ~StartCommit(h)
        BY <3>1 DEF StartCommit, MayStart
      <3>3. th'["prime"].pc = "idle"
        BY <3>1, <3>2, Sends DEF In
      <3>4. ~RtcFinish /\ ~ChunkFinal /\ ~PrimeClose
        BY <3>1 DEF RtcFinish, ChunkFinal, PrimeClose, In
      <3>5. \A h \in Http : ~StopFinish(h)
        BY <1>1, <1>2, <3>1 DEF StopFinish
      <3>6. ASSUME NEW t \in Threads PROVE ~HoldRow(t) /\ ~HoldSent(t)
        BY <1>1, <1>2, <3>1 DEF HoldRow, HoldSent, In
      <3> QED  BY <1>0, <1>7, <3>1, <3>2, <3>3, <3>4, <3>5, <3>6 DEF CaptureChanges
    <2> QED  BY <1>7, <2>1, <2>2, Sends
  <1>8. ASSUME ~bare', th'["exec"].pc = "send" PROVE th'["exec"].ep = current'
    <2>1. CASE ExecLive
      BY <1>4, <2>1
    <2>2. CASE UNCHANGED th["exec"]
      <3>1. In("exec", {"send"}) /\ th["exec"].ep = current
        BY <1>5, <1>8, <2>2 DEF AloneInv, In
      <3>2. CASE RtcMake
        <4>1. CASE current' = current
          BY <2>2, <3>1, <4>1
        <4>2. CASE current' # current
          <5>1. Active /\ In("worker", {"make"}) /\ th["worker"].ep = rev
            BY <3>2, <4>2 DEF RtcMake, rtc
          <5>2. current # rev
            BY <1>1, <5>1 DEF Tied, In
          <5> QED  BY <1>5, <1>8, <3>1, <5>1, <5>2 DEF AloneInv
        <4> QED  BY <4>1, <4>2
      <3> QED  BY <1>0, <2>2, <3>1, <3>2 DEF CurrentChanges
    <2> QED  BY <1>8, <2>1, <2>2, Sends
  <1>9. ASSUME ~bare', NEW h \in Http, th'[h].pc \in {"read", "commit"}, th'[h].ep = rev',
               th'["exec"].pc = "send"
        PROVE  FALSE
    <2>1. CASE ExecLive
      <3>1. th'[h] = th[h] /\ rev' = rev
        BY <1>1, <1>4, <2>1
      <3>2. ~capture
        BY <1>9, <3>1 DEF StartInv, In
      <3>3. run[rev].finished
        BY <1>4, <1>5, <1>9, <2>1, <3>2 DEF CaptureInv
      <3>4. run[rev].cancel
        BY <1>1, <1>4, <2>1, <3>3 DEF CancelInv, Typed, RunType
      <3> QED  BY <1>4, <2>1, <3>4 DEF Live
    <2>2. CASE UNCHANGED th["exec"]
      <3>1. In("exec", {"send"}) /\ th["exec"].ep = current
        BY <1>5, <1>9, <2>2 DEF AloneInv, In
      <3>2. CASE UNCHANGED th[h]
        <4>1. rev' = rev
          BY <1>1, <1>5, <1>9, <3>2, Grows
        <4> QED  BY <1>5, <1>9, <3>1, <3>2, <4>1 DEF AloneInv, In
      <3>3. CASE StartCheck(h)
        BY <3>1, <3>3 DEF StartCheck, SendInv
      <3>4. CASE StartRead(h)
        <4>1. In(h, {"read"}) /\ th'[h].ep = th[h].ep /\ rev' = rev
          BY <3>4, HttpMoves DEF StartRead, state, Moved
        <4> QED  BY <1>5, <1>9, <3>1, <4>1 DEF AloneInv, In
      <3> QED  BY <1>9, <3>2, <3>3, <3>4, Sends
    <2> QED  BY <1>9, <2>1, <2>2, Sends
  <1> QED  BY <1>6, <1>7, <1>8, <1>9 DEF AloneInv, In

------------------------------------------------------------------------------
\* HOLD is the last word.

LEMMA HeldKept ==
  ASSUME Typed, RowInv, DateInv, CancelInv, SpeakInv, HeldInv, Next
  PROVE  HeldInv'
  <1>0. /\ OscChanges /\ SessionChanges /\ CurrentChanges
    BY Changes
  <1> DEFINE Senders == {"worker", "exec", "prime"}
  <1>1. /\ Senders \subseteq Threads /\ \A t \in Threads : t # Free
        /\ StateType /\ OscType /\ RunType /\ ObjectInv
        /\ current \in Nat /\ current =< rev /\ rev \in Nat /\ MaxRev \in Nat
        /\ owner =< opened /\ owner \in Nat /\ opened \in Nat \ {0} /\ session \in {0, opened}
        /\ (Active => rev \in 1..MaxRev /\ owner # 0)
        /\ \A t \in Threads : Home(t, th[t]) /\ Tied(t, th[t]) /\ Speaks(t, th[t])
        /\ \A t \in Threads : Dated(t, th[t]) /\ th[t].ep \in Nat /\ th[t].at \in Nat
    BY ThreadsExist, PolicyAssumption
       DEF Typed, PlaceInv, Services, CancelInv, RunType, Runs, StateType, OscType, DateInv,
           Threads, Locals, SpeakInv
  <1>2. ASSUME NEW t \in Senders, In(t, {"send"})
        PROVE  /\ th[t].ep # 0 /\ th[t].at # 0 /\ th[t].at =< opened /\ th[t].ep =< rev
               /\ (t # "prime" => row = t)
    <2>1. th[t].pc \notin Resting /\ t \in Threads
      BY <1>1, <1>2 DEF In, Resting
    <2> QED  BY <1>1, <1>2, <2>1 DEF Dated, RowInv, NeedsRow, In
  <1>3. In("prime", {"send"}) => mode = "chunk" /\ oscMode = "hardware" /\ current = 0
    BY <1>1, HomeOf DEF PrimeAt, ObjectInv, In
  <1>4. In("worker", {"row"}) => mode = "chunk" /\ current = 0
    BY <1>1, HomeOf DEF WorkerAt, ObjectInv, In, FailPlaces, StopPlaces, HoldPlaces
  <1>5. ASSUME NEW t \in Threads, In(t, StopPlaces)
        PROVE  mode = "rtc" /\ th[t].ep \in 1..current /\ run[th[t].ep].cancel
    <2>1. mode = "rtc"
      BY <1>1, <1>5, HomeOf, ThreadsExist DEF Threads, Services, HttpAt, WorkerAt, ExecAt, HealthAt,
         GripAt, ObserverAt, PrimeAt, HoldPlaces, FailPlaces, StopPlaces, In
    <2>2. HasObject(t, th[t])
      BY <1>5 DEF HasObject, FailPlaces, In
    <2> QED  BY <1>1, <1>5, <2>1, <2>2 DEF Tied, In
  <1>6. rev' \in Nat /\ rev =< rev'
    BY Grows
  <1>7. \/ session' = session /\ opened' = opened
        \/ session' = 0 /\ opened' = opened
        \/ session' = opened + 1
    BY <1>0 DEF SessionChanges, OscSession, RunStopHold, HoldSent, OscHold
  <1>8. ASSUME NEW e \in 1..MaxRev, last[e] = "held"
        PROVE  /\ e =< rev /\ Over(e)
               /\ \A t \in Senders : In(t, {"send"}) /\ th[t].ep = e => th[t].at # session
    BY <1>8 DEF HeldInv
  \* What is held stays over, and no sender of it gets the session that there is.
  <1>9. ASSUME NEW e \in 1..MaxRev, e =< rev, Over(e)
        PROVE  Over(e)'
    <2>1. CASE e < rev'
      BY <2>1 DEF Over
    <2>2. CASE ~(e < rev')
      <3>1. e = rev /\ rev' = rev /\ owner' = owner /\ (Active' => Active)
        BY <1>1, <1>6, <1>9, <2>2, Grows
      <3>2. CASE ~Active
        BY <3>1, <3>2 DEF Over
      <3>3. CASE Active /\ session # owner
        <4>1. owner # 0 /\ owner # opened + 1
          BY <1>1, <3>3
        <4> QED  BY <1>7, <3>1, <3>3, <4>1 DEF Over
      <3>4. CASE current = e /\ run[e].cancel
        <4>1. run'[e].cancel
          BY <1>1, <3>4, FlagsStay
        <4>2. current' = e
          BY <1>0, <1>1, <3>1, <3>4 DEF CurrentChanges, RtcMake, rtc
        <4> QED  BY <4>1, <4>2 DEF Over
      <3> QED  BY <1>1, <1>9, <3>1, <3>2, <3>3, <3>4 DEF Over
    <2> QED  BY <2>1, <2>2
  <1>10. ASSUME NEW e \in 1..MaxRev, last[e] = "held", NEW t \in Senders,
                th'[t].pc = "send", th'[t].ep = e
         PROVE  th'[t].at # session'
    <2>1. CASE UNCHANGED th[t]
      <3>1. th[t].at # session /\ th[t].at # 0 /\ th[t].at =< opened /\ th[t].at \in Nat
        BY <1>1, <1>2, <1>8, <1>10, <2>1 DEF In
      <3> QED  BY <1>1, <1>7, <2>1, <3>1
    <2>2. ASSUME ~UNCHANGED th[t]
          PROVE  /\ th'[t].at = owner /\ session' = session /\ e = rev /\ Active
                 /\ current # e \/ ~run[e].cancel
      <3>1. CASE t = "worker"
        <4>1. ChunkCheck
          BY <1>10, <2>2, <3>1, Sends
        <4>2. /\ In("worker", {"row"}) /\ session' = session /\ Active /\ th["worker"].ep = rev
              /\ th'["worker"].ep = th["worker"].ep /\ th'["worker"].at = th["worker"].at
          BY <1>10, <3>1, <4>1, WorkerMoves
             DEF ChunkCheck, ChunkLive, Active, MovesTo, Moved, Rested, osc
        <4> QED  BY <1>1, <1>4, <1>10, <3>1, <4>2 DEF Dated, In, Resting
      <3>2. CASE t = "exec"
        <4>1. ExecLive
          BY <1>10, <2>2, <3>2, Sends
        <4>2. /\ In("exec", {"row"}) /\ session' = session /\ Live(th["exec"].ep)
              /\ th'["exec"].ep = th["exec"].ep /\ th'["exec"].at = th["exec"].at
          BY <4>1, ExecMoves DEF ExecLive, MovesTo, Moved, osc
        <4> QED  BY <1>1, <1>10, <3>2, <4>2 DEF Dated, In, Resting, Live
      <3>3. CASE t = "prime"
        <4>1. PrimeReady
          BY <1>10, <2>2, <3>3, Sends
        <4>2. /\ In("prime", {"prime"}) /\ session' = session /\ Active /\ th["prime"].ep = rev
              /\ th'["prime"].ep = th["prime"].ep /\ th'["prime"].at = th["prime"].at
          BY <1>10, <3>3, <4>1, SideMoves DEF PrimeReady, Active, MovesTo, Moved, Rested, osc
        <4>3. current = 0
          BY <1>1, <4>2, HomeOf DEF PrimeAt, ObjectInv, In
        <4> QED  BY <1>1, <1>10, <3>3, <4>2, <4>3 DEF Dated, In, Resting
      <3> QED  BY <3>1, <3>2, <3>3
    <2>3. CASE ~UNCHANGED th[t]
      BY <1>1, <1>8, <1>10, <2>2, <2>3 DEF Over
    <2> QED  BY <2>1, <2>3
  \* What is newly held was over already.
  <1>11. ASSUME NEW e \in 1..MaxRev, last'[e] = "held", last[e] # "held"
         PROVE  /\ e =< rev /\ (Over(e) \/ Over(e)')
                /\ \A t \in Senders : th'[t].pc = "send" => th'[t] = th[t]
                /\ \A t \in Senders : In(t, {"send"}) /\ th[t].ep = e => th[t].at # session'
    <2>0. /\ last \in [1..MaxRev -> {"none", "track", "held"}]
          /\ \A f : Quiet(f)[e] = "held" => e =< f
      BY <1>1, <1>11 DEF Quiet, OscType
    <2>1. \A t \in Senders : th'[t].pc = "send" => th'[t] = th[t]
      <3>1. ~ChunkCheck /\ ~ExecLive /\ ~PrimeReady
        BY <1>11 DEF ChunkCheck, ExecLive, PrimeReady, osc
      <3> QED  BY <3>1, Sends
    <2>2. CASE OscSession
      <3>1. e =< rev /\ UNCHANGED <<rev, owner, enabled, priming>>
        BY <1>11, <2>0, <2>2 DEF OscSession, state
      <3>2. session' = 0 \/ session' = opened + 1
        BY <2>2 DEF OscSession
      <3>3. Over(e)'
        BY <1>1, <3>1, <3>2 DEF Over, Active
      <3>4. \A t \in Senders : In(t, {"send"}) => th[t].at # session'
        BY <1>1, <1>2, <3>2
      <3> QED  BY <2>1, <3>1, <3>3, <3>4
    <2>3. CASE ExecSend \/ ChunkSend \/ PrimeSend
      <3>1. \E f, s : Track(f, s)
        BY <2>3 DEF ExecSend, ChunkSend, PrimeSend
      <3>2. last'[e] \in {last[e], "track"}
        BY <2>0, <3>1 DEF Track
      <3> QED  BY <1>11, <3>2
    <2>4. ASSUME NEW t \in Threads, RunStopRow(t) \/ RunStopHold(t)
          PROVE  /\ e =< rev /\ Over(e)
                 /\ \A u \in Senders : ~In(u, {"send"})
      <3>1. In(t, StopPlaces) /\ last' = Quiet(th[t].ep)
        BY <1>11, <2>4 DEF RunStopRow, RunStopHold, Confirms, StopPlaces, In
      <3>2. mode = "rtc" /\ th[t].ep \in 1..current /\ run[th[t].ep].cancel /\ e =< th[t].ep
        BY <1>5, <1>11, <2>0, <3>1
      <3>3. row = Free \/ (row = t /\ ~In(t, {"send"}))
        BY <2>4, <1>1 DEF RunStopRow, RunStopHold, RowInv, NeedsRow, In
      <3>4. \A u \in Senders : ~In(u, {"send"})
        BY <1>1, <1>2, <1>3, <3>2, <3>3
      <3>5. e =< rev /\ Over(e)
        BY <1>1, <3>2 DEF Over
      <3> QED  BY <3>4, <3>5
    <2>5. ASSUME NEW t \in Threads, HoldRow(t) \/ HoldSent(t)
          PROVE  /\ e =< rev /\ Over(e)
                 /\ \A u \in Senders : In(u, {"send"}) /\ th[u].ep = e => th[u].at # session'
      <3>1. In(t, HoldPlaces) /\ last' = Quiet(th[t].ep)
        BY <1>11, <2>5 DEF HoldRow, HoldSent, HoldPlaces, In
      <3>2. e =< th[t].ep /\ th[t].ep =< rev /\ (th[t].ep < rev \/ ~Active)
        BY <1>1, <1>11, <2>0, <3>1 DEF Speaks, In, Dated
      <3>3. e =< rev /\ Over(e)
        BY <1>1, <3>2 DEF Over
      <3>4. row \in {Free, t} /\ ~In(t, {"send"})
        BY <1>1, <2>5 DEF HoldRow, HoldSent, RowInv, NeedsRow, In
      <3>5. \A u \in {"worker", "exec"} : ~In(u, {"send"})
        BY <1>1, <1>2, <3>4
      <3>6. ASSUME In("prime", {"send"}), th["prime"].ep = e PROVE th["prime"].at # session'
        <4>1. CASE HoldSent(t)
          BY <1>2, <1>3, <3>6, <4>1 DEF HoldSent, OscHold
        <4>2. CASE HoldRow(t)
          <5>1. session' = session /\ (session # th[t].at \/ session = 0)
            BY <1>11, <4>2 DEF HoldRow
          <5>2. th["prime"].at =< th[t].at /\ th[t].at =< opened
            BY <1>1, <3>1, <3>2, <3>6 DEF Speaks, In, HoldPlaces, Dated
          <5> QED  BY <1>1, <1>2, <3>6, <5>1, <5>2
        <4> QED  BY <2>5, <4>1, <4>2
      <3> QED  BY <3>3, <3>5, <3>6
    <2>6. UNCHANGED osc => last' = last
      BY DEF osc
    <2> QED  BY <1>0, <1>2, <1>11, <2>1, <2>2, <2>3, <2>4, <2>5, <2>6 DEF OscChanges
  <1>12. ASSUME NEW e \in 1..MaxRev, last'[e] = "held"
         PROVE  /\ e =< rev' /\ Over(e)'
                /\ \A t \in Senders : th'[t].pc = "send" /\ th'[t].ep = e => th'[t].at # session'
    <2>1. CASE last[e] = "held"
      <3>1. e =< rev /\ Over(e)
        BY <1>8, <2>1
      <3> QED  BY <1>1, <1>6, <1>9, <1>10, <2>1, <3>1
    <2>2. CASE last[e] # "held"
      <3>1. e =< rev /\ Over(e)'
        BY <1>9, <1>11, <1>12, <2>2
      <3> QED  BY <1>1, <1>6, <1>11, <1>12, <2>2, <3>1 DEF In
    <2> QED  BY <2>1, <2>2
  <1> QED  BY <1>12 DEF HeldInv, In

------------------------------------------------------------------------------
\* The inductive invariant, and the theorems.

Inv == /\ Typed /\ RowInv /\ DateInv /\ CancelInv /\ SpeakInv /\ HeldInv
       /\ CaptureInv /\ AloneInv /\ StartInv /\ PrimerInv /\ SendInv

LEMMA InitInv ==
  ASSUME Init
  PROVE  Inv
  <1>1. /\ th = [t \in Threads |-> At(IF t = "worker" THEN "loop" ELSE "idle")]
        /\ {"worker", "exec", "health", "grip", "observer", "prime"} \subseteq Threads
        /\ \A h \in Http : h \in Threads /\ h \notin Services
        /\ mode \in {"rtc", "chunk"} /\ oscMode \in {"shadow", "hardware"}
        /\ Runs \subseteq Nat /\ 0 \in Runs
    BY ThreadsExist, PolicyAssumption DEF Init, Services, Runs
  <1>2. ASSUME NEW t \in Threads
        PROVE  /\ th[t] = [pc |-> IF t = "worker" THEN "loop" ELSE "idle", ep |-> 0, at |-> 0,
                           ret |-> "idle"]
               /\ th[t].pc = IF t = "worker" THEN "loop" ELSE "idle"
               /\ th[t].ep = 0 /\ th[t].at = 0 /\ th[t].ret = "idle" /\ th[t] \in Locals
    BY <1>1 DEF At, Locals, Places
  <1>3. ObjectInv /\ RunType
    BY <1>1 DEF Init, ObjectInv, RunType, NoRun, RunRecords
  <1>4. KindType /\ OscType /\ StateType
    <2>1. KindType
      BY <1>1 DEF KindType
    <2>2. OscType
      BY DEF Init, OscType
    <2>3. StateType
      BY DEF Init, StateType
    <2> QED  BY <2>1, <2>2, <2>3
  <1>5. PlaceInv
    <2>1. ASSUME NEW t \in Threads PROVE Home(t, th[t])
      BY <1>1, <1>2 DEF Home, HttpAt, WorkerAt, ExecAt, HealthAt, GripAt, ObserverAt, PrimeAt,
                        Services
    <2> QED  BY <1>1, <1>2, <2>1 DEF PlaceInv
  <1>6. RowInv
    BY <1>2 DEF RowInv, NeedsRow, HoldPlaces
  <1>7. DateInv
    <2>1. ASSUME NEW t \in Threads PROVE Dated(t, th[t])
      <3>1. /\ th[t].pc \in {"idle", "loop"} /\ th[t].ep = 0 /\ th[t].at = 0
            /\ rev = 0 /\ owner = 0 /\ opened = 1
        BY <1>2 DEF Init
      <3> QED  BY <3>1 DEF Dated, Resting
    <2> QED  BY <2>1 DEF Init, DateInv, Active
  <1>8. CancelInv
    <2>1. ASSUME NEW t \in Threads PROVE Tied(t, th[t])
      BY <1>2 DEF Tied, HasObject, FailPlaces, StopPlaces
    <2> QED  BY <2>1 DEF Init, CancelInv, NoRun
  <1>9. SpeakInv
    BY <1>1, <1>2 DEF SpeakInv, Speaks, HoldPlaces, In
  <1>10. HeldInv
    BY DEF Init, HeldInv
  <1>11. CaptureInv
    BY DEF Init, CaptureInv, Active
  <1>12. AloneInv
    BY <1>1, <1>2 DEF AloneInv, In
  <1>13. StartInv
    BY <1>1, <1>2 DEF StartInv, In
  <1>14. PrimerInv /\ SendInv
    BY <1>1, <1>2 DEF PrimerInv, SendInv, In
  <1> QED  BY <1>3, <1>4, <1>5, <1>6, <1>7, <1>8, <1>9, <1>10, <1>11, <1>12, <1>13, <1>14
           DEF Inv, Typed

LEMMA NextInv ==
  ASSUME Inv, [Next]_vars
  PROVE  Inv'
  <1>1. CASE Next
    <2>1. Typed'
      BY <1>1, TypesKept DEF Inv
    <2>2. RowInv' /\ DateInv' /\ CancelInv' /\ SpeakInv' /\ HeldInv'
      BY <1>1, RowKept, DateKept, CancelKept, SpeakKept, HeldKept DEF Inv
    <2>3. CaptureInv' /\ AloneInv' /\ StartInv' /\ PrimerInv' /\ SendInv'
      BY <1>1, CaptureKept, AloneKept, StartKept, PrimerKept, SendKept DEF Inv
    <2> QED  BY <2>1, <2>2, <2>3 DEF Inv
  <1>2. CASE UNCHANGED vars
    BY <1>2 DEF Inv, Typed, KindType, OscType, StateType, RunType, ObjectInv, PlaceInv, Home,
                HttpAt, WorkerAt, ExecAt, HealthAt, GripAt, ObserverAt, PrimeAt, RowInv, NeedsRow,
                DateInv, Dated, Active, CancelInv, Tied, HasObject, SpeakInv, Speaks, HeldInv, Over,
                CaptureInv, AloneInv, StartInv, PrimerInv, SendInv, In, vars, kind, osc, state, rtc,
                locks, grip
  <1> QED  BY <1>1, <1>2

LEMMA InvHolds == Spec => []Inv
  BY InitInv, NextInv, PTL DEF Spec

\* A run that is held accepts no target any more.
LEMMA HeldStays ==
  ASSUME Inv, [Next]_vars
  PROVE  [\A e \in DOMAIN last : last[e] = "held" => last'[e] = "held"]_last
  <1>1. CASE UNCHANGED vars
    BY <1>1 DEF vars, osc
  <1>2. CASE Next
    <2>1. ASSUME NEW e \in 1..MaxRev, last[e] = "held" PROVE last'[e] = "held"
      <3>1. /\ last \in [1..MaxRev -> {"none", "track", "held"}]
            /\ \A t \in {"worker", "exec", "prime"} :
                 In(t, {"send"}) /\ th[t].ep = e => th[t].at # session
        BY <2>1 DEF Inv, HeldInv, Typed, OscType
      <3>2. ASSUME NEW t \in {"worker", "exec", "prime"}, In(t, {"send"}),
                   Track(th[t].ep, th[t].at)
            PROVE  last'[e] = "held"
        BY <2>1, <3>1, <3>2 DEF Track
      <3>3. \A f : last' = Quiet(f) => last'[e] = "held"
        BY <2>1, <3>1 DEF Quiet
      <3>4. OscChanges
        BY <1>2, Changes
      <3> QED  BY <2>1, <3>2, <3>3, <3>4
               DEF OscChanges, osc, OscSession, ExecSend, ChunkSend, PrimeSend, RunStopRow,
                   RunStopHold, HoldRow, HoldSent, Confirms
    <2>2. DOMAIN last = 1..MaxRev
      BY DEF Inv, Typed, OscType
    <2> QED  BY <2>1, <2>2
  <1> QED  BY <1>1, <1>2

\* HOLD has the last word on every run, in both modes, whatever the requests and the OSC's
\* sessions do and whoever still works for an earlier run: what the row lock, the second look
\* under it and the session check are for together.
THEOREM HoldHasTheLastWord == Spec => HoldIsLast
  <1>1. Inv /\ [Next]_vars => [\A e \in DOMAIN last : last[e] = "held" => last'[e] = "held"]_last
    BY HeldStays
  <1> QED  BY <1>1, InvHolds, PTL DEF Spec, HoldIsLast

\* While a run is active no row of another run is about to be sent, as long as every active run
\* had its capture, by which start() tells that the run before has exited.
THEOREM RunsStartAlone == Spec => []NewRunAlone
  <1>1. Inv => NewRunAlone
    BY DEF Inv, AloneInv, NewRunAlone
  <1> QED  BY <1>1, InvHolds, PTL
=============================================================================
