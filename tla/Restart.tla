------------------------------- MODULE Restart -------------------------------
\* The life of the control service as processes of the operating system: the instance lock and the
\* port that keep it single (supervisor/instance_lock.py, main of scripts/nero_control_server.py),
\* the hardware backend it spawns, and resets, which the service schedules for itself or the
\* watchdog (scripts/nero_control_watchdog.py) on its behalf and a helper carries out
\* (scripts/nero_control_service_restart.py). A process is named by its number in the order of the
\* starts; numbers are not used again. What the helper's queries of the process table return is a
\* free choice between the table and nothing, for a query that fails. Watchdogs in the plural, the
\* kinematics servers and requests other than resets are left out.
EXTENDS Naturals

CONSTANTS
  Windows,     \* the console's platform; elsewhere the process table cannot be queried
  MaxService,  \* bound on services
  MaxHelper,   \* bound on reset helpers
  Starts       \* services a user may start by hand

RestartAssumption ==
  /\ Windows \in BOOLEAN /\ MaxService \in Nat \ {0} /\ MaxHelper \in Nat /\ Starts \in Nat

VARIABLES
  svc,       \* services: place, attempts to take the lock, what was read, a reset is pending
  hw,        \* their backend: "none" yet, "on", "known" once initialize() has kept it, or "gone"
  lock,      \* the lock file: who wrote it, 0 if there is none, and whether it is complete
  ports,     \* services that listen on the port
  helpers,   \* helpers: place and the service to replace
  dog,       \* the watchdog: a reset is pending, processes it is about to kill
  starts,    \* services started by hand
  robbed,    \* history: a lock was removed under a living owner
  late       \* history: a backend was started in a service that was closing

vars == <<svc, hw, lock, ports, helpers, dog, starts, robbed, late>>

Services == 1..MaxService
Helpers == 1..MaxHelper
NoLock == [owner |-> 0, done |-> TRUE]
Born(p) == svc[p].pc # "none"
Lives(p) == svc[p].pc \notin {"none", "ended", "dead"}
Runs(p) == hw[p] \in {"on", "known"}
Gone(S) == [p \in Services |-> IF p \in S /\ hw[p] # "none" THEN "gone" ELSE hw[p]]
Fresh == [pc |-> "create", tries |-> 0, pending |-> FALSE]
Unborn == [Fresh EXCEPT !.pc = "none"]
Place(p, pc) == svc' = [svc EXCEPT ![p].pc = pc]

\* A service runs.
Init ==
  /\ svc = [p \in Services |-> IF p = 1 THEN [Fresh EXCEPT !.pc = "serve"] ELSE Unborn]
  /\ hw = [p \in Services |-> IF p = 1 THEN "known" ELSE "none"]
  /\ lock = [owner |-> 1, done |-> TRUE] /\ ports = {1}
  /\ helpers = [h \in Helpers |-> [pc |-> "none", old |-> 0]]
  /\ dog = [pending |-> FALSE, kill |-> {}, clear |-> FALSE]
  /\ starts = 0 /\ robbed = FALSE /\ late = FALSE

\* ------------------------------------------------------------ processes
Begins ==
  \E p \in Services : /\ ~Born(p) /\ \A q \in Services : q < p => Born(q)
                      /\ svc' = [svc EXCEPT ![p] = Fresh]

\* Without a helper: someone starts the console.
UserStart ==
  /\ starts < Starts /\ starts' = starts + 1 /\ Begins
  /\ UNCHANGED <<hw, lock, ports, helpers, dog, robbed, late>>

\* A process tree is killed. On POSIX only the service is, and its backend sees the end of the pipe.
Killed(S) ==
  /\ svc' = [p \in Services |-> IF p \in S /\ Born(p) THEN [svc[p] EXCEPT !.pc = "dead"] ELSE svc[p]]
  /\ hw' = IF Windows THEN Gone(S) ELSE hw
  /\ ports' = ports \ S

\* The backend of a dead service ends when it reads the end of its pipe, unless it is stuck.
Orphan(p) ==
  /\ Runs(p) /\ svc[p].pc = "dead" /\ hw' = Gone({p})
  /\ UNCHANGED <<svc, lock, ports, helpers, dog, starts, robbed, late>>

\* ------------------------------------------------------------ InstanceLock.acquire, main
\* The lock file is created exclusively and written in a second step.
LockCreate(p) ==
  /\ svc[p].pc = "create"
  /\ IF lock.owner = 0 THEN lock' = [owner |-> p, done |-> FALSE] /\ Place(p, "write")
                       ELSE UNCHANGED lock /\ Place(p, "read")
  /\ UNCHANGED <<hw, ports, helpers, dog, starts, robbed, late>>

LockWrite(p) ==
  /\ svc[p].pc = "write" /\ Place(p, "bind")
  /\ lock' = IF lock.owner = p THEN [lock EXCEPT !.done = TRUE] ELSE lock
  /\ UNCHANGED <<hw, ports, helpers, dog, starts, robbed, late>>

\* A lock of a living process ends the start; one that is gone, incomplete or of a dead process is
\* removed.
LockRead(p) ==
  /\ svc[p].pc = "read"
  /\ Place(p, IF lock.owner # 0 /\ lock.done /\ Lives(lock.owner) THEN "dead" ELSE "stale")
  /\ UNCHANGED <<hw, lock, ports, helpers, dog, starts, robbed, late>>

\* Windows refuses to remove a file that is being written, which acquire() does not expect.
Refused == Windows /\ ~lock.done /\ Lives(lock.owner)

\* Whatever the file is by then is removed; two attempts are made.
LockRemove(p) ==
  /\ svc[p].pc = "stale"
  /\ IF Refused THEN Place(p, "dead") /\ UNCHANGED <<lock, robbed>>
     ELSE /\ lock' = NoLock /\ robbed' = (robbed \/ (lock.owner # 0 /\ Lives(lock.owner)))
          /\ svc' = [svc EXCEPT ![p].pc = IF svc[p].tries = 0 THEN "create" ELSE "dead",
                                ![p].tries = svc[p].tries + 1]
  /\ UNCHANGED <<hw, ports, helpers, dog, starts, late>>

\* release(): only the own lock is removed.
Released(p) == IF lock.owner = p THEN NoLock ELSE lock

\* The server reuses the address: on Windows a second listener is admitted, elsewhere it is not.
Bind(p) ==
  /\ svc[p].pc = "bind"
  /\ IF ports # {} /\ ~Windows
     THEN Place(p, "dead") /\ lock' = Released(p) /\ UNCHANGED ports
     ELSE Place(p, "serve") /\ ports' = ports \cup {p} /\ UNCHANGED lock
  /\ UNCHANGED <<hw, helpers, dog, starts, robbed, late>>

\* initialize(), a thread of its own, starts the backend and keeps the process for close().
Spawn(p) ==
  /\ svc[p].pc \in {"serve", "closing", "unlock"} /\ hw[p] = "none"
  /\ hw' = [hw EXCEPT ![p] = "on"] /\ late' = (late \/ svc[p].pc # "serve")
  /\ UNCHANGED <<svc, lock, ports, helpers, dog, starts, robbed>>

Known(p) ==
  /\ Lives(p) /\ hw[p] = "on" /\ hw' = [hw EXCEPT ![p] = "known"]
  /\ UNCHANGED <<svc, lock, ports, helpers, dog, starts, robbed, late>>

\* Ctrl-C: the server is closed, then the backend is terminated if it is known, then the lock is
\* released; adapters.close() may raise first, if a recorder does not stop, and then neither is done.
\* The process ends when it has no child.
CloseServer(p) ==
  /\ svc[p].pc = "serve" /\ Place(p, "closing") /\ ports' = ports \ {p}
  /\ UNCHANGED <<hw, lock, helpers, dog, starts, robbed, late>>

\* Mutant: the backend is left to end by itself.
CloseBackendLeft(p) ==
  /\ svc[p].pc = "closing" /\ Place(p, "unlock")
  /\ UNCHANGED <<hw, lock, ports, helpers, dog, starts, robbed, late>>

CloseBackend(p) ==
  /\ svc[p].pc = "closing"
  /\ \/ Place(p, "exit") /\ UNCHANGED <<hw, late>>
     \/ /\ Place(p, "unlock")
        /\ IF hw[p] = "on" THEN late' = TRUE /\ UNCHANGED hw ELSE hw' = Gone({p}) /\ UNCHANGED late
  /\ UNCHANGED <<lock, ports, helpers, dog, starts, robbed>>

CloseUnlock(p) ==
  /\ svc[p].pc = "unlock" /\ lock' = Released(p) /\ Place(p, "exit")
  /\ UNCHANGED <<hw, ports, helpers, dog, starts, robbed, late>>

Exit(p) ==
  /\ svc[p].pc = "exit" /\ ~Runs(p) /\ Place(p, "ended")
  /\ UNCHANGED <<hw, lock, ports, helpers, dog, starts, robbed, late>>

\* ------------------------------------------------------------ asking for a reset
Launched(old) ==
  \E h \in Helpers :
    /\ helpers[h].pc = "none" /\ \A g \in Helpers : g < h => helpers[g].pc # "none"
    /\ helpers' = [helpers EXCEPT ![h] = [pc |-> "old", old |-> old]]

\* Mutant: the process ends although no helper could be launched.
ServiceResetAlone(p) ==
  /\ svc[p].pc = "serve" /\ ~svc[p].pending /\ svc' = [svc EXCEPT ![p].pending = TRUE]
  /\ UNCHANGED <<hw, lock, ports, helpers, dog, starts, robbed, late>>

\* schedule_service_reset: once per service; half a second later the process ends at once.
ServiceReset(p) ==
  /\ svc[p].pc = "serve" /\ ~svc[p].pending /\ Launched(p)
  /\ svc' = [svc EXCEPT ![p].pending = TRUE]
  /\ UNCHANGED <<hw, lock, ports, dog, starts, robbed, late>>

ServiceExit(p) ==
  /\ Lives(p) /\ svc[p].pending /\ Place(p, "dead") /\ ports' = ports \ {p}
  /\ UNCHANGED <<hw, lock, helpers, dog, starts, robbed, late>>

\* The process table: every service that lives, or nothing.
Tables == {{}} \cup (IF Windows THEN {{p \in Services : Lives(p)}} ELSE {})

\* The watchdog's do_POST: the owner of the lock is replaced, or a service of the table; half a
\* second later all of them are killed. Further requests are ignored for a while.
DogReset ==
  /\ ~dog.pending /\ dog.kill = {} /\ ~dog.clear
  /\ \E table \in Tables :
       \E old \in IF lock.owner # 0 /\ lock.done THEN {lock.owner}
                  ELSE IF table = {} THEN {0} ELSE table :
         Launched(old) /\ dog' = [pending |-> TRUE, kill |-> table \cup ({old} \ {0}), clear |-> TRUE]
  /\ UNCHANGED <<svc, hw, lock, ports, starts, robbed, late>>

DogKill ==
  /\ dog.kill # {} /\ Killed(dog.kill) /\ dog' = [dog EXCEPT !.kill = {}]
  /\ UNCHANGED <<lock, helpers, starts, robbed, late>>

DogClear ==
  /\ dog.clear /\ dog' = [dog EXCEPT !.clear = FALSE, !.pending = FALSE]
  /\ UNCHANGED <<svc, hw, lock, ports, helpers, starts, robbed, late>>

\* ------------------------------------------------------------ the helper
HelperAt(h, from, to) == helpers[h].pc = from /\ helpers' = [helpers EXCEPT ![h].pc = to]

\* terminate_old_process: after a grace of two seconds.
HelperOld(h) ==
  /\ HelperAt(h, "old", "services")
  /\ Killed({helpers[h].old} \cap {p \in Services : Lives(p)})
  /\ UNCHANGED <<lock, dog, starts, robbed, late>>

\* Every service of the table is killed.
HelperServices(h) ==
  /\ HelperAt(h, "services", "workers") /\ \E table \in Tables : Killed(table)
  /\ UNCHANGED <<lock, dog, starts, robbed, late>>

\* matching_spawn_workers: every backend, of living and of dead services.
HelperWorkers(h) ==
  /\ HelperAt(h, "workers", "clean")
  /\ hw' \in {hw} \cup (IF Windows THEN {Gone(Services)} ELSE {})
  /\ UNCHANGED <<svc, lock, ports, dog, starts, robbed, late>>

\* For five seconds, or until the table is empty, what it shows is killed.
HelperClean(h) ==
  /\ helpers[h].pc = "clean" /\ UNCHANGED helpers /\ \E table \in Tables : Killed(table)
  /\ UNCHANGED <<lock, dog, starts, robbed, late>>

\* Then a service that is left ends the reset without a start. The watchdog's half second is over
\* by then: the helper has been launched and has asked for the table four times.
HelperCheck(h) ==
  /\ dog.kill = {}
  /\ \E table \in Tables : \/ table = {} /\ HelperAt(h, "clean", "unlink")
                           \/ table # {} /\ HelperAt(h, "clean", "failed")
  /\ UNCHANGED <<svc, hw, lock, ports, dog, starts, robbed, late>>

\* The lock is removed, whoever has it.
HelperUnlink(h) ==
  /\ HelperAt(h, "unlink", "start")
  /\ lock' = IF Refused THEN lock ELSE NoLock
  /\ robbed' = (robbed \/ (lock' # lock /\ Lives(lock.owner)))
  /\ UNCHANGED <<svc, hw, ports, dog, starts, late>>

HelperStart(h) ==
  /\ HelperAt(h, "start", "done") /\ Begins
  /\ UNCHANGED <<hw, lock, ports, dog, starts, robbed, late>>

Next ==
  \/ UserStart
  \/ \E p \in Services :
       \/ Orphan(p) \/ LockCreate(p) \/ LockWrite(p) \/ LockRead(p) \/ LockRemove(p) \/ Bind(p)
       \/ Spawn(p) \/ Known(p) \/ CloseServer(p) \/ CloseBackend(p) \/ CloseUnlock(p) \/ Exit(p)
       \/ ServiceReset(p) \/ ServiceExit(p)
  \/ DogReset \/ DogKill \/ DogClear
  \/ \E h \in Helpers :
       \/ HelperOld(h) \/ HelperServices(h) \/ HelperWorkers(h) \/ HelperClean(h)
       \/ HelperCheck(h) \/ HelperUnlink(h) \/ HelperStart(h)

Spec == Init /\ [][Next]_vars

\* ------------------------------------------------------------ properties
\* The types of the state.
TypeOK ==
  /\ svc \in [Services -> [pc : {"none", "create", "write", "read", "stale", "bind", "serve",
                                 "closing", "unlock", "exit", "ended", "dead"},
                           tries : 0..2, pending : BOOLEAN]]
  /\ hw \in [Services -> {"none", "on", "known", "gone"}]
  /\ lock.owner \in 0..MaxService /\ lock.done \in BOOLEAN /\ ports \subseteq Services
  /\ \A h \in Helpers : helpers[h].pc \in {"none", "old", "services", "workers", "clean",
                                           "unlink", "start", "done", "failed"}
  /\ dog.kill \subseteq Services /\ starts \in 0..Starts /\ {robbed, late} \subseteq BOOLEAN

Owners == {p \in Services : Lives(p) /\ Runs(p)}

\* "The one process permitted to own the hardware transport": at most one living service has a
\* backend, unless a service lost its lock to another start, or was closed before its backend was
\* known (nero_control_server.py:183-184, 412-427, 1554-1637, instance_lock.py:22-48).
OneOwner == robbed \/ late \/ \A p, q \in Owners : p = q

\* Resets that have done their work leave a service, however they overlap: when no helper is at
\* work and every start has ended one way or the other, but for one that has met two stale locks
\* and given up, some service serves and goes on serving, unless one was closed by hand
\* (nero_control_service_restart.py:190-318).
ResetLeavesOne ==
  (/\ \A h \in Helpers : helpers[h].pc \in {"none", "done", "failed"}
   /\ \A p \in Services : svc[p].pc \in {"none", "serve", "dead"} /\ svc[p].tries # 2)
  => \E p \in Services : svc[p].pc = "serve" /\ ~svc[p].pending
=============================================================================
