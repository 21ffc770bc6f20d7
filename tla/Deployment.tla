----------------------------- MODULE Deployment -----------------------------
(***************************************************************************)
(* The processes of cosmad: the supervisor (src/runner.ts), which forks the  *)
(* engine, the ingestion process and the API process one after the other,    *)
(* and what they hold while they live: the database file, the socket path,   *)
(* the port of the API.  Whoever starts cosmad starts it again when it is    *)
(* down, and never twice at a time.                                         *)
(*                                                                         *)
(* The supervisor may be killed between any two steps, and its children with *)
(* it or not: those that were up live on, without anybody to answer to.      *)
(***************************************************************************)
EXTENDS Schema, FiniteSets

CONSTANTS
  Slots,      \* bound: processes of one kind that may be alive at a time
  Troubles    \* bound: kills, crashes, failed pings, stops by hand, slow start-ups

ASSUME DeploymentAssumption ==
  Slots \in Nat \ {0} /\ Troubles \in Nat

Kind == {"engine", "ingestion", "api"}
Process == Kind \X (1..Slots)
Nobody == <<"none", 0>>

VARIABLES
  runner,     \* where the supervisor is
  target,     \* the leftover engine it is ending
  pidFile,    \* the engine named in engine.pid
  procs,      \* the processes
  lock,       \* who has the database file open
  sock,       \* who listens on the socket path
  port,       \* who listens on the API's port
  db,         \* the database
  plan,       \* the statements of initSchema still to be run
  lost,       \* history: alive, and unknown to any later supervisor
  byHand,     \* history: one process was stopped by hand
  troubles    \* what is left of the bound

files == <<pidFile, lock, sock, port, db>>
vars == <<runner, target, files, procs, plan, lost, byHand, troubles>>

-----------------------------------------------------------------------------
(* Processes.  An exit waits as "done" (code 0) or "failed" until the         *)
(* supervisor hears of it.                                                  *)

\* orphan: its supervisor is gone.  term: a SIGTERM is under way.  conn: the
\* engine it is connected to.  late: it connected as an orphan.
Dead == [pc |-> "dead", orphan |-> TRUE, term |-> FALSE, conn |-> Nobody, late |-> FALSE]
Forked == [Dead EXCEPT !.pc = "boot", !.orphan = FALSE]

Alive(p) == procs[p].pc \notin {"dead", "done", "failed"}

\* The processes the supervisor has forked and not heard the end of.
Children == {p \in Process : procs[p].pc # "dead" /\ ~procs[p].orphan}

Child(kind) == {p \in Children : p[1] = kind}

\* What a process holds is free when it is dead.
Free(holder, p) == IF holder = p THEN Nobody ELSE holder

\* p exits; a connection to it is broken.
Exits(p, code) ==
  /\ procs' = [q \in Process |->
                 IF q = p
                 THEN IF procs[p].orphan THEN Dead ELSE [Forked EXCEPT !.pc = code]
                 ELSE [procs[q] EXCEPT !.conn = Free(@, p)]]
  /\ lost' = lost \ {p}

Releases(p) == lock' = Free(lock, p) /\ sock' = Free(sock, p) /\ port' = Free(port, p)

Moves(p, pc) == procs' = [procs EXCEPT ![p].pc = pc] /\ UNCHANGED lost

Trouble == troubles > 0 /\ troubles' = troubles - 1

Init ==
  /\ runner = "down" /\ target = Nobody /\ pidFile = Nobody
  /\ procs = [p \in Process |-> Dead]
  /\ lock = Nobody /\ sock = Nobody /\ port = Nobody
  /\ db = EmptyDatabase /\ plan = <<>> /\ lost = {}
  /\ byHand = FALSE /\ troubles = Troubles

-----------------------------------------------------------------------------
(* The supervisor.                                                         *)

Start ==
  /\ runner = "down"
  /\ runner' = "reap"
  /\ UNCHANGED <<target, files, procs, plan, lost, byHand, troubles>>

\* reapStaleEngine up to the signal: the file is gone before the engine is.
reapStaleEngine ==
  /\ runner = "reap"
  /\ pidFile' = Nobody
  /\ IF pidFile # Nobody /\ Alive(pidFile)
     THEN runner' = "terminate" /\ target' = pidFile
     ELSE runner' = "fork" /\ UNCHANGED target
  /\ UNCHANGED <<procs, lock, sock, port, db, plan, lost, byHand, troubles>>

Terminate ==
  /\ runner = "terminate"
  /\ runner' = "await"
  /\ procs' = [procs EXCEPT ![target].term = Alive(target)]
  /\ UNCHANGED <<target, files, plan, lost, byHand, troubles>>

\* Mutant: the supervisor goes on after its signal.
Signalled == TRUE

\* The condition to leave the wait.
TargetGone == ~Alive(target)

AwaitDeath ==
  /\ runner = "await"
  /\ TargetGone
  /\ runner' = "fork" /\ target' = Nobody
  /\ UNCHANGED <<files, procs, plan, lost, byHand, troubles>>

\* STALE_ENGINE_KILL_TIMEOUT_MS are over: SIGKILL.
KillTarget ==
  /\ runner = "await"
  /\ Alive(target)
  /\ Exits(target, "failed") /\ Releases(target)
  /\ UNCHANGED <<runner, target, pidFile, db, plan, byHand, troubles>>

\* spawn: the process takes the first free place.
Spawn(kind) ==
  \E n \in 1..Slots :
    /\ procs[<<kind, n>>].pc = "dead"
    /\ \A k \in 1..n - 1 : procs[<<kind, k>>].pc # "dead"
    /\ procs' = [procs EXCEPT ![<<kind, n>>] = Forked]

spawnEngine ==
  /\ runner = "fork"
  /\ runner' = "record"
  /\ Spawn("engine")
  /\ UNCHANGED <<target, files, plan, lost, byHand, troubles>>

writePidFile ==
  /\ runner = "record"
  /\ runner' = "engine"
  /\ \E e \in Child("engine") : pidFile' = e
  /\ UNCHANGED <<target, lock, sock, port, db, procs, plan, lost, byHand, troubles>>

\* Mutant: the next process is forked at once.
AnyChild(kind) == Child(kind) # {}

\* The process reported ready, whatever became of it since.
IsReady(kind) == \E p \in Child(kind) : procs[p].pc \in {"up", "closing", "done"}

\* waitForReady, and on to the next process.
waitForReady ==
  \/ /\ runner = "engine" /\ IsReady("engine")
     /\ runner' = "ingestion" /\ Spawn("ingestion")
     /\ UNCHANGED <<target, files, plan, lost, byHand, troubles>>
  \/ /\ runner = "ingestion" /\ IsReady("ingestion")
     /\ runner' = "api" /\ Spawn("api")
     /\ UNCHANGED <<target, files, plan, lost, byHand, troubles>>
  \/ /\ runner = "api" /\ IsReady("api")
     /\ runner' = "ready"
     /\ UNCHANGED <<target, files, procs, plan, lost, byHand, troubles>>

\* Mutant: the children are left to themselves.
NotTold == [p \in Process |-> IF Alive(p) THEN [procs[p] EXCEPT !.orphan = TRUE] ELSE Dead]

\* Mutant: the supervisor tells them and forgets to leave.
StillThere == [p \in Process |-> [procs[p] EXCEPT !.term = @ \/ p \in Children]]

\* SIGTERM to all children.
Told ==
  [p \in Process |->
     IF ~Alive(p) THEN Dead
     ELSE [procs[p] EXCEPT !.term = @ \/ p \in Children, !.orphan = TRUE]]

\* killAll: and gone, before any of them is.
killAll ==
  /\ runner' = "down" /\ target' = Nobody
  /\ procs' = Told
  /\ UNCHANGED <<files, plan, lost, byHand>>

\* READY_TIMEOUT_MS are over.
ReadyTimeout ==
  /\ runner \in Kind
  /\ Child(runner) # {} /\ ~IsReady(runner)
  /\ Trouble
  /\ killAll

\* The same for a process that left with code 0.
NeverReady ==
  /\ runner \in Kind
  /\ Child(runner) = {}
  /\ killAll
  /\ UNCHANGED troubles

\* Mutant: an exit is a matter of its code, and a signal has none.
OnlyLogged == {"done", "failed"}

\* The exits that the supervisor only logs.
CleanExits == {"done"}

\* The exit listeners of a child.
ChildExits(p) ==
  /\ runner \in Kind \cup {"ready"} /\ p \in Children
  /\ \/ /\ procs[p].pc \in {"done", "failed"} \ CleanExits
        /\ killAll
     \/ /\ procs[p].pc \in CleanExits
        /\ procs' = [procs EXCEPT ![p] = Dead]
        /\ pidFile' = IF p[1] = "engine" THEN Nobody ELSE pidFile
        /\ UNCHANGED <<runner, target, lock, sock, port, db, plan, lost, byHand>>
  /\ UNCHANGED troubles

\* SIGTERM, once all are ready.
Stop ==
  /\ runner = "ready"
  /\ Trouble
  /\ killAll

\* SIGKILL, or SIGTERM before the supervisor listens to it: it dies as it is.
RunnerDies ==
  /\ runner # "down"
  /\ Trouble
  /\ runner' = "down" /\ target' = Nobody
  /\ procs' = [p \in Process |-> IF Alive(p) THEN [procs[p] EXCEPT !.orphan = TRUE] ELSE Dead]
  /\ lost' = lost \cup {p \in Children \ {pidFile} : Alive(p)}
                  \cup {p \in {target} \ {Nobody} : Alive(p)}
  /\ UNCHANGED <<files, plan, byHand>>

-----------------------------------------------------------------------------
(* Any process.                                                            *)

\* It crashes or is killed.
Dies(p) ==
  /\ Alive(p)
  /\ Trouble
  /\ Exits(p, "failed") /\ Releases(p)
  /\ UNCHANGED <<runner, target, pidFile, db, plan, byHand>>

\* Somebody stops this one process.
StoppedByHand(p) ==
  /\ Alive(p) /\ ~procs[p].term
  /\ Trouble
  /\ procs' = [procs EXCEPT ![p].term = TRUE]
  /\ byHand' = TRUE
  /\ UNCHANGED <<runner, target, files, plan, lost>>

\* Mutant: the database is closed first.
DatabaseFirst == <<"database", "server">>

\* The two steps of the engine's shutdown.
ShutdownOrder == <<"server", "database">>

\* stopServer removes the path, whoever listens on it; db.close ends the lock.
Closes(part, e) ==
  IF part = "server" THEN sock' = Nobody /\ UNCHANGED lock
  ELSE lock' = Free(lock, e) /\ UNCHANGED sock

\* The signal arrives.  Before a process is up nothing handles it.
Terminated(p) ==
  /\ Alive(p) /\ procs[p].term /\ procs[p].pc # "closing"
  /\ IF p[1] = "engine" /\ procs[p].pc = "up"
     THEN Moves(p, "closing") /\ Closes(ShutdownOrder[1], p) /\ UNCHANGED port
     ELSE /\ Exits(p, IF procs[p].pc = "up" THEN "done" ELSE "failed")
          /\ Releases(p)
  /\ UNCHANGED <<runner, target, pidFile, db, plan, byHand, troubles>>

\* What the message "ready" does: with its supervisor gone the process has no
\* channel for it and dies of the error.
ReportReady(p) ==
  IF procs[p].orphan THEN Exits(p, "failed") ELSE Moves(p, "up")

-----------------------------------------------------------------------------
(* The engine.                                                             *)

\* RWDB.create: DuckDB lets one process open the file.
openDatabase(e) ==
  /\ procs[e].pc = "boot"
  /\ IF lock = Nobody
     THEN Moves(e, "schema") /\ lock' = e /\ plan' = initSchema(db)
     ELSE Exits(e, "failed") /\ UNCHANGED <<lock, plan>>
  /\ UNCHANGED <<runner, target, pidFile, sock, port, db, byHand, troubles>>

runStatement(e) ==
  /\ procs[e].pc = "schema" /\ plan # <<>>
  /\ db' = Run(db, Head(plan)) /\ plan' = Tail(plan)
  /\ UNCHANGED <<runner, target, pidFile, lock, sock, port, procs, lost, byHand, troubles>>

\* startEngineServer: a path that is there is removed first.
startEngineServer(e) ==
  /\ procs[e].pc = "schema" /\ plan = <<>>
  /\ ReportReady(e)
  /\ sock' = IF procs[e].orphan THEN Nobody ELSE e
  /\ lock' = IF procs[e].orphan THEN Nobody ELSE lock
  /\ UNCHANGED <<runner, target, pidFile, port, db, plan, byHand, troubles>>

\* The rest of shutdown; if DuckDB does not let go the watchdog kills the engine.
FinishShutdown(e) ==
  /\ procs[e].pc = "closing"
  /\ \/ Exits(e, "done") /\ Closes(ShutdownOrder[2], e)
     \/ Exits(e, "failed") /\ lock' = Free(lock, e) /\ sock' = Free(sock, e)
  /\ UNCHANGED <<runner, target, pidFile, port, db, plan, byHand, troubles>>

Engine(e) == openDatabase(e) \/ runStatement(e) \/ startEngineServer(e) \/ FinishShutdown(e)

(* Ingestion and API.                                                      *)

\* A ping of startHealthCheck is not answered: axios rejects, nothing handles
\* the rejection, and it ends the process.
PingFails(i) ==
  /\ procs[i].pc \in {"starting", "up"}
  /\ Trouble
  /\ Exits(i, "failed") /\ Releases(i)
  /\ UNCHANGED <<runner, target, pidFile, db, plan, byHand>>

\* EngineConnection.connect: without somebody on the path the process ends.
connect(p) ==
  /\ procs[p].pc = "boot"
  /\ IF sock # Nobody
     THEN /\ procs' = [procs EXCEPT ![p].pc = "starting", ![p].conn = sock,
                                    ![p].late = procs[p].orphan]
          /\ UNCHANGED lost
     ELSE Exits(p, "failed")
  /\ UNCHANGED <<runner, target, files, plan, byHand, troubles>>

\* The workers run.
startWorkers(i) ==
  /\ procs[i].pc = "starting"
  /\ ReportReady(i)
  /\ UNCHANGED <<runner, target, files, plan, byHand, troubles>>

\* startApiServer: a port in use is an error without a listener.
startApiServer(a) ==
  /\ procs[a].pc = "starting"
  /\ IF port = Nobody
     THEN ReportReady(a) /\ port' = IF procs[a].orphan THEN Nobody ELSE a
     ELSE Exits(a, "failed") /\ UNCHANGED port
  /\ UNCHANGED <<runner, target, pidFile, lock, sock, db, plan, byHand, troubles>>

Supervise ==
  \/ Start \/ reapStaleEngine \/ Terminate \/ AwaitDeath \/ spawnEngine \/ writePidFile
  \/ waitForReady \/ \E p \in Process : ChildExits(p)

Proceeds(p) ==
  \/ Terminated(p)
  \/ p[1] = "engine" /\ Engine(p)
  \/ p[1] # "engine" /\ connect(p)
  \/ p[1] = "ingestion" /\ startWorkers(p)
  \/ p[1] = "api" /\ startApiServer(p)

Next ==
  \/ Supervise \/ KillTarget \/ ReadyTimeout \/ NeverReady \/ Stop \/ RunnerDies
  \/ \E p \in Process : \/ Proceeds(p) \/ Dies(p) \/ StoppedByHand(p)
                        \/ p[1] = "ingestion" /\ PingFails(p)

\* Processes go on, cosmad is started again, and a process that never reports
\* is given up.
Spec ==
  /\ Init /\ [][Next]_vars
  /\ WF_vars(Supervise) /\ WF_vars(NeverReady)
  /\ \A p \in Process : WF_vars(Proceeds(p))

-----------------------------------------------------------------------------
(* Properties.                                                             *)

Owner == Process \cup {Nobody}

(* Every variable has its type, and the dead hold nothing.                  *)
TypeOK ==
  /\ runner \in {"down", "reap", "terminate", "await", "fork", "record", "ready"} \cup Kind
  /\ {target, pidFile, lock, sock, port} \subseteq Owner
  /\ \A p \in Process :
       /\ procs[p].pc \in {"dead", "done", "failed", "boot", "schema", "starting", "up", "closing"}
       /\ {procs[p].orphan, procs[p].term, procs[p].late} \subseteq BOOLEAN
       /\ procs[p].conn \in Owner
  /\ \A p \in {lock, sock, port} \ {Nobody} : Alive(p)
  /\ \A kind \in Kind : Cardinality(Child(kind)) <= 1
  /\ runner = "down" => Children = {}
  /\ db \in Database /\ lost \subseteq {p \in Process : Alive(p)}
  /\ byHand \in BOOLEAN /\ troubles \in 0..Troubles

(* An engine that is up can be reached: it has the database and the socket     *)
(* path is its own.  Engines that start and engines that stop remove the path  *)
(* without asking whose it is; that they hold the database meanwhile keeps     *)
(* them apart.                                                              *)
EngineReachable ==
  \A e \in Process : procs[e].pc = "up" /\ e[1] = "engine" => sock = e /\ lock = e

(* An engine in service has every table, at the latest version, however often  *)
(* earlier ones died in the middle of initSchema.                            *)
SchemaComplete ==
  sock # Nobody => db = [tables |-> Tables, version |-> latestMigrationVersion]

(* The database has one writer ("ingestion ... writes via a writer            *)
(* EngineClient", runner.ts:12): two ingestion processes are connected to one   *)
(* engine only if one of them lost its supervisor before it connected.        *)
OneWriter ==
  \A i, j \in {"ingestion"} \X (1..Slots) :
    i # j /\ procs[i].conn = procs[j].conn /\ procs[i].conn # Nobody
      => procs[i].late \/ procs[j].late

(* An engine finds the database taken only if a supervisor died while no pid    *)
(* file named the engine that has it: reapStaleEngine sees to all others.      *)
RefusalExplained ==
  [][\A e \in Process :
       procs[e].pc = "boot" /\ e[1] = "engine" /\ ~procs[e].orphan
       /\ procs'[e].pc = "failed" /\ lock' # Nobody /\ troubles' = troubles
       /\ ~procs[e].term
         => lock \in lost]_vars

\* A process that no supervisor knows keeps the next system from starting.
Blocked == \E p \in {lock, port} : p \in lost

(* In the end cosmad is up, whatever crashed on the way, or a process that      *)
(* outlived its supervisor stands in the way for ever.                       *)
ComesUp == <>[](runner = "ready") \/ <>[]Blocked

\* Everything the supervisor forked is up.
Whole == \A kind \in Kind : \E p \in Child(kind) : procs[p].pc = "up"

(* cosmad does not go on in parts: a process that left takes the others along   *)
(* - unless somebody stopped one by hand, which ends it with code 0, and that    *)
(* the supervisor only logs.                                                *)
NoHalfSystem ==
  runner = "ready" /\ ~Whole /\ ~byHand ~> runner # "ready"
=============================================================================
