-------------------------- MODULE DeploymentProofs --------------------------
(***************************************************************************)
(* Deployment keeps its types, an engine that is up can be reached and has the *)
(* whole schema, the database has one writer, and an engine that finds the     *)
(* database taken has a process nobody knows of to blame.                     *)
(*                                                                         *)
(* First what an exit, a move and the end of a supervisor do to each process   *)
(* (the ...Effect lemmas); then the inductive invariant DInv, one lemma per    *)
(* kind of step; then the properties.                                       *)
(***************************************************************************)
EXTENDS Deployment, FiniteSetTheorems, TLAPS

PCs == {"dead", "done", "failed", "boot", "schema", "starting", "up", "closing"}

ProcessRecord ==
  [pc : PCs, orphan : BOOLEAN, term : BOOLEAN, conn : Owner, late : BOOLEAN]

Statements == Tables \cup {"stamp", "migrate"}

Runners == {"down", "reap", "terminate", "await", "fork", "record", "ready"} \cup Kind

Typed ==
  /\ runner \in Runners
  /\ target \in Owner /\ pidFile \in Owner
  /\ lock \in Owner /\ sock \in Owner /\ port \in Owner
  /\ procs \in [Process -> ProcessRecord]
  /\ db \in Database /\ plan \in Seq(Statements)
  /\ lost \in SUBSET Process /\ byHand \in BOOLEAN /\ troubles \in 0..Troubles

\* Which process can be where; who is dead has nobody to report to, and who has
\* exited and is not dead has somebody.
Parts ==
  \A p \in Process :
    /\ procs[p].pc \in {"schema", "closing"} => p[1] = "engine"
    /\ procs[p].pc = "starting" => p[1] # "engine"
    /\ procs[p].pc = "dead" => procs[p].orphan
    /\ procs[p].pc \in {"done", "failed"} => ~procs[p].orphan
    /\ procs[p].conn # Nobody => p[1] # "engine" /\ procs[p].pc \in {"starting", "up"}

\* The database, the socket path and the port belong to whoever is past the
\* step that takes them and before the one that gives them back.
Held ==
  /\ \A e \in Process : e[1] = "engine" =>
       /\ procs[e].pc \in {"schema", "up", "closing"} => lock = e
       /\ procs[e].pc = "up" => sock = e
  /\ lock # Nobody => lock[1] = "engine" /\ procs[lock].pc \in {"schema", "up", "closing"}
  /\ sock # Nobody => sock[1] = "engine" /\ procs[sock].pc = "up"
  /\ port # Nobody => port[1] = "api" /\ procs[port].pc = "up"

\* Which children the supervisor can have, one of a kind.
Expected(kind) ==
  \/ kind = "engine" /\ runner \in {"record", "ready"} \cup Kind
  \/ kind = "ingestion" /\ runner \in {"ingestion", "api", "ready"}
  \/ kind = "api" /\ runner \in {"api", "ready"}

Family ==
  /\ \A p \in Children : Expected(p[1])
  /\ \A p, q \in Children : p[1] = q[1] => p = q

\* engine.pid and the leftover that is being ended.
Reaping ==
  /\ target # Nobody <=> runner \in {"terminate", "await"}
  /\ target # Nobody => target[1] = "engine"
  /\ pidFile # Nobody => pidFile[1] = "engine"
  /\ runner \in {"terminate", "await", "fork", "record"} => pidFile = Nobody
  /\ runner \in Kind \cup {"ready"} => \A e \in Children : e[1] = "engine" => pidFile = e

\* An engine that outlived its supervisor is named in engine.pid, is being
\* ended, or is lost.
Known ==
  /\ \A p \in lost : Alive(p)
  /\ \A e \in Process : e[1] = "engine" /\ Alive(e) /\ procs[e].orphan
                          => e \in lost \/ e = pidFile \/ e = target

\* What is left of initSchema completes the database.
Elements(s) == {s[i] : i \in 1..Len(s)}

Planned == Elements(plan)

Complete == [tables |-> Tables, version |-> latestMigrationVersion]

Completes ==
  /\ Tables \subseteq db.tables \cup Planned
  /\ db.version = latestMigrationVersion \/ \E s \in Planned : s \notin Tables

Schemed ==
  /\ lock # Nobody /\ procs[lock].pc = "schema" => Completes
  /\ lock # Nobody /\ procs[lock].pc \in {"up", "closing"} => db = Complete

\* Once the engine of this supervisor has been up, no other is.
Generation ==
  /\ \A c \in Children : c[1] = "engine" /\ procs[c].pc \in {"up", "closing", "done"}
       => \A e \in Process : e[1] = "engine" /\ procs[e].pc = "up" => e = c
  /\ runner \in {"ingestion", "api", "ready"}
       => \A e \in Process : e[1] = "engine" /\ procs[e].pc = "up" => ~procs[e].orphan

\* Who connected in time lost its supervisor when its engine did.
Together ==
  \A p \in Process : procs[p].conn # Nobody =>
    /\ procs[p].conn[1] = "engine" /\ Alive(procs[p].conn)
    /\ ~procs[p].late => procs[p].orphan = procs[procs[p].conn].orphan

DInv ==
  /\ Typed /\ Parts /\ Held /\ Family /\ Reaping /\ Known /\ Schemed
  /\ Generation /\ Together /\ OneWriter

\* All that the invariant knows of a process is as it was.
Same(q) ==
  /\ procs'[q].pc = procs[q].pc /\ procs'[q].orphan = procs[q].orphan
  /\ procs'[q].conn = procs[q].conn /\ procs'[q].late = procs[q].late

-----------------------------------------------------------------------------
(* Processes and their records.                                            *)

\* A process has a kind, and nobody is not a process.
LEMMA Processes ==
  /\ Nobody \notin Process
  /\ \A p \in Process : p[1] \in Kind
  /\ \A kind \in Kind, n \in 1..Slots : <<kind, n>> \in Process /\ <<kind, n>>[1] = kind
  /\ \A i \in {"ingestion"} \X (1..Slots) : i \in Process /\ i[1] = "ingestion"
BY DEF Process, Nobody, Kind

\* The dead and the forked are records of processes.
LEMMA Records == Dead \in ProcessRecord /\ Forked \in ProcessRecord
BY DEF Dead, Forked, ProcessRecord, PCs, Owner

\* What an exit does to the process and to the others.
LEMMA ExitsEffect ==
  ASSUME procs \in [Process -> ProcessRecord], NEW p \in Process,
         NEW code \in {"done", "failed"}, Exits(p, code)
  PROVE  /\ procs' \in [Process -> ProcessRecord]
         /\ lost' = lost \ {p}
         /\ procs'[p].pc = IF procs[p].orphan THEN "dead" ELSE code
         /\ procs'[p].orphan = procs[p].orphan
         /\ procs'[p].conn = Nobody
         /\ \A q \in Process \ {p} :
              /\ procs'[q].pc = procs[q].pc /\ procs'[q].orphan = procs[q].orphan
              /\ procs'[q].late = procs[q].late
              /\ procs'[q].conn = Free(procs[q].conn, p)
<1>1. \A q \in Process \ {p} :
        [procs[q] EXCEPT !.conn = Free(@, p)] \in ProcessRecord
  BY DEF Free, ProcessRecord, Owner
<1>2. (IF procs[p].orphan THEN Dead ELSE [Forked EXCEPT !.pc = code]) \in ProcessRecord
  BY DEF Dead, Forked, ProcessRecord, Owner, PCs
<1>3. procs' = [q \in Process |->
                 IF q = p
                 THEN IF procs[p].orphan THEN Dead ELSE [Forked EXCEPT !.pc = code]
                 ELSE [procs[q] EXCEPT !.conn = Free(@, p)]]
  BY DEF Exits
<1>4. procs' \in [Process -> ProcessRecord]
  BY <1>1, <1>2, <1>3
<1>5. \A q \in Process \ {p} :
        /\ procs'[q].pc = procs[q].pc /\ procs'[q].orphan = procs[q].orphan
        /\ procs'[q].late = procs[q].late
        /\ procs'[q].conn = Free(procs[q].conn, p)
  BY <1>3 DEF ProcessRecord
<1>6. procs'[p] = IF procs[p].orphan THEN Dead ELSE [Forked EXCEPT !.pc = code]
  BY <1>3
<1>7. procs[p].orphan \in BOOLEAN
  BY DEF ProcessRecord
<1> QED
  BY <1>4, <1>5, <1>6, <1>7 DEF Exits, Dead, Forked

\* A process goes on to pc.
LEMMA MovesEffect ==
  ASSUME procs \in [Process -> ProcessRecord], NEW p \in Process,
         NEW pc \in PCs, Moves(p, pc)
  PROVE  /\ procs' \in [Process -> ProcessRecord]
         /\ lost' = lost
         /\ procs'[p].pc = pc
         /\ procs'[p].orphan = procs[p].orphan
         /\ procs'[p].conn = procs[p].conn /\ procs'[p].late = procs[p].late
         /\ \A q \in Process \ {p} : Same(q)
<1>1. [procs[p] EXCEPT !.pc = pc] \in ProcessRecord
  BY DEF ProcessRecord
<1>2. procs' = [procs EXCEPT ![p] = [procs[p] EXCEPT !.pc = pc]]
  BY DEF Moves
<1>3. procs' \in [Process -> ProcessRecord]
  BY <1>1, <1>2
<1>4. procs'[p] = [procs[p] EXCEPT !.pc = pc] /\ procs[p] \in ProcessRecord
  BY <1>2
<1>5. \A q \in Process \ {p} : procs'[q] = procs[q]
  BY <1>2
<1> QED
  BY <1>3, <1>4, <1>5 DEF Same, Moves, ProcessRecord

\* A signal is under way.
LEMMA TermEffect ==
  ASSUME procs \in [Process -> ProcessRecord], NEW p \in Process, NEW term \in BOOLEAN,
         procs' = [procs EXCEPT ![p].term = term]
  PROVE  procs' \in [Process -> ProcessRecord] /\ \A q \in Process : Same(q)
<1>1. [procs[p] EXCEPT !.term = term] \in ProcessRecord
  BY DEF ProcessRecord
<1>2. procs' = [procs EXCEPT ![p] = [procs[p] EXCEPT !.term = term]]
  OBVIOUS
<1>3. procs' \in [Process -> ProcessRecord]
  BY <1>1, <1>2
<1>4. procs'[p] = [procs[p] EXCEPT !.term = term] /\ procs[p] \in ProcessRecord
  BY <1>2
<1>5. \A q \in Process \ {p} : procs'[q] = procs[q]
  BY <1>2
<1> QED
  BY <1>3, <1>4, <1>5 DEF Same, ProcessRecord

\* What the end of a supervisor leaves of each process.
Orphaned(q) ==
  /\ procs'[q].orphan
  /\ IF Alive(q)
     THEN /\ procs'[q].pc = procs[q].pc
          /\ procs'[q].conn = procs[q].conn /\ procs'[q].late = procs[q].late
     ELSE procs'[q].pc = "dead" /\ procs'[q].conn = Nobody

LEMMA ToldEffect ==
  ASSUME procs \in [Process -> ProcessRecord], procs' = Told
  PROVE  procs' \in [Process -> ProcessRecord] /\ \A q \in Process : Orphaned(q)
<1>1. \A q \in Process :
        [procs[q] EXCEPT !.term = @ \/ q \in Children, !.orphan = TRUE] \in ProcessRecord
  BY DEF ProcessRecord
<1>2. \A q \in Process :
        procs'[q] = IF ~Alive(q) THEN Dead
                    ELSE [procs[q] EXCEPT !.term = @ \/ q \in Children, !.orphan = TRUE]
  BY DEF Told
<1>3. procs' \in [Process -> ProcessRecord]
  BY <1>1, <1>2, Records DEF Told
<1>4. ASSUME NEW q \in Process, Alive(q)
      PROVE  Orphaned(q)
  <2>1. procs'[q] = [procs[q] EXCEPT !.term = procs[q].term \/ q \in Children, !.orphan = TRUE]
    BY <1>2, <1>4
  <2> QED
    BY <1>4, <2>1 DEF Orphaned, ProcessRecord
<1>5. ASSUME NEW q \in Process, ~Alive(q)
      PROVE  Orphaned(q)
  <2>1. procs'[q] = Dead
    BY <1>2, <1>5
  <2> QED
    BY <1>5, <2>1 DEF Orphaned, Dead
<1> QED
  BY <1>3, <1>4, <1>5

LEMMA LeftEffect ==
  ASSUME procs \in [Process -> ProcessRecord],
         procs' = [p \in Process |->
                     IF Alive(p) THEN [procs[p] EXCEPT !.orphan = TRUE] ELSE Dead]
  PROVE  procs' \in [Process -> ProcessRecord] /\ \A q \in Process : Orphaned(q)
<1>1. \A q \in Process : [procs[q] EXCEPT !.orphan = TRUE] \in ProcessRecord
  BY DEF ProcessRecord
<1>2. \A q \in Process :
        procs'[q] = IF Alive(q) THEN [procs[q] EXCEPT !.orphan = TRUE] ELSE Dead
  OBVIOUS
<1>3. procs' \in [Process -> ProcessRecord]
  BY <1>1, <1>2, Records
<1> QED
  BY <1>2, <1>3 DEF Orphaned, Dead, ProcessRecord

\* A process takes a free place.
LEMMA SpawnEffect ==
  ASSUME procs \in [Process -> ProcessRecord], NEW kind \in Kind, Spawn(kind)
  PROVE  \E p \in Process :
           /\ p[1] = kind /\ procs[p].pc = "dead"
           /\ procs' \in [Process -> ProcessRecord]
           /\ procs'[p].pc = "boot" /\ ~procs'[p].orphan /\ procs'[p].conn = Nobody
           /\ \A q \in Process \ {p} : Same(q)
<1>1. PICK n \in 1..Slots : /\ procs[<<kind, n>>].pc = "dead"
                           /\ procs' = [procs EXCEPT ![<<kind, n>>] = Forked]
  BY DEF Spawn
<1> DEFINE p == <<kind, n>>
<1>2. p \in Process /\ p[1] = kind
  BY Processes
<1> HIDE DEF p
<1>3. procs[p].pc = "dead" /\ procs' = [procs EXCEPT ![p] = Forked]
  BY <1>1 DEF p
<1>4. procs' \in [Process -> ProcessRecord] /\ procs'[p] = Forked
      /\ \A q \in Process \ {p} : procs'[q] = procs[q]
  BY <1>2, <1>3, Records
<1> QED
  BY <1>2, <1>3, <1>4 DEF Forked, Dead, Same

\* A process connects to whoever listens.
LEMMA ConnectEffect ==
  ASSUME procs \in [Process -> ProcessRecord], NEW p \in Process, sock \in Owner,
         procs' = [procs EXCEPT ![p].pc = "starting", ![p].conn = sock,
                                ![p].late = procs[p].orphan]
  PROVE  /\ procs' \in [Process -> ProcessRecord]
         /\ procs'[p].pc = "starting" /\ procs'[p].conn = sock
         /\ procs'[p].orphan = procs[p].orphan /\ procs'[p].late = procs[p].orphan
         /\ \A q \in Process \ {p} : Same(q)
<1>1. procs[p] \in ProcessRecord
  OBVIOUS
<1>2. procs'[p] = [procs[p] EXCEPT !.pc = "starting", !.conn = sock, !.late = procs[p].orphan]
      /\ \A q \in Process \ {p} : procs'[q] = procs[q]
  BY <1>1 DEF ProcessRecord
<1>3. procs'[p] \in ProcessRecord
  BY <1>1, <1>2 DEF ProcessRecord, PCs
<1>4. procs' = [procs EXCEPT ![p] = procs'[p]]
  BY <1>2
<1>5. procs' \in [Process -> ProcessRecord]
  BY <1>3, <1>4
<1> QED
  BY <1>1, <1>2, <1>5 DEF Same, ProcessRecord

-----------------------------------------------------------------------------
(* The invariant, step by step.                                            *)

\* The part of the types that no step of a process puts in question.
Aside == byHand' \in BOOLEAN /\ troubles' \in 0..Troubles

\* A process that exits, and leaves what it had.
LEMMA ExitKeeps ==
  ASSUME DInv, NEW p \in Process, Alive(p), NEW code \in {"done", "failed"},
         Exits(p, code), Releases(p), UNCHANGED <<runner, target, pidFile, db, plan>>, Aside,
         p[1] = "engine" /\ code = "done" => procs[p].pc = "closing"
  PROVE  DInv'
<1> USE DEF Typed
<1>1. Typed /\ Parts /\ Held /\ Family /\ Reaping /\ Known /\ Schemed
      /\ Generation /\ Together /\ OneWriter
  BY DEF DInv
<1>2. /\ procs' \in [Process -> ProcessRecord]
      /\ lost' = lost \ {p}
      /\ procs'[p].pc = IF procs[p].orphan THEN "dead" ELSE code
      /\ procs'[p].orphan = procs[p].orphan
      /\ procs'[p].conn = Nobody
      /\ \A q \in Process \ {p} :
           /\ procs'[q].pc = procs[q].pc /\ procs'[q].orphan = procs[q].orphan
           /\ procs'[q].late = procs[q].late
           /\ procs'[q].conn = Free(procs[q].conn, p)
  BY <1>1, ExitsEffect
<1>3. /\ lock' = Free(lock, p) /\ sock' = Free(sock, p) /\ port' = Free(port, p)
      /\ runner' = runner /\ target' = target /\ pidFile' = pidFile
      /\ db' = db /\ plan' = plan
  BY DEF Releases
<1>4. Typed'
  BY <1>1, <1>2, <1>3 DEF Free, Owner, Aside
<1>5. Parts'
  BY <1>1, <1>2 DEF Parts, Free
<1>6. Held'
  BY <1>1, <1>2, <1>3, Processes DEF Held, Free, Owner, Alive
<1>7. Children' = {q \in Children : q # p \/ ~procs[p].orphan}
  BY <1>1, <1>2 DEF Children, Alive
<1>8. Family'
  BY <1>1, <1>3, <1>7 DEF Family, Expected
<1>9. Reaping'
  BY <1>1, <1>3, <1>7 DEF Reaping
<1>10. Known'
  BY <1>1, <1>2, <1>3 DEF Known, Alive
<1>11. Schemed'
  <2>1. Completes' <=> Completes
    BY <1>3 DEF Completes, Planned
  <2>2. lock' # Nobody => lock' = lock /\ lock \in Process \ {p}
    BY <1>1, <1>3 DEF Free, Owner
  <2> QED
    BY <1>1, <1>2, <1>3, <2>1, <2>2 DEF Schemed
<1>12. Generation'
  <2>1. \A e \in Process : procs'[e].pc = "up" => procs[e].pc = "up" /\ e # p
    BY <1>2
  <2>2. ASSUME NEW c \in Children', c[1] = "engine", procs'[c].pc \in {"up", "closing", "done"}
        PROVE  c \in Children /\ procs[c].pc \in {"up", "closing", "done"}
    BY <1>2, <1>7, <2>2 DEF Children
  <2>3. \A e \in Process : e # p => procs'[e].orphan = procs[e].orphan
    BY <1>2
  <2> QED
    BY <1>1, <1>3, <2>1, <2>2, <2>3 DEF Generation
<1>13. Together'
  <2>1. SUFFICES ASSUME NEW q \in Process, procs'[q].conn # Nobody
                 PROVE  /\ procs'[q].conn[1] = "engine"
                        /\ procs'[procs'[q].conn].pc \notin {"dead", "done", "failed"}
                        /\ ~procs'[q].late => procs'[q].orphan = procs'[procs'[q].conn].orphan
    BY DEF Together, Alive
  <2>2. q # p /\ procs[q].conn # p /\ procs[q].conn # Nobody /\ procs'[q].conn = procs[q].conn
    BY <1>2, <2>1 DEF Free
  <2>3. procs[q].conn \in Process
    BY <1>1, <2>2 DEF ProcessRecord, Owner
  <2>4. /\ procs[q].conn[1] = "engine" /\ Alive(procs[q].conn)
        /\ ~procs[q].late => procs[q].orphan = procs[procs[q].conn].orphan
    BY <1>1, <2>2 DEF Together
  <2> QED
    BY <1>2, <2>2, <2>3, <2>4 DEF Alive
<1>14. OneWriter'
  BY <1>1, <1>2, Processes DEF OneWriter, Free
<1> QED
  BY <1>4, <1>5, <1>6, <1>8, <1>9, <1>10, <1>11, <1>12, <1>13, <1>14 DEF DInv

\* The end of a supervisor, which leaves no engine behind that nobody knows of.
LEMMA OrphansKeep ==
  ASSUME DInv, procs' \in [Process -> ProcessRecord], \A q \in Process : Orphaned(q),
         runner' = "down", target' = Nobody, UNCHANGED <<files, plan>>, Aside,
         lost' \in SUBSET Process, \A p \in lost' : Alive(p),
         \A e \in Process : e[1] = "engine" /\ Alive(e) => e \in lost' \/ e = pidFile
  PROVE  DInv'
<1>1. Typed /\ Parts /\ Held /\ Family /\ Reaping /\ Known /\ Schemed
      /\ Generation /\ Together /\ OneWriter
  BY DEF DInv
<1>2. /\ lock' = lock /\ sock' = sock /\ port' = port /\ pidFile' = pidFile
      /\ db' = db /\ plan' = plan
  BY DEF files
<1>3. Typed'
  BY <1>1, <1>2 DEF Typed, Owner, Aside, Runners
<1>4. \A q \in Process :
        /\ procs'[q].orphan
        /\ Alive(q) => /\ procs'[q].pc = procs[q].pc
                       /\ procs'[q].conn = procs[q].conn /\ procs'[q].late = procs[q].late
        /\ ~Alive(q) => procs'[q].pc = "dead" /\ procs'[q].conn = Nobody
  BY DEF Orphaned
<1>5. Parts'
  BY <1>1, <1>4 DEF Parts, Alive
<1>6. Held'
  BY <1>1, <1>2, <1>4 DEF Held, Alive, Typed, Owner
<1>7. Children' = {}
  BY <1>4 DEF Children
<1>8. Family' /\ Reaping'
  BY <1>1, <1>2, <1>7 DEF Family, Reaping, Kind
<1>9. Known'
  BY <1>2, <1>4 DEF Known, Alive
<1>10. Schemed'
  <2>1. Completes' <=> Completes
    BY <1>2 DEF Completes, Planned
  <2>2. lock' # Nobody => lock' = lock /\ lock \in Process /\ Alive(lock)
    BY <1>1, <1>2 DEF Owner, Typed, Held, Alive
  <2> QED
    BY <1>1, <1>2, <1>4, <2>1, <2>2 DEF Schemed
<1>11. Generation'
  BY <1>7 DEF Generation
<1>12. Together'
  <2>1. SUFFICES ASSUME NEW q \in Process, procs'[q].conn # Nobody
                 PROVE  /\ procs'[q].conn[1] = "engine"
                        /\ procs'[procs'[q].conn].pc \notin {"dead", "done", "failed"}
                        /\ ~procs'[q].late => procs'[q].orphan = procs'[procs'[q].conn].orphan
    BY DEF Together, Alive
  <2>2. Alive(q) /\ procs[q].conn # Nobody /\ procs'[q].conn = procs[q].conn
    BY <1>4, <2>1
  <2>3. procs[q].conn \in Process
    BY <1>1, <2>2 DEF Typed, ProcessRecord, Owner
  <2>4. procs[q].conn[1] = "engine" /\ Alive(procs[q].conn)
    BY <1>1, <2>2 DEF Together
  <2>5. \A r \in Process : procs'[r].orphan \in BOOLEAN
    BY <1>3 DEF Typed, ProcessRecord
  <2> QED
    BY <1>4, <2>2, <2>3, <2>4, <2>5 DEF Alive
<1>13. OneWriter'
  BY <1>1, <1>4, Processes DEF OneWriter
<1> QED
  BY <1>3, <1>5, <1>6, <1>8, <1>9, <1>10, <1>11, <1>12, <1>13 DEF DInv

\* A step of the supervisor that leaves the processes where they are.
LEMMA SupervisorKeeps ==
  ASSUME DInv, procs' \in [Process -> ProcessRecord], \A q \in Process : Same(q),
         UNCHANGED <<lock, sock, port, db, plan, lost>>, Aside,
         runner' \in Runners, target' \in Owner, pidFile' \in Owner,
         \A kind \in Kind : Expected(kind) => Expected(kind)',
         runner' \in {"ingestion", "api", "ready"} => runner \in {"ingestion", "api", "ready"},
         Reaping', Known'
  PROVE  DInv'
<1>1. Typed /\ Parts /\ Held /\ Family /\ Schemed /\ Generation /\ Together /\ OneWriter
  BY DEF DInv
<1>2. /\ lock' = lock /\ sock' = sock /\ port' = port /\ lost' = lost
      /\ db' = db /\ plan' = plan
  OBVIOUS
<1>3. \A q \in Process :
        /\ procs'[q].pc = procs[q].pc /\ procs'[q].orphan = procs[q].orphan
        /\ procs'[q].conn = procs[q].conn /\ procs'[q].late = procs[q].late
  BY DEF Same
<1>4. Typed'
  BY <1>1, <1>2 DEF Typed, Aside
<1>5. Parts'
  BY <1>1, <1>3 DEF Parts
<1>6. Held'
  BY <1>1, <1>2, <1>3 DEF Held, Typed, Owner
<1>7. Children' = Children /\ Children \subseteq Process
  BY <1>3 DEF Children
<1>8. Family'
  BY <1>1, <1>7, Processes DEF Family
<1>9. Schemed'
  <2>1. Completes' <=> Completes
    BY <1>2 DEF Completes, Planned
  <2> QED
    BY <1>1, <1>2, <1>3, <2>1 DEF Schemed, Typed, Owner
<1>10. Generation'
  BY <1>1, <1>3, <1>7 DEF Generation
<1>11. Together'
  <2>1. \A q \in Process : procs[q].conn # Nobody => procs[q].conn \in Process
    BY <1>1 DEF Typed, ProcessRecord, Owner
  <2> QED
    BY <1>1, <1>3, <2>1 DEF Together, Alive
<1>12. OneWriter'
  BY <1>1, <1>3, Processes DEF OneWriter
<1> QED
  BY <1>4, <1>5, <1>6, <1>8, <1>9, <1>10, <1>11, <1>12 DEF DInv

\* A new process of a kind that the supervisor has no child of.
LEMMA SpawnKeeps ==
  ASSUME DInv, NEW kind \in Kind, Spawn(kind), Child(kind) = {},
         UNCHANGED <<target, files, plan, lost>>, Aside,
         runner' \in Runners, runner' \notin {"terminate", "await", "fork"}, target = Nobody,
         kind = "engine" => runner' = "record" /\ pidFile = Nobody,
         kind # "engine" => runner \in Kind /\ runner' \in {"ingestion", "api"},
         \A k \in Kind : Expected(k) => Expected(k)', Expected(kind)',
         runner' \in {"ingestion", "api", "ready"} /\ runner \notin {"ingestion", "api", "ready"}
           => \E c \in Children : c[1] = "engine" /\ procs[c].pc \in {"up", "closing", "done"}
  PROVE  DInv'
<1>1. Typed /\ Parts /\ Held /\ Family /\ Reaping /\ Known /\ Schemed
      /\ Generation /\ Together /\ OneWriter
  BY DEF DInv
<1>2. PICK p \in Process :
        /\ p[1] = kind /\ procs[p].pc = "dead"
        /\ procs' \in [Process -> ProcessRecord]
        /\ procs'[p].pc = "boot" /\ ~procs'[p].orphan /\ procs'[p].conn = Nobody
        /\ \A q \in Process \ {p} : Same(q)
  BY <1>1, SpawnEffect DEF Typed
<1>3. /\ lock' = lock /\ sock' = sock /\ port' = port /\ lost' = lost
      /\ db' = db /\ plan' = plan /\ target' = Nobody /\ pidFile' = pidFile
  BY DEF files
<1>4. \A q \in Process \ {p} :
        /\ procs'[q].pc = procs[q].pc /\ procs'[q].orphan = procs[q].orphan
        /\ procs'[q].conn = procs[q].conn /\ procs'[q].late = procs[q].late
  BY <1>2 DEF Same
<1>5. Typed'
  BY <1>1, <1>2, <1>3 DEF Typed, Aside, Owner
<1>6. Parts'
  BY <1>1, <1>2, <1>4 DEF Parts
<1>7. lock # p /\ sock # p /\ port # p /\ p \notin lost
      /\ \A q \in Process : procs[q].conn # p
  BY <1>1, <1>2, Processes DEF Held, Known, Alive, Together
<1>8. Held'
  BY <1>1, <1>2, <1>3, <1>4, <1>7 DEF Held, Typed, Owner
<1>9. Children' = Children \cup {p} /\ Children \subseteq Process
  BY <1>2, <1>4 DEF Children
<1>10. \A q \in Children : q[1] # kind
  BY DEF Child
<1>11. Family'
  BY <1>1, <1>2, <1>9, <1>10, Processes DEF Family
<1>12. Reaping'
  <2>1. CASE kind = "engine"
    BY <1>1, <1>3, <2>1 DEF Reaping, Kind
  <2>2. CASE kind # "engine"
    <3>1. runner' \in {"ingestion", "api"} /\ runner \in Kind
      BY <2>2
    <3>2. \A e \in Children' : e[1] = "engine" => e \in Children
      BY <1>2, <1>9, <2>2
    <3> QED
      BY <1>1, <1>3, <3>1, <3>2 DEF Reaping
  <2> QED
    BY <2>1, <2>2
<1>13. Known'
  <2>1. \A q \in lost : q \in Process \ {p}
    BY <1>1, <1>7 DEF Typed
  <2>2. \A q \in Process \ {p} : Alive(q)' <=> Alive(q)
    BY <1>4 DEF Alive
  <2> QED
    BY <1>1, <1>2, <1>3, <1>4, <2>1, <2>2 DEF Known
<1>14. Schemed'
  <2>1. Completes' <=> Completes
    BY <1>3 DEF Completes, Planned
  <2>2. lock' # Nobody => lock' = lock /\ lock \in Process \ {p}
    BY <1>1, <1>3, <1>7 DEF Owner, Typed
  <2> QED
    BY <1>1, <1>3, <1>4, <2>1, <2>2 DEF Schemed
<1>15. Generation'
  <2>1. \A e \in Process : procs'[e].pc = "up" => procs[e].pc = "up" /\ Same(e)
    BY <1>2, <1>4
  <2>2. \A c \in Children' : procs'[c].pc \in {"up", "closing", "done"}
          => c \in Children /\ procs[c].pc \in {"up", "closing", "done"}
    BY <1>2, <1>4, <1>9
  <2>3. runner' \in {"ingestion", "api", "ready"}
          => \A e \in Process : e[1] = "engine" /\ procs[e].pc = "up" => ~procs[e].orphan
    BY <1>1 DEF Generation, Children
  <2> QED
    BY <1>1, <2>1, <2>2, <2>3 DEF Generation, Same
<1>16. Together'
  <2>1. \A q \in Process : procs[q].conn # Nobody => procs[q].conn \in Process \ {p}
    BY <1>1, <1>7 DEF Typed, ProcessRecord, Owner
  <2> QED
    BY <1>1, <1>2, <1>4, <2>1 DEF Together, Alive
<1>17. OneWriter'
  <2>1. \A i \in {"ingestion"} \X (1..Slots) :
          procs'[i].conn # Nobody => /\ procs'[i].conn = procs[i].conn
                                     /\ procs'[i].late = procs[i].late
    BY <1>2, <1>4, Processes
  <2> QED
    BY <1>1, <2>1 DEF OneWriter
<1> QED
  BY <1>5, <1>6, <1>8, <1>11, <1>12, <1>13, <1>14, <1>15, <1>16, <1>17 DEF DInv

\* Where a process goes on to does not concern the supervisor.
LEMMA GoesOn ==
  ASSUME DInv, NEW p \in Process, Alive(p), procs' \in [Process -> ProcessRecord],
         procs'[p].pc \in {"schema", "starting", "up", "closing"},
         procs'[p].pc \in {"schema", "closing"} => p[1] = "engine",
         procs'[p].pc = "starting" => p[1] # "engine",
         procs'[p].conn # Nobody => p[1] # "engine",
         procs'[p].orphan = procs[p].orphan, \A q \in Process \ {p} : Same(q),
         UNCHANGED <<runner, target, pidFile, lost>>, Aside,
         lock' \in Owner, sock' \in Owner, port' \in Owner,
         db' \in Database, plan' \in Seq(Statements)
  PROVE  /\ Typed' /\ Parts' /\ Family' /\ Reaping' /\ Known'
         /\ Children' = Children
<1>1. Typed /\ Parts /\ Family /\ Reaping /\ Known
  BY DEF DInv
<1>2. /\ runner' = runner /\ target' = target /\ pidFile' = pidFile /\ lost' = lost
  OBVIOUS
<1>3. \A q \in Process \ {p} :
        /\ procs'[q].pc = procs[q].pc /\ procs'[q].orphan = procs[q].orphan
        /\ procs'[q].conn = procs[q].conn /\ procs'[q].late = procs[q].late
  BY DEF Same
<1>4. Typed'
  BY <1>1, <1>2 DEF Typed, Aside
<1>5. Parts'
  BY <1>1, <1>3 DEF Parts
<1>6. Children' = Children
  BY <1>3 DEF Children, Alive
<1>7. Family' /\ Reaping'
  BY <1>1, <1>2, <1>6 DEF Family, Reaping, Expected
<1>8. \A q \in Process : Alive(q)' <=> Alive(q)
  BY <1>3 DEF Alive
<1>9. \A q \in Process : procs'[q].orphan = procs[q].orphan
  BY <1>3
<1>10. Known'
  BY <1>1, <1>2, <1>8, <1>9 DEF Known, Typed
<1> QED
  BY <1>4, <1>5, <1>6, <1>7, <1>10

\* Where an engine goes on to does not concern who is connected.
LEMMA StillTogether ==
  ASSUME DInv, NEW p \in Process, Alive(p), procs' \in [Process -> ProcessRecord],
         procs'[p].pc \notin {"dead", "done", "failed"},
         procs'[p].orphan = procs[p].orphan,
         procs'[p].conn = procs[p].conn, procs'[p].late = procs[p].late,
         \A q \in Process \ {p} : Same(q)
  PROVE  Together' /\ OneWriter'
<1>1. Typed /\ Together /\ OneWriter
  BY DEF DInv
<1>2. \A q \in Process :
        /\ procs'[q].orphan = procs[q].orphan
        /\ procs'[q].conn = procs[q].conn /\ procs'[q].late = procs[q].late
  BY DEF Same
<1>3. \A q \in Process : Alive(q) => Alive(q)'
  BY DEF Alive, Same
<1>4. \A q \in Process : procs[q].conn # Nobody => procs[q].conn \in Process
  BY <1>1 DEF Typed, ProcessRecord, Owner
<1>5. Together'
  <2> SUFFICES ASSUME NEW q \in Process, procs'[q].conn # Nobody
               PROVE  /\ procs'[q].conn[1] = "engine"
                      /\ procs'[procs'[q].conn].pc \notin {"dead", "done", "failed"}
                      /\ ~procs'[q].late => procs'[q].orphan = procs'[procs'[q].conn].orphan
    BY DEF Together, Alive
  <2>1. procs'[q].conn = procs[q].conn /\ procs[q].conn \in Process /\ Alive(procs[q].conn)'
    BY <1>1, <1>2, <1>3, <1>4 DEF Together
  <2> QED
    BY <1>1, <1>2, <2>1 DEF Together, Alive
<1>6. OneWriter'
  BY <1>1, <1>2, Processes DEF OneWriter
<1> QED
  BY <1>5, <1>6

\* A process that is not an engine goes on, and may take the port.
LEMMA OthersGoOn ==
  ASSUME DInv, NEW p \in Process, p[1] # "engine", procs[p].pc \in {"boot", "starting"},
         procs' \in [Process -> ProcessRecord],
         procs'[p].pc \in {"starting", "up"},
         procs'[p].orphan = procs[p].orphan, \A q \in Process \ {p} : Same(q),
         UNCHANGED <<runner, target, pidFile, lock, sock, db, plan, lost>>, Aside,
         port' # port => port' = p /\ p[1] = "api" /\ procs'[p].pc = "up",
         Together', OneWriter'
  PROVE  DInv'
<1>1. Typed /\ Parts /\ Held /\ Schemed /\ Generation
  BY DEF DInv
<1>2. /\ lock' = lock /\ sock' = sock /\ db' = db /\ plan' = plan /\ runner' = runner
  OBVIOUS
<1>3. \A q \in Process \ {p} :
        procs'[q].pc = procs[q].pc /\ procs'[q].orphan = procs[q].orphan
  BY DEF Same
<1>4. lock' \in Owner /\ sock' \in Owner /\ port' \in Owner
      /\ db' \in Database /\ plan' \in Seq(Statements)
  BY <1>1 DEF Typed, Owner
<1>5. Alive(p)
  BY DEF Alive
<1>6. Typed' /\ Parts' /\ Family' /\ Reaping' /\ Known' /\ Children' = Children
  BY <1>4, <1>5, GoesOn
<1>7. lock # p /\ sock # p /\ port # p
  BY <1>1, Processes DEF Held
<1>8. Held'
  BY <1>1, <1>2, <1>3, <1>4, <1>7 DEF Held, Typed, Owner
<1>9. Schemed'
  <2>1. Completes' <=> Completes
    BY <1>2 DEF Completes, Planned
  <2>2. lock' # Nobody => lock' = lock /\ lock \in Process \ {p}
    BY <1>1, <1>2, <1>7 DEF Owner, Typed
  <2> QED
    BY <1>1, <1>2, <1>3, <2>1, <2>2 DEF Schemed
<1>10. Generation'
  <2>1. \A e \in Process : e[1] = "engine" => procs'[e].pc = procs[e].pc
                                           /\ procs'[e].orphan = procs[e].orphan
    BY <1>3
  <2>2. Children \subseteq Process
    BY DEF Children
  <2> QED
    BY <1>1, <1>2, <1>6, <2>1, <2>2 DEF Generation
<1> QED
  BY <1>6, <1>8, <1>9, <1>10 DEF DInv

-----------------------------------------------------------------------------
(* The schema.                                                             *)

\* The elements of a sequence of at most one element, of a concatenation, and
\* of what is left when the first is taken.
LEMMA FewElements ==
  ASSUME NEW S, NEW a \in S
  PROVE  /\ <<>> \in Seq(S) /\ Elements(<<>>) = {}
         /\ <<a>> \in Seq(S) /\ Elements(<<a>>) = {a}
BY DEF Elements

LEMMA JoinedElements ==
  ASSUME NEW S, NEW s \in Seq(S), NEW t \in Seq(S)
  PROVE  s \o t \in Seq(S) /\ Elements(s \o t) = Elements(s) \cup Elements(t)
<1>1. s \o t \in Seq(S) /\ Len(s \o t) = Len(s) + Len(t)
  OBVIOUS
<1>2. ASSUME NEW i \in 1..Len(s \o t)
      PROVE  (s \o t)[i] \in Elements(s) \cup Elements(t)
  BY <1>1, <1>2 DEF Elements
<1>3. ASSUME NEW i \in 1..Len(s)
      PROVE  s[i] \in Elements(s \o t)
  BY <1>1, <1>3 DEF Elements
<1>4. ASSUME NEW i \in 1..Len(t)
      PROVE  t[i] \in Elements(s \o t)
  <2>1. Len(s) + i \in 1..Len(s \o t) /\ (s \o t)[Len(s) + i] = t[i]
    BY <1>1, <1>4
  <2> QED
    BY <2>1 DEF Elements
<1> QED
  BY <1>1, <1>2, <1>3, <1>4 DEF Elements

LEMMA FirstAndRest ==
  ASSUME NEW S, NEW s \in Seq(S), s # <<>>
  PROVE  /\ Head(s) \in S /\ Tail(s) \in Seq(S)
         /\ Elements(s) = {Head(s)} \cup Elements(Tail(s))
<1>1. Head(s) \in S /\ Tail(s) \in Seq(S) /\ Len(Tail(s)) = Len(s) - 1 /\ Len(s) \in Nat \ {0}
  OBVIOUS
<1>2. ASSUME NEW i \in 1..Len(s)
      PROVE  s[i] \in {Head(s)} \cup Elements(Tail(s))
  <2>1. CASE i = 1
    BY <2>1
  <2>2. CASE i # 1
    <3>1. i - 1 \in 1..Len(Tail(s)) /\ Tail(s)[i - 1] = s[i]
      BY <1>1, <1>2, <2>2
    <3> QED
      BY <3>1 DEF Elements
  <2> QED
    BY <2>1, <2>2
<1>3. ASSUME NEW i \in 1..Len(Tail(s))
      PROVE  Tail(s)[i] \in Elements(s)
  <2>1. i + 1 \in 1..Len(s) /\ Tail(s)[i] = s[i + 1]
    BY <1>1, <1>3
  <2> QED
    BY <2>1 DEF Elements
<1>4. Head(s) \in Elements(s)
  BY <1>1 DEF Elements
<1> QED
  BY <1>1, <1>2, <1>3, <1>4 DEF Elements

\* What initSchema plans for a database, whatever state an earlier engine left
\* it in, completes it.
LEMMA PlanCompletes ==
  ASSUME NEW d \in Database
  PROVE  /\ initSchema(d) \in Seq(Statements)
         /\ Tables \subseteq d.tables \cup Elements(initSchema(d))
         /\ \/ d.version = latestMigrationVersion
            \/ \E s \in Elements(initSchema(d)) : s \notin Tables
<1> DEFINE fresh == d.tables = {}
           v == CreateTable(d, "cosmad_version")
           u == BringUpToDate(d, fresh)
           x == CreateTable(d, "blocks")
           y == CreateTable(d, "alerts")
           z == CreateTable(d, "validator_inactivity")
<1>1. initSchema(d) = v \o u \o x \o y \o z
  BY DEF initSchema, CreatedTables, DataTables
<1>2. ASSUME NEW table \in Tables
      PROVE  /\ CreateTable(d, table) \in Seq(Statements)
             /\ table \in d.tables \cup Elements(CreateTable(d, table))
  BY <1>2, FewElements DEF CreateTable, Statements
<1>3. /\ u \in Seq(Statements)
      /\ d.version = latestMigrationVersion \/ \E s \in Elements(u) : s \notin Tables
  <2>1. d.version \in 0..latestMigrationVersion
    BY DEF Database
  <2>2. {"stamp", "migrate"} \subseteq Statements /\ "stamp" \notin Tables /\ "migrate" \notin Tables
    BY DEF Statements, Tables, DataTables
  <2>3. /\ <<>> \in Seq(Statements)
        /\ \A s \in Statements : <<s>> \in Seq(Statements) /\ s \in Elements(<<s>>)
    BY FewElements
  <2>4. \/ u = <<"stamp">> \/ u = <<"migrate">>
        \/ u = <<>> /\ d.version = latestMigrationVersion
    BY <2>1, SchemaAssumption DEF BringUpToDate
  <2> HIDE DEF u
  <2> QED
    BY <2>2, <2>3, <2>4
<1>4. Tables = {"blocks", "alerts", "validator_inactivity", "cosmad_version"}
  BY DEF Tables, DataTables
<1>5. v \in Seq(Statements) /\ x \in Seq(Statements) /\ y \in Seq(Statements) /\ z \in Seq(Statements)
  BY <1>2, <1>4
<1>6. Tables \subseteq d.tables \cup Elements(v) \cup Elements(x) \cup Elements(y) \cup Elements(z)
  BY <1>2, <1>4
<1> HIDE DEF v, u, x, y, z
<1>7. /\ initSchema(d) \in Seq(Statements)
      /\ Elements(initSchema(d))
           = Elements(v) \cup Elements(u) \cup Elements(x) \cup Elements(y) \cup Elements(z)
  <2> DEFINE vu == v \o u
             vx == vu \o x
             vy == vx \o y
  <2>1. vu \in Seq(Statements) /\ Elements(vu) = Elements(v) \cup Elements(u)
    BY <1>3, <1>5, JoinedElements
  <2> HIDE DEF vu
  <2>2. vx \in Seq(Statements) /\ Elements(vx) = Elements(vu) \cup Elements(x)
    BY <1>5, <2>1, JoinedElements
  <2> HIDE DEF vx
  <2>3. vy \in Seq(Statements) /\ Elements(vy) = Elements(vx) \cup Elements(y)
    BY <1>5, <2>2, JoinedElements
  <2> HIDE DEF vy
  <2>4. vy \o z \in Seq(Statements) /\ Elements(vy \o z) = Elements(vy) \cup Elements(z)
    BY <1>5, <2>3, JoinedElements
  <2>5. initSchema(d) = vy \o z
    BY <1>1 DEF vy, vx, vu
  <2> QED
    BY <2>1, <2>2, <2>3, <2>4, <2>5
<1> QED
  BY <1>3, <1>6, <1>7

\* A statement of the plan brings the database closer to complete, and leaves a
\* complete one so.
LEMMA StatementRuns ==
  ASSUME db \in Database, plan \in Seq(Statements), plan # <<>>, Completes,
         db' = Run(db, Head(plan)), plan' = Tail(plan)
  PROVE  db' \in Database /\ plan' \in Seq(Statements) /\ Completes'
<1>1. /\ Head(plan) \in Statements /\ plan' \in Seq(Statements)
      /\ Planned = {Head(plan)} \cup Planned'
  BY FirstAndRest DEF Planned
<1>2. CASE Head(plan) \in Tables
  <2>1. db' \in Database /\ db'.tables = db.tables \cup {Head(plan)} /\ db'.version = db.version
    BY <1>2 DEF Run, Database
  <2> QED
    BY <1>1, <1>2, <2>1 DEF Completes
<1>3. CASE Head(plan) \notin Tables
  <2>1. db' \in Database /\ db'.tables = db.tables /\ db'.version = latestMigrationVersion
    BY <1>3, SchemaAssumption DEF Run, Database
  <2> QED
    BY <1>1, <1>3, <2>1 DEF Completes
<1> QED
  BY <1>2, <1>3

LEMMA NothingLeft ==
  ASSUME db \in Database, plan = <<>>, Completes
  PROVE  db = Complete
<1>1. Planned = {}
  BY FewElements DEF Planned
<1>2. db.tables = Tables /\ db.version = latestMigrationVersion
  BY <1>1 DEF Completes, Database
<1> QED
  BY <1>2 DEF Complete, Database

-----------------------------------------------------------------------------
(* The steps of the processes.                                             *)

LEMMA ParametersStay ==
  ASSUME DInv, UNCHANGED <<byHand, troubles>>
  PROVE  Aside
BY DEF DInv, Typed, Aside

\* A process that has not got anywhere has nothing to leave behind.
LEMMA NothingHeld ==
  ASSUME DInv, NEW p \in Process, procs[p].pc \in {"boot", "starting"}
  PROVE  lock # p /\ sock # p /\ port # p /\ Alive(p)
BY Processes DEF DInv, Held, Alive

LEMMA OpenKeeps ==
  ASSUME DInv, NEW e \in Process, e[1] = "engine", openDatabase(e)
  PROVE  DInv'
<1>1. Typed /\ Held /\ Generation
  BY DEF DInv
<1>2. procs[e].pc = "boot" /\ Aside /\ Alive(e) /\ lock # e /\ sock # e /\ port # e
  BY ParametersStay, NothingHeld DEF openDatabase
<1>3. CASE lock = Nobody
  <2>1. /\ Moves(e, "schema") /\ lock' = e /\ plan' = initSchema(db)
        /\ UNCHANGED <<runner, target, pidFile, sock, port, db>>
    BY <1>3 DEF openDatabase
  <2>2. /\ procs' \in [Process -> ProcessRecord] /\ lost' = lost
        /\ procs'[e].pc = "schema"
        /\ procs'[e].orphan = procs[e].orphan
        /\ procs'[e].conn = procs[e].conn /\ procs'[e].late = procs[e].late
        /\ \A q \in Process \ {e} : Same(q)
    BY <1>1, <2>1, MovesEffect DEF Typed, PCs
  <2>3. /\ plan' \in Seq(Statements) /\ Completes'
        /\ db' \in Database
    BY <1>1, <2>1, PlanCompletes DEF Typed, Completes, Planned
  <2>4. procs[e].conn = Nobody
    BY <1>2 DEF DInv, Parts
  <2>5. lock' \in Owner /\ sock' \in Owner /\ port' \in Owner
    BY <1>1, <2>1 DEF Typed, Owner
  <2>6. Typed' /\ Parts' /\ Family' /\ Reaping' /\ Known' /\ Children' = Children
    BY <1>2, <2>1, <2>2, <2>3, <2>4, <2>5, GoesOn
  <2>7. Together' /\ OneWriter'
    BY <1>2, <2>2, StillTogether
  <2>8. \A q \in Process \ {e} :
          procs'[q].pc = procs[q].pc /\ procs'[q].orphan = procs[q].orphan
    BY <2>2 DEF Same
  <2>9. sock = Nobody
    BY <1>1, <1>3, Processes DEF Held, Typed, Owner
  <2>10. Held'
    BY <1>1, <1>2, <1>3, <2>1, <2>2, <2>8, <2>9, Processes DEF Held, Typed, Owner
  <2>11. Schemed'
    BY <2>1, <2>2, <2>3 DEF Schemed
  <2>12. Generation'
    <3>1. \A q \in Process : procs'[q].pc \in {"up", "closing", "done"} => q # e
      BY <2>2
    <3> QED
      BY <1>1, <2>1, <2>6, <2>8, <3>1 DEF Generation, Children
  <2> QED
    BY <2>6, <2>7, <2>10, <2>11, <2>12 DEF DInv
<1>4. CASE lock # Nobody
  <2>1. Exits(e, "failed") /\ UNCHANGED <<runner, target, pidFile, lock, sock, port, db, plan>>
    BY <1>4 DEF openDatabase
  <2>2. Releases(e)
    BY <1>2, <2>1 DEF Releases, Free
  <2> QED
    BY <1>2, <2>1, <2>2, ExitKeeps
<1> QED
  BY <1>3, <1>4

LEMMA StatementKeeps ==
  ASSUME DInv, NEW e \in Process, e[1] = "engine", runStatement(e)
  PROVE  DInv'
<1>1. Typed /\ Parts /\ Held /\ Family /\ Reaping /\ Known /\ Schemed
      /\ Generation /\ Together /\ OneWriter
  BY DEF DInv
<1>2. /\ procs[e].pc = "schema" /\ plan # <<>>
      /\ db' = Run(db, Head(plan)) /\ plan' = Tail(plan)
      /\ procs' = procs /\ lock' = lock /\ sock' = sock /\ port' = port /\ lost' = lost
      /\ runner' = runner /\ target' = target /\ pidFile' = pidFile
      /\ byHand' = byHand /\ troubles' = troubles
  BY DEF runStatement
<1>3. lock = e
  BY <1>1, <1>2 DEF Held
<1>4. db' \in Database /\ plan' \in Seq(Statements) /\ Completes'
  BY <1>1, <1>2, <1>3, Processes, StatementRuns DEF Typed, Schemed
<1>5. Typed'
  BY <1>1, <1>2, <1>4 DEF Typed
<1>6. Schemed'
  BY <1>2, <1>3, <1>4 DEF Schemed
<1>7. Parts' /\ Held' /\ Family' /\ Reaping' /\ Known' /\ Generation' /\ Together' /\ OneWriter'
  BY <1>1, <1>2 DEF Parts, Held, Family, Reaping, Known, Generation, Together, OneWriter,
                    Children, Expected, Alive
<1> QED
  BY <1>5, <1>6, <1>7 DEF DInv

LEMMA ServerKeeps ==
  ASSUME DInv, NEW e \in Process, e[1] = "engine", startEngineServer(e)
  PROVE  DInv'
<1>1. Typed /\ Held /\ Family /\ Schemed /\ Generation
  BY DEF DInv
<1>2. /\ procs[e].pc = "schema" /\ plan = <<>> /\ ReportReady(e)
      /\ sock' = IF procs[e].orphan THEN Nobody ELSE e
      /\ lock' = IF procs[e].orphan THEN Nobody ELSE lock
      /\ UNCHANGED <<runner, target, pidFile, port, db, plan>> /\ Aside
  BY ParametersStay DEF startEngineServer
<1>3. Alive(e) /\ lock = e /\ port # e
  BY <1>1, <1>2, Processes DEF Held, Alive
<1>4. sock = Nobody
  <2>1. sock # Nobody => lock = sock
    BY <1>1 DEF Held, Typed, Owner
  <2> QED
    BY <1>1, <1>2, <1>3, <2>1 DEF Held
<1>5. CASE procs[e].orphan
  <2>1. Exits(e, "failed") /\ Releases(e)
    BY <1>2, <1>3, <1>4, <1>5 DEF ReportReady, Releases, Free
  <2> QED
    BY <1>2, <1>3, <2>1, ExitKeeps
<1>6. CASE ~procs[e].orphan
  <2>1. Moves(e, "up") /\ sock' = e /\ lock' = lock
    BY <1>2, <1>6 DEF ReportReady
  <2>2. /\ procs' \in [Process -> ProcessRecord] /\ lost' = lost
        /\ procs'[e].pc = "up"
        /\ procs'[e].orphan = procs[e].orphan
        /\ procs'[e].conn = procs[e].conn /\ procs'[e].late = procs[e].late
        /\ \A q \in Process \ {e} : Same(q)
    BY <1>1, <2>1, MovesEffect DEF Typed, PCs
  <2>3. procs[e].conn = Nobody
    BY <1>2 DEF DInv, Parts
  <2>4. /\ lock' \in Owner /\ sock' \in Owner /\ port' \in Owner
        /\ db' \in Database /\ plan' \in Seq(Statements)
    BY <1>1, <1>2, <2>1 DEF Typed, Owner
  <2>5. Typed' /\ Parts' /\ Family' /\ Reaping' /\ Known' /\ Children' = Children
    BY <1>2, <1>3, <2>2, <2>3, <2>4, GoesOn
  <2>6. Together' /\ OneWriter'
    BY <1>3, <2>2, StillTogether
  <2>7. \A q \in Process \ {e} :
          procs'[q].pc = procs[q].pc /\ procs'[q].orphan = procs[q].orphan
    BY <2>2 DEF Same
  <2>8. Held'
    BY <1>1, <1>2, <1>3, <2>1, <2>2, <2>7, Processes DEF Held, Typed, Owner
  <2>9. Schemed'
    <3>1. db = Complete
      BY <1>1, <1>2, <1>3, Processes, NothingLeft DEF Schemed, Typed
    <3> QED
      BY <1>2, <1>3, <2>1, <2>2, <3>1 DEF Schemed, Complete
  <2>10. Generation'
    <3>1. e \in Children
      BY <1>2, <1>6 DEF Children
    <3>2. \A c \in Children : c[1] = "engine" => c = e
      BY <1>1, <3>1 DEF Family
    <3>3. \A q \in Process : q[1] = "engine" /\ procs'[q].pc = "up" => q = e
      BY <1>1, <1>3, <2>7 DEF Held
    <3> QED
      BY <1>6, <2>2, <2>5, <3>2, <3>3 DEF Generation
  <2> QED
    BY <2>5, <2>6, <2>8, <2>9, <2>10 DEF DInv
<1>7. procs[e].orphan \in BOOLEAN
  BY <1>1 DEF Typed, ProcessRecord
<1> QED
  BY <1>5, <1>6

LEMMA TerminatedKeeps ==
  ASSUME DInv, NEW p \in Process, Terminated(p)
  PROVE  DInv'
<1>1. Typed /\ Held /\ Family /\ Schemed /\ Generation
  BY DEF DInv
<1>2. /\ Alive(p) /\ procs[p].pc # "closing"
      /\ UNCHANGED <<runner, target, pidFile, db, plan>> /\ Aside
  BY ParametersStay DEF Terminated
<1>3. CASE p[1] = "engine" /\ procs[p].pc = "up"
  <2>1. Moves(p, "closing") /\ sock' = Nobody /\ lock' = lock /\ port' = port
    BY <1>3 DEF Terminated, Closes, ShutdownOrder
  <2>2. /\ procs' \in [Process -> ProcessRecord] /\ lost' = lost
        /\ procs'[p].pc = "closing"
        /\ procs'[p].orphan = procs[p].orphan
        /\ procs'[p].conn = procs[p].conn /\ procs'[p].late = procs[p].late
        /\ \A q \in Process \ {p} : Same(q)
    BY <1>1, <2>1, MovesEffect DEF Typed, PCs
  <2>3. procs[p].conn = Nobody
    BY <1>3 DEF DInv, Parts
  <2>4. /\ lock' \in Owner /\ sock' \in Owner /\ port' \in Owner
        /\ db' \in Database /\ plan' \in Seq(Statements)
    BY <1>1, <1>2, <2>1 DEF Typed, Owner
  <2>5. Typed' /\ Parts' /\ Family' /\ Reaping' /\ Known' /\ Children' = Children
    BY <1>2, <1>3, <2>2, <2>3, <2>4, GoesOn
  <2>6. Together' /\ OneWriter'
    BY <1>2, <2>2, StillTogether
  <2>7. \A q \in Process \ {p} :
          procs'[q].pc = procs[q].pc /\ procs'[q].orphan = procs[q].orphan
    BY <2>2 DEF Same
  <2>8. lock = p /\ sock = p /\ port # p
    BY <1>1, <1>3, Processes DEF Held
  <2>9. Held'
    BY <1>1, <2>1, <2>2, <2>7, <2>8, Processes DEF Held, Typed, Owner
  <2>10. Schemed'
    <3>1. db = Complete
      BY <1>1, <1>3, <2>8, Processes DEF Schemed
    <3> QED
      BY <1>2, <2>1, <2>2, <2>8, <3>1 DEF Schemed, Complete
  <2>11. Generation'
    <3>1. \A q \in Process : procs'[q].pc = "up" => q # p /\ procs[q].pc = "up"
      BY <2>2, <2>7
    <3>2. \A c \in Children : procs'[c].pc \in {"up", "closing", "done"}
                               => procs[c].pc \in {"up", "closing", "done"}
      BY <1>3, <2>7 DEF Children
    <3> QED
      BY <1>1, <1>2, <2>5, <2>7, <3>1, <3>2 DEF Generation
  <2> QED
    BY <2>5, <2>6, <2>9, <2>10, <2>11 DEF DInv
<1>4. CASE ~(p[1] = "engine" /\ procs[p].pc = "up")
  <2>1. PICK code \in {"done", "failed"} :
          Exits(p, code) /\ (code = "done" => procs[p].pc = "up")
    BY <1>4 DEF Terminated
  <2>2. Releases(p)
    BY <1>4 DEF Terminated
  <2> QED
    BY <1>2, <1>4, <2>1, <2>2, ExitKeeps
<1> QED
  BY <1>3, <1>4

LEMMA ShutdownKeeps ==
  ASSUME DInv, NEW e \in Process, e[1] = "engine", FinishShutdown(e)
  PROVE  DInv'
<1>1. Typed /\ Held
  BY DEF DInv
<1>2. procs[e].pc = "closing" /\ UNCHANGED <<runner, target, pidFile, port, db, plan>> /\ Aside
  BY ParametersStay DEF FinishShutdown
<1>3. Alive(e) /\ lock = e /\ sock # e /\ port # e
  BY <1>1, <1>2, Processes DEF Held, Alive
<1>4. PICK code \in {"done", "failed"} : Exits(e, code)
  BY DEF FinishShutdown
<1>5. Releases(e)
  BY <1>2, <1>3 DEF FinishShutdown, Releases, Free, Closes, ShutdownOrder
<1> QED
  BY <1>2, <1>3, <1>4, <1>5, ExitKeeps

\* Crashes, unanswered pings and the supervisor's last resort.
LEMMA DiesKeeps ==
  ASSUME DInv, NEW p \in Process,
         Dies(p) \/ PingFails(p) \/ (KillTarget /\ target = p)
  PROVE  DInv'
<1>1. Typed
  BY DEF DInv
<1>2. Aside
  BY <1>1, DeploymentAssumption DEF Typed, Aside, Dies, PingFails, KillTarget, Trouble
<1>3. /\ Alive(p) /\ Exits(p, "failed") /\ Releases(p)
      /\ UNCHANGED <<runner, target, pidFile, db, plan>>
  BY DEF Dies, PingFails, KillTarget, Alive
<1> QED
  BY <1>2, <1>3, ExitKeeps

LEMMA ConnectKeeps ==
  ASSUME DInv, NEW p \in Process, p[1] # "engine", connect(p)
  PROVE  DInv'
<1>1. Typed /\ Held /\ Family /\ Generation /\ Together /\ OneWriter
  BY DEF DInv
<1>2. procs[p].pc = "boot" /\ UNCHANGED <<runner, target, files, plan>> /\ Aside
  BY ParametersStay DEF connect
<1>3. Alive(p) /\ lock # p /\ sock # p /\ port # p
  BY <1>2, NothingHeld
<1>4. CASE sock = Nobody
  <2>1. Exits(p, "failed") /\ Releases(p)
    BY <1>2, <1>3, <1>4 DEF connect, Releases, Free, files
  <2> QED
    BY <1>2, <1>3, <2>1, ExitKeeps DEF files
<1>5. CASE sock # Nobody
  <2>1. /\ lost' = lost
        /\ procs' = [procs EXCEPT ![p].pc = "starting", ![p].conn = sock,
                                  ![p].late = procs[p].orphan]
    BY <1>5 DEF connect
  <2>2. /\ procs' \in [Process -> ProcessRecord]
        /\ procs'[p].pc = "starting" /\ procs'[p].conn = sock
        /\ procs'[p].orphan = procs[p].orphan /\ procs'[p].late = procs[p].orphan
        /\ \A q \in Process \ {p} : Same(q)
    BY <1>1, <2>1, ConnectEffect DEF Typed
  <2>3. \A q \in Process \ {p} :
          /\ procs'[q].pc = procs[q].pc /\ procs'[q].orphan = procs[q].orphan
          /\ procs'[q].conn = procs[q].conn /\ procs'[q].late = procs[q].late
    BY <2>2 DEF Same
  <2>4. sock \in Process \ {p} /\ sock[1] = "engine" /\ procs[sock].pc = "up"
    BY <1>1, <1>3, <1>5 DEF Held, Typed, Owner
  <2>5. ~procs[p].orphan => ~procs[sock].orphan
    <3>1. ~procs[p].orphan => p \in Children
      BY <1>2 DEF Children
    <3>2. p \in Children => runner \in {"ingestion", "api", "ready"}
      BY <1>1 DEF Family, Expected
    <3> QED
      BY <1>1, <2>4, <3>1, <3>2 DEF Generation
  <2>6. procs[p].orphan \in BOOLEAN /\ procs[sock].orphan \in BOOLEAN
    BY <1>1, <2>4 DEF Typed, ProcessRecord
  <2>7. Together'
    <3> SUFFICES ASSUME NEW q \in Process, procs'[q].conn # Nobody
                 PROVE  /\ procs'[q].conn[1] = "engine"
                        /\ procs'[procs'[q].conn].pc \notin {"dead", "done", "failed"}
                        /\ ~procs'[q].late => procs'[q].orphan = procs'[procs'[q].conn].orphan
      BY DEF Together, Alive
    <3>1. CASE q = p
      BY <2>2, <2>3, <2>4, <2>5, <2>6, <3>1
    <3>2. CASE q # p
      <4>1. procs'[q].conn = procs[q].conn /\ procs[q].conn \in Process
        BY <1>1, <2>3, <3>2 DEF Typed, ProcessRecord, Owner
      <4>2. /\ procs[q].conn[1] = "engine" /\ Alive(procs[q].conn)
            /\ ~procs[q].late => procs[q].orphan = procs[procs[q].conn].orphan
        BY <1>1, <4>1 DEF Together
      <4> QED
        BY <2>3, <3>2, <4>1, <4>2 DEF Alive
    <3> QED
      BY <3>1, <3>2
  <2>8. OneWriter'
    <3> SUFFICES ASSUME NEW i \in {"ingestion"} \X (1..Slots), i # p, p[1] = "ingestion",
                        procs[i].conn = sock, ~procs[i].late, ~procs[p].orphan
                 PROVE  FALSE
      <4>1. ASSUME NEW i \in {"ingestion"} \X (1..Slots), NEW j \in {"ingestion"} \X (1..Slots),
                   i # j, i # p, j # p, procs'[i].conn = procs'[j].conn, procs'[i].conn # Nobody
            PROVE  procs'[i].late \/ procs'[j].late
        BY <1>1, <2>3, <4>1, Processes DEF OneWriter
      <4>2. \A i \in {"ingestion"} \X (1..Slots) :
              i # p /\ p[1] = "ingestion" /\ procs'[i].conn = procs'[p].conn
                => procs'[i].late \/ procs'[p].late
        BY <2>2, <2>3, <2>6, Processes
      <4> QED
        BY <4>1, <4>2, Processes DEF OneWriter
    <3>1. i \in Process /\ i[1] = "ingestion" /\ procs[i].orphan = procs[sock].orphan
      BY <1>1, <1>5, Processes DEF Together
    <3>2. ~procs[i].orphan /\ procs[i].pc # "dead"
      BY <1>5, <2>5, <3>1 DEF DInv, Parts
    <3>3. i \in Children /\ p \in Children
      BY <1>2, <3>1, <3>2 DEF Children
    <3> QED
      BY <1>1, <3>1, <3>3 DEF Family
  <2> QED
    BY <1>2, <2>1, <2>2, <2>7, <2>8, OthersGoOn DEF files
<1> QED
  BY <1>4, <1>5

LEMMA StartedKeeps ==
  ASSUME DInv, NEW p \in Process, p[1] # "engine",
         startWorkers(p) \/ (p[1] = "api" /\ startApiServer(p))
  PROVE  DInv'
<1>1. Typed
  BY DEF DInv
<1>2. /\ procs[p].pc = "starting" /\ UNCHANGED <<runner, target, pidFile, lock, sock, db, plan>>
      /\ Aside
  BY ParametersStay DEF startWorkers, startApiServer, files
<1>3. Alive(p) /\ lock # p /\ sock # p /\ port # p
  BY <1>2, NothingHeld
<1>4. CASE Moves(p, "up")
  <2>1. port' # port => port' = p /\ p[1] = "api"
    <3>1. Exits(p, "failed") => procs'[p].pc # "up"
      BY <1>1, ExitsEffect, <1>3 DEF Typed
    <3>2. procs'[p].pc = "up"
      BY <1>1, <1>4, MovesEffect DEF Typed, PCs
    <3> QED
      BY <3>1, <3>2 DEF startWorkers, startApiServer, files, ReportReady
  <2>2. /\ procs' \in [Process -> ProcessRecord] /\ lost' = lost
        /\ procs'[p].pc = "up"
        /\ procs'[p].orphan = procs[p].orphan
        /\ procs'[p].conn = procs[p].conn /\ procs'[p].late = procs[p].late
        /\ \A q \in Process \ {p} : Same(q)
    BY <1>1, <1>4, MovesEffect DEF Typed, PCs
  <2>3. Together' /\ OneWriter'
    BY <1>3, <2>2, StillTogether
  <2> QED
    BY <1>2, <2>1, <2>2, <2>3, OthersGoOn
<1>5. CASE ~Moves(p, "up")
  <2>1. Exits(p, "failed")
    BY <1>5 DEF startWorkers, startApiServer, ReportReady
  <2>2. Releases(p)
    BY <1>2, <1>3, <1>5 DEF startWorkers, startApiServer, files, ReportReady, Releases, Free
  <2> QED
    BY <1>2, <1>3, <2>1, <2>2, ExitKeeps
<1> QED
  BY <1>4, <1>5

-----------------------------------------------------------------------------
(* The steps of the supervisor.                                            *)

\* It starts, ends a leftover and writes engine.pid.
LEMMA ReapingKeeps ==
  ASSUME DInv, Start \/ reapStaleEngine \/ Terminate \/ AwaitDeath \/ writePidFile
  PROVE  DInv'
<1>1. Typed /\ Family /\ Reaping /\ Known
  BY DEF DInv
<1>2. UNCHANGED <<lock, sock, port, db, plan, lost, byHand, troubles>> /\ Aside
  BY ParametersStay
     DEF Start, reapStaleEngine, Terminate, AwaitDeath, writePidFile, files
<1>3. procs' \in [Process -> ProcessRecord] /\ \A q \in Process : Same(q)
  <2>1. CASE Terminate
    <3>1. procs' = [procs EXCEPT ![target].term = Alive(target)]
      BY <2>1 DEF Terminate
    <3>2. target \in Process /\ Alive(target) \in BOOLEAN
      BY <1>1, <2>1 DEF Reaping, Typed, Owner, Terminate, Alive
    <3> QED
      BY <1>1, <3>1, <3>2, TermEffect DEF Typed
  <2>2. CASE procs' = procs
    BY <1>1, <2>2 DEF Typed, Same
  <2> QED
    BY <2>1, <2>2 DEF Start, reapStaleEngine, AwaitDeath, writePidFile
<1>4. Children' = Children
  BY <1>3 DEF Children, Same
<1>5. \A q \in Process : /\ Alive(q)' <=> Alive(q)
                         /\ procs'[q].orphan = procs[q].orphan
  BY <1>3 DEF Alive, Same
<1>6. CASE Start
  <2>1. runner = "down" /\ runner' = "reap" /\ target' = target /\ pidFile' = pidFile
    BY <1>6 DEF Start, files
  <2>2. runner' \in Runners /\ target' \in Owner /\ pidFile' \in Owner
    BY <1>1, <2>1 DEF Typed, Runners
  <2>3. Reaping' /\ Known'
    BY <1>1, <1>2, <1>4, <1>5, <2>1 DEF Reaping, Known, Kind, Typed
  <2>4. \A kind \in Kind : Expected(kind) => Expected(kind)'
    BY <2>1 DEF Expected, Kind
  <2> QED
    BY <1>2, <1>3, <2>1, <2>2, <2>3, <2>4, SupervisorKeeps
<1>7. CASE reapStaleEngine
  <2>1. /\ runner = "reap" /\ pidFile' = Nobody
        /\ \/ pidFile # Nobody /\ Alive(pidFile) /\ runner' = "terminate" /\ target' = pidFile
           \/ /\ pidFile = Nobody \/ ~Alive(pidFile)
              /\ runner' = "fork" /\ target' = target
    BY <1>7 DEF reapStaleEngine
  <2>2. runner' \in Runners /\ target' \in Owner /\ pidFile' \in Owner
    BY <1>1, <2>1 DEF Typed, Runners, Owner
  <2>3. Reaping'
    BY <1>1, <2>1 DEF Reaping, Kind
  <2>4. Known'
    BY <1>1, <1>2, <1>5, <2>1, Processes DEF Known, Reaping, Typed
  <2>5. \A kind \in Kind : Expected(kind) => Expected(kind)'
    BY <2>1 DEF Expected, Kind
  <2> QED
    BY <1>2, <1>3, <2>1, <2>2, <2>3, <2>4, <2>5, SupervisorKeeps
<1>8. CASE Terminate
  <2>1. runner = "terminate" /\ runner' = "await" /\ target' = target /\ pidFile' = pidFile
    BY <1>8 DEF Terminate, files
  <2>2. runner' \in Runners /\ target' \in Owner /\ pidFile' \in Owner
    BY <1>1, <2>1 DEF Typed, Runners
  <2>3. Reaping' /\ Known'
    BY <1>1, <1>2, <1>4, <1>5, <2>1 DEF Reaping, Known, Kind, Typed
  <2>4. \A kind \in Kind : Expected(kind) => Expected(kind)'
    BY <2>1 DEF Expected, Kind
  <2> QED
    BY <1>2, <1>3, <2>1, <2>2, <2>3, <2>4, SupervisorKeeps
<1>9. CASE AwaitDeath
  <2>1. /\ runner = "await" /\ runner' = "fork" /\ target' = Nobody /\ pidFile' = pidFile
        /\ ~Alive(target)
    BY <1>9 DEF AwaitDeath, TargetGone, files
  <2>2. runner' \in Runners /\ target' \in Owner /\ pidFile' \in Owner
    BY <1>1, <2>1 DEF Typed, Runners, Owner
  <2>3. Reaping' /\ Known'
    BY <1>1, <1>2, <1>4, <1>5, <2>1 DEF Reaping, Known, Kind, Typed
  <2>4. \A kind \in Kind : Expected(kind) => Expected(kind)'
    BY <2>1 DEF Expected, Kind
  <2> QED
    BY <1>2, <1>3, <2>1, <2>2, <2>3, <2>4, SupervisorKeeps
<1>10. CASE writePidFile
  <2>1. PICK e \in Child("engine") : pidFile' = e
    BY <1>10 DEF writePidFile
  <2>2. runner = "record" /\ runner' = "engine" /\ target' = target
    BY <1>10 DEF writePidFile
  <2>3. e \in Process /\ e \in Children /\ e[1] = "engine"
    BY DEF Child, Children
  <2>4. runner' \in Runners /\ target' \in Owner /\ pidFile' \in Owner
    BY <1>1, <2>1, <2>2, <2>3 DEF Typed, Runners, Kind, Owner
  <2>5. \A c \in Children : c[1] = "engine" => c = e
    BY <1>1, <2>3 DEF Family
  <2>6. Reaping'
    BY <1>1, <1>4, <2>1, <2>2, <2>3, <2>5 DEF Reaping, Kind
  <2>7. pidFile = Nobody
    BY <1>1, <2>2 DEF Reaping
  <2>8. Known'
    BY <1>1, <1>2, <1>5, <2>2, <2>7, Processes DEF Known, Typed
  <2>9. \A kind \in Kind : Expected(kind) => Expected(kind)'
    BY <2>2 DEF Expected, Kind
  <2> QED
    BY <1>2, <1>3, <2>2, <2>4, <2>6, <2>8, <2>9, SupervisorKeeps
<1> QED
  BY <1>6, <1>7, <1>8, <1>9, <1>10

\* It forks the processes one after the other.
LEMMA ForkKeeps ==
  ASSUME DInv, spawnEngine \/ waitForReady
  PROVE  DInv'
<1>1. Typed /\ Family /\ Reaping /\ Known
  BY DEF DInv
<1>2. UNCHANGED <<target, files, plan, lost, byHand, troubles>> /\ Aside
  BY ParametersStay DEF spawnEngine, waitForReady
<1>3. CASE spawnEngine
  <2>1. runner = "fork" /\ runner' = "record" /\ Spawn("engine")
    BY <1>3 DEF spawnEngine
  <2>2. target = Nobody /\ pidFile = Nobody
    BY <1>1, <2>1 DEF Reaping
  <2>3. Child("engine") = {}
    BY <1>1, <2>1 DEF Family, Expected, Child, Kind
  <2>4. /\ runner' \in Runners /\ "engine" \in Kind /\ Expected("engine")'
        /\ \A k \in Kind : Expected(k) => Expected(k)'
    BY <2>1 DEF Runners, Expected, Kind
  <2> QED
    BY <1>2, <2>1, <2>2, <2>3, <2>4, SpawnKeeps
<1>4. ASSUME NEW kind \in {"ingestion", "api"}, Spawn(kind), IsReady(runner),
             \/ runner = "engine" /\ kind = "ingestion"
             \/ runner = "ingestion" /\ kind = "api",
             runner' = kind
      PROVE  DInv'
  <2>1. target = Nobody
    BY <1>1, <1>4 DEF Reaping
  <2>2. Child(kind) = {}
    BY <1>1, <1>4 DEF Family, Expected, Child, Kind
  <2>3. /\ runner' \in Runners /\ runner \in Kind /\ kind \in Kind /\ Expected(kind)'
        /\ \A k \in Kind : Expected(k) => Expected(k)'
    BY <1>4 DEF Runners, Expected, Kind
  <2>4. runner = "engine"
          => \E c \in Children : c[1] = "engine" /\ procs[c].pc \in {"up", "closing", "done"}
    BY <1>4 DEF IsReady, Child
  <2> QED
    BY <1>2, <1>4, <2>1, <2>2, <2>3, <2>4, SpawnKeeps
<1>5. CASE runner = "api" /\ runner' = "ready" /\ procs' = procs
  <2>1. \A q \in Process : Same(q)
    BY <1>5 DEF Same
  <2>2. Reaping' /\ Known'
    BY <1>1, <1>2, <1>5 DEF Reaping, Known, Kind, Children, Alive, files
  <2>3. runner' \in Runners /\ \A kind \in Kind : Expected(kind) => Expected(kind)'
    BY <1>5 DEF Runners, Expected, Kind
  <2> QED
    BY <1>1, <1>2, <1>5, <2>1, <2>2, <2>3, SupervisorKeeps DEF files, Typed
<1> QED
  BY <1>3, <1>4, <1>5 DEF waitForReady

\* It ends its children and itself.
LEMMA KillAllKeeps ==
  ASSUME DInv, runner \in Kind \cup {"ready"}, killAll, troubles' \in 0..Troubles
  PROVE  DInv'
<1>1. Typed /\ Reaping /\ Known
  BY DEF DInv
<1>2. /\ runner' = "down" /\ target' = Nobody /\ lost' = lost /\ procs' = Told
      /\ UNCHANGED <<files, plan>> /\ Aside
  BY <1>1 DEF killAll, Aside, Typed
<1>3. procs' \in [Process -> ProcessRecord] /\ \A q \in Process : Orphaned(q)
  BY <1>1, <1>2, ToldEffect DEF Typed
<1>4. lost' \in SUBSET Process /\ \A p \in lost' : Alive(p)
  BY <1>1, <1>2 DEF Typed, Known
<1>5. \A e \in Process : e[1] = "engine" /\ Alive(e) => e \in lost' \/ e = pidFile
  <2> SUFFICES ASSUME NEW e \in Process, e[1] = "engine", Alive(e)
               PROVE  e \in lost \/ e = pidFile
    BY <1>2
  <2>1. CASE e \in Children
    BY <1>1, <2>1 DEF Reaping
  <2>2. CASE e \notin Children
    <3>1. procs[e].orphan
      BY <2>2 DEF Children, Alive
    <3>2. target = Nobody
      BY <1>1 DEF Reaping, Kind
    <3> QED
      BY <1>1, <3>1, <3>2, Processes DEF Known
  <2> QED
    BY <2>1, <2>2
<1> QED
  BY <1>2, <1>3, <1>4, <1>5, OrphansKeep

\* It dies as it is.
LEMMA RunnerDiesKeeps ==
  ASSUME DInv, RunnerDies
  PROVE  DInv'
<1>1. Typed /\ Reaping /\ Known
  BY DEF DInv
<1>2. /\ runner' = "down" /\ target' = Nobody
      /\ lost' = lost \cup {p \in Children \ {pidFile} : Alive(p)}
                      \cup {p \in {target} \ {Nobody} : Alive(p)}
      /\ UNCHANGED <<files, plan>>
  BY DEF RunnerDies
<1>3. Aside
  BY <1>1, DeploymentAssumption DEF RunnerDies, Aside, Typed, Trouble
<1>4. procs' \in [Process -> ProcessRecord] /\ \A q \in Process : Orphaned(q)
  BY <1>1, LeftEffect DEF Typed, RunnerDies
<1>5. lost' \in SUBSET Process /\ \A p \in lost' : Alive(p)
  BY <1>1, <1>2 DEF Typed, Known, Children, Owner
<1>6. \A e \in Process : e[1] = "engine" /\ Alive(e) => e \in lost' \/ e = pidFile
  <2> SUFFICES ASSUME NEW e \in Process, e[1] = "engine", Alive(e), e # pidFile
               PROVE  e \in lost'
    OBVIOUS
  <2>1. CASE e \in Children
    BY <1>2, <2>1
  <2>2. CASE e \notin Children
    <3>1. procs[e].orphan
      BY <2>2 DEF Children, Alive
    <3>2. e \in lost \/ e = target
      BY <1>1, <3>1 DEF Known
    <3> QED
      BY <1>2, <3>2, Processes
  <2> QED
    BY <2>1, <2>2
<1> QED
  BY <1>2, <1>3, <1>4, <1>5, <1>6, OrphansKeep

\* It hears that a child left with code 0.
LEMMA CleanExitKeeps ==
  ASSUME DInv, NEW p \in Process, procs[p].pc = "done",
         runner \in Kind \cup {"ready"}, p \in Children,
         procs' = [procs EXCEPT ![p] = Dead],
         pidFile' = (IF p[1] = "engine" THEN Nobody ELSE pidFile),
         UNCHANGED <<runner, target, lock, sock, port, db, plan, lost, byHand, troubles>>
  PROVE  DInv'
<1>1. Typed /\ Parts /\ Held /\ Family /\ Reaping /\ Known /\ Schemed
      /\ Generation /\ Together /\ OneWriter
  BY DEF DInv
<1>2. procs' \in [Process -> ProcessRecord]
  BY <1>1, Records DEF Typed
<1>3. procs'[p] = Dead /\ \A q \in Process \ {p} : procs'[q] = procs[q]
  BY <1>1 DEF Typed
<1>4. procs'[p].pc = "dead" /\ procs'[p].orphan /\ procs'[p].conn = Nobody
  BY <1>3 DEF Dead
<1>5. Typed'
  BY <1>1, <1>2 DEF Typed, Owner
<1>6. Parts'
  BY <1>1, <1>3, <1>4 DEF Parts
<1>7. lock # p /\ sock # p /\ port # p /\ p \notin lost
      /\ \A q \in Process : procs[q].conn # p
  BY <1>1, Processes DEF Held, Known, Alive, Together
<1>8. Held'
  BY <1>1, <1>3, <1>4, <1>7 DEF Held, Typed, Owner
<1>9. Children' = Children \ {p}
  BY <1>3, <1>4 DEF Children
<1>10. Family' /\ Reaping'
  BY <1>1, <1>9, Processes DEF Family, Reaping, Expected, Kind
<1>11. Known'
  <2>1. \A q \in lost : q \in Process \ {p}
    BY <1>1, <1>7 DEF Typed
  <2>2. \A q \in Process \ {p} : Alive(q)' <=> Alive(q)
    BY <1>3 DEF Alive
  <2>3. ~Alive(p)'
    BY <1>4 DEF Alive
  <2>4. ASSUME NEW e \in Process \ {p}, e[1] = "engine", Alive(e), procs[e].orphan
        PROVE  e \in lost \/ e = pidFile' \/ e = target
    <3>1. p[1] = "engine" => pidFile = p
      BY <1>1 DEF Reaping
    <3> QED
      BY <1>1, <2>4, <3>1 DEF Known
  <2> QED
    BY <1>1, <1>3, <2>1, <2>2, <2>3, <2>4 DEF Known
<1>12. Schemed'
  <2>1. Completes' <=> Completes
    BY DEF Completes, Planned
  <2>2. lock' # Nobody => lock' = lock /\ lock \in Process \ {p}
    BY <1>1, <1>7 DEF Owner, Typed
  <2> QED
    BY <1>1, <1>3, <2>1, <2>2 DEF Schemed
<1>13. Generation'
  <2>1. \A q \in Process : procs'[q].pc \in {"up", "closing", "done"} => procs'[q] = procs[q]
    BY <1>3, <1>4
  <2>2. Children \subseteq Process
    BY DEF Children
  <2> QED
    BY <1>1, <1>9, <2>1, <2>2 DEF Generation
<1>14. Together'
  <2>1. \A q \in Process : procs[q].conn # Nobody => procs[q].conn \in Process \ {p}
    BY <1>1, <1>7 DEF Typed, ProcessRecord, Owner
  <2> QED
    BY <1>1, <1>3, <1>4, <2>1 DEF Together, Alive
<1>15. OneWriter'
  <2>1. \A i \in {"ingestion"} \X (1..Slots) : procs'[i].conn # Nobody => procs'[i] = procs[i]
    BY <1>3, <1>4, Processes
  <2> QED
    BY <1>1, <2>1 DEF OneWriter
<1> QED
  BY <1>5, <1>6, <1>8, <1>10, <1>11, <1>12, <1>13, <1>14, <1>15 DEF DInv

\* Somebody stops a process by hand.
LEMMA ByHandKeeps ==
  ASSUME DInv, NEW p \in Process, StoppedByHand(p)
  PROVE  DInv'
<1>1. Typed /\ Reaping /\ Known
  BY DEF DInv
<1>2. procs' \in [Process -> ProcessRecord] /\ \A q \in Process : Same(q)
  BY <1>1, TermEffect DEF StoppedByHand, Typed
<1>3. /\ runner' = runner /\ target' = target /\ pidFile' = pidFile /\ lost' = lost
      /\ UNCHANGED <<lock, sock, port, db, plan, lost>>
  BY DEF StoppedByHand, files
<1>4. Aside
  BY <1>1, DeploymentAssumption DEF StoppedByHand, Aside, Typed, Trouble
<1>5. Children' = Children
  BY <1>2 DEF Children, Same
<1>6. Reaping'
  BY <1>1, <1>3, <1>5 DEF Reaping
<1>7. Known'
  BY <1>1, <1>2, <1>3 DEF Known, Alive, Same, Typed
<1>8. \A kind \in Kind : Expected(kind) => Expected(kind)'
  BY <1>3 DEF Expected
<1> QED
  BY <1>1, <1>2, <1>3, <1>4, <1>6, <1>7, <1>8, SupervisorKeeps DEF Typed

-----------------------------------------------------------------------------
(* The invariant and what follows from it.                                 *)

LEMMA DInvInit == Init => DInv
<1> SUFFICES ASSUME Init
             PROVE  DInv
  OBVIOUS
<1>1. /\ runner = "down" /\ target = Nobody /\ pidFile = Nobody
      /\ lock = Nobody /\ sock = Nobody /\ port = Nobody
      /\ db = EmptyDatabase /\ plan = <<>> /\ lost = {}
      /\ byHand = FALSE /\ troubles = Troubles
  BY DEF Init
<1>2. procs \in [Process -> ProcessRecord] /\ \A p \in Process : procs[p] = Dead
  BY Records DEF Init
<1>3. \A p \in Process : procs[p].pc = "dead" /\ procs[p].orphan /\ procs[p].conn = Nobody
  BY <1>2 DEF Dead
<1>4. db \in Database /\ plan \in Seq(Statements) /\ troubles \in 0..Troubles
  BY <1>1, SchemaAssumption, DeploymentAssumption DEF EmptyDatabase, Database
<1>5. Typed
  BY <1>1, <1>2, <1>4 DEF Typed, Runners, Owner
<1>6. Children = {}
  BY <1>3 DEF Children
<1>7. Parts /\ Held /\ Family /\ Reaping /\ Known /\ Schemed /\ Generation /\ Together
  BY <1>1, <1>3, <1>6 DEF Parts, Held, Family, Reaping, Known, Schemed, Generation, Together,
                          Alive, Kind
<1>8. OneWriter
  BY <1>3, Processes DEF OneWriter
<1> QED
  BY <1>5, <1>7, <1>8 DEF DInv

LEMMA DInvStep == DInv /\ [Next]_vars => DInv'
<1> SUFFICES ASSUME DInv, [Next]_vars
             PROVE  DInv'
  OBVIOUS
<1>1. CASE Start \/ reapStaleEngine \/ Terminate \/ AwaitDeath \/ writePidFile
  BY <1>1, ReapingKeeps
<1>2. CASE spawnEngine \/ waitForReady
  BY <1>2, ForkKeeps
<1>3. CASE killAll /\ runner \in Kind \cup {"ready"} /\ (Trouble \/ UNCHANGED troubles)
  <2>1. troubles' \in 0..Troubles
    BY <1>3, DeploymentAssumption DEF Trouble, DInv, Typed
  <2> QED
    BY <1>3, <2>1, KillAllKeeps
<1>4. ASSUME NEW p \in Process, ChildExits(p)
      PROVE  DInv'
  <2>1. runner \in Kind \cup {"ready"} /\ p \in Children /\ UNCHANGED troubles
    BY <1>4 DEF ChildExits
  <2>2. CASE killAll
    BY <1>3, <2>1, <2>2
  <2>3. CASE ~killAll
    <3>1. /\ procs[p].pc = "done" /\ procs' = [procs EXCEPT ![p] = Dead]
          /\ pidFile' = (IF p[1] = "engine" THEN Nobody ELSE pidFile)
          /\ UNCHANGED <<runner, target, lock, sock, port, db, plan, lost, byHand>>
      BY <1>4, <2>3 DEF ChildExits, CleanExits
    <3> QED
      BY <2>1, <3>1, CleanExitKeeps
  <2> QED
    BY <2>2, <2>3
<1>5. CASE KillTarget
  <2>1. target \in Process
    BY <1>5 DEF KillTarget, DInv, Reaping, Typed, Owner
  <2> QED
    BY <1>5, <2>1, DiesKeeps
<1>6. CASE ReadyTimeout \/ NeverReady \/ Stop
  BY <1>3, <1>6 DEF ReadyTimeout, NeverReady, Stop
<1>7. CASE RunnerDies
  BY <1>7, RunnerDiesKeeps
<1>8. ASSUME NEW p \in Process, Proceeds(p)
      PROVE  DInv'
  <2>1. CASE Terminated(p)
    BY <2>1, TerminatedKeeps
  <2>2. CASE p[1] = "engine" /\ Engine(p)
    BY <2>2, OpenKeeps, StatementKeeps, ServerKeeps, ShutdownKeeps DEF Engine
  <2>3. CASE p[1] # "engine" /\ connect(p)
    BY <2>3, ConnectKeeps
  <2>4. CASE (p[1] = "ingestion" /\ startWorkers(p)) \/ (p[1] = "api" /\ startApiServer(p))
    BY <2>4, StartedKeeps
  <2> QED
    BY <1>8, <2>1, <2>2, <2>3, <2>4 DEF Proceeds
<1>9. ASSUME NEW p \in Process, Dies(p) \/ PingFails(p)
      PROVE  DInv'
  BY <1>9, DiesKeeps
<1>10. ASSUME NEW p \in Process, StoppedByHand(p)
       PROVE  DInv'
  BY <1>10, ByHandKeeps
<1>11. CASE UNCHANGED vars
  BY <1>11 DEF vars, files, DInv, Typed, Parts, Held, Family, Reaping, Known, Schemed,
               Generation, Together, OneWriter, Children, Expected, Alive, Completes, Planned
<1> QED
  BY <1>1, <1>2, <1>4, <1>5, <1>6, <1>7, <1>8, <1>9, <1>10, <1>11 DEF Next, Supervise

\* The invariant, for any number of processes, any number of troubles and any
\* latest version.
THEOREM DeploymentInvariant == Spec => []DInv
<1>1. Init => DInv
  BY DInvInit
<1>2. DInv /\ [Next]_vars => DInv'
  BY DInvStep
<1> QED
  BY <1>1, <1>2, PTL DEF Spec

LEMMA TypesFollow == DInv => TypeOK
<1> SUFFICES ASSUME DInv
             PROVE  TypeOK
  OBVIOUS
<1>1. Typed /\ Held /\ Family /\ Known
  BY DEF DInv
<1>2. {target, pidFile, lock, sock, port} \subseteq Owner
  BY <1>1 DEF Typed
<1>3. \A p \in Process :
        /\ procs[p].pc \in {"dead", "done", "failed", "boot", "schema", "starting", "up", "closing"}
        /\ {procs[p].orphan, procs[p].term, procs[p].late} \subseteq BOOLEAN
        /\ procs[p].conn \in Owner
  BY <1>1 DEF Typed, ProcessRecord, PCs
<1>4. \A p \in {lock, sock, port} \ {Nobody} : Alive(p)
  BY <1>1 DEF Held, Alive
<1>5. ASSUME NEW kind \in Kind
      PROVE  Cardinality(Child(kind)) <= 1
  <2>1. CASE Child(kind) = {}
    <3>1. Cardinality(Child(kind)) = 0
      BY <2>1, FS_EmptySet
    <3> QED
      BY <3>1
  <2>2. CASE Child(kind) # {}
    <3>1. PICK c \in Child(kind) : TRUE
      BY <2>2
    <3>2. Child(kind) = {c}
      BY <1>1, <3>1 DEF Family, Child
    <3> QED
      <4>1. Cardinality(Child(kind)) = 1
        BY <3>2, FS_Singleton
      <4> QED
        BY <4>1
  <2> QED
    BY <2>1, <2>2
<1>6. runner = "down" => Children = {}
  BY <1>1 DEF Family, Expected, Kind
<1>7. lost \subseteq {p \in Process : Alive(p)}
  BY <1>1 DEF Typed, Known
<1> QED
  BY <1>1, <1>2, <1>3, <1>4, <1>5, <1>6, <1>7 DEF TypeOK, Typed, Runners

\* Every variable has its type, the dead hold nothing, and the supervisor never
\* has two children of a kind.
THEOREM DeploymentTypeCorrect == Spec => []TypeOK
BY DeploymentInvariant, TypesFollow, PTL

\* An engine that is up has the database and the socket path, whichever engines
\* start and stop beside it.
THEOREM EngineIsReachable == Spec => []EngineReachable
<1>1. DInv => EngineReachable
  BY DEF DInv, Held, EngineReachable
<1> QED
  BY <1>1, DeploymentInvariant, PTL

\* An engine in service has the whole schema, however often earlier engines died
\* between two statements of initSchema.
THEOREM SchemaIsComplete == Spec => []SchemaComplete
<1>1. DInv => SchemaComplete
  <2> SUFFICES ASSUME DInv, sock # Nobody
               PROVE  db = Complete
    BY DEF SchemaComplete, Complete
  <2>1. sock \in Process /\ lock = sock /\ procs[sock].pc = "up"
    BY DEF DInv, Held, Typed, Owner
  <2> QED
    BY <2>1 DEF DInv, Schemed
<1> QED
  BY <1>1, DeploymentInvariant, PTL

\* Two ingestion processes write through one engine only if one of them had lost
\* its supervisor before it connected.
THEOREM DatabaseHasOneWriter == Spec => []OneWriter
<1>1. DInv => OneWriter
  BY DEF DInv
<1> QED
  BY <1>1, DeploymentInvariant, PTL

\* Whoever has the database when an engine has just been forked is lost.
LEMMA HolderIsLost ==
  ASSUME DInv, NEW e \in Children, e[1] = "engine", procs[e].pc = "boot", lock # Nobody
  PROVE  lock \in lost
<1>1. Typed /\ Held /\ Family /\ Reaping /\ Known
  BY DEF DInv
<1>2. lock \in Process /\ lock[1] = "engine" /\ Alive(lock) /\ lock # e
  BY <1>1 DEF Held, Typed, Owner, Alive
<1>3. procs[lock].orphan
  BY <1>1, <1>2 DEF Family, Children, Alive
<1>4. target = Nobody /\ (pidFile = Nobody \/ pidFile = e)
  BY <1>1 DEF Family, Expected, Reaping, Kind
<1> QED
  BY <1>1, <1>2, <1>3, <1>4, Processes DEF Known

\* Only openDatabase takes the database.
LEMMA OnlyOpenTakes ==
  ASSUME DInv, [Next]_vars, lock = Nobody, lock' # Nobody
  PROVE  \E e \in Process : openDatabase(e)
<1>1. UNCHANGED lock => FALSE
  OBVIOUS
<1>2. ASSUME NEW p \in Process, lock' = Free(lock, p)
      PROVE  FALSE
  BY <1>2 DEF Free
<1>3. CASE \/ Start \/ reapStaleEngine \/ Terminate \/ AwaitDeath \/ writePidFile \/ spawnEngine
           \/ waitForReady \/ ReadyTimeout \/ NeverReady \/ Stop \/ RunnerDies
           \/ \E p \in Process : ChildExits(p) \/ StoppedByHand(p)
           \/ UNCHANGED vars
  BY <1>1, <1>3 DEF Start, reapStaleEngine, Terminate, AwaitDeath, writePidFile, spawnEngine,
       waitForReady, ReadyTimeout, NeverReady, Stop, RunnerDies, ChildExits, StoppedByHand,
       killAll, files, vars
<1>4. CASE KillTarget
  BY <1>4 DEF KillTarget, Releases, Free
<1>5. ASSUME NEW p \in Process, Dies(p) \/ PingFails(p)
      PROVE  FALSE
  BY <1>2, <1>5 DEF Dies, PingFails, Releases
<1>6. ASSUME NEW p \in Process, Proceeds(p), ~openDatabase(p)
      PROVE  FALSE
  <2>1. CASE Terminated(p)
    BY <1>1, <1>2, <2>1 DEF Terminated, Releases, Closes, ShutdownOrder
  <2>2. CASE runStatement(p) \/ startEngineServer(p) \/ FinishShutdown(p)
    BY <1>1, <1>2, <2>2 DEF runStatement, startEngineServer, FinishShutdown, Closes, ShutdownOrder
  <2>3. CASE connect(p) \/ startWorkers(p) \/ startApiServer(p)
    BY <1>1, <2>3 DEF connect, startWorkers, startApiServer, files
  <2> QED
    BY <1>6, <2>1, <2>2, <2>3 DEF Proceeds, Engine
<1> QED
  BY <1>3, <1>4, <1>5, <1>6 DEF Next, Supervise

\* An engine finds the database taken only by a process that no supervisor knows
\* of: reapStaleEngine sees to all others.
THEOREM RefusalIsExplained == Spec => RefusalExplained
<1>1. DInv /\ [Next]_vars =>
        [\A e \in Process :
           procs[e].pc = "boot" /\ e[1] = "engine" /\ ~procs[e].orphan
           /\ procs'[e].pc = "failed" /\ lock' # Nobody /\ troubles' = troubles
           /\ ~procs[e].term
             => lock \in lost]_vars
  <2> SUFFICES ASSUME DInv, [Next]_vars, NEW e \in Process, procs[e].pc = "boot",
                      e[1] = "engine", ~procs[e].orphan, procs'[e].pc = "failed", lock' # Nobody
               PROVE  lock \in lost
    OBVIOUS
  <2>1. e \in Children
    BY DEF Children
  <2>2. lock # Nobody
    <3> SUFFICES ASSUME lock = Nobody
                 PROVE  FALSE
      OBVIOUS
    <3>1. PICK q \in Process : openDatabase(q)
      BY OnlyOpenTakes
    <3>2. Moves(q, "schema")
      BY <3>1 DEF openDatabase
    <3>3. procs'[e].pc \in {"boot", "schema"}
      BY <3>2, MovesEffect DEF DInv, Typed, PCs, Same
    <3> QED
      BY <3>3
  <2> QED
    BY <2>1, <2>2, HolderIsLost
<1> QED
  BY <1>1, DeploymentInvariant, PTL DEF Spec, RefusalExplained

=============================================================================
