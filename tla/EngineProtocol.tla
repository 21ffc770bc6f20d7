---------------------------- MODULE EngineProtocol ----------------------------
(***************************************************************************)
(* The engine and its clients: EngineConnection of src/engine/client.ts and   *)
(* startEngineServer of src/engine/server.ts over a Unix socket.             *)
(*                                                                         *)
(* A connection is made once by a process with a fixed role; requests on it    *)
(* overlap, their statements run in any order, and the answers come back in    *)
(* the order they are ready.  The engine may die with any of that under way,   *)
(* or a client may; the database survives.  `seen` and `error` of a promise    *)
(* are kept after it has answered, for EngineStore to compare.               *)
(***************************************************************************)
EXTENDS EngineOps, Integers, Sequences

CONSTANTS
  Connections, Role,
  bodies,                      \* connection -> what its process may ask
  MaxRequests,                 \* bound: requests on each connection
  Deaths,                      \* bound: deaths of the engine
  DbFaults                     \* bound: statements that fail

ASSUME EngineProtocolAssumption ==
  /\ Role \in [Connections -> {"reader", "writer"}]
  /\ bodies \in [Connections -> SUBSET EngineRequestBody]
  /\ MaxRequests \in [Connections -> Nat]
  /\ Deaths \in Nat /\ DbFaults \in Nat

Ids == UNION {1..MaxRequests[c] : c \in Connections}

VARIABLES
  engine,     \* is the engine process listening?
  store,      \* the database: chain -> the request that wrote it last
  role,       \* the engine's `role` of each connection
  served,     \* connection -> id -> the promise of dispatch, or how it ended
  conn,       \* connection -> none, open, broken (engine gone), closed (client gone)
  nextId,
  calls,      \* `pending`, with what was asked and, for properties, answered
  toServer, toClient,          \* lines written to the socket and not yet read
  faults

serverVars == <<store, role, served>>
clientVars == <<conn, nextId, calls>>
vars == <<engine, serverVars, clientVars, toServer, toClient, faults>>

NoRow == noChain
NoCall == [state |-> "none"]
Idle == [state |-> "idle", body |-> [type |-> "none", chainId |-> noChain],
         seen |-> NothingSeen, error |-> "none"]

Pending(c, id) == calls[c][id].state = "open"

Init ==
  /\ engine = TRUE
  /\ store = [chainId \in knownChainIds |-> NoRow]
  /\ role = [c \in Connections |-> "null"]
  /\ served = [c \in Connections |-> [id \in Ids |-> Idle]]
  /\ conn = [c \in Connections |-> "none"]
  /\ nextId = [c \in Connections |-> 1]
  /\ calls = [c \in Connections |-> [id \in Ids |-> NoCall]]
  /\ toServer = [c \in Connections |-> <<>>]
  /\ toClient = [c \in Connections |-> <<>>]
  /\ faults = [death |-> Deaths, db |-> DbFaults]

-----------------------------------------------------------------------------
(* The client. *)

Hello(c) == [type |-> "hello", role |-> Role[c]]
Request(id, body) == [type |-> "request", id |-> id, body |-> body]

\* What is written to a socket that has lost its other end goes nowhere.
sendLine(wire, c, line) ==
  IF conn[c] = "open" THEN [wire EXCEPT ![c] = Append(@, line)] ELSE wire

connect(c) ==
  /\ engine
  /\ conn[c] = "none"
  /\ conn' = [conn EXCEPT ![c] = "open"]
  /\ toServer' = [toServer EXCEPT ![c] = <<Hello(c)>>]
  /\ UNCHANGED <<engine, serverVars, nextId, calls, toClient, faults>>

\* Mutant: the id is not used up.
requestSameId(c, body) ==
  /\ conn[c] \in {"open", "broken"}
  /\ nextId[c] <= MaxRequests[c]
  /\ calls' = [calls EXCEPT ![c][nextId[c]] = [state |-> "open", body |-> body]]
  /\ toServer' = sendLine(toServer, c, Request(nextId[c], body))
  /\ UNCHANGED <<engine, serverVars, conn, nextId, toClient, faults>>

\* Callers share a connection and do not wait for each other.
request(c, body) ==
  /\ conn[c] \in {"open", "broken"}
  /\ nextId[c] <= MaxRequests[c]
  /\ calls' = [calls EXCEPT ![c][nextId[c]] = [state |-> "open", body |-> body]]
  /\ toServer' = sendLine(toServer, c, Request(nextId[c], body))
  /\ nextId' = [nextId EXCEPT ![c] = @ + 1]
  /\ UNCHANGED <<engine, serverVars, conn, toClient, faults>>

\* The handler of the constructor: the answer resolves what waits under its id.
onResponse(c) ==
  /\ conn[c] = "open"
  /\ toClient[c] # <<>>
  /\ LET response == Head(toClient[c]) IN
       calls' = IF Pending(c, response.id)
                THEN [calls EXCEPT ![c][response.id] =
                        [state |-> "returned", body |-> @.body, answer |-> response.answer]]
                ELSE calls
  /\ toClient' = [toClient EXCEPT ![c] = Tail(@)]
  /\ UNCHANGED <<engine, serverVars, conn, nextId, toServer, faults>>

\* The client's process ends.  The engine may still read what was sent.
ClientExits(c) ==
  /\ conn[c] \in {"open", "broken"}
  /\ conn' = [conn EXCEPT ![c] = "closed"]
  /\ toClient' = [toClient EXCEPT ![c] = <<>>]
  /\ UNCHANGED <<engine, serverVars, nextId, calls, toServer, faults>>

-----------------------------------------------------------------------------
(* The engine. *)

\* Mutant: a writing operation is missing from the set.
WRITE_REQUEST_TYPES_short ==
  {"appendBlocks", "insertBlocks", "insertAlert", "closeAlert", "insertInactivity",
   "endInactivity"}

WRITE_REQUEST_TYPES ==
  {"appendBlocks", "insertBlocks", "insertAlert", "closeAlert", "touchAlertNotified",
   "insertInactivity", "endInactivity"}

Received(c, type) ==
  /\ engine
  /\ toServer[c] # <<>>
  /\ Head(toServer[c]).type = type
  /\ toServer' = [toServer EXCEPT ![c] = Tail(@)]
  /\ UNCHANGED <<engine, store, clientVars, faults>>

handleHello(c) ==
  /\ Received(c, "hello")
  /\ role' = [role EXCEPT ![c] = Head(toServer[c]).role]
  /\ UNCHANGED <<served, toClient>>

\* What handleLine answers without a handler; "none" if it calls dispatch.
RefusalOf(c, body) ==
  CASE role[c] = "null" -> "noHandshake"
    [] role[c] = "reader" /\ body.type \in WRITE_REQUEST_TYPES -> "readOnly"
    [] OTHER -> "none"

\* The check at the head of dispatch; its answer waits its turn.
DispatchOf(body) ==
  [Idle EXCEPT !.state = "running", !.body = body,
               !.error = IF body.chainId \in otherChainIds THEN "unknownChain" ELSE "none"]

\* Mutant: a refusal is not sent.
handleRequestSilently(c) ==
  /\ Received(c, "request")
  /\ LET line == Head(toServer[c])
         refusal == RefusalOf(c, line.body)
     IN  served' = [served EXCEPT ![c][line.id] =
                      IF refusal # "none"
                      THEN [Idle EXCEPT !.state = "answered", !.error = refusal]
                      ELSE DispatchOf(line.body)]
  /\ UNCHANGED <<role, toClient>>

handleRequest(c) ==
  /\ Received(c, "request")
  /\ LET line == Head(toServer[c])
         refusal == RefusalOf(c, line.body)
         refused == [Idle EXCEPT !.state = "answered", !.error = refusal]
     IN  \/ /\ refusal # "none"
            /\ served' = [served EXCEPT ![c][line.id] = refused]
            /\ toClient' = sendLine(toClient, c,
                 [id |-> line.id, answer |-> [seen |-> refused.seen, error |-> refusal]])
         \/ /\ refusal = "none"
            /\ served' = [served EXCEPT ![c][line.id] = DispatchOf(line.body)]
            /\ UNCHANGED toClient
  /\ UNCHANGED role

\* A handler's statement on the chains it covers, not run before.
Runs(c, id, chains) ==
  /\ engine
  /\ served[c][id].state = "running" /\ served[c][id].error = "none"
  /\ chains \in Statements(served[c][id].body)
  /\ chains \cap DOMAIN served[c][id].seen = {}
  /\ UNCHANGED <<engine, role, clientVars, toServer, toClient>>

runStatement(c, id, chains) ==
  /\ Runs(c, id, chains)
  /\ store' = IF served[c][id].body.type \in WritingOps
              THEN Add(store, chains, [chainId \in chains |-> <<c, id>>]) ELSE store
  /\ served' = [served EXCEPT ![c][id].seen = Add(@, chains, store')]
  /\ UNCHANGED faults

\* It fails.  getLatestBlocksAllChains leaves the chain out and goes on.
statementFails(c, id, chains) ==
  /\ Runs(c, id, chains)
  /\ faults.db > 0
  /\ faults' = [faults EXCEPT !.db = @ - 1]
  /\ IF served[c][id].body.type = "getOverviewLatestBlocks"
     THEN served' = [served EXCEPT ![c][id].seen =
                       Add(@, chains, [chainId \in chains |-> NoRow])]
     ELSE served' = [served EXCEPT ![c][id].error = "failed"]
  /\ UNCHANGED store

\* dispatch is over: its answer goes out, to whoever still listens.
respond(c, id) ==
  /\ engine
  /\ LET promise == served[c][id] IN
       /\ promise.state = "running"
       /\ promise.error # "none" \/ Complete(promise.body, promise.seen)
       /\ served' = [served EXCEPT ![c][id].state = "answered"]
       /\ toClient' = sendLine(toClient, c,
            [id |-> id, answer |-> [seen |-> promise.seen, error |-> promise.error]])
  /\ UNCHANGED <<engine, store, role, clientVars, toServer, faults>>

\* Killed, or shut down in the middle of everything.
EngineDies ==
  /\ engine
  /\ faults.death > 0
  /\ faults' = [faults EXCEPT !.death = @ - 1]
  /\ engine' = FALSE
  /\ role' = [c \in Connections |-> "null"]
  /\ served' = [c \in Connections |-> [id \in Ids |->
                  IF served[c][id].state = "running"
                  THEN [served[c][id] EXCEPT !.state = "gone"] ELSE served[c][id]]]
  /\ conn' = [c \in Connections |-> IF conn[c] = "open" THEN "broken" ELSE conn[c]]
  /\ toServer' = [c \in Connections |-> <<>>]
  /\ toClient' = [c \in Connections |-> <<>>]
  /\ UNCHANGED <<store, nextId, calls>>

startEngineServer ==
  /\ ~engine
  /\ engine' = TRUE
  /\ UNCHANGED <<serverVars, clientVars, toServer, toClient, faults>>

-----------------------------------------------------------------------------
Handle(c) == handleHello(c) \/ handleRequest(c)

Work(c, id) ==
  \/ respond(c, id)
  \/ \E chains \in SUBSET knownChainIds :
       runStatement(c, id, chains) \/ statementFails(c, id, chains)

Next ==
  \/ EngineDies \/ startEngineServer
  \/ \E c \in Connections :
       \/ connect(c) \/ onResponse(c) \/ ClientExits(c)
       \/ handleHello(c) \/ handleRequest(c)
       \/ \E body \in bodies[c] : request(c, body)
       \/ \E id \in Ids :
            \/ respond(c, id)
            \/ \E chains \in SUBSET knownChainIds :
                 runStatement(c, id, chains) \/ statementFails(c, id, chains)

Spec == Init /\ [][Next]_vars

\* The sockets and the statements make progress while both ends live.
FairSpec ==
  /\ Spec
  /\ \A c \in Connections :
       /\ WF_vars(Handle(c)) /\ WF_vars(onResponse(c))
       /\ \A id \in 1..MaxRequests[c] : WF_vars(Work(c, id))

-----------------------------------------------------------------------------
(* Correctness. *)

Seen == UNION {[covered -> {NoRow} \cup (Connections \X Ids)] :
                 covered \in SUBSET knownChainIds}
Errors == {"none", "noHandshake", "readOnly", "unknownChain", "failed"}
Answers == [seen : Seen, error : Errors]

Calls ==
  {NoCall} \cup [state : {"open"}, body : EngineRequestBody]
    \cup [state : {"returned"}, body : EngineRequestBody, answer : Answers]

Promises ==
  [state : {"idle", "running", "answered", "gone"},
   body : EngineRequestBody \cup {Idle.body}, seen : Seen, error : Errors]

ToServer ==
  [type : {"hello"}, role : {"reader", "writer"}]
    \cup [type : {"request"}, id : Ids, body : EngineRequestBody]

ToClient == [id : Ids, answer : Answers]

\* Type invariant: the connections, the calls on them, and the engine's work.
TypeOK ==
  /\ engine \in BOOLEAN
  /\ store \in [knownChainIds -> {NoRow} \cup (Connections \X Ids)]
  /\ role \in [Connections -> {"null", "reader", "writer"}]
  /\ served \in [Connections -> [Ids -> Promises]]
  /\ conn \in [Connections -> {"none", "open", "broken", "closed"}]
  /\ nextId \in [Connections -> Nat]
  /\ \A c \in Connections : nextId[c] \in 1..MaxRequests[c] + 1
  /\ calls \in [Connections -> [Ids -> Calls]]
  /\ toServer \in [Connections -> Seq(ToServer)]
  /\ toClient \in [Connections -> Seq(ToClient)]
  /\ faults \in [death : 0..Deaths, db : 0..DbFaults]

\* The places where the request of that id, or its answer, is under way.
Places(c, id) ==
  {<<"toServer", k>> : k \in {k \in DOMAIN toServer[c] :
      toServer[c][k].type = "request" /\ toServer[c][k].id = id}}
  \cup {<<"toClient", k>> : k \in {k \in DOMAIN toClient[c] : toClient[c][k].id = id}}
  \cup {<<"engine", k>> : k \in {k \in {id} : served[c][k].state = "running"}}

\* On an open connection a request is pending exactly while it, the engine's work
\* on it, or its answer is under way, and never twice: no request is forgotten,
\* none is answered again, no answer finds nobody (src/engine/client.ts:46-56).
NothingForgotten ==
  \A c \in Connections : conn[c] = "open" =>
    \A id \in Ids : Cardinality(Places(c, id)) = (IF Pending(c, id) THEN 1 ELSE 0)

\* Each caller sees a database in which its statements run at one moment within
\* its call, and gets the answer to its own request; refusals have no effect and
\* have one of the stated causes, never a missing handshake; readers never write
\* (src/engine/server.ts:195-220).
Store == INSTANCE EngineStore WITH
  effects <- [c \in Connections |-> [id \in Ids |->
                [seen |-> served[c][id].seen, error |-> served[c][id].error]]]

ImplementsStore == Store!StoreSpec

\* While neither end dies, every request is answered (src/engine/client.ts:85-91:
\* there is no timeout, so this is all a caller has).
EveryCallReturns ==
  \A c \in Connections : \A id \in Ids :
    Pending(c, id) ~> (conn[c] # "open" \/ ~Pending(c, id))
=============================================================================
