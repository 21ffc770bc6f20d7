------------------------------ MODULE EngineOps ------------------------------
(***************************************************************************)
(* The requests a process may send to the engine and what each does to the   *)
(* database: src/engine/protocol.ts and the handlers of src/engine/server.ts. *)
(*                                                                         *)
(* The content of the database is the last write to each chain; what was      *)
(* asked of a chain beyond its identity - heights, limits, rows - is left out. *)
(***************************************************************************)
EXTENDS FiniteSets

CONSTANTS
  knownChainIds,               \* the chains the engine was started with
  otherChainIds,               \* chains only a caller's configuration has
  noChain,                     \* stands for a body without chainId
  types                        \* the request types this instance uses

\* The handlers that run on the one writing connection of RWDB; all others
\* take a connection of the reader pool.
WritingOps == {"appendBlocks", "insertBlocks", "insertAlert", "closeAlert",
               "touchAlertNotified", "insertInactivity", "endInactivity"}

ReadingOps == {"latestBlock", "latestBlockHeight", "getAlert", "getUnclosedAlerts",
               "getOpenInactivity", "getInactivityHistory", "getBlockByHeight",
               "getBlockByRange", "getBlockStats", "getChainSignedPercentage",
               "getDailySignedStats"}

\* They ask about all chains and carry no chainId.
OverviewOps == {"getOverviewDailyStats", "getOverviewLatestBlocks"}

ASSUME EngineOpsAssumption ==
  /\ types \subseteq WritingOps \cup ReadingOps \cup OverviewOps
  /\ knownChainIds \cap otherChainIds = {}
  /\ noChain \notin knownChainIds \cup otherChainIds

EngineRequestBody ==
  [type : types \ OverviewOps, chainId : knownChainIds \cup otherChainIds]
    \cup [type : types \cap OverviewOps, chainId : {noChain}]

\* The statements a handler runs, each given by the chains it covers:
\* getLatestBlocksAllChains has one for each chain, getDailySignedStatsAllChains
\* one for all of them.
Statements(body) ==
  CASE body.type = "getOverviewLatestBlocks" -> {{chainId} : chainId \in knownChainIds}
    [] body.type = "getOverviewDailyStats" -> {knownChainIds}
    [] OTHER -> {{body.chainId}}

\* What the statements run so far have found, by chain.
NothingSeen == [chainId \in {} |-> noChain]

Add(seen, chains, value) ==
  [chainId \in DOMAIN seen \cup chains |->
     IF chainId \in chains THEN value[chainId] ELSE seen[chainId]]

Complete(body, seen) == DOMAIN seen = UNION Statements(body)
=============================================================================
