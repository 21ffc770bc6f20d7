--------------------------- MODULE QueryOperator ---------------------------
(***************************************************************************)
(* The query operator of one chain (src/query/index.ts): requests with      *)
(* retries over the endpoints that passed the last health check, and the    *)
(* health checks that requests start on their way.  RPC and REST endpoints   *)
(* are two kinds that go through the same code twice.                       *)
(*                                                                         *)
(* The caller is the chain worker.  It calls one method at a time, but the   *)
(* first two at start-up run together, and the requests of a chunk of        *)
(* commits do, over one list of endpoints and one round-robin index.        *)
(***************************************************************************)
EXTENDS Integers, SequencesExt

CONSTANTS
  rpcUrls, apiUrls,       \* the configured endpoints, in order
  NodeStates,             \* url -> what the endpoint may be like
  retryAttempts,          \* attempts of one request
  rangeChunkSize,         \* requests of getRangeCommits that run together
  RangeLength,            \* heights fetched by one poll
  MaxPages,               \* bound: pages of the largest validator set
  IndexCycle,             \* bound: kind -> the round-robin index counts modulo this
  Moves,                  \* bound: how often an endpoint changes
  Faults                  \* bound: requests that fail at an endpoint in order

MAX_HEIGHT_DIFFERENCE == 20

Kind == {"rpc", "api"}
urls == [kind \in Kind |-> IF kind = "rpc" THEN rpcUrls ELSE apiUrls]
Urls == ToSet(rpcUrls) \cup ToSet(apiUrls)

AnyState == UNION {NodeStates[u] : u \in Urls}

ASSUME QueryOperatorAssumption ==
  /\ rpcUrls \in Seq(ToSet(rpcUrls)) /\ apiUrls \in Seq(ToSet(apiUrls))
  /\ ToSet(rpcUrls) \cap ToSet(apiUrls) = {}
  /\ \A node \in AnyState : /\ {node.up, node.home, node.synced} \subseteq BOOLEAN
                              /\ node.height \in Nat
  /\ {retryAttempts, rangeChunkSize, RangeLength, MaxPages} \subseteq Nat \ {0}
  /\ IndexCycle \in [Kind -> Nat \ {0}]
  /\ \A kind \in Kind : \A n \in 1..Len(urls[kind]) : IndexCycle[kind] % n = 0
  /\ Moves \in Nat /\ Faults \in Nat

VARIABLES
  nodes,      \* url -> what the endpoint is like: up, on this chain's network
              \* (home), synced, and its height
  pages,      \* how many pages the validator set has
  healthy,    \* kind -> healthyRpcs, healthyApis
  fresh,      \* kind -> the last check is younger than healthCheckInterval
  index,      \* kind -> rpcIndex, apiIndex
  inFlight,   \* kind -> the request that started the check in flight, if any
  checks,     \* request -> the check it started: answers and who awaits it
  caller,     \* the method the worker is in
  requests,   \* the method's requests
  from,       \* heights of the poll before the chunk, or before the one looked up
  nextKey,    \* getValset: the page asked for, 0 for the first one
  budget      \* what is left of the bounds on changes and failures

lists == <<healthy, fresh, index, inFlight, checks>>
vars == <<nodes, pages, lists, caller, requests, from, nextKey, budget>>

-----------------------------------------------------------------------------
(* Requests.  A height of a range is its own request; the others go by names. *)

Latest == 0
Lookup == -1
Page   == -2

KindOf(r) == IF r < 0 THEN "api" ELSE "rpc"

\* history: what it tried, and whether it had list and index for itself
NewRequest == [pc |-> "ready", attempt |-> 1, url |-> "", tried |-> {}, alone |-> TRUE]

Sends(ids) == requests' = [r \in ids |-> NewRequest]

Done(r) == requests[r].pc \in {"ok", "failed"}

Returned == \A r \in DOMAIN requests : Done(r)

\* Mutant: one attempt more than configured.
OneTooMany(req) ==
  IF req.attempt <= retryAttempts
  THEN [req EXCEPT !.pc = "ready", !.attempt = @ + 1]
  ELSE [req EXCEPT !.pc = "failed"]

\* withRetry: a failed attempt is tried again, after a pause, until none is
\* left.  A throw counts as a failed attempt.
AttemptFailed(req) ==
  IF req.attempt < retryAttempts
  THEN [req EXCEPT !.pc = "ready", !.attempt = @ + 1]
  ELSE [req EXCEPT !.pc = "failed"]

-----------------------------------------------------------------------------
(* Health.                                                                  *)

Responsive(answers) ==
  {u \in DOMAIN answers : answers[u].up /\ answers[u].home /\ answers[u].synced}

highestHeight(answers) == Max({answers[u].height : u \in Responsive(answers)} \cup {0})

\* What a list keeps when it is filtered: those of set, in the list's order.
Kept(list, set) ==
  LET kept[n \in 0..Len(list)] ==
        IF n = 0 THEN <<>>
        ELSE IF list[n] \in set THEN Append(kept[n - 1], list[n]) ELSE kept[n - 1]
  IN kept[Len(list)]

\* RpcClient.checkHealth: the nodes that pass and are not far behind, in the
\* configured order.
rpcCheckHealth(answers) ==
  Kept(rpcUrls, {u \in Responsive(answers) :
                   answers[u].height > highestHeight(answers) - MAX_HEIGHT_DIFFERENCE})

\* ApiClient.checkHealth: heights are not compared.
apiCheckHealth(answers) == Kept(apiUrls, Responsive(answers))

checkHealth(kind, answers) ==
  IF kind = "rpc" THEN rpcCheckHealth(answers) ELSE apiCheckHealth(answers)

\* Mutant: a check is due only when nobody is healthy.
OnlyIfNone(kind) == healthy[kind] = <<>>

\* The condition of getHealthyRpc and getHealthyApi for a check.
ChecksHealth(kind) == ~fresh[kind] \/ healthy[kind] = <<>>

\* Mutant: the index stays where it is.
SameIndex(kind, n) == index[kind]

\* rpcIndex++ and apiIndex++, by each of n requests.
Advanced(kind, n) == (index[kind] + n) % IndexCycle[kind]

\* The requests after those of ids, in this order, each took the next endpoint
\* of the list; without one the attempt fails.
Picked(kind, ids, list) ==
  [r \in DOMAIN requests |->
     LET req == requests[r] IN
     IF r \in ToSet(ids)
     THEN LET at   == index[kind] + CHOOSE i \in 0..Len(ids) - 1 : ids[i + 1] = r
              same == req.alone /\ Len(ids) = 1
                      /\ (req.attempt > 1 => list = healthy[kind])
          IN IF list = <<>>
             THEN AttemptFailed([req EXCEPT !.alone = same])
             ELSE LET url == list[(at % Len(list)) + 1] IN
                  [req EXCEPT !.pc = "sent", !.url = url, !.alone = same,
                              !.tried = @ \cup {url}]
     ELSE [req EXCEPT !.alone = @ /\ KindOf(r) # kind]]

-----------------------------------------------------------------------------
Init ==
  /\ nodes \in {n \in [Urls -> AnyState] : \A u \in Urls : n[u] \in NodeStates[u]}
  /\ pages \in 1..MaxPages
  /\ healthy = [kind \in Kind |-> <<>>] /\ fresh = [kind \in Kind |-> FALSE]
  /\ index = [kind \in Kind |-> 0] /\ inFlight = [kind \in Kind |-> {}]
  /\ checks = [r \in {} |-> 0]
  /\ caller = "start" /\ requests = [r \in {Latest, Lookup} |-> NewRequest]
  /\ from = 0 /\ nextKey = 0
  /\ budget = [moves |-> Moves, faults |-> Faults]

\* An endpoint changes.
NodeChanges ==
  /\ budget.moves > 0
  /\ budget' = [budget EXCEPT !.moves = @ - 1]
  /\ \E u \in Urls : \E node \in NodeStates[u] \ {nodes[u]} : nodes' = [nodes EXCEPT ![u] = node]
  /\ UNCHANGED <<pages, lists, caller, requests, from, nextKey>>

\* healthCheckInterval passes.
Expire(kind) ==
  /\ fresh[kind]
  /\ fresh' = [fresh EXCEPT ![kind] = FALSE]
  /\ UNCHANGED <<nodes, pages, healthy, index, inFlight, checks, caller, requests,
                 from, nextKey, budget>>

\* An attempt finds a list it can use.
PickEndpoint(r) ==
  LET kind == KindOf(r) IN
  /\ requests[r].pc = "ready"
  /\ ~ChecksHealth(kind)
  /\ requests' = Picked(kind, <<r>>, healthy[kind])
  /\ index' = [index EXCEPT ![kind] = Advanced(kind, 1)]
  /\ UNCHANGED <<nodes, pages, healthy, fresh, inFlight, checks, caller, from,
                 nextKey, budget>>

\* Mutant: every request that needs a check starts one.
NotShared(kind) == {}

\* The check that a request may await instead of starting its own.
Joins(kind) == inFlight[kind]

\* An attempt awaits the check in flight, or starts one and awaits it.
AwaitCheck(r) ==
  LET kind == KindOf(r) IN
  /\ requests[r].pc = "ready"
  /\ ChecksHealth(kind)
  /\ requests' = [requests EXCEPT ![r].pc = "waiting"]
  /\ IF Joins(kind) # {}
     THEN /\ checks' = [s \in DOMAIN checks |->
                          IF s \in Joins(kind)
                          THEN [checks[s] EXCEPT !.waiting = Append(@, r)]
                          ELSE checks[s]]
          /\ UNCHANGED inFlight
     ELSE /\ checks' = [s \in DOMAIN checks \cup {r} |->
                          IF s = r
                          THEN [answers |-> [u \in {} |-> 0], waiting |-> <<r>>]
                          ELSE checks[s]]
          /\ inFlight' = [inFlight EXCEPT ![kind] = {r}]
  /\ UNCHANGED <<nodes, pages, healthy, fresh, index, caller, from, nextKey, budget>>

\* The status of one endpoint comes back, or fails to; all are asked at once.
StatusArrives(s) ==
  LET check == checks[s] IN
  /\ \E u \in ToSet(urls[KindOf(s)]) \ DOMAIN check.answers :
       checks' = [checks EXCEPT ![s].answers =
                    [v \in DOMAIN check.answers \cup {u} |->
                       IF v = u THEN nodes[u] ELSE check.answers[v]]]
  /\ UNCHANGED <<nodes, pages, healthy, fresh, index, inFlight, caller, requests,
                 from, nextKey, budget>>

\* Who goes on when the check is over, in the order in which they began to wait.
Woken(s) == checks[s].waiting

\* The last status arrived: runRpcHealthCheck stores the verdict, the check is
\* no longer in flight, and all who await it take an endpoint.
CheckEnds(s) ==
  LET kind == KindOf(s)
      list == checkHealth(kind, checks[s].answers)
  IN /\ DOMAIN checks[s].answers = ToSet(urls[kind])
     /\ healthy' = [healthy EXCEPT ![kind] = list]
     /\ fresh' = [fresh EXCEPT ![kind] = TRUE]
     /\ inFlight' = [inFlight EXCEPT ![kind] = {}]
     /\ index' = [index EXCEPT ![kind] = Advanced(kind, Len(Woken(s)))]
     /\ requests' = Picked(kind, Woken(s), list)
     /\ checks' = [t \in DOMAIN checks \ {s} |-> checks[t]]
     /\ UNCHANGED <<nodes, pages, caller, from, nextKey, budget>>

\* The endpoint answers a request.  One that is down does not.
Answers(r) ==
  /\ requests[r].pc = "sent"
  /\ nodes[requests[r].url].up
  /\ requests' = [requests EXCEPT ![r].pc = "ok"]
  /\ UNCHANGED <<nodes, pages, lists, caller, from, nextKey, budget>>

AnswerFails(r) ==
  /\ requests[r].pc = "sent"
  /\ IF nodes[requests[r].url].up
     THEN budget.faults > 0 /\ budget' = [budget EXCEPT !.faults = @ - 1]
     ELSE UNCHANGED budget
  /\ requests' = [requests EXCEPT ![r] = AttemptFailed(@)]
  /\ UNCHANGED <<nodes, pages, lists, caller, from, nextKey>>

-----------------------------------------------------------------------------
(* The methods, in the order in which the worker calls them.  Each look-up of  *)
(* a validator is one request; whether a poll makes a further one depends on    *)
(* what the answers say, which is left open.                                  *)

Ok(r) == requests[r].pc = "ok"

\* The method returns and the worker waits for its timer.
Rest == caller' = "idle" /\ Sends({})

\* resolveSigningWindowSize and getLatestCommit are back: with a height, the
\* validator set is asked for.
getValset ==
  /\ caller = "start" /\ Returned
  /\ IF Ok(Latest)
     THEN caller' = "valset" /\ Sends({Page})
     ELSE Rest
  /\ UNCHANGED <<nodes, pages, lists, from, nextKey, budget>>

\* The key to the page after p, which the API sends with p.
KeyAfter(p) == IF p < pages THEN p + 1 ELSE 0

\* Mutant: a set without a next key is asked for again.
SomeKey == 1

\* nextKey of the accumulated set: what the first page said.
AccumulatedKey == KeyAfter(1)

\* The loop of getValset.
NextPage ==
  /\ caller = "valset" /\ Returned
  /\ IF Ok(Page)
     THEN /\ nextKey' = AccumulatedKey
          /\ IF AccumulatedKey = 0 THEN Rest ELSE UNCHANGED caller /\ Sends({Page})
     ELSE Rest /\ nextKey' = 0
  /\ UNCHANGED <<nodes, pages, lists, from, budget>>

\* A poll begins.
getLatestCommit ==
  /\ caller = "idle"
  /\ caller' = "tip" /\ Sends({Latest})
  /\ UNCHANGED <<nodes, pages, lists, from, nextKey, budget>>

\* The validator's status.  A poll without a tip is over.
getValidatorData ==
  /\ caller = "tip" /\ Returned
  /\ IF Ok(Latest) THEN caller' = "status" /\ Sends({Lookup}) ELSE Rest
  /\ UNCHANGED <<nodes, pages, lists, from, nextKey, budget>>

\* Asked for a validator that is jailed.
getSigningInfo ==
  /\ caller = "status" /\ Returned /\ Ok(Lookup)
  /\ caller' = "info" /\ Sends({Lookup})
  /\ UNCHANGED <<nodes, pages, lists, from, nextKey, budget>>

Chunk(i) == i + 1..IF i + rangeChunkSize < RangeLength THEN i + rangeChunkSize ELSE RangeLength

\* getRangeCommits: one chunk after the other.  A poll at the height that is
\* stored already asks for none.
getRangeCommits ==
  /\ Returned
  /\ \/ /\ caller \in {"status", "info"}
        /\ from' = 0
        /\ \/ Rest
           \/ caller' = "range" /\ Sends(Chunk(0))
     \/ /\ caller = "range" /\ from + rangeChunkSize < RangeLength
        /\ from' = from + rangeChunkSize
        /\ Sends(Chunk(from + rangeChunkSize))
        /\ UNCHANGED caller
  /\ UNCHANGED <<nodes, pages, lists, nextKey, budget>>

\* The commits are attributed, some heights with a look-up of their own; one that
\* fails is the last.
resolveActiveFallback ==
  /\ Returned
  /\ \/ /\ caller = "range" /\ from + rangeChunkSize >= RangeLength
        /\ from' = 0
        /\ \/ Rest
           \/ caller' = "fallback" /\ Sends({Lookup})
     \/ /\ caller = "fallback"
        /\ \/ Rest /\ from' = 0
           \/ /\ Ok(Lookup) /\ from + 1 < RangeLength
              /\ from' = from + 1 /\ Sends({Lookup}) /\ UNCHANGED caller
  /\ UNCHANGED <<nodes, pages, lists, nextKey, budget>>

Methods ==
  \/ getValset \/ NextPage \/ getLatestCommit \/ getValidatorData \/ getSigningInfo
  \/ getRangeCommits \/ resolveActiveFallback

Steps ==
  \/ \E r \in DOMAIN requests : PickEndpoint(r) \/ AwaitCheck(r) \/ Answers(r) \/ AnswerFails(r)
  \/ \E s \in DOMAIN checks : StatusArrives(s) \/ CheckEnds(s)
  \/ Methods

Next == Steps \/ NodeChanges \/ \E kind \in Kind : Expire(kind)

\* Timeouts end every request and every probe, the worker's timer keeps polling,
\* and time passes.
Spec == Init /\ [][Next]_vars /\ WF_vars(Steps)
             /\ \A kind \in Kind : WF_vars(Expire(kind))

-----------------------------------------------------------------------------
(* Properties.                                                             *)

(* Every variable has its type.                                            *)
TypeOK ==
  /\ nodes \in [Urls -> AnyState]
  /\ pages \in 1..MaxPages
  /\ \A kind \in Kind :
       /\ healthy[kind] \in Seq(ToSet(urls[kind])) /\ IsInjective(healthy[kind])
       /\ fresh[kind] \in BOOLEAN /\ index[kind] \in 0..IndexCycle[kind] - 1
       /\ inFlight[kind] \subseteq DOMAIN checks
  /\ DOMAIN checks \subseteq DOMAIN requests
  /\ \A s \in DOMAIN checks :
       /\ ToSet(checks[s].waiting) \subseteq {r \in DOMAIN requests : requests[r].pc = "waiting"}
       /\ DOMAIN checks[s].answers \subseteq ToSet(urls[KindOf(s)])
  /\ caller \in {"start", "valset", "idle", "tip", "status", "info", "range", "fallback"}
  /\ \A r \in DOMAIN requests :
       /\ requests[r].pc \in {"ready", "waiting", "sent", "ok", "failed"}
       /\ requests[r].attempt \in 1..retryAttempts
       /\ requests[r].tried \subseteq ToSet(urls[KindOf(r)])
  /\ from \in 0..RangeLength
  /\ nextKey \in 0..MaxPages

(* Concurrent requests share one health check (the comment at index.ts:50):   *)
(* an endpoint never has two probes to answer, so that the verdict of an       *)
(* older check cannot replace that of a newer one.                           *)
OneCheck == \A s, t \in DOMAIN checks : KindOf(s) = KindOf(t) => s = t

(* A request that had the list and the index for itself gives up only after    *)
(* every endpoint of the list failed it, given as many attempts as there are   *)
(* endpoints.  Two requests of one chunk have no such guarantee: they may take  *)
(* turns so that each meets the same endpoint every time.                    *)
TriesEverybody ==
  \A r \in DOMAIN requests :
    LET list == healthy[KindOf(r)] IN
    requests[r].pc = "failed" /\ requests[r].alone /\ Len(list) <= retryAttempts
      => ToSet(list) \subseteq requests[r].tried

(* Every method returns, whatever the endpoints do, so that the worker comes to *)
(* rest again and again - but for getValset, which reads the page key from the  *)
(* set it accumulates into and never ends once the set has a second page.     *)
CallsReturn == []<>(caller = "idle" \/ (caller = "valset" /\ pages > 1))

\* The endpoints that deserve requests: up, on the network, synced and, for
\* RPC, not MAX_HEIGHT_DIFFERENCE behind another such endpoint.
Fit(kind) ==
  LET Good == {u \in ToSet(urls[kind]) : nodes[u].up /\ nodes[u].home /\ nodes[u].synced}
  IN {u \in Good :
        kind = "rpc" => \A v \in Good : nodes[v].height - nodes[u].height < MAX_HEIGHT_DIFFERENCE}

(* When the endpoints stop changing, the lists end up with those that deserve  *)
(* requests: a bad one is dropped although it was healthy once, a good one     *)
(* comes back, and no answer of another network sways the verdict.  A worker   *)
(* stuck in getValset asks no RPC node any more; a poll without a tip asks no   *)
(* API.                                                                     *)
HealthConverges ==
  /\ pages = 1 => <>[](ToSet(healthy["rpc"]) = Fit("rpc"))
  /\ <>[](Fit("rpc") # {}) => <>[](ToSet(healthy["api"]) = Fit("api"))
=============================================================================
