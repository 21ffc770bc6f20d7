# cosmad in TLA+

cosmad monitors validators: for every configured chain it polls RPC and REST
nodes, decides of each block whether the validator signed it, missed it or was
not in the active set, keeps that in a DuckDB database, raises alerts and serves
it all to a web front end. This directory holds TLA+ models of the parts that
decide, TLC runs that check them on small instances, and proofs, checked by
TLAPS, that hold for every instance.

Source paths below are relative to `src/src/`.

## 1. The system

Three processes, forked and watched by a fourth (`runner.ts`):

| part | state it keeps | operations | talks to |
|---|---|---|---|
| **chain worker** (`dp/chain_worker.ts`), one per chain, in the ingestion process | the active set fetched at start-up, a `polling` flag; per poll: stored height, tip, status, batch of blocks | `poll` on a timer: read the open alerts and the stored height, ask for tip and status, record inactivity, fetch and attribute a slice of commits, ingest, evaluate, apply and dispatch the alert events | query operator, engine, evaluator, dispatcher |
| **query operator** (`query/`) | healthy and unhealthy endpoints per kind, time of the last health check, round-robin index | requests with retries and failover; lazy health checks; ranges in chunks; paging of the validator set | RPC and REST nodes |
| **alert evaluator** (`alert/index.ts`) | since when each endpoint is down | five checks that turn windows, status and open alerts into open, repeat and close events | worker |
| **dispatcher** (`alert/notifiers/`) | none | delivers an event to Discord, Telegram, PagerDuty with three attempts each | the outside |
| **ingest layer and queries** (`ingest/`, `pkgs/database/duckdb/queries/`) | rows: blocks, alerts, inactivity periods | append blocks (with a fallback), latest height, windows, open/touch/close an alert, open/end a period | database |
| **engine** (`engine/`) | the only database handle; per connection a role | a socket server that executes reads and writes by request id; the client matches answers to requests | ingestion and API processes |
| **database set-up** (`pkgs/database/duckdb/rw_db.ts`, `migrations.ts`) | schema version | create or migrate tables | engine |
| **supervisor** (`runner.ts`, `dp/main.ts`, `alert/notifiers/healthcheck.ts`) | children, pid file, ping timer | kill a leftover engine, fork, wait for readiness, shut down when one exits, ping | all processes |
| **API** (`api/`) | watcher: last seen ids and heights; event bus | REST routes; a watcher that polls the database and publishes events over SSE | engine, browsers |
| **front end** (`frontend/`) | one SSE connection shared by reference count | subscribe, reconnect | API |
| **configuration** (`config/`) | none after start-up | load and validate TOML | all |

What is hard here is the same everywhere: a poll is some ten awaits long, and
between any two of them the chain moves, a different node answers, a request
fails after its retries, a database call fails and is only logged, or the process
dies. Nothing is transactional beyond one statement. `PROJECT.json` lists the
hazards one by one, at their lines, with the properties that cover them and, for
the rest, why none does.

What makes each part correct:

- **worker**: stored blocks are contiguous, settled and never rewritten; a value
  is what the commit says, or has one of a few known excuses; a poll that fails
  in the middle is made up for by later polls; inactivity periods say where the
  validator was out, and do not overlap.
- **evaluator and alert application**: one open alert per subject, one status
  alert at a time, notifications within the configured repeats, endpoint alerts
  only after the grace period and on fresh health, and in the end the alerts that
  are open are those whose condition holds.
- **query operator**: a request fails only if every retry failed; paging ends;
  health checks are not skipped for ever.
- **engine**: each request gets its own answer or an error; one writer.
- **supervisor**: one engine at a time; no part lives on without the others.
- **watcher, SSE, front end**: each alert is announced once, in the end what is
  announced and shown is what is stored; a connection exactly while somebody listens.
- **migrations**: a crash between two statements leaves a database the next start
  can finish.

## 2. The modules

| module | what it is |
|---|---|
| `CommitToBlock` | pure: `commitToBlock` and the memoised fallback lookup `resolveActiveFallback`, for both chain types; the standings of a validator and how they may follow each other |
| `InactivityTable` | pure: the `validator_inactivity` rows, `recordInactivity`'s decisions and the three statements behind them |
| `BlockLedger` | abstract: the chain and the stored blocks as readers may see them - settled heights, appended at the upper end without a gap, with the right value of `signed` where the validator signed |
| `ChainWorker` | the poll of one chain (`pollChain`), composed of the above |
| `AlertEvaluator` | pure: the checks of one evaluation, their events and the order in which they are applied |
| `AlertPipeline` | `doPoll` around an evaluation: health snapshot, open rows, judging, writing, dispatching; composed of `AlertEvaluator` |
| `EngineOps` | pure: the requests of the engine's protocol, which of them write, and the statements each runs |
| `EngineStore` | abstract: what the engine promises its callers - a database of atomic statements, behind calls that may overlap, fail or never return |
| `EngineProtocol` | the engine's server, its clients and the socket between them; composed of `EngineOps` |
| `QueryOperator` | the endpoint lists of one chain, the shared health check, `withRetry`, and the methods in the order in which the worker calls them |
| `Schema` | pure: `initSchema` as the list of the statements that change something, and what each leaves behind |
| `Deployment` | the supervisor and its three processes, with the pid file, the database lock, the socket path and the port; composed of `Schema` |
| `LiveView` | the watcher of the API process, the event stream, and a browser tab: `AlertList`, the `SseHub`, the two pages |
| `MCChainWorker`, `MCAlertPipeline`, `MCEngineProtocol`, `MCQueryOperator`, `MCDeployment`, `MCLiveView` | the constants of the TLC instances |
| `ChainWorkerProofs`, `LedgerProofs`, `InactivityProofs` | the proofs about `ChainWorker` |
| `EngineProofs`, `AlertPipelineProofs`, `DeploymentProofs`, `QueryProofs`, `LiveViewProofs` | the proofs about the module of that name |

### ChainWorker

The database rows are `blocks` (height to -1, 0 or 1), `periods` and the one bit
`missAlert`; the locals of `pollChain` are the variables `dbHeight`, `rpcHeight`,
`status`, `openPeriod`, `lastKnown`, `next`, `batch` and `cache`; the environment
is `chain`, the validator's standing at each height so far. Each await of the code
ends an action, and `pc` says which await the poll is at:

| `pc` | action | code |
|---|---|---|
| `down` | `Start` | `runChainWorker` up to its first poll; the start-up set may or may not have the validator |
| `idle` | `BeginPoll`, `ReadFails` | the open alerts and the latest height |
| `tip` | `getLatestCommit`, `LatestCommitFails` | the tip, from a node up to `Lag` behind |
| `status` | `resolveValidatorStatus` | staking data, and signing info if jailed; either may fail |
| `inactivity`, `end`, `insert` | `readInactivity`, `EndInactivity`, `StartInactivity` | `getOpenInactivity` and the two writes of `recordInactivity`, each its own action |
| `fetch` | `getRangeCommits` | the slice, empty if the node is not past the stored height |
| `attribute` | `AttributeCommit`, `CommitUnusable`, `CommitNotCanonical` | one round of the loop: a block, a skip or stop (`allowBlockGaps`), the stop at an unsettled tip |
| `ingest` | `ingestBlocks` | all rows or none |
| `evaluate` | `Evaluate`, `ReadFails` | the window and the consecutive-miss alert |

`Advance` is the chain, `Crash` the death of the process. The timer may fire at any
await. `polling` is the flag of the code, set and cleared where the code does;
`BeginPoll` is the event loop taking up a poll - a new one, if the flag lets the timer
begin it, or one of those in `waiting`, each suspended at an await with locals of its
own (`ThisPoll`) while the variables above are those of the poll in hand. That no second
poll is ever under way is so only because of the flag: without it (the mutant
`NeverBusy`) two polls store the same heights and judge on each other's alerts.

Abstractions: heights start at 1 and 0 is null; of a commit only the validator's
standing matters; of a period only start, end and reason; the stored rows are one
map, so that the fallback of the ingest layer is one all-or-nothing write. The
retries of one request are one answer or one failure. A slice is fetched at some moment
between `getRangeCommits` and its loop: what a node did not have, or had as its tip, may
be settled by the time the height's turn comes, and ends the slice all the same. At most
two polls overlap. An entry in a commit whose flag is neither commit nor nil is not
modelled.

### AlertPipeline

The environment is `world` - which conditions the windows of a poll would show -
and `up`, the endpoints that would pass a health check. The worker keeps the health
snapshot (`health`, `checkedAt`), `downSince` (the map `endpointDownSince`), the
open alerts it read (`openAlerts`) and the `events` still to be applied; `alerts`
are the rows. `getHealthyRpc` and `getHealthyApi` are `Asks`: every request checks
the health if the last check is older than `healthCheckInterval` or found nobody
healthy. `pc` goes `idle` - `rpc` - `api` - `evaluate` - `apply` - `dispatch`,
with `endpoints` for a poll that could not reach the chain and judges the
endpoints only. Each event is one action for its write and one for its
notification. Time is a clock that ticks between any two actions.

Abstractions: the miss ratio is the number of escalation steps it has reached;
the three notifiers are one delivery that arrives or is lost; the verdict of a
health check on an endpoint is an input; the random id of an alert is a number no row of
its type and subject has, so that the ids of repeated failed inserts are one. History variables (`upSince`, `seenUp`,
`recovered`, `peak`, the field `told`, and `apiFailed` in `ChainWorker`) are read
by properties only.

### EngineProtocol

Each connection belongs to a process with a fixed role. On the client's side are
`conn`, `nextId` and `calls`, the map `pending` with what was asked (and, once
answered, the answer); on the engine's side `role`, set by the handshake, and
`served`, the promise that `dispatch` returned for each request, or how it ended.
`toServer` and `toClient` are the lines in the socket; `store` has for each chain
the request that wrote it last.

| action | code |
|---|---|
| `connect` | `EngineConnection.connect`: the socket is open and the hello is sent |
| `request` | `EngineConnection.request`: a new id, an entry in `pending`, a line; callers do not wait for each other |
| `onResponse` | the line handler of the constructor: the answer resolves and removes its entry, or finds none |
| `ClientExits` | the process ends or calls `close`; what it sent may still be read |
| `handleHello`, `handleRequest` | `handleLine`: the role; the refusals without a handshake and of writes by readers; the chain check at the head of `dispatch` |
| `runStatement`, `statementFails` | one statement of a handler, on the chains it covers; an overview leaves a chain out whose statement fails, any other request fails |
| `respond` | the answer is written when `dispatch` is over, in any order |
| `EngineDies`, `startEngineServer` | the engine is killed with all that is under way; `runner.ts` starts another |

A connection is made once: nothing in the clients reconnects, and nothing fails the
entries of `pending` when the socket closes, so that calls on a `broken` connection
stay open for ever. This is modelled as it is, and is why `EveryCallReturns` speaks
of connections that stay open only. `EngineStore` permits two things a caller might
not expect: an overview without a chain, and a write that takes effect after its
caller has gone.

Abstractions: heights, limits and rows are left out of a request, so that a write
is the identity of its request and a read returns the identities it finds; the wire
format (`protocol.ts`) neither loses nor changes a line. A failing write has changed
nothing, which holds for one statement of DuckDB but is a hazard for the appender of
`appendBlocks`. The names of the handlers that write are those that run on the
writing connection of `RWDB`; the set of request types refused to readers is a
definition of its own, because the code keeps it by hand.

### QueryOperator

`healthy`, `index` and `inFlight` are `healthyRpcs`/`healthyApis`, `rpcIndex`/
`apiIndex` and the promise of the check in flight, per kind; `fresh` says that the
last check is younger than `healthCheckInterval`. `requests` holds the requests under
way, `checks` the health checks with the answers they have and who awaits them;
`caller` is where the worker is: start-up (tip and slashing parameters at once, then
the validator set page by page), then polls of a tip, a status (for a jailed validator
its signing info too), a range in chunks, and the look-ups of the heights the range
leaves in doubt, one after the other.

| action | code |
|---|---|
| `PickEndpoint`, `AwaitCheck` | `getHealthyRpc`, `getHealthyApi`: an endpoint from the list, or the check in flight, or a new one |
| `StatusArrives`, `CheckEnds` | `checkHealth` of either client: all endpoints are asked at once, and when the last has answered the verdict is stored and all who wait take an endpoint |
| `Answers`, `AnswerFails` | the request itself; a failure is an attempt of `withRetry` used up |
| `getValset`, `NextPage`, `getLatestCommit`, `getValidatorData`, `getSigningInfo`, `getRangeCommits`, `resolveActiveFallback` | the methods, each of which sends its requests when those of the one before are done; where an answer decides whether there is a next one, either is possible |
| `NodeChanges`, `Expire` | an endpoint, and time |

Abstractions: an endpoint is up or not, on the network or not, synced or not, at a
height; the round-robin index is kept modulo `IndexCycle`, a common multiple of the
lengths a list can have; pauses between attempts are gone. Of a page of the validator set
only its key is kept: which validators it has is not, as no set of several pages is ever
returned.

### Deployment

`runner` is where `main` of `runner.ts` stands, one value per await; `procs` has for
each process how far it is, whether its supervisor is gone, whether a SIGTERM is under
way and which engine it is connected to. `lock`, `sock` and `port` are held by
processes; what a dead process held is free, but for the pid file. A supervisor that
dies leaves its children as orphans; one that is over has told them to end and is
gone before they are. A ready message without a channel ends its sender, which is why
an orphan never finishes its start-up. An engine runs the statements of
`Schema!initSchema` one by one.

Abstractions: `isAlive` with the command line is the truth about the process; the
versions of `migrations.ts` are counted, not spelled, and there is one migration;
`ADD COLUMN` and `CREATE INDEX`, which may be run again, are left out; the clients' side of a lost
connection is in `EngineProtocol`. Nobody starts cosmad twice at a time.

### LiveView

One chain. `polls` are the calls of `poll` that are under way, each at one of its
three awaits, with the answer of the engine as it was read; `lastHeight` and
`lastAlertIds` are the maps of `startWatcher`. `lists` has every `AlertList` that was
ever mounted with its connection and its pending timers, `shown` and `request` belong
to the one on show, `wire` is its stream. `hub` is the `SseHub`: reference count,
connection, timer. A page is set up before the old one's `onUnmounted` runs, so that
the strips of the new page subscribe before the others leave (`Replaced`).

Abstractions: an alert is its row, opened once and closed once; of a block only the
height; `BlockFeed` and the charts are left out; one tab; the page parameter of
`/alerts` is the first page, longer than the set. A change from one chain page to
another, which keeps the component and can let the response of the first chain arrive
last, is not modelled. History variables (`overlapped`, `unread`, `missed`) are read
by properties only, but for the bound on overlaps.

## 3. The runs

Every failure is drawn from a budget (`faults`), so that a run has at most so many
of each kind, at any place. Every other bound is a constant named as one.

| run | instance | what it shows |
|---|---|---|
| `worker_safety` | 4 heights, slices of 3, threshold 2, a validator that signs, misses, is jailed; nodes up to 1 behind; 1 failed query, 1 failed database call; a timer that may fire at every await | `PollsKeepApart`, `ImplementsLedger`, `MisattributionExplained`, `NoMissWhileKnownInactive`, `PeriodsTruthful`, `ClosedBySigning` |
| `worker_progress` | 3 heights, slices of 1, jailing and tombstoning; 1 failed query, 1 failed database call, 1 death; fair | `PeriodsDisjoint`; `CatchesUp`, `AlertSettles`, `InactivityConverges` |
| `phantom_miss` | as `worker_safety`, no failure at all | violation of `MissOnlyWhenActive` |
| `tombstone_ends` | 3 heights, 1 failed query | violation of `TombstoneStands` |
| `alert_chain` | 2 ticks, 2 changes of the chain or an endpoint, repeats every tick, escalation; 1 lost notification, 1 death | `OneOpenPerSubject`, `StatusExclusive`, `ToldBudget`, `SilencedOneByOne` |
| `alert_endpoints` | 2 RPC and 1 API endpoint, 3 changes, grace period 2, health checks every tick; 1 failed read, 1 death | `DownLongEnough`, `RpcAlarmsFresh` |
| `alert_settles` | any initial world and endpoints, 1 change, an alert left over from an earlier configuration; 1 failed query, 1 failed write; fair | `ChainAlertsSettle`, `EndpointAlertsSettle` |
| `stale_api_alarm` | 1 RPC and 1 API endpoint, no failed call beyond endpoints being down | violation of `ApiAlarmsFresh` |
| `engine_calls` | a writer with two requests that may overlap and a reader with one; two chains and one the engine does not have; 1 failed statement, 1 death of the engine, 1 of each client; fair | `NothingForgotten`, `ImplementsStore`, `EveryCallReturns` |
| `query_requests` | 2 RPC and 1 REST endpoint in any state, 1 change, 1 lost answer; 2 attempts, ranges of 3 in chunks of 2, sets of 1 or 2 pages; fair | `OneCheck`, `TriesEverybody`; `CallsReturn`, `HealthConverges` |
| `deployment` | 2 troubles (kill, crash, failed ping, stop by hand, slow start), 3 places for processes of a kind; fair | `EngineReachable`, `SchemaComplete`, `OneWriter`, `RefusalExplained`; `ComesUp`, `NoHalfSystem` |
| `live_view` | 1 alert, 2 blocks, 2 polls at a time, of which one overlaps; 2 strips, 1 visit of the chain page; 1 failed read, failed response or broken connection; fair | `ConnectionsKept`, `AnnouncedInOrder`; `AnnouncementsSettle`, `ListShowsOpen` |

What holds only with an excuse is stated with it, and the excuse is as narrow as the
code allows: `CallsReturn` excepts `getValset` on a set of several pages, whose loop
never ends; `TriesEverybody` excepts a request that shared index or list with another;
`RefusalExplained` and `OneWriter` name the deaths that leave a process nobody knows,
`ComesUp` lets such a process stand in the way for ever, `NoHalfSystem` excepts a child
stopped by hand; `AnnouncedInOrder` excepts polls that overlap; `ListShowsOpen` excepts
a list that lost an event, whose request failed, or whose one response crossed an event;
`SilencedOneByOne` allows one silenced alert per death of the worker or failed delivery.
Where an excuse is exactly what a hazard is about, the code does go wrong in that way, and
the hazard's note in `PROJECT.json` says so: the property shows that it goes wrong in no
other.

Why the bounds are enough. Four heights with slices of three are the smallest
instance with a jailing and a return inside one slice, a slice that ends early and
a later one that continues it. A lag of one lets a node answer from behind what is
stored. A window of two makes the alert depend on a block of an earlier poll. Two
failures, of different kinds, are what the known weak places need (a write lost
after a wrong status); the safety theorems below have no bound at all. In the
alert runs two changes give every status alert a predecessor and a successor, and
the world, the endpoints and the rows are arbitrary at the start, so that one
change is enough for every transition in `alert_settles`. The clock of that run
leaves two ticks after the last change, because a health check that is still fresh
when the clock stops would hide the change for ever: an artefact of the bound.
In `engine_calls` two requests on one connection are the fewest whose answers can
pass each other, a second connection makes reads and writes overlap, and two chains
let an overview be half done when a write comes. What these properties say is proved
below for any number of each; only `EveryCallReturns` rests on the run.

In `query_requests` two concurrent requests are the fewest that can share a check and
the index, one RPC node may be ahead on another network and one far behind, and one
change of an endpoint after the first check makes a list stale; a third page would be
asked for like the second. In `deployment` two troubles are the fewest that kill a
supervisor and then stop what it left, or interrupt two start-ups in a row; three places
let two orphans and a child be alive at once. In `live_view` one overlap is enough to
have an old answer handled after a new one, after which the watcher must settle; two
blocks let a height be overtaken; one failure puts a list out of step once.

Fairness. `Poll` is weakly fair because `setInterval` keeps calling it and every
await of a poll ends: requests have timeouts, the engine answers, a notifier
answers (for the last two this is an assumption, listed as hazards). `Start` is
weakly fair because whoever runs the supervisor starts it again. `Tick` is time.
Nothing is assumed of the chain or of the endpoints. The budgets say that failures
do not go on for ever. In `EngineProtocol` what has been written to an open socket is
read and a statement ends; nothing makes a process ask, connect, die or start again.
In `QueryOperator` every request and every probe ends (axios has a timeout in each), the
worker polls again, and intervals pass. In `Deployment` processes go on, cosmad is
started again when it is down, and a child that left without a word is given up at the
timeout; nothing dies by fairness. In `LiveView` the interval fires, the engine answers,
streams open and carry their events, timers fire; nobody has to visit a page.

Deadlock is checked in all runs but `engine_calls` and `deployment`: an idle worker, the
caller of the query operator and the watcher can always go on, while the callers of the
engine may have nothing more to ask, and a system that is up with its troubles spent
has nothing more to do.

Every property has a mutant: a plausible slip in one definition, kept in the module
next to the original, under which the run finds the property violated.

## 4. The proofs

Every invariant and every action property of a passing run, and both refinements, are
theorems about the module's `Spec` (for `EngineProtocol`, that it is well-typed is one
too, though no run lists it). They hold for every value of the constants that the
module's assumption admits: any chain type, slice, threshold, lag and length of the
chain; any endpoints, intervals and alerts; any number of connections, requests,
processes, polls, strips and visits; any number of failures, crashes and deaths. The
assumptions say what sort of thing each constant is and that the sets a model counts
or takes a maximum of are finite: `formerUrls` in `AlertConfigAssumption`, `Alerts` in
`LiveViewAssumption`. `QueryOperatorAssumption` says besides that the cycle of the
round-robin index is a common multiple of the lengths a list can have, which makes the
bounded index point where the unbounded one of the code does.

Three theorems have a hypothesis of their own. `AlertClosesBySigning` and
`WorkerImplementsLedger` assume `allowBlockGaps = FALSE`: with gaps the rows are not
contiguous, by configuration. `MisattributionIsExplained` assumes `chainType = "bft"`:
on a tm2 chain there is no status and nothing to look up, every height without an entry
is a miss, and TLC refutes the formula. `QueryTypeCorrect` assumes that the configured
endpoints are distinct, which the configuration does not check and without which the
REST list may name one twice.

### ChainWorker

- `ChainWorkerProofs!TypeCorrect`: `[]TypeOK`. `TypeOK` is not inductive as it
  stands; `TInv` adds what a poll holds at each `pc` (`PollSet`): a tip that is a
  height of the chain, a status that is known where periods are written. The module
  also has the lemmas on maxima (`MaxIsMax`, `LatestIsLatest`) the others rest on.
- `LedgerProofs!PollsStayApart`: `[]PollsKeepApart`. The flag is up exactly while a poll
  is under way, and none waits beside it (`Alone`, a part of `TInv`): the timer finds it
  up at every await, `EndPoll` takes it down, and `Crash` takes down all at once. The one
  poll there is then has read what is still current (`SnapshotFresh`), and its
  batch begins above what was stored (`BatchAbove`).
- `LedgerProofs!WorkerImplementsLedger`: `Spec` implies `Ledger!LedgerSpec`. `LInv`
  says of the batch what `BlockLedger` says of the rows: it is the interval from
  `fromHeight` to the height before `next` (`BatchIsRun`), all of it settled, with
  the right values where signed (`BatchIsTrue`); `SnapshotFresh` then puts the batch
  exactly on top of the stored rows. Every other action maps to a step of the chain
  or to a stutter.
- `LedgerProofs!AlertClosesBySigning`: `Spec => ClosedBySigning`. The stored heights have
  no hole (`Contiguous`); while the alert is open the newest of them, as many as the
  threshold, are all there (`Covered`); and the window `Evaluate` looks at ends at the
  newest of them unless the rows of this poll were refused (`AtEvaluate`). A window that
  is not all misses then has a stored row that is none.
- `InactivityProofs!PeriodsStayTruthful`: `[]PeriodsTruthful`, by `PInv`: the status
  a poll holds is the standing at its tip, or that one is tombstoned (`StatusTrue`),
  and no period ends beyond the chain (`EndsReached`).
- `InactivityProofs!NoMissForKnownInactive`: `[]NoMissWhileKnownInactive`, by `KInv`:
  a poll that knows the validator to be out never memoises the answer that it is
  active, and on a tm2 chain, which has no status, nothing is ever known.
- `InactivityProofs!MisattributionIsExplained`: `[]MisattributionExplained`. Without a
  missing answer, what a poll knows of the validator is its activity at the tip
  (`StatusKnown`, `KnownTrue`), and what the loop has memoised is its activity at some
  height already walked over, and agrees with the tip (`MemoTrue`, `InSlice`); with one
  change at most from the slice to the tip, every height in between has that activity.
- `InactivityProofs!PeriodsStayDisjoint`: `[]PeriodsDisjoint`. The open period a poll
  read is still the open one when it ends it, and when it inserts there is none
  (`ReadOpen`); no recorded height is past the tip of the poll (`Past`), at which an end
  and a new start are written.

### EngineProtocol

- `EngineProofs!EngineTypeCorrect`: `[]TypeOK`, here inductive by itself.
- `EngineProofs!EngineForgetsNothing`: `[]NothingForgotten`. The inductive invariant
  `EInv` says where a request may be and what is known there: ids not given out have
  left no trace (`IdsFresh`); the hello comes first and tells the true role
  (`HelloFirst`); a request in the socket (`LinesOpen`), in the engine (`WorkOpen`)
  or answered (`AnswersTrue`) has a caller who waits for it and is nowhere else; who
  waits on an open connection is in one of these places (`UnderWay`).
- `EngineProofs!EngineImplementsStore`: `Spec => ImplementsStore`. What a call has
  done in the database is what its promise has found or failed with (`Effects`):
  sending is the call, a statement is its effect, `handleRequest` a refusal or
  nothing, `onResponse` the return, and all else a stutter. `HelloFirst` excludes the
  refusal for a missing handshake and makes only writers write; `WorkOpen` makes a
  failing statement the first of its call; `AnswersTrue` makes the answer that of the
  request.

### AlertPipeline

One invariant, `AInv`, of which `AlertTypeCorrect`, `OpenAlertsAreUnique`,
`StatusAlertIsUnique`, `NotificationsAreDue`, `EndpointAlertsAreNotEarly` and
`RpcAlertsAreFresh` are consequences, and on which `NothingElseIsSilenced` rests. That no two rows are about one subject is not
inductive: it rests on what the events still to be applied say of the rows as they are
now (`Pending`: an event to open has no row yet, one to close or repeat has its row
still; `Keyed`: no two events are about one subject), and on the rows read at the
beginning being the rows until the first write (`Phases`). One status alert at a time
needs that every other one has its closing among the events before one is opened
(`Exclusive`). `Told` and `Paced` count announcements against repeats, and repeats against
the clock and the ratio. `NothingElseIsSilenced` counts the other way: a row that is
written is silenced only if it was before, because its announcement is under way
(`WrittenIsAnnouncing`, from `Pending`); dispatching makes up for exactly that
(`DispatchedIsAnnounced`); and a death or a lost delivery silences the one alert whose
announcement was under way (`LosesOne`). For the endpoints, an outage does not begin before the endpoint
was last seen up (`Outages`, `LongDown`); an RPC endpoint that is up was down, if at all,
before the last check (`Snapshots`), so that from the first request of a poll to its
judgement none that recovered long ago counts as down (`NoneStale`).

### Deployment

One invariant, `DInv`, behind all five theorems. Database, socket path and port belong to
whoever is past the step that takes them and before the one that gives them back
(`Held`); the supervisor's children are those of the phase it is in, one of a kind
(`Family`); an engine that outlived its supervisor is being ended, or is named in the pid
file, or is lost (`Reaping`, `Known`), which is what `RefusalExplained` says of an engine
that finds the file taken. `SchemaComplete` rests on the statements still to be run
completing the database that earlier, interrupted runs left (`Schemed`). `OneWriter` needs
to know that no other engine is up once the one of this supervisor has been
(`Generation`), and that who connected in time lost its supervisor when its engine did
(`Together`).

### QueryOperator

One invariant, `QInv`. `ChecksAreShared` needs that `inFlight` names exactly the checks
that run (`Joinable`), and every wake-up that who waits for a check is of its kind and
still waiting (`ChecksOK`). `EverybodyIsTried` is about counting round: the
attempts of a request that was alone met the endpoints just before the index, each a
different one (`Round`), because one attempt moves the index one further in the list
(`OneFurther`, from the uniqueness of a rest, `OneRest`) and a list that changed in
between ends the promise. What `filter` returns (`KeptIsPart`) is proved by a least
counterexample, first that the recursion has a solution, then that it is a part of
the list.

### LiveView

`WatchInv` is about the watcher, `TabInv` about the tab. As long as no two polls overlapped
there is one at most (`Alone`), and what it has read is at least as new as what was
announced before it (`NewBlock`, `NewAlerts`), since nothing read is ahead of the tables
(`Known`, `Reached`); `AnnouncementsAreInOrder` follows step by step.
`ConnectionsAreKept` rests on the page showing exactly one list or none (`PageOK`) and
on each list and the hub keeping a connection or a timer (`ListsKept`, `HubOK`).

### Only model-checked

All liveness: `CatchesUp`, `AlertSettles`, `InactivityConverges`, `ChainAlertsSettle`,
`EndpointAlertsSettle`, `EveryCallReturns`, `CallsReturn`, `HealthConverges`, `ComesUp`,
`NoHalfSystem`, `AnnouncementsSettle` and `ListShowsOpen`; fairness and ENABLED are out
of the prover's reach. And the three violations, which are counterexamples.

## 5. What the violations show

- **A phantom miss** (`phantom_miss`, `dp/chain_worker.ts:469`). The start-up set is
  trusted according to the status at the tip, but for every older height of the
  slice. A validator that is jailed and back within one slice - after a downtime of
  cosmad, say - gets the heights it spent jailed stored as 0, against "-1 = validator
  wasn't in the active set" (162-163) and `pkgs/database/tables.ts:30`. No failure is
  needed. `MisattributionExplained` shows that, besides a missing API answer and
  more than one change of activity within a slice, this is the only cause of a
  wrong value.
- **A tombstone that ends** (`tombstone_ends`, `dp/chain_worker.ts:273`). One failed
  signing-info request makes a tombstoned validator a jailed one: its permanent
  period is ended and a jailed one begins, against "jailed forever"
  (`pkgs/database/tables.ts:196`) and "callers must then leave status-dependent
  state untouched" (`dp/chain_worker.ts:239-240`).
- **An alarm about a healthy API** (`stale_api_alarm`, `dp/chain_worker.ts:393`). When
  the RPC does not answer, the poll returns before asking the API, whose health
  snapshot is judged all the same, against the comment above the call (391-392). The
  same property holds for RPC endpoints (`RpcAlarmsFresh`).

## 6. Plan

Done: the poll of the chain worker with its ledger, inactivity table and proofs; the
alert pipeline; the engine's protocol with its abstract store and proofs; the query
operator; the deployment with the set-up of the database; the watcher and the tab.

Every safety property that a run checks is proved. Left to prove: what the violated
promises come down to - under which condition a stored miss is a miss
(`MissOnlyWhenActive`), when a tombstone stands (`TombstoneStands`), when an `api_down`
alert is fresh (`ApiAlarmsFresh`) -, the safety half of the liveness properties (that
what has settled stays settled), and the part of `ListShowsOpen` that a list which
missed nothing never shows an alert twice.

## 7. Not modelled

URLs, headers and response schemas, row mappers, columns of the tables, bech32 and
logging (pure I/O or formatting); configuration loading (a single pass at start-up, whose
values are the constants here); the read-only statistics queries and the REST routes but
the one of the open alerts; `BlockFeed` and the charts of the front end; more than 200 open
alerts; the wording of notifications. The choice of the signing window size at start-up
only sets the width of a window.
