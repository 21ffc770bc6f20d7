---------------------------- MODULE AlertPipeline ----------------------------
(***************************************************************************)
(* How the alerts of one chain are judged, stored and announced: doPoll of   *)
(* src/dp/chain_worker.ts around the AlertEvaluator, with the health snapshot *)
(* of the QueryOperator, the alert rows and the dispatcher.                  *)
(*                                                                         *)
(* What the poll learns about the chain is a World, which changes under it;  *)
(* ChainWorker has how it is learnt.  One action per await, as there; time    *)
(* passes and the process dies between any two of them.                      *)
(***************************************************************************)
EXTENDS AlertEvaluator

CONSTANTS
  Worlds,              \* the states the chain of this model may show
  healthCheckInterval,
  MaxTime,             \* bound: where the clock stops
  Changes,             \* bound: changes of the chain and its endpoints
  LastChange,          \* bound: when they stop
  QueryFaults,         \* bound: failed RPC and API calls (retries exhausted)
  ReadFaults,          \* bound: failed reads of the database
  WriteFaults,         \* bound: failed writes of alert rows
  SendFaults,          \* bound: lost notifications (attempts exhausted)
  Crashes              \* bound: deaths of the worker's process

ASSUME AlertPipelineAssumption ==
  /\ Worlds \subseteq World /\ Worlds # {}
  /\ healthCheckInterval \in Nat /\ MaxTime \in Nat
  /\ Changes \in Nat /\ LastChange \in Nat
  /\ QueryFaults \in Nat /\ ReadFaults \in Nat
  /\ WriteFaults \in Nat /\ SendFaults \in Nat /\ Crashes \in Nat

VARIABLES
  clock,
  world,      \* what the chain shows
  up,         \* the endpoints that would pass a health check
  changes,    \* what is left of the bound on changes
  alerts,     \* the rows of `alerts` without closed_at
  pc,         \* where the poll is
  openAlerts, \* alerts, as read at the start of the poll
  health,     \* url -> "unchecked", "healthy" or "down": the last snapshot
  checkedAt,  \* kind -> time of the last health check
  status,     \* the validator's status as of this poll, or "unknown"
  downSince,  \* the map endpointDownSince, Never for an absent key
  events,     \* events of this poll still to be applied
  event,      \* the set of the one event that is applied but not dispatched
  upSince,    \* history: since when an endpoint is up, Never if it is down
  seenUp,     \* history: when the worker last judged an endpoint not down
  recovered,  \* history: endpoints up since before the poll, for longer than
              \* a health check stays fresh
  peak,       \* history: the highest level the chain has shown
  faults      \* what is left of the bounds on failures

environment == <<clock, world, up, changes, upSince, recovered, peak>>
snapshot    == <<health, checkedAt>>
judgement   == <<downSince, events, seenUp>>
vars == <<environment, alerts, pc, openAlerts, snapshot, status, judgement,
          event, faults>>

-----------------------------------------------------------------------------
Kinds == {"rpc", "api"}

UrlsOf(kind) == IF kind = "rpc" THEN rpcUrls ELSE apiUrls

Healthy(kind, snap) == {url \in UrlsOf(kind) : snap[url] = "healthy"}

\* Mutant: a snapshot that has a healthy endpoint is never refreshed.
CheckedOnce(kind) ==
  checkedAt[kind] = Never \/ Healthy(kind, health) = {}

\* getHealthyRpc and getHealthyApi check the health when the last check is
\* older than the interval or found no healthy endpoint.
ChecksHealth(kind) ==
  \/ checkedAt[kind] = Never
  \/ clock - checkedAt[kind] > healthCheckInterval
  \/ Healthy(kind, health) = {}

\* The snapshot as a request to an endpoint of this kind leaves it.
Snapshot(kind) ==
  IF ChecksHealth(kind)
  THEN [url \in Urls |-> IF url \in UrlsOf(kind)
                         THEN IF url \in up THEN "healthy" ELSE "down"
                         ELSE health[url]]
  ELSE health

\* A request to an endpoint of this kind, whatever comes of it.
Asks(kind) ==
  /\ health' = Snapshot(kind)
  /\ checkedAt' = IF ChecksHealth(kind)
                  THEN [checkedAt EXCEPT ![kind] = clock] ELSE checkedAt

\* One of the endpoints taken for healthy is up, or is not.
CanAnswer(kind) == Healthy(kind, Snapshot(kind)) \cap up # {}
CanFail(kind) == ~(Healthy(kind, Snapshot(kind)) \subseteq up) \/ ~CanAnswer(kind)

\* A call of this sort fails, within the bound.
Fails(sort) ==
  /\ faults[sort] > 0
  /\ faults' = [faults EXCEPT ![sort] = @ - 1]

\* The request fails after its retries.
RequestFails(kind) ==
  \/ CanFail(kind) /\ UNCHANGED faults
  \/ Fails("query")

-----------------------------------------------------------------------------
Unchecked == [url \in Urls |-> "unchecked"]

NotDown == [url \in alertIfDown |-> Never]

\* The database may hold alerts of an earlier configuration.
Init ==
  /\ clock = 0 /\ changes = Changes
  /\ world \in Worlds /\ up \in SUBSET Urls
  /\ alerts \in {{}, {Alert("rpc_down", url, 0, 0) : url \in formerUrls}}
  /\ pc = "down" /\ openAlerts = {}
  /\ health = Unchecked /\ checkedAt = [kind \in Kinds |-> Never]
  /\ status = "unknown" /\ downSince = NotDown /\ events = {} /\ event = {}
  /\ upSince = [url \in alertIfDown |-> IF url \in up THEN 0 ELSE Never]
  /\ seenUp = [url \in alertIfDown |-> 0] /\ recovered = {}
  /\ peak = world.level
  /\ faults = [query |-> QueryFaults, read |-> ReadFaults,
               write |-> WriteFaults, send |-> SendFaults, crash |-> Crashes]

(* The environment.                                                        *)

Tick ==
  /\ clock < MaxTime
  /\ clock' = clock + 1
  /\ UNCHANGED <<world, up, changes, upSince, recovered, peak, alerts, pc,
                 openAlerts, snapshot, status, judgement, event, faults>>

\* The chain or an endpoint changes, within the bounds.
Varies ==
  /\ changes > 0 /\ clock <= LastChange
  /\ changes' = changes - 1

Change ==
  /\ Varies
  /\ world' \in Worlds \ {world}
  /\ peak' = IF world'.level > peak THEN world'.level ELSE peak
  /\ UNCHANGED <<clock, up, upSince, recovered, alerts, pc, openAlerts,
                 snapshot, status, judgement, event, faults>>

\* An endpoint fails or comes back.
Flip(url) ==
  /\ Varies
  /\ up' = IF url \in up THEN up \ {url} ELSE up \cup {url}
  /\ upSince' = [u \in alertIfDown |->
                   IF u # url THEN upSince[u]
                   ELSE IF url \in up THEN Never ELSE clock]
  /\ recovered' = recovered \ {url}
  /\ UNCHANGED <<clock, world, peak, alerts, pc, openAlerts, snapshot, status,
                 judgement, event, faults>>

-----------------------------------------------------------------------------
(* The worker.                                                             *)

\* runChainWorker asks the RPC for the height and the API for the slashing params
\* and the validator set - unless the former are configured and the height is
\* missing.
Start ==
  /\ pc = "down"
  /\ pc' = "idle"
  /\ \E asksApi \in BOOLEAN :
       /\ asksApi => apiUrls # {}
       /\ health' = [url \in Urls |->
                       IF url \in apiUrls /\ ~asksApi THEN "unchecked"
                       ELSE IF url \in up THEN "healthy" ELSE "down"]
       /\ checkedAt' = [kind \in Kinds |->
                          IF kind = "api" /\ ~asksApi THEN Never ELSE clock]
  /\ seenUp' = [url \in alertIfDown |-> clock]
  /\ UNCHANGED <<environment, alerts, openAlerts, status, downSince, events,
                 event, faults>>

\* The process dies: what it held is gone, the rows stay.
Crash ==
  /\ pc # "down"
  /\ Fails("crash")
  /\ pc' = "down"
  /\ openAlerts' = {} /\ status' = "unknown"
  /\ health' = Unchecked /\ checkedAt' = [kind \in Kinds |-> Never]
  /\ downSince' = NotDown /\ events' = {} /\ event' = {}
  /\ UNCHANGED <<environment, alerts, seenUp>>

\* Mutant: the second page, empty for fewer than 500 alerts.
SecondPage(rows) == {}

\* The first 500 open alerts.
getUnclosedAlerts(rows) == rows

BeginPoll ==
  /\ pc = "idle"
  /\ pc' = "rpc"
  /\ openAlerts' = getUnclosedAlerts(alerts)
  /\ recovered' = {url \in alertIfDown :
                     /\ upSince[url] # Never
                     /\ clock - upSince[url] > healthCheckInterval}
  /\ UNCHANGED <<clock, world, up, changes, upSince, peak, alerts, snapshot,
                 status, judgement, event, faults>>

\* Without the open alerts the poll gives up.
OpenAlertsReadFails ==
  /\ pc = "idle"
  /\ Fails("read")
  /\ UNCHANGED <<environment, alerts, pc, openAlerts, snapshot, status,
                 judgement, event>>

\* Without the stored height the chain is not polled, and nothing is asked.
HeightReadFails ==
  /\ pc = "rpc"
  /\ Fails("read")
  /\ pc' = "endpoints"
  /\ UNCHANGED <<environment, alerts, openAlerts, snapshot, status, judgement,
                 event>>

getLatestCommit ==
  /\ pc = "rpc"
  /\ Asks("rpc")
  /\ CanAnswer("rpc")
  /\ pc' = IF apiUrls = {} THEN "evaluate" ELSE "api"
  /\ UNCHANGED <<environment, alerts, openAlerts, status, judgement, event, faults>>

LatestCommitFails ==
  /\ pc = "rpc"
  /\ Asks("rpc")
  /\ RequestFails("rpc")
  /\ pc' = "endpoints"
  /\ UNCHANGED <<environment, alerts, openAlerts, status, judgement, event>>

\* The status, unknown if the request fails; a tombstoned validator is taken
\* for a jailed one if only its signing info is missing.
resolveValidatorStatus ==
  /\ pc = "api"
  /\ pc' = "evaluate"
  /\ Asks("api")
  /\ \/ CanAnswer("api") /\ status' = world.status /\ UNCHANGED faults
     \/ RequestFails("api") /\ status' = "unknown"
     \/ /\ CanAnswer("api") /\ RequestFails("api")
        /\ world.status = "tombstoned" /\ status' = "jailed"
  /\ UNCHANGED <<environment, alerts, openAlerts, judgement, event>>

\* The commits of the slice and the lookups of the fallback are requests too.
FetchMore(kind) ==
  /\ pc = "evaluate"
  /\ UrlsOf(kind) # {}
  /\ Asks(kind)
  /\ UNCHANGED <<environment, alerts, pc, openAlerts, status, judgement, event, faults>>

\* Without the windows the chain's alerts are not judged.
WindowReadFails ==
  /\ pc = "evaluate"
  /\ Fails("read")
  /\ pc' = "endpoints"
  /\ UNCHANGED <<environment, alerts, openAlerts, snapshot, status, judgement,
                 event>>

\* evaluate, if the chain could be polled, and evaluateEndpoints, always.  What
\* the poll has read is not used again.
Judge ==
  /\ pc \in {"evaluate", "endpoints"}
  /\ events' = evaluateEndpoints(openAlerts, health, downSince, clock) \cup
               IF pc = "evaluate" THEN evaluate(openAlerts, world, status, clock)
               ELSE {}
  /\ downSince' = endpointDownSince(health, downSince, clock)
  /\ seenUp' = [url \in alertIfDown |->
                  IF health[url] = "healthy" THEN clock ELSE seenUp[url]]
  /\ pc' = IF events' = {} THEN "idle" ELSE "apply"
  /\ openAlerts' = {} /\ status' = "unknown"
  /\ UNCHANGED <<environment, alerts, snapshot, event, faults>>

\* The row an event is about.
RowOf(e) ==
  {a \in alerts : /\ a.type = e.alert.type
                  /\ a.subject = e.alert.subject /\ a.n = e.alert.n}

\* ingestAlert, touchAlertNotified and closeAlert.
Applied(e) ==
  CASE e.kind = "open"   -> alerts \cup {e.alert}
    [] e.kind = "close"  -> alerts \ RowOf(e)
    [] e.kind = "repeat" -> (alerts \ RowOf(e)) \cup
         {[a EXCEPT !.last = clock, !.repeats = e.alert.repeats + 1]
          : a \in RowOf(e)}

\* The next event is written.  A failure is only logged.
ApplyEvent ==
  /\ pc = "apply"
  /\ pc' = "dispatch"
  /\ \E e \in events :
       /\ \A f \in events : Rank(e) <= Rank(f)
       /\ \/ alerts' = Applied(e) /\ UNCHANGED faults
          \/ UNCHANGED alerts /\ Fails("write")
       /\ event' = {e}
       /\ events' = events \ {e}
  /\ UNCHANGED <<environment, openAlerts, snapshot, status, downSince, seenUp>>

\* Mutant: an alert that was announced is not announced again.
DispatchOnce ==
  /\ pc = "dispatch"
  /\ \E e \in event :
       \/ /\ alerts' = (alerts \ RowOf(e)) \cup
                       {[a EXCEPT !.told = 1] : a \in RowOf(e)}
          /\ UNCHANGED faults
       \/ UNCHANGED alerts /\ Fails("send")
  /\ event' = {}
  /\ pc' = IF events = {} THEN "idle" ELSE "apply"
  /\ UNCHANGED <<environment, openAlerts, snapshot, status, judgement>>

\* It is announced, or lost after three attempts, written or not.
dispatch ==
  /\ pc = "dispatch"
  /\ \E e \in event :
       \/ /\ alerts' = (alerts \ RowOf(e)) \cup
                       {[a EXCEPT !.told = @ + 1] : a \in RowOf(e)}
          /\ UNCHANGED faults
       \/ UNCHANGED alerts /\ Fails("send")
  /\ event' = {}
  /\ pc' = IF events = {} THEN "idle" ELSE "apply"
  /\ UNCHANGED <<environment, openAlerts, snapshot, status, judgement>>

Poll ==
  \/ BeginPoll \/ OpenAlertsReadFails \/ HeightReadFails
  \/ getLatestCommit \/ LatestCommitFails \/ resolveValidatorStatus
  \/ (\E kind \in Kinds : FetchMore(kind)) \/ WindowReadFails
  \/ Judge \/ ApplyEvent \/ dispatch

Next == Tick \/ Change \/ (\E url \in Urls : Flip(url))
        \/ Start \/ Crash \/ Poll

Spec == Init /\ [][Next]_vars

\* Time passes, the timer keeps polling, a dead process is started again.  The
\* chain and the endpoints owe nothing.
FairSpec == Spec /\ WF_vars(Tick) /\ WF_vars(Poll) /\ WF_vars(Start)

-----------------------------------------------------------------------------
(* Properties.                                                             *)

AlertTypes == {"stalled", "consecutive_miss", "percentage_miss", "rpc_down",
               "api_down"} \cup VALIDATOR_STATUS_ALERTS

Subjects == Urls \cup formerUrls \cup {chainWide}

Time == Nat \cup {Never}

AlertRow == [type : AlertTypes, subject : Subjects, n : Nat, opened : Nat,
             last : Nat, repeats : Nat, told : Nat]

Event == [kind : {"open", "close", "repeat"}, alert : AlertRow]

EnvironmentOK ==
  /\ clock \in Nat /\ world \in World /\ up \subseteq Urls
  /\ changes \in Nat /\ upSince \in [alertIfDown -> Time]
  /\ recovered \subseteq alertIfDown /\ peak \in Int

PollOK ==
  /\ pc \in {"down", "idle", "rpc", "api", "evaluate", "endpoints", "apply",
             "dispatch"}
  /\ openAlerts \subseteq AlertRow
  /\ status \in {"unknown", "active"} \cup VALIDATOR_STATUS_ALERTS
  /\ health \in [Urls -> {"unchecked", "healthy", "down"}]
  /\ checkedAt \in [Kinds -> Time] /\ downSince \in [alertIfDown -> Time]
  /\ events \subseteq Event /\ event \subseteq Event
  /\ seenUp \in [alertIfDown -> Nat]

TypeOK ==
  /\ EnvironmentOK /\ PollOK /\ alerts \subseteq AlertRow
  /\ faults \in [{"query", "read", "write", "send", "crash"} -> Nat]

(* Never two open alerts of one type about one subject, whatever fails and      *)
(* whenever the worker dies: openByType and the map of evaluateEndpoints        *)
(* (alert/index.ts:64, 293-297) keep one row per key and would lose the other.  *)
OneOpenPerSubject ==
  \A a, b \in alerts : a.type = b.type /\ a.subject = b.subject => a = b

NoFailedWrite == faults.write = WriteFaults

(* At most one of inactive, jailed and tombstoned is open (the promise of       *)
(* checkValidatorStatus, 225-233), between its two writes and across crashes    *)
(* too, as long as no write fails.                                             *)
StatusExclusive ==
  NoFailedWrite =>
    \A a, b \in alerts :
      {a.type, b.type} \subseteq VALIDATOR_STATUS_ALERTS => a = b

(* Nobody is told of an alert more often than the configuration allows: once,   *)
(* and once more per stored repeat; a consecutive_miss repeat takes a           *)
(* repeatInterval each, a percentage_miss repeat another step of the ratio.     *)
ToldBudget ==
  NoFailedWrite =>
    \A a \in alerts :
      /\ a.told <= 1 + a.repeats
      /\ a.type = "consecutive_miss" =>
           a.repeats * consecutiveMissAlert.repeatInterval <= clock - a.opened
      /\ a.type = "percentage_miss" => a.repeats + 1 <= peak

\* The deaths of the worker and the deliveries that failed.
Losses == (Crashes - faults.crash) + (SendFaults - faults.send)

\* An alert of this configuration was announced less often than opened and
\* repeated, the announcement that is under way counted.
Announcing(a) == \E e \in event : a \in RowOf(e)

Unannounced(a) ==
  /\ a.subject \notin formerUrls
  /\ a.told < IF Announcing(a) THEN a.repeats ELSE 1 + a.repeats

Silenced == {<<a.type, a.subject>> : a \in {b \in alerts : Unannounced(b)}}

(* What is stored is announced: each failed delivery and each death of the      *)
(* worker silences one alert at most, the one whose row was written last, for   *)
(* doPoll (395-409) writes and announces one event at a time.                  *)
SilencedOneByOne == Cardinality(Silenced) <= Losses

EndpointOpening == {e \in events : e.kind = "open" /\ e.alert.subject \in Urls}

(* An endpoint alert opens only after endpointDownAlertAfter during which no     *)
(* poll of this process found the endpoint healthy (309-312): health checks are *)
(* skipped, polls fail and the grace period starts over with the process.       *)
DownLongEnough ==
  \A e \in EndpointOpening :
    e.alert.opened - seenUp[e.alert.subject] >= endpointDownAlertAfter

(* No rpc_down alert for an RPC endpoint that is back for longer than a health  *)
(* check may be old, as long as the stored height could be read.               *)
RpcAlarmsFresh ==
  faults.read = ReadFaults =>
    \A e \in EndpointOpening : e.alert.type = "rpc_down" =>
      e.alert.subject \notin recovered

(* The same of api_down, which the comment of doPoll (391-392) promises: "the   *)
(* health snapshot was refreshed (if stale) by the queries pollChain just made".*)
ApiAlarmsFresh ==
  faults.read = ReadFaults =>
    \A e \in EndpointOpening : e.alert.type = "api_down" =>
      e.alert.subject \notin recovered

(* Liveness.  The chain and its endpoints stop changing; if they do so in time   *)
(* for another health check (LastChange + healthCheckInterval < MaxTime)        *)

IsOpen(type, subject) == Of(alerts, type, subject) # {}

\* The alerts of the chain say what the chain shows.  Without an eligible block
\* in the window the percentage alert may be either.
ChainAgrees ==
  /\ stalledAlert.enabled =>
       (IsOpen("stalled", chainWide) <=> world.stalled)
  /\ consecutiveMissAlert.enabled =>
       (IsOpen("consecutive_miss", chainWide) <=> world.breached)
  /\ percentageMissedBlocksAlert.enabled /\ world.level # -1 =>
       (IsOpen("percentage_miss", chainWide) <=> world.level >= 1)
  /\ alertIfInactive =>
       \A type \in VALIDATOR_STATUS_ALERTS :
         IsOpen(type, chainWide) <=> world.status = type

(* the chain's alerts end up open exactly when the chain shows their condition, *)
(* if the RPC and the API answer, whatever failed on the way;                  *)
ChainAlertsSettle ==
  <>[](up \cap rpcUrls # {} /\ up \cap apiUrls # {}) => <>[]ChainAgrees

EndpointsAgree ==
  /\ \A url \in alertIfDown : IsOpen(DownType(url), url) <=> url \notin up
  /\ \A url \in formerUrls : ~IsOpen("rpc_down", url)

(* the endpoint alerts end up open exactly for the endpoints that are down, and *)
(* those of endpoints no longer configured closed, if some RPC endpoint is up   *)
(* and the grace period is 0.                                                  *)
EndpointAlertsSettle ==
  <>[](endpointDownAlertAfter = 0 /\ up \cap rpcUrls # {}) => <>[]EndpointsAgree
=============================================================================
