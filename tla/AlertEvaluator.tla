--------------------------- MODULE AlertEvaluator ---------------------------
(***************************************************************************)
(* What one evaluation of a chain's alerts decides: AlertEvaluator of        *)
(* src/alert/index.ts.  The checks are pure; AlertPipeline drives them.       *)
(*                                                                         *)
(* An alert row is a record; `last` is lastNotifiedAt ?? openedAt, `n` is    *)
(* the part of the generated id that tells rows of one type and subject      *)
(* apart, and `told` counts the notifications sent about the row, which the  *)
(* program does not keep.  The checks return their events as a set; Rank is   *)
(* the order in which they are applied.                                      *)
(***************************************************************************)
EXTENDS Integers, FiniteSets

CONSTANTS
  consecutiveMissAlert,        \* [enabled, repeat, repeatInterval]
  percentageMissedBlocksAlert, \* [enabled, repeat]
  stalledAlert,                \* [enabled]
  alertIfInactive,
  endpointDownAlertAfter,
  rpcUrls, apiUrls,            \* the configured endpoints
  formerUrls,                  \* RPC endpoints of an earlier configuration
  alertIfDown,                 \* the endpoints configured with alertIfDown
  chainWide                    \* stands for the subject of a chain-wide alert

Urls == rpcUrls \cup apiUrls

ASSUME AlertConfigAssumption ==
  /\ consecutiveMissAlert \in
       [enabled : BOOLEAN, repeat : BOOLEAN, repeatInterval : Nat]
  /\ percentageMissedBlocksAlert \in [enabled : BOOLEAN, repeat : BOOLEAN]
  /\ stalledAlert \in [enabled : BOOLEAN]
  /\ alertIfInactive \in BOOLEAN
  /\ endpointDownAlertAfter \in Nat
  /\ rpcUrls # {} /\ rpcUrls \cap apiUrls = {}
  /\ formerUrls \cap Urls = {} /\ IsFiniteSet(formerUrls)
  /\ alertIfDown \subseteq Urls
  /\ chainWide \notin Urls \cup formerUrls

VALIDATOR_STATUS_ALERTS == {"inactive", "jailed", "tombstoned"}

\* What the windows of the poll show.  `level` counts the escalation steps the
\* miss ratio has reached: 1 at the threshold, one more for each factor of 1.5
\* above it; -1 stands for a window without an eligible block.
World == [breached : BOOLEAN, stalled : BOOLEAN, level : Int,
          status : {"active"} \cup VALIDATOR_STATUS_ALERTS]

Never == -1                     \* the time of what has not happened

-----------------------------------------------------------------------------
\* openByType and the map of evaluateEndpoints; AlertPipeline shows that there is
\* never more than one such row.
Of(open, type, subject) == {a \in open : a.type = type /\ a.subject = subject}

\* Alert.generateId: no row of this type and subject at hand has the number.  An
\* alert whose insert failed gets a new id from the next poll, here the same
\* number again: no row ever had it.
generateId(open, type, subject) ==
  CHOOSE n \in 0..Cardinality(open) :
    \A a \in Of(open, type, subject) : a.n # n

\* Mutant: the repeats count from lastNotifiedAt alone, which is null at first.
NeverNotified(type, subject, n, now) ==
  [type |-> type, subject |-> subject, n |-> n,
   opened |-> now, last |-> Never, repeats |-> 0, told |-> 0]

Alert(type, subject, n, now) ==
  [type |-> type, subject |-> subject, n |-> n,
   opened |-> now, last |-> now, repeats |-> 0, told |-> 0]

Opens(open, type, subject, now) ==
  IF Of(open, type, subject) # {} THEN {}
  ELSE {[kind  |-> "open",
         alert |-> Alert(type, subject, generateId(open, type, subject), now)]}

Closes(open, type, subject) ==
  {[kind |-> "close", alert |-> a] : a \in Of(open, type, subject)}

Repeats(due) == {[kind |-> "repeat", alert |-> a] : a \in due}

-----------------------------------------------------------------------------
checkStalled(open, isStalled, now) ==
  IF ~stalledAlert.enabled THEN {}
  ELSE IF isStalled THEN Opens(open, "stalled", chainWide, now)
  ELSE Closes(open, "stalled", chainWide)

\* Mutant: the interval counts from the opening, not from the last notification.
DueSinceOpened(a, now) == now - a.opened >= consecutiveMissAlert.repeatInterval

Due(a, now) == now - a.last >= consecutiveMissAlert.repeatInterval

checkConsecutiveMiss(open, breached, now) ==
  IF ~consecutiveMissAlert.enabled THEN {}
  ELSE IF breached
  THEN Opens(open, "consecutive_miss", chainWide, now) \cup
       Repeats({a \in Of(open, "consecutive_miss", chainWide) :
                  consecutiveMissAlert.repeat /\ Due(a, now)})
  ELSE Closes(open, "consecutive_miss", chainWide)

\* Mutant: the first repeat needs no escalation.
EscalatedOnce(a, level) == level >= a.repeats + 1

\* The ratio clears the threshold escalated once more than there were repeats.
Escalated(a, level) == level >= a.repeats + 2

checkPercentageMiss(open, level, now) ==
  IF ~percentageMissedBlocksAlert.enabled \/ level = -1 THEN {}
  ELSE IF level >= 1
  THEN Opens(open, "percentage_miss", chainWide, now) \cup
       Repeats({a \in Of(open, "percentage_miss", chainWide) :
                  percentageMissedBlocksAlert.repeat /\ Escalated(a, level)})
  ELSE Closes(open, "percentage_miss", chainWide)

\* Mutant: a status alert closes only on the return to the active set.
StaleOnReturn(wanted) == IF wanted = "active" THEN VALIDATOR_STATUS_ALERTS ELSE {}

\* The status alerts that do not match the validator's status.
Unwanted(wanted) == VALIDATOR_STATUS_ALERTS \ {wanted}

\* An unknown status changes nothing.
checkValidatorStatus(open, status, now) ==
  IF ~alertIfInactive \/ status = "unknown" THEN {}
  ELSE (UNION {Closes(open, type, chainWide) : type \in Unwanted(status)}) \cup
       IF status = "active" THEN {} ELSE Opens(open, status, chainWide, now)

evaluate(open, world, status, now) ==
  checkStalled(open, world.stalled, now) \cup
  checkConsecutiveMiss(open, world.breached, now) \cup
  checkPercentageMiss(open, world.level, now) \cup
  checkValidatorStatus(open, status, now)

-----------------------------------------------------------------------------
(* rpc_down and api_down: one alert per endpoint.                          *)

DownType(url) == IF url \in apiUrls THEN "api_down" ELSE "rpc_down"

\* An endpoint that was not checked yet is left alone.
Down(url, health) == url \in alertIfDown /\ health[url] = "down"

Cleared(url, health) == url \in alertIfDown => health[url] = "healthy"

\* Mutant: the outage goes on when the endpoint recovers.
KeepsOutage(health, downSince, now) ==
  [url \in alertIfDown |->
     IF Down(url, health) /\ downSince[url] = Never THEN now ELSE downSince[url]]

\* When the ongoing outage of an endpoint was first seen.
endpointDownSince(health, downSince, now) ==
  [url \in alertIfDown |->
     CASE health[url] = "unchecked" -> downSince[url]
       [] health[url] = "healthy"   -> Never
       [] health[url] = "down"      ->
            IF downSince[url] = Never THEN now ELSE downSince[url]]

\* Mutant: alerts of endpoints no longer configured are forgotten.
EndpointsConfigured == Urls

\* Every endpoint an open alert may be about, configured or not.
EndpointsKnown == Urls \cup formerUrls

evaluateEndpoints(open, health, downSince, now) ==
  LET since   == endpointDownSince(health, downSince, now)
      overdue == {url \in alertIfDown :
                    Down(url, health) /\ now - since[url] >= endpointDownAlertAfter}
      cleared == {url \in EndpointsKnown : url \in Urls => Cleared(url, health)}
  IN (UNION {Opens(open, DownType(url), url, now) : url \in overdue}) \cup
     (UNION {Closes(open, DownType(url), url) : url \in cleared})

-----------------------------------------------------------------------------
\* Mutant: the new status alert is applied before the old one is closed.
OpenFirst(event) ==
  CASE event.alert.type = "stalled"          -> 1
    [] event.alert.type = "consecutive_miss" -> 2
    [] event.alert.type = "percentage_miss"  -> 3
    [] event.alert.type \in VALIDATOR_STATUS_ALERTS ->
         IF event.kind = "open" THEN 4 ELSE 5
    [] OTHER                                 -> 6

\* The position of an event among those of its poll: the checks in turn, a
\* status alert closed before the next is opened, the endpoints last.  Events
\* of one rank are about different alerts, and their order tells nothing.
Rank(event) ==
  CASE event.alert.type = "stalled"          -> 1
    [] event.alert.type = "consecutive_miss" -> 2
    [] event.alert.type = "percentage_miss"  -> 3
    [] event.alert.type \in VALIDATOR_STATUS_ALERTS ->
         IF event.kind = "close" THEN 4 ELSE 5
    [] OTHER                                 -> 6
=============================================================================
