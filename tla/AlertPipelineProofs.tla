------------------------ MODULE AlertPipelineProofs ------------------------
(***************************************************************************)
(* AlertPipeline keeps its types; never are two alerts of one type open about *)
(* one subject, nor two status alerts; nobody is told more often than the     *)
(* configuration allows; and an endpoint alert is neither early nor, for an    *)
(* RPC endpoint, about an endpoint known to be back.                         *)
(*                                                                         *)
(* First the events one evaluation decides on, then the inductive invariant   *)
(* AInv in three parts, one lemma per part and kind of step.                  *)
(***************************************************************************)
EXTENDS AlertPipeline, FiniteSetTheorems, TLAPS

SameKey(a, b) == a.type = b.type /\ a.subject = b.subject

IsStatus(a) == a.type \in VALIDATOR_STATUS_ALERTS

-----------------------------------------------------------------------------
(* The invariant.  What each phase of a poll still knows.                    *)

Phases ==
  /\ pc = "down" => downSince = NotDown
  /\ pc \notin {"apply", "dispatch"} => events = {}
  /\ pc # "dispatch" => event = {}
  /\ \A e, f \in event : e = f
  /\ pc \in {"rpc", "api", "evaluate", "endpoints"} => openAlerts = alerts
  /\ faults.write <= WriteFaults /\ faults.read <= ReadFaults

\* The events of a poll are about different alerts, and what they take for
\* granted about the rows stays true until they are applied.
Keyed ==
  /\ \A e, f \in events : SameKey(e.alert, f.alert) => e = f
  /\ \A e \in event : \A f \in events : ~SameKey(e.alert, f.alert)

Pending ==
  \A e \in events :
    IF e.kind = "open" THEN \A a \in alerts : ~SameKey(a, e.alert)
    ELSE e.alert \in alerts

StatusSubject ==
  /\ \A a \in alerts : IsStatus(a) => a.subject = chainWide
  /\ \A e \in events : IsStatus(e.alert) => e.alert.subject = chainWide

\* Before a status alert is opened, every other one is closed.
StatusOpening(e) == e.kind = "open" /\ IsStatus(e.alert)

Exclusive ==
  NoFailedWrite =>
    /\ \A a, b \in alerts : IsStatus(a) /\ IsStatus(b) => a = b
    /\ \A e, f \in events : StatusOpening(e) /\ StatusOpening(f) => e = f
    /\ \A e \in events : StatusOpening(e) =>
         \A a \in alerts : IsStatus(a) =>
           \E f \in events : f.kind = "close" /\ f.alert = a

Told ==
  NoFailedWrite =>
    /\ \A a \in alerts : a.told <= 1 + a.repeats
    /\ \A e \in event : \A a \in RowOf(e) : a.told <= a.repeats

\* Rows and events keep pace with the clock and with the ratio.
PacedRow(a, now, top) ==
  /\ a.opened <= a.last /\ a.last <= now
  /\ a.type = "consecutive_miss" =>
       a.repeats * consecutiveMissAlert.repeatInterval <= a.last - a.opened
  /\ a.type = "percentage_miss" => a.repeats + 1 <= top

PacedRepeat(a, now, top) ==
  /\ a.type = "consecutive_miss" =>
       now - a.last >= consecutiveMissAlert.repeatInterval
  /\ a.type = "percentage_miss" => a.repeats + 2 <= top

PacedEvent(e, now, top) ==
  /\ e.kind = "open" => PacedRow(e.alert, now, top) /\ e.alert.told = 0 /\ e.alert.repeats = 0
  /\ e.kind = "repeat" => PacedRepeat(e.alert, now, top)

Paced ==
  /\ world.level <= peak
  /\ \A a \in alerts : PacedRow(a, clock, peak)
  /\ \A e \in events : PacedEvent(e, clock, peak)

RowsInv ==
  /\ IsFiniteSet(alerts)
  /\ OneOpenPerSubject /\ Keyed /\ Pending /\ StatusSubject
  /\ Exclusive /\ Told /\ Paced

\* An outage does not begin before the endpoint was last seen up.
Outages ==
  \A url \in alertIfDown :
    /\ seenUp[url] <= clock
    /\ downSince[url] # Never => seenUp[url] <= downSince[url]

LongDown ==
  \A e \in EndpointOpening :
    /\ e.alert.subject \in alertIfDown
    /\ e.alert.opened - seenUp[e.alert.subject] >= endpointDownAlertAfter

\* upSince and recovered are what their names say.
UpHistory ==
  \A url \in alertIfDown :
    /\ upSince[url] # Never <=> url \in up
    /\ upSince[url] <= clock
    /\ url \in recovered => url \in up /\ clock - upSince[url] > healthCheckInterval

\* An RPC endpoint that is up was down, if at all, before the last check.
Snapshots ==
  /\ checkedAt["rpc"] <= clock
  /\ checkedAt["rpc"] = Never => \A url \in rpcUrls : health[url] = "unchecked"
  /\ \A url \in alertIfDown \cap rpcUrls :
       health[url] = "down" /\ url \in up => checkedAt["rpc"] <= upSince[url]

\* From the first request of a poll to its judgement.
NoneStale ==
  faults.read = ReadFaults /\ pc \in {"api", "evaluate", "endpoints"} =>
    \A url \in recovered \cap rpcUrls : health[url] # "down"

EndpointsInv ==
  Outages /\ LongDown /\ UpHistory /\ Snapshots /\ NoneStale /\ RpcAlarmsFresh

AInv == TypeOK /\ Phases /\ RowsInv /\ EndpointsInv

-----------------------------------------------------------------------------
(* The events of one evaluation.                                            *)

\* An event takes for granted that its alert is not open, or that it is.
Opening(e, open, now) ==
  /\ e.kind = "open"
  /\ \A a \in open : ~SameKey(a, e.alert)
  /\ e.alert = Alert(e.alert.type, e.alert.subject,
                     generateId(open, e.alert.type, e.alert.subject), now)

Standing(e, open) == e.kind # "open" /\ e.alert \in open

\* The generated number is one, whatever rows there are.
LEMMA GeneratedNumber ==
  ASSUME NEW open, IsFiniteSet(open), NEW type, NEW subject,
         Of(open, type, subject) = {}
  PROVE  generateId(open, type, subject) \in Nat
<1> DEFINE Free(n) == \A a \in Of(open, type, subject) : a.n # n
<1>1. Cardinality(open) \in Nat
  BY FS_CardinalityType
<1>2. 0 \in 0..Cardinality(open) /\ Free(0)
  BY <1>1
<1>3. (CHOOSE n \in 0..Cardinality(open) : Free(n)) \in 0..Cardinality(open)
  <2> HIDE DEF Free
  <2> QED BY <1>2
<1>4. generateId(open, type, subject) \in 0..Cardinality(open)
  BY <1>3 DEF generateId
<1>5. QED
  BY <1>1, <1>4

\* The fields of a new alert.
LEMMA NewAlert ==
  ASSUME NEW type \in AlertTypes, NEW subject \in Subjects, NEW n \in Nat, NEW now \in Nat,
         NEW a, a = Alert(type, subject, n, now)
  PROVE  /\ a \in AlertRow
         /\ a.type = type /\ a.subject = subject /\ a.opened = now /\ a.last = now
         /\ a.repeats = 0 /\ a.told = 0
BY DEF Alert, AlertRow

\* What it is to be decided to open an alert,
LEMMA OpensShape ==
  ASSUME NEW open \in SUBSET AlertRow, IsFiniteSet(open),
         NEW type \in AlertTypes, NEW subject \in Subjects, NEW now \in Nat,
         NEW e \in Opens(open, type, subject, now)
  PROVE  /\ e \in Event /\ Opening(e, open, now)
         /\ e.kind = "open" /\ e.alert.type = type /\ e.alert.subject = subject
         /\ e.alert.opened = now /\ e.alert.last = now
         /\ e.alert.repeats = 0 /\ e.alert.told = 0
<1> DEFINE a == Alert(type, subject, generateId(open, type, subject), now)
<1>1. Of(open, type, subject) = {} /\ e = [kind |-> "open", alert |-> a]
  BY DEF Opens
<1>2. generateId(open, type, subject) \in Nat
  BY <1>1, GeneratedNumber
<1>3. /\ a \in AlertRow
      /\ a.type = type /\ a.subject = subject /\ a.opened = now /\ a.last = now
      /\ a.repeats = 0 /\ a.told = 0
  <2> HIDE DEF a
  <2>1. a = Alert(type, subject, generateId(open, type, subject), now)
    BY DEF a
  <2>2. QED
    BY <1>2, <2>1, NewAlert
<1>4. a = Alert(a.type, a.subject, generateId(open, a.type, a.subject), now)
  <2>1. a.type = type /\ a.subject = subject
    BY <1>3
  <2>2. QED
    BY <2>1
<1>5. \A b \in open : ~SameKey(b, a)
  BY <1>1, <1>3 DEF Of, SameKey
<1> HIDE DEF a
<1>6. e.kind = "open" /\ e.alert = a /\ e \in Event
  BY <1>1, <1>3 DEF Event
<1>7. QED
  BY <1>3, <1>4, <1>5, <1>6 DEF Opening

\* to close it,
LEMMA ClosesShape ==
  ASSUME NEW open \in SUBSET AlertRow, NEW type, NEW subject,
         NEW e \in Closes(open, type, subject)
  PROVE  /\ e \in Event /\ Standing(e, open)
         /\ e.kind = "close" /\ e.alert.type = type /\ e.alert.subject = subject
BY DEF Closes, Of, Event, Standing

\* and to repeat it.
LEMMA RepeatsShape ==
  ASSUME NEW open \in SUBSET AlertRow, NEW due \in SUBSET open, NEW e \in Repeats(due)
  PROVE  /\ e \in Event /\ Standing(e, open)
         /\ e.kind = "repeat" /\ e.alert \in due
BY DEF Repeats, Event, Standing

\* Two events that take the same for granted about one alert, and are of one
\* kind, are one.
LEMMA OneEventPerKey ==
  ASSUME NEW open \in SUBSET AlertRow, NEW now \in Nat,
         \A a, b \in open : a.type = b.type /\ a.subject = b.subject => a = b,
         NEW e \in Event, NEW f \in Event, SameKey(e.alert, f.alert),
         Opening(e, open, now) \/ Standing(e, open),
         Opening(f, open, now) \/ Standing(f, open),
         e.kind # "open" /\ f.kind # "open" => e.kind = f.kind
  PROVE  e = f
<1>1. e = [kind |-> e.kind, alert |-> e.alert] /\ f = [kind |-> f.kind, alert |-> f.alert]
  BY DEF Event
<1>2. CASE Opening(e, open, now) /\ Opening(f, open, now)
  <2>1. e.alert = f.alert
    <3>1. e.alert.type = f.alert.type /\ e.alert.subject = f.alert.subject
      BY DEF SameKey
    <3>2. f.alert = Alert(e.alert.type, e.alert.subject,
                          generateId(open, e.alert.type, e.alert.subject), now)
      BY <3>1, <1>2 DEF Opening
    <3>3. QED
      BY <3>2, <1>2 DEF Opening
  <2>2. e.kind = f.kind
    BY <1>2 DEF Opening
  <2>3. QED
    BY <1>1, <2>1, <2>2
<1>3. CASE Standing(e, open) /\ Standing(f, open)
  <2>1. e.kind = f.kind
    BY <1>3 DEF Standing
  <2>2. e.alert = f.alert
    BY <1>3 DEF Standing, SameKey
  <2>3. QED
    BY <1>1, <2>1, <2>2
<1>4. CASE Opening(e, open, now) /\ Standing(f, open)
  BY <1>4 DEF Opening, Standing, SameKey
<1>5. CASE Standing(e, open) /\ Opening(f, open, now)
  BY <1>5 DEF Opening, Standing, SameKey
<1>6. QED
  BY <1>2, <1>3, <1>4, <1>5

-----------------------------------------------------------------------------
(* The checks.                                                              *)

\* What an event about the chain says of what the poll has seen.
Grounded(e, w, seen, now) ==
  /\ e.alert.subject = chainWide
  /\ e.alert.type \in {"stalled", "consecutive_miss", "percentage_miss"}
                        \cup VALIDATOR_STATUS_ALERTS
  /\ e.kind = "repeat" =>
       \/ e.alert.type = "consecutive_miss" /\ w.breached /\ Due(e.alert, now)
       \/ e.alert.type = "percentage_miss" /\ w.level >= 1 /\ Escalated(e.alert, w.level)
  /\ e.kind = "close" =>
       /\ ~(e.alert.type = "consecutive_miss" /\ w.breached)
       /\ ~(e.alert.type = "percentage_miss" /\ w.level >= 1)
  /\ e.kind = "open" =>
       /\ e.alert.type = "percentage_miss" => w.level >= 1
       /\ IsStatus(e.alert) => e.alert.type = seen
       /\ e.alert.opened = now /\ e.alert.last = now
       /\ e.alert.repeats = 0 /\ e.alert.told = 0

Statuses == {"unknown", "active"} \cup VALIDATOR_STATUS_ALERTS

\* An event of evaluate is about the chain, takes for granted what it may, and is
\* grounded in what the poll has seen.
LEMMA EvaluateShape ==
  ASSUME NEW open \in SUBSET AlertRow, IsFiniteSet(open), NEW w \in World,
         NEW seen \in Statuses, NEW now \in Nat, NEW e \in evaluate(open, w, seen, now)
  PROVE  /\ e \in Event /\ (Opening(e, open, now) \/ Standing(e, open))
         /\ Grounded(e, w, seen, now)
<1> USE DEF VALIDATOR_STATUS_ALERTS
<1>1. chainWide \in Subjects /\ {"stalled", "consecutive_miss", "percentage_miss"}
                                  \cup VALIDATOR_STATUS_ALERTS \subseteq AlertTypes
  BY DEF Subjects, AlertTypes
<1>2. CASE e \in checkStalled(open, w.stalled, now)
  <2>1. CASE e \in Opens(open, "stalled", chainWide, now)
    BY <2>1, <1>1, OpensShape DEF Grounded, IsStatus
  <2>2. CASE e \in Closes(open, "stalled", chainWide)
    BY <2>2, ClosesShape DEF Grounded, IsStatus
  <2>3. QED
    BY <1>2, <2>1, <2>2 DEF checkStalled
<1>3. CASE e \in checkConsecutiveMiss(open, w.breached, now)
  <2> DEFINE due == {a \in Of(open, "consecutive_miss", chainWide) :
                       consecutiveMissAlert.repeat /\ Due(a, now)}
  <2>1. CASE w.breached /\ e \in Opens(open, "consecutive_miss", chainWide, now)
    BY <2>1, <1>1, OpensShape DEF Grounded, IsStatus
  <2>2. CASE w.breached /\ e \in Repeats(due)
    <3>1. due \in SUBSET open
      BY DEF Of
    <3>2. e \in Event /\ Standing(e, open) /\ e.kind = "repeat" /\ e.alert \in due
      <4> HIDE DEF due
      <4> QED BY <2>2, <3>1, RepeatsShape
    <3>3. e.alert.type = "consecutive_miss" /\ e.alert.subject = chainWide /\ Due(e.alert, now)
      BY <3>2 DEF Of
    <3>4. QED
      BY <2>2, <3>2, <3>3 DEF Grounded
  <2>3. CASE ~w.breached /\ e \in Closes(open, "consecutive_miss", chainWide)
    BY <2>3, ClosesShape DEF Grounded, IsStatus
  <2>4. QED
    BY <1>3, <2>1, <2>2, <2>3 DEF checkConsecutiveMiss
<1>4. CASE e \in checkPercentageMiss(open, w.level, now)
  <2> DEFINE due == {a \in Of(open, "percentage_miss", chainWide) :
                       percentageMissedBlocksAlert.repeat /\ Escalated(a, w.level)}
  <2>1. CASE w.level >= 1 /\ e \in Opens(open, "percentage_miss", chainWide, now)
    BY <2>1, <1>1, OpensShape DEF Grounded, IsStatus
  <2>2. CASE w.level >= 1 /\ e \in Repeats(due)
    <3>1. due \in SUBSET open
      BY DEF Of
    <3>2. e \in Event /\ Standing(e, open) /\ e.kind = "repeat" /\ e.alert \in due
      <4> HIDE DEF due
      <4> QED BY <2>2, <3>1, RepeatsShape
    <3>3. /\ e.alert.type = "percentage_miss" /\ e.alert.subject = chainWide
          /\ Escalated(e.alert, w.level)
      BY <3>2 DEF Of
    <3>4. QED
      BY <2>2, <3>2, <3>3 DEF Grounded
  <2>3. CASE ~(w.level >= 1) /\ e \in Closes(open, "percentage_miss", chainWide)
    BY <2>3, ClosesShape DEF Grounded, IsStatus
  <2>4. QED
    BY <1>4, <2>1, <2>2, <2>3 DEF checkPercentageMiss
<1>5. CASE e \in checkValidatorStatus(open, seen, now)
  <2>1. ASSUME NEW type \in Unwanted(seen), e \in Closes(open, type, chainWide)
        PROVE  e \in Event /\ Standing(e, open) /\ Grounded(e, w, seen, now)
    <3>1. type \in VALIDATOR_STATUS_ALERTS
      BY DEF Unwanted
    <3>2. QED
      BY <2>1, <3>1, ClosesShape DEF Grounded, IsStatus
  <2>2. CASE seen \in VALIDATOR_STATUS_ALERTS /\ e \in Opens(open, seen, chainWide, now)
    BY <2>2, <1>1, OpensShape DEF Grounded, IsStatus
  <2>3. \/ \E type \in Unwanted(seen) : e \in Closes(open, type, chainWide)
        \/ seen \in VALIDATOR_STATUS_ALERTS /\ e \in Opens(open, seen, chainWide, now)
    BY <1>5 DEF checkValidatorStatus, Statuses
  <2>4. QED
    BY <2>1, <2>2, <2>3
<1>6. QED
  BY <1>2, <1>3, <1>4, <1>5 DEF evaluate

\* A status alert is opened along with the closing of all the others.
LEMMA UnwantedAreClosed ==
  ASSUME NEW open \in SUBSET AlertRow, IsFiniteSet(open), NEW w \in World,
         NEW seen \in Statuses, NEW now \in Nat, NEW e \in evaluate(open, w, seen, now),
         StatusOpening(e), NEW a \in open, IsStatus(a), a.subject = chainWide
  PROVE  \E f \in evaluate(open, w, seen, now) : f.kind = "close" /\ f.alert = a
<1> DEFINE f == [kind |-> "close", alert |-> a]
<1>1. /\ e \in Event /\ (Opening(e, open, now) \/ Standing(e, open))
      /\ Grounded(e, w, seen, now)
  BY EvaluateShape
<1>2. e.alert.type = seen /\ e.alert.subject = chainWide /\ seen \in VALIDATOR_STATUS_ALERTS
  BY <1>1 DEF Grounded, StatusOpening, IsStatus
<1>3. ~SameKey(a, e.alert)
  BY <1>1 DEF StatusOpening, Opening, Standing
<1>4. a.type \in Unwanted(seen)
  BY <1>2, <1>3 DEF SameKey, IsStatus, Unwanted
<1>5. f \in Closes(open, a.type, chainWide)
  BY DEF Closes, Of
<1>6. alertIfInactive /\ seen # "unknown"
  <2>1. seen # "unknown"
    BY <1>2 DEF VALIDATOR_STATUS_ALERTS
  <2>2. e \notin checkStalled(open, w.stalled, now)
    BY <1>2, OpensShape, ClosesShape, <1>1 DEF checkStalled, StatusOpening, IsStatus,
       VALIDATOR_STATUS_ALERTS, Subjects, AlertTypes
  <2>3. e \notin checkConsecutiveMiss(open, w.breached, now)
    <3>1. \A due : e \notin Repeats(due)
      BY DEF Repeats, StatusOpening
    <3>2. QED
      BY <1>2, <3>1, OpensShape, ClosesShape DEF checkConsecutiveMiss, IsStatus,
         VALIDATOR_STATUS_ALERTS, Subjects, AlertTypes
  <2>4. e \notin checkPercentageMiss(open, w.level, now)
    <3>1. \A due : e \notin Repeats(due)
      BY DEF Repeats, StatusOpening
    <3>2. QED
      BY <1>2, <3>1, OpensShape, ClosesShape DEF checkPercentageMiss, IsStatus,
         VALIDATOR_STATUS_ALERTS, Subjects, AlertTypes
  <2>5. e \in checkValidatorStatus(open, seen, now)
    BY <2>2, <2>3, <2>4 DEF evaluate
  <2>6. QED
    BY <2>1, <2>5 DEF checkValidatorStatus
<1>7. f \in checkValidatorStatus(open, seen, now)
  BY <1>4, <1>5, <1>6 DEF checkValidatorStatus
<1>8. QED
  BY <1>7 DEF evaluate

\* An event of evaluateEndpoints is about an endpoint, and one opened has been
\* down for long.
LEMMA EndpointsShape ==
  ASSUME NEW open \in SUBSET AlertRow, IsFiniteSet(open),
         NEW snap, NEW since, NEW now \in Nat,
         NEW e \in evaluateEndpoints(open, snap, since, now)
  PROVE  /\ e \in Event /\ (Opening(e, open, now) \/ Standing(e, open))
         /\ e.kind \in {"open", "close"}
         /\ e.alert.subject \in EndpointsKnown
         /\ e.alert.type = DownType(e.alert.subject)
         /\ e.kind = "open" =>
              /\ e.alert.subject \in alertIfDown /\ snap[e.alert.subject] = "down"
              /\ now - endpointDownSince(snap, since, now)[e.alert.subject]
                   >= endpointDownAlertAfter
              /\ e.alert.opened = now /\ e.alert.last = now
              /\ e.alert.repeats = 0 /\ e.alert.told = 0
<1>1. alertIfDown \subseteq EndpointsKnown /\ EndpointsKnown \subseteq Subjects
  BY AlertConfigAssumption DEF EndpointsKnown, Subjects
<1>2. \A url : DownType(url) \in AlertTypes
  BY DEF DownType, AlertTypes
<1>3. ASSUME NEW url \in alertIfDown, Down(url, snap),
             now - endpointDownSince(snap, since, now)[url] >= endpointDownAlertAfter,
             e \in Opens(open, DownType(url), url, now)
      PROVE  /\ e \in Event /\ Opening(e, open, now)
             /\ e.kind = "open" /\ e.alert.subject = url /\ e.alert.type = DownType(url)
             /\ e.alert.opened = now /\ e.alert.last = now
             /\ e.alert.repeats = 0 /\ e.alert.told = 0
             /\ snap[url] = "down"
  <2>1. url \in Subjects /\ DownType(url) \in AlertTypes
    BY <1>1, <1>2
  <2>2. QED
    BY <1>3, <2>1, OpensShape DEF Down
<1>4. ASSUME NEW url \in EndpointsKnown, e \in Closes(open, DownType(url), url)
      PROVE  /\ e \in Event /\ Standing(e, open)
             /\ e.kind = "close" /\ e.alert.subject = url /\ e.alert.type = DownType(url)
  BY <1>4, ClosesShape
<1>5. \/ \E url \in alertIfDown :
           /\ Down(url, snap)
           /\ now - endpointDownSince(snap, since, now)[url] >= endpointDownAlertAfter
           /\ e \in Opens(open, DownType(url), url, now)
      \/ \E url \in EndpointsKnown : e \in Closes(open, DownType(url), url)
  BY DEF evaluateEndpoints
<1>6. QED
  BY <1>1, <1>3, <1>4, <1>5

-----------------------------------------------------------------------------
(* What the parts of a step do.                                             *)

\* A failure uses up one of its sort.
LEMMA FailsEffect ==
  ASSUME TypeOK, NEW sort \in {"query", "read", "write", "send", "crash"}, Fails(sort)
  PROVE  /\ faults' \in [{"query", "read", "write", "send", "crash"} -> Nat]
         /\ faults'[sort] = faults[sort] - 1
         /\ \A other \in {"query", "read", "write", "send", "crash"} \ {sort} :
              faults'[other] = faults[other]
BY DEF TypeOK, Fails

\* A request leaves the endpoints of the other kind alone; one it does check is
\* down only if it is not up.
LEMMA AsksEffect ==
  ASSUME TypeOK, NEW kind \in Kinds, Asks(kind)
  PROVE  /\ health' \in [Urls -> {"unchecked", "healthy", "down"}]
         /\ checkedAt' \in [Kinds -> Time]
         /\ \A other \in Kinds \ {kind} : checkedAt'[other] = checkedAt[other]
         /\ \A url \in Urls \ UrlsOf(kind) : health'[url] = health[url]
         /\ \/ ChecksHealth(kind) /\ checkedAt'[kind] = clock
               /\ \A url \in UrlsOf(kind) : health'[url] = IF url \in up THEN "healthy" ELSE "down"
            \/ ~ChecksHealth(kind) /\ checkedAt' = checkedAt /\ health' = health
<1>1. UrlsOf(kind) \subseteq Urls
  BY DEF UrlsOf, Urls
<1>2. /\ health \in [Urls -> {"unchecked", "healthy", "down"}] /\ checkedAt \in [Kinds -> Time]
      /\ clock \in Time
  BY DEF TypeOK, PollOK, EnvironmentOK, Time
<1>3. CASE ChecksHealth(kind)
  <2>1. health' = [url \in Urls |-> IF url \in UrlsOf(kind)
                                    THEN IF url \in up THEN "healthy" ELSE "down"
                                    ELSE health[url]]
    BY <1>3 DEF Asks, Snapshot
  <2>2. checkedAt' = [checkedAt EXCEPT ![kind] = clock]
    BY <1>3 DEF Asks
  <2>3. QED
    BY <1>1, <1>2, <1>3, <2>1, <2>2
<1>4. CASE ~ChecksHealth(kind)
  BY <1>2, <1>4 DEF Asks, Snapshot
<1>5. QED
  BY <1>3, <1>4

\* The ongoing outage of an endpoint began now, or when it was said to.
LEMMA OutageEffect ==
  ASSUME TypeOK
  PROVE  /\ endpointDownSince(health, downSince, clock) \in [alertIfDown -> Time]
         /\ \A url \in alertIfDown :
              LET since == endpointDownSince(health, downSince, clock)[url] IN
              /\ health[url] = "healthy" => since = Never
              /\ health[url] # "healthy" => since \in {downSince[url], clock}
              /\ health[url] = "down" => since # Never
<1>1. \A url \in alertIfDown : health[url] \in {"unchecked", "healthy", "down"}
  BY AlertConfigAssumption DEF TypeOK, PollOK
<1>2. downSince \in [alertIfDown -> Time] /\ clock \in Time /\ Never \in Time /\ clock # Never
  BY DEF TypeOK, PollOK, EnvironmentOK, Time, Never
<1>3. QED
  BY <1>1, <1>2 DEF endpointDownSince

\* The rows an event is about have its key.
LEMMA RowsOfAnEvent ==
  ASSUME TypeOK, NEW e, NEW a \in RowOf(e)
  PROVE  a \in alerts /\ a \in AlertRow /\ SameKey(a, e.alert) /\ a.n = e.alert.n
BY DEF TypeOK, RowOf, SameKey

\* A notification is counted in its row,
LEMMA ToldRow ==
  ASSUME NEW a \in AlertRow, NEW b, b = [a EXCEPT !.told = @ + 1]
  PROVE  /\ b \in AlertRow /\ SameKey(a, b)
         /\ b.type = a.type /\ b.subject = a.subject /\ b.n = a.n /\ b.opened = a.opened
         /\ b.last = a.last /\ b.repeats = a.repeats /\ b.told = a.told + 1
BY DEF AlertRow, SameKey

\* and a repeat puts two of its columns right.
Touched(a, b, now, times) ==
  /\ b.type = a.type /\ b.subject = a.subject /\ b.n = a.n /\ b.opened = a.opened
  /\ b.last = now /\ b.repeats = times + 1 /\ b.told = a.told

LEMMA TouchedRow ==
  ASSUME NEW a \in AlertRow, NEW now \in Nat, NEW times \in Nat,
         NEW b, b = [a EXCEPT !.last = now, !.repeats = times + 1]
  PROVE  b \in AlertRow /\ Touched(a, b, now, times)
<1>1. PICK c : c = [a EXCEPT !.last = now]
  OBVIOUS
<1>2. /\ c \in AlertRow
      /\ c.type = a.type /\ c.subject = a.subject /\ c.n = a.n /\ c.opened = a.opened
      /\ c.last = now /\ c.repeats = a.repeats /\ c.told = a.told
  BY <1>1 DEF AlertRow
<1>3. b = [c EXCEPT !.repeats = times + 1]
  BY <1>1
<1>4. QED
  BY <1>2, <1>3 DEF AlertRow, Touched

\* The events of a judgement.
LEMMA JudgedEvents ==
  ASSUME TypeOK, Phases, IsFiniteSet(alerts), Judge, NEW e \in events'
  PROVE  /\ e \in Event /\ (Opening(e, alerts, clock) \/ Standing(e, alerts))
         /\ \/ pc = "evaluate" /\ Grounded(e, world, status, clock)
               /\ e \in evaluate(alerts, world, status, clock)
            \/ e \in evaluateEndpoints(alerts, health, downSince, clock)
<1>1. /\ alerts \in SUBSET AlertRow /\ openAlerts = alerts /\ world \in World
      /\ status \in Statuses /\ clock \in Nat
  BY DEF TypeOK, Phases, EnvironmentOK, PollOK, Judge, Statuses
<1>2. CASE e \in evaluateEndpoints(alerts, health, downSince, clock)
  BY <1>1, <1>2, EndpointsShape
<1>3. CASE pc = "evaluate" /\ e \in evaluate(alerts, world, status, clock)
  BY <1>1, <1>3, EvaluateShape
<1>4. QED
  BY <1>1, <1>2, <1>3 DEF Judge

-----------------------------------------------------------------------------
(* The types and the phases.                                                *)

\* The steps of the environment and of a process that comes and goes.
LEMMA TypedOutside ==
  ASSUME TypeOK, Phases,
         Tick \/ Change \/ (\E url \in Urls : Flip(url)) \/ Start \/ Crash
  PROVE  TypeOK' /\ Phases'
<1> USE AlertPipelineAssumption, AlertConfigAssumption
    DEF environment, snapshot, judgement, TypeOK, EnvironmentOK, PollOK, Phases, Time, Never
<1>1. CASE Tick
  BY <1>1 DEF Tick
<1>2. CASE Change
  <2>1. world' \in World /\ peak' \in Int
    BY <1>2 DEF Change, World
  <2>2. QED
    BY <1>2, <2>1 DEF Change, Varies
<1>3. ASSUME NEW url \in Urls, Flip(url) PROVE TypeOK' /\ Phases'
  <2>1. upSince' \in [alertIfDown -> Time] /\ up' \subseteq Urls /\ recovered' \subseteq alertIfDown
    BY <1>3 DEF Flip
  <2>2. QED
    BY <1>3, <2>1 DEF Flip, Varies
<1>4. CASE Start
  <2>1. /\ health' \in [Urls -> {"unchecked", "healthy", "down"}]
        /\ checkedAt' \in [Kinds -> Time] /\ seenUp' \in [alertIfDown -> Nat]
    BY <1>4 DEF Start
  <2>2. QED
    BY <1>4, <2>1 DEF Start
<1>5. CASE Crash
  <2>1. /\ faults' \in [{"query", "read", "write", "send", "crash"} -> Nat]
        /\ faults'["write"] = faults["write"] /\ faults'["read"] = faults["read"]
    BY <1>5, FailsEffect DEF Crash
  <2>2. /\ Unchecked \in [Urls -> {"unchecked", "healthy", "down"}]
        /\ NotDown \in [alertIfDown -> Time]
        /\ [kind \in Kinds |-> Never] \in [Kinds -> Time]
    BY DEF Unchecked, NotDown
  <2>3. QED
    BY <1>5, <2>1, <2>2 DEF Crash
<1>6. QED
  BY <1>1, <1>2, <1>3, <1>4, <1>5

\* The steps of a poll up to its judgement.
LEMMA TypedReading ==
  ASSUME TypeOK, Phases,
         \/ BeginPoll \/ OpenAlertsReadFails \/ HeightReadFails
         \/ getLatestCommit \/ LatestCommitFails \/ resolveValidatorStatus
         \/ (\E kind \in Kinds : FetchMore(kind)) \/ WindowReadFails
  PROVE  TypeOK' /\ Phases'
<1> USE AlertPipelineAssumption, AlertConfigAssumption
    DEF environment, snapshot, judgement, TypeOK, EnvironmentOK, PollOK, Phases
<1>1. "rpc" \in Kinds /\ "api" \in Kinds
  BY DEF Kinds
<1>2. ASSUME NEW sort \in {"query", "read", "crash"}, Fails(sort)
      PROVE  /\ faults' \in [{"query", "read", "write", "send", "crash"} -> Nat]
             /\ faults'["write"] = faults["write"] /\ faults'["read"] <= ReadFaults
  <2>1. faults["read"] \in Nat /\ faults["read"] <= ReadFaults /\ ReadFaults \in Nat
    OBVIOUS
  <2>2. QED
    BY <1>2, <2>1, FailsEffect
<1>3. ASSUME NEW kind \in Kinds, RequestFails(kind)
      PROVE  /\ faults' \in [{"query", "read", "write", "send", "crash"} -> Nat]
             /\ faults'["write"] = faults["write"] /\ faults'["read"] <= ReadFaults
  BY <1>2, <1>3 DEF RequestFails
<1>4. CASE BeginPoll
  BY <1>4 DEF BeginPoll, getUnclosedAlerts
<1>5. CASE OpenAlertsReadFails
  BY <1>5, <1>2 DEF OpenAlertsReadFails
<1>6. CASE HeightReadFails
  BY <1>6, <1>2 DEF HeightReadFails
<1>7. CASE getLatestCommit
  BY <1>7, <1>1, AsksEffect DEF getLatestCommit
<1>8. CASE LatestCommitFails
  BY <1>8, <1>1, <1>3, AsksEffect DEF LatestCommitFails
<1>9. CASE resolveValidatorStatus
  <2>1. status' \in {"unknown", "active"} \cup VALIDATOR_STATUS_ALERTS
    BY <1>9 DEF resolveValidatorStatus, World, VALIDATOR_STATUS_ALERTS
  <2>2. /\ faults' \in [{"query", "read", "write", "send", "crash"} -> Nat]
        /\ faults'["write"] = faults["write"] /\ faults'["read"] <= ReadFaults
    BY <1>9, <1>1, <1>3 DEF resolveValidatorStatus
  <2>3. QED
    BY <1>9, <1>1, <2>1, <2>2, AsksEffect DEF resolveValidatorStatus
<1>10. ASSUME NEW kind \in Kinds, FetchMore(kind) PROVE TypeOK' /\ Phases'
  BY <1>10, AsksEffect DEF FetchMore
<1>11. CASE WindowReadFails
  BY <1>11, <1>2 DEF WindowReadFails
<1>12. QED
  BY <1>4, <1>5, <1>6, <1>7, <1>8, <1>9, <1>10, <1>11

\* The judgement and what is done about it.
LEMMA TypedActing ==
  ASSUME TypeOK, Phases, IsFiniteSet(alerts), Judge \/ ApplyEvent \/ dispatch
  PROVE  TypeOK' /\ Phases'
<1> USE AlertPipelineAssumption
    DEF environment, snapshot, judgement
<1>1. CASE Judge
  <2>1. events' \subseteq Event
    BY <1>1, JudgedEvents
  <2>2. downSince' \in [alertIfDown -> Time]
    BY <1>1, OutageEffect DEF Judge
  <2>3. seenUp' \in [alertIfDown -> Nat]
    BY <1>1 DEF Judge, TypeOK, PollOK, EnvironmentOK
  <2>4. QED
    BY <1>1, <2>1, <2>2, <2>3 DEF Judge, TypeOK, PollOK, EnvironmentOK, Phases
<1>2. CASE ApplyEvent
  <2>1. PICK e \in events :
          /\ \/ alerts' = Applied(e) /\ UNCHANGED faults
             \/ UNCHANGED alerts /\ Fails("write")
          /\ event' = {e}
          /\ events' = events \ {e}
    BY <1>2 DEF ApplyEvent
  <2>2. e \in Event /\ e.alert \in AlertRow /\ e.alert.repeats \in Nat /\ clock \in Nat
    BY DEF TypeOK, PollOK, EnvironmentOK, Event, AlertRow
  <2>3. Applied(e) \subseteq AlertRow
    <3>1. alerts \subseteq AlertRow
      BY DEF TypeOK
    <3>2. ASSUME NEW a \in RowOf(e)
          PROVE  [a EXCEPT !.last = clock, !.repeats = e.alert.repeats + 1] \in AlertRow
      BY <2>2, RowsOfAnEvent, TouchedRow
    <3>3. QED
      BY <2>2, <3>1, <3>2 DEF Applied, Event
  <2>4. alerts' \subseteq AlertRow
    BY <2>1, <2>3 DEF TypeOK
  <2>5. /\ faults' \in [{"query", "read", "write", "send", "crash"} -> Nat]
        /\ faults'["write"] <= faults["write"] /\ faults'["read"] = faults["read"]
    <3>1. /\ faults \in [{"query", "read", "write", "send", "crash"} -> Nat]
          /\ faults["write"] \in Nat
      BY DEF TypeOK
    <3>2. QED
      BY <2>1, <3>1, FailsEffect
  <2>6. faults'["write"] <= WriteFaults
    BY <2>5 DEF TypeOK, Phases
  <2>7. QED
    BY <1>2, <2>1, <2>2, <2>4, <2>5, <2>6 DEF ApplyEvent, TypeOK, PollOK, EnvironmentOK, Phases
<1>3. CASE dispatch
  <2>1. \A e \in event : \A a \in RowOf(e) : [a EXCEPT !.told = @ + 1] \in AlertRow
    BY RowsOfAnEvent, ToldRow
  <2>2. alerts' \subseteq AlertRow
    BY <1>3, <2>1 DEF dispatch, TypeOK
  <2>3. /\ faults' \in [{"query", "read", "write", "send", "crash"} -> Nat]
        /\ faults'["write"] = faults["write"] /\ faults'["read"] = faults["read"]
    BY <1>3, FailsEffect DEF dispatch, TypeOK
  <2>4. QED
    BY <1>3, <2>2, <2>3 DEF dispatch, TypeOK, PollOK, EnvironmentOK, Phases
<1>4. QED
  BY <1>1, <1>2, <1>3

-----------------------------------------------------------------------------
(* The rows and the events about them.                                      *)

\* Time and the ratio's peak only help a row to keep pace.
LEMMA PaceKept ==
  ASSUME NEW a \in AlertRow, NEW now \in Int, NEW later \in Int, now <= later,
         NEW top \in Int, NEW higher \in Int, top <= higher
  PROVE  /\ PacedRow(a, now, top) => PacedRow(a, later, higher)
         /\ PacedRepeat(a, now, top) => PacedRepeat(a, later, higher)
<1>1. a.opened \in Nat /\ a.last \in Nat /\ a.repeats \in Nat
  BY DEF AlertRow
<1>2. consecutiveMissAlert.repeatInterval \in Nat
  BY AlertConfigAssumption
<1>3. PacedRow(a, now, top) => PacedRow(a, later, higher)
  BY <1>1 DEF PacedRow
<1>4. PacedRepeat(a, now, top) => PacedRepeat(a, later, higher)
  BY <1>1, <1>2 DEF PacedRepeat
<1>5. QED
  BY <1>3, <1>4

\* A step that writes no row and makes no event keeps the rows' invariant: the
\* events stay, or the process dies with them.
LEMMA RowsQuiet ==
  ASSUME TypeOK, RowsInv, TypeOK', alerts' = alerts,
         \/ events' = events /\ event' = event
         \/ events' = {} /\ event' = {},
         clock <= clock', peak <= peak', world'.level <= peak',
         faults'.write = faults.write
  PROVE  RowsInv'
<1>1. clock \in Int /\ clock' \in Int /\ peak \in Int /\ peak' \in Int
  BY DEF TypeOK, EnvironmentOK
<1>2. events' \subseteq events /\ event' \subseteq event
  OBVIOUS
<1>3. NoFailedWrite' => NoFailedWrite
  BY DEF NoFailedWrite
<1>4. IsFiniteSet(alerts)' /\ OneOpenPerSubject'
  BY DEF RowsInv, OneOpenPerSubject
<1>5. Keyed' /\ Pending' /\ StatusSubject'
  BY <1>2 DEF RowsInv, Keyed, Pending, StatusSubject
<1>6. Exclusive'
  BY <1>3 DEF RowsInv, Exclusive
<1>7. Told'
  BY <1>2, <1>3 DEF RowsInv, Told, RowOf
<1>8. Paced'
  <2>1. \A a \in alerts' : PacedRow(a, clock', peak')
    <3>1. \A a \in alerts : a \in AlertRow /\ PacedRow(a, clock, peak)
      BY DEF TypeOK, RowsInv, Paced
    <3>2. QED
      BY <1>1, <3>1, PaceKept
  <2>2. \A e \in events' : PacedEvent(e, clock', peak')
    <3>1. \A e \in events : e.alert \in AlertRow /\ PacedEvent(e, clock, peak)
      BY DEF TypeOK, PollOK, Event, RowsInv, Paced
    <3>2. QED
      BY <1>1, <1>2, <3>1, PaceKept DEF PacedEvent
  <2>3. QED
    BY <2>1, <2>2 DEF Paced
<1>9. QED
  BY <1>4, <1>5, <1>6, <1>7, <1>8 DEF RowsInv

\* An endpoint's alert is not about the chain's status.
LEMMA EndpointsAreNoStatus ==
  ASSUME NEW e, e.alert.type = DownType(e.alert.subject), e.alert.subject \in EndpointsKnown
  PROVE  ~IsStatus(e.alert) /\ e.alert.subject # chainWide
         /\ e.alert.type \notin {"consecutive_miss", "percentage_miss"}
BY AlertConfigAssumption DEF IsStatus, DownType, VALIDATOR_STATUS_ALERTS, EndpointsKnown

\* The judgement makes the events.
LEMMA RowsJudged ==
  ASSUME TypeOK, Phases, RowsInv, Judge
  PROVE  RowsInv'
<1>1. /\ alerts' = alerts /\ event' = {} /\ clock' = clock /\ peak' = peak
      /\ world' = world /\ faults' = faults
  BY DEF Judge, Phases, environment
<1>2. /\ alerts \in SUBSET AlertRow /\ IsFiniteSet(alerts) /\ OneOpenPerSubject
      /\ world \in World /\ status \in Statuses /\ clock \in Nat /\ peak \in Int
      /\ world.level \in Int
  BY DEF TypeOK, EnvironmentOK, PollOK, RowsInv, Statuses, World
<1>3. \A e \in events' :
        /\ e \in Event /\ (Opening(e, alerts, clock) \/ Standing(e, alerts))
        /\ \/ pc = "evaluate" /\ Grounded(e, world, status, clock)
              /\ e \in evaluate(alerts, world, status, clock)
           \/ e \in evaluateEndpoints(alerts, health, downSince, clock)
  BY <1>2, JudgedEvents
<1>4. \A e \in events' : e \in evaluateEndpoints(alerts, health, downSince, clock) =>
        /\ ~IsStatus(e.alert) /\ e.alert.subject # chainWide
        /\ e.kind \in {"open", "close"}
        /\ e.alert.type \notin {"consecutive_miss", "percentage_miss"}
        /\ e.kind = "open" => /\ e.alert.opened = clock /\ e.alert.last = clock
                              /\ e.alert.repeats = 0 /\ e.alert.told = 0
  BY <1>2, EndpointsShape, EndpointsAreNoStatus
<1>5. Keyed'
  <2>1. ASSUME NEW e \in events', NEW f \in events', SameKey(e.alert, f.alert)
        PROVE  e = f
    <3>1. e.kind # "open" /\ f.kind # "open" => e.kind = f.kind
      <4>1. e.kind \in {"open", "close", "repeat"} /\ f.kind \in {"open", "close", "repeat"}
        BY <1>3 DEF Event
      <4>2. e.alert.type = f.alert.type /\ e.alert.subject = f.alert.subject
        BY <2>1 DEF SameKey
      <4>3. CASE e \in evaluateEndpoints(alerts, health, downSince, clock)
        BY <1>3, <1>4, <4>1, <4>2, <4>3 DEF Grounded
      <4>4. CASE f \in evaluateEndpoints(alerts, health, downSince, clock)
        BY <1>3, <1>4, <4>1, <4>2, <4>4 DEF Grounded
      <4>5. CASE Grounded(e, world, status, clock) /\ Grounded(f, world, status, clock)
        BY <4>1, <4>2, <4>5 DEF Grounded
      <4>6. QED
        BY <1>3, <4>3, <4>4, <4>5
    <3>2. /\ e \in Event /\ (Opening(e, alerts, clock) \/ Standing(e, alerts))
          /\ f \in Event /\ (Opening(f, alerts, clock) \/ Standing(f, alerts))
      BY <1>3
    <3>3. \A a, b \in alerts : a.type = b.type /\ a.subject = b.subject => a = b
      BY <1>2 DEF OneOpenPerSubject
    <3>4. QED
      BY <1>2, <2>1, <3>1, <3>2, <3>3, OneEventPerKey
  <2>2. QED
    BY <1>1, <2>1 DEF Keyed
<1>6. Pending'
  BY <1>1, <1>3 DEF Pending, Opening, Standing
<1>7. StatusSubject'
  <2>1. \A e \in events' : IsStatus(e.alert) => e.alert.subject = chainWide
    BY <1>3, <1>4 DEF Grounded
  <2>2. QED
    BY <1>1, <2>1 DEF RowsInv, StatusSubject
<1>8. Exclusive'
  <2>1. NoFailedWrite' <=> NoFailedWrite
    BY <1>1 DEF NoFailedWrite
  <2>2. ASSUME NEW e \in events', StatusOpening(e)
        PROVE  /\ pc = "evaluate" /\ Grounded(e, world, status, clock)
               /\ e \in evaluate(alerts, world, status, clock)
    BY <1>3, <1>4, <2>2 DEF StatusOpening
  <2>3. \A e, f \in events' : StatusOpening(e) /\ StatusOpening(f) => e = f
    <3>1. \A e, f \in events' : StatusOpening(e) /\ StatusOpening(f)
             => SameKey(e.alert, f.alert)
      BY <2>2 DEF Grounded, StatusOpening, SameKey
    <3>2. QED
      BY <1>5, <3>1 DEF Keyed
  <2>4. ASSUME NEW e \in events', StatusOpening(e), NEW a \in alerts, IsStatus(a)
        PROVE  \E f \in events' : f.kind = "close" /\ f.alert = a
    <3>1. a.subject = chainWide
      BY <2>4 DEF RowsInv, StatusSubject
    <3>2. PICK f \in evaluate(alerts, world, status, clock) : f.kind = "close" /\ f.alert = a
      BY <1>2, <2>2, <2>4, <3>1, UnwantedAreClosed
    <3>3. openAlerts = alerts
      BY DEF Judge, Phases
    <3>4. f \in events'
      BY <2>2, <2>4, <3>3 DEF Judge
    <3>5. QED
      BY <3>2, <3>4
  <2>5. QED
    BY <1>1, <2>1, <2>3, <2>4 DEF RowsInv, Exclusive
<1>9. Told'
  BY <1>1 DEF RowsInv, Told, NoFailedWrite
<1>10. Paced'
  <2>1. ASSUME NEW e \in events' PROVE PacedEvent(e, clock, peak)
    <3>1. e.alert \in AlertRow /\ e.alert.repeats \in Nat /\ e.alert.last \in Nat
      BY <1>3 DEF Event, AlertRow
    <3>2. consecutiveMissAlert.repeatInterval \in Nat /\ 0 * consecutiveMissAlert.repeatInterval = 0
      BY AlertConfigAssumption
    <3>3. world.level <= peak
      BY DEF RowsInv, Paced
    <3>4. CASE e \in evaluateEndpoints(alerts, health, downSince, clock)
      BY <1>2, <1>4, <3>1, <3>4 DEF PacedEvent, PacedRow
    <3>5. CASE Grounded(e, world, status, clock)
      <4>1. e.kind = "open" => /\ PacedRow(e.alert, clock, peak)
                               /\ e.alert.told = 0 /\ e.alert.repeats = 0
        <5>1. e.kind = "open" =>
                /\ e.alert.opened = clock /\ e.alert.last = clock
                /\ e.alert.told = 0 /\ e.alert.repeats = 0
                /\ e.alert.type = "percentage_miss" => world.level >= 1
          BY <3>5 DEF Grounded
        <5>2. e.alert.repeats = 0 => e.alert.repeats * consecutiveMissAlert.repeatInterval = 0
          BY <3>2
        <5>3. QED
          BY <1>2, <3>3, <5>1, <5>2 DEF PacedRow
      <4>2. e.kind = "repeat" => PacedRepeat(e.alert, clock, peak)
        BY <1>2, <3>1, <3>3, <3>5 DEF Grounded, PacedRepeat, Due, Escalated
      <4>3. QED
        BY <4>1, <4>2 DEF PacedEvent
    <3>6. QED
      BY <1>3, <3>4, <3>5
  <2>2. QED
    BY <1>1, <2>1 DEF RowsInv, Paced
<1>11. QED
  BY <1>1, <1>2, <1>5, <1>6, <1>7, <1>8, <1>9, <1>10 DEF RowsInv, OneOpenPerSubject

\* An event that is applied is about one row, or about none.
LEMMA StandingRow ==
  ASSUME TypeOK, RowsInv, NEW e \in events
  PROVE  /\ e.kind = "open" => \A a \in alerts : ~SameKey(a, e.alert)
         /\ e.kind # "open" => e.alert \in alerts /\ RowOf(e) = {e.alert}
BY DEF RowsInv, Pending, OneOpenPerSubject, RowOf, SameKey

\* An event is written: the rows of its key make way for at most one, which is
\* as an event of its kind leaves it.
LEMMA RowsReplaced ==
  ASSUME TypeOK, Phases, RowsInv, NEW e \in events, \A f \in events : Rank(e) <= Rank(f),
         NEW gone, gone = {a \in alerts : SameKey(a, e.alert)},
         NEW new, NEW b \in AlertRow, SameKey(b, e.alert), PacedRow(b, clock, peak),
         NoFailedWrite /\ e.kind # "close" => b.told <= b.repeats,
         e.kind = "close" => new = {}, e.kind # "close" => new = {b},
         alerts' = (alerts \ gone) \cup new,
         event' = {e}, events' = events \ {e},
         clock' = clock, peak' = peak, world' = world, faults' = faults
  PROVE  RowsInv'
<1>1. new \subseteq {b} /\ (\A a \in alerts' : a \in alerts \/ a = b)
  OBVIOUS
<1>2. \A a \in alerts \ gone : ~SameKey(a, e.alert)
  OBVIOUS
<1>3. /\ IsFiniteSet(alerts) /\ OneOpenPerSubject /\ Keyed /\ Pending /\ StatusSubject
      /\ Exclusive /\ Told /\ Paced
  BY DEF RowsInv
<1>4. \A f \in events' : f \in events /\ ~SameKey(f.alert, e.alert)
  BY <1>3 DEF Keyed, SameKey
<1>5. NoFailedWrite' <=> NoFailedWrite
  BY DEF NoFailedWrite
<1>6. IsFiniteSet(alerts')
  <2>1. IsFiniteSet(alerts \ gone)
    BY <1>3, FS_Subset
  <2>2. IsFiniteSet((alerts \ gone) \cup {b})
    BY <2>1, FS_AddElement
  <2>3. alerts' = alerts \ gone \/ alerts' = (alerts \ gone) \cup {b}
    BY <1>1
  <2>4. QED
    BY <2>1, <2>2, <2>3
<1>7. OneOpenPerSubject'
  BY <1>1, <1>2, <1>3 DEF OneOpenPerSubject, SameKey
<1>8. Keyed'
  BY <1>3, <1>4 DEF Keyed, SameKey
<1>9. Pending'
  <2>1. ASSUME NEW f \in events' PROVE IF f.kind = "open" THEN \A a \in alerts' : ~SameKey(a, f.alert)
                                     ELSE f.alert \in alerts'
    <3>1. ~SameKey(b, f.alert)
      BY <1>4, <2>1 DEF SameKey
    <3>2. CASE f.kind = "open"
      BY <1>1, <1>3, <1>4, <3>1, <3>2 DEF Pending
    <3>3. CASE f.kind # "open"
      <4>1. f.alert \in alerts /\ ~SameKey(f.alert, e.alert)
        BY <1>3, <1>4, <3>3 DEF Pending
      <4>2. QED
        BY <3>3, <4>1
    <3>4. QED
      BY <3>2, <3>3
  <2>2. QED
    BY <2>1 DEF Pending
<1>10. StatusSubject'
  <2>1. IsStatus(b) => b.subject = chainWide
    BY <1>3 DEF StatusSubject, IsStatus, SameKey
  <2>2. QED
    BY <1>1, <1>3, <2>1 DEF StatusSubject
<1>11. Exclusive'
  <2>1. SUFFICES ASSUME NoFailedWrite
                 PROVE  /\ \A a, c \in alerts' : IsStatus(a) /\ IsStatus(c) => a = c
                        /\ \A f, g \in events' : StatusOpening(f) /\ StatusOpening(g) => f = g
                        /\ \A f \in events' : StatusOpening(f) =>
                             \A a \in alerts' : IsStatus(a) =>
                               \E g \in events' : g.kind = "close" /\ g.alert = a
    BY <1>5 DEF Exclusive
  <2>2. /\ \A a, c \in alerts : IsStatus(a) /\ IsStatus(c) => a = c
        /\ \A f, g \in events : StatusOpening(f) /\ StatusOpening(g) => f = g
        /\ \A f \in events : StatusOpening(f) =>
             \A a \in alerts : IsStatus(a) =>
               \E g \in events : g.kind = "close" /\ g.alert = a
    BY <1>3, <2>1 DEF Exclusive
  <2>3. IsStatus(b) <=> IsStatus(e.alert)
    BY DEF IsStatus, SameKey
  <2>4. StatusOpening(e) => \A a \in alerts : ~IsStatus(a)
    <3>1. SUFFICES ASSUME StatusOpening(e), NEW a \in alerts, IsStatus(a) PROVE FALSE
      OBVIOUS
    <3>2. PICK g \in events : g.kind = "close" /\ g.alert = a
      BY <2>2, <3>1
    <3>3. Rank(g) = 4 /\ Rank(e) = 5
      BY <3>1, <3>2 DEF Rank, StatusOpening, IsStatus, VALIDATOR_STATUS_ALERTS
    <3>4. QED
      BY <3>3
  <2>5. e.kind # "open" => e.alert \in alerts /\ e.alert \in gone
    BY <1>3 DEF Pending, SameKey
  <2>6. e.kind \in {"open", "close", "repeat"}
    BY DEF TypeOK, PollOK, Event
  <2>7. \A a, c \in alerts' : IsStatus(a) /\ IsStatus(c) => a = c
    <3>1. CASE e.kind = "close"
      BY <1>1, <2>2, <3>1
    <3>2. CASE e.kind = "open" /\ IsStatus(e.alert)
      BY <1>1, <2>4, <3>2 DEF StatusOpening
    <3>3. CASE ~IsStatus(e.alert)
      BY <1>1, <2>2, <2>3, <3>3
    <3>4. CASE e.kind = "repeat" /\ IsStatus(e.alert)
      <4>1. \A a \in alerts \ gone : ~IsStatus(a)
        BY <2>2, <2>5, <3>4
      <4>2. QED
        BY <4>1, <1>1
    <3>5. QED
      BY <2>6, <3>1, <3>2, <3>3, <3>4
  <2>8. ASSUME NEW f \in events', StatusOpening(f), NEW a \in alerts', IsStatus(a)
        PROVE  \E g \in events' : g.kind = "close" /\ g.alert = a
    <3>1. f \in events /\ f # e
      OBVIOUS
    <3>2. ~StatusOpening(e)
      BY <2>2, <2>8, <3>1
    <3>3. a # b \/ e.kind = "close"
      <4>1. CASE e.kind = "open"
        BY <2>3, <2>8, <3>2, <4>1 DEF StatusOpening
      <4>2. CASE e.kind = "repeat" /\ a = b
        <5>1. IsStatus(e.alert) /\ e.alert \in alerts
          BY <2>3, <2>5, <2>8, <4>2
        <5>2. PICK g \in events : g.kind = "close" /\ g.alert = e.alert
          BY <2>2, <2>8, <3>1, <5>1
        <5>3. g = e
          BY <1>3, <5>2 DEF Keyed, SameKey
        <5>4. QED
          BY <4>2, <5>2, <5>3
      <4>3. QED
        BY <2>6, <4>1, <4>2
    <3>4. a \in alerts \ gone
      BY <1>1, <2>8, <3>3
    <3>5. PICK g \in events : g.kind = "close" /\ g.alert = a
      BY <2>2, <2>8, <3>1, <3>4
    <3>6. g # e
      BY <2>5, <3>4, <3>5
    <3>7. QED
      BY <3>5, <3>6
  <2>9. QED
    BY <2>2, <2>7, <2>8
<1>12. Told'
  <2>1. SUFFICES ASSUME NoFailedWrite
                 PROVE  /\ \A a \in alerts' : a.told <= 1 + a.repeats
                        /\ \A f \in event' : \A a \in RowOf(f)' : a.told <= a.repeats
    BY <1>5 DEF Told
  <2>2. \A a \in alerts : a.told <= 1 + a.repeats
    BY <1>3, <2>1 DEF Told
  <2>3. b.told \in Nat /\ b.repeats \in Nat /\ (e.kind # "close" => b.told <= b.repeats)
    BY <2>1 DEF AlertRow
  <2>4. \A a \in RowOf(e)' : a \in new /\ a = b
    BY <1>1, <1>2 DEF RowOf, SameKey
  <2>5. \A a \in new : a = b /\ e.kind # "close"
    OBVIOUS
  <2>6. QED
    BY <2>2, <2>3, <2>4, <2>5
<1>13. Paced'
  BY <1>1, <1>3, <1>4 DEF Paced
<1>14. QED
  BY <1>6, <1>7, <1>8, <1>9, <1>10, <1>11, <1>12, <1>13 DEF RowsInv

\* The next event is written, or is not.
LEMMA RowsApplied ==
  ASSUME TypeOK, Phases, RowsInv, ApplyEvent
  PROVE  RowsInv'
<1>1. PICK e \in events :
        /\ \A f \in events : Rank(e) <= Rank(f)
        /\ \/ alerts' = Applied(e) /\ UNCHANGED faults
           \/ UNCHANGED alerts /\ Fails("write")
        /\ event' = {e}
        /\ events' = events \ {e}
  BY DEF ApplyEvent
<1>2. clock' = clock /\ peak' = peak /\ world' = world
  BY DEF ApplyEvent, environment
<1>3. /\ e \in Event /\ e.alert \in AlertRow /\ e.kind \in {"open", "close", "repeat"}
      /\ clock \in Nat /\ peak \in Int
  BY DEF TypeOK, PollOK, EnvironmentOK, Event
<1> DEFINE gone == {a \in alerts : SameKey(a, e.alert)}
<1>4. PacedEvent(e, clock, peak)
  BY DEF RowsInv, Paced
<1>5. CASE e.kind = "open" /\ alerts' = Applied(e) /\ UNCHANGED faults
  <2>1. gone = {}
    BY <1>5, StandingRow
  <2>2. alerts' = (alerts \ gone) \cup {e.alert}
    BY <1>5, <2>1 DEF Applied
  <2>3. PacedRow(e.alert, clock, peak) /\ e.alert.told <= e.alert.repeats /\ SameKey(e.alert, e.alert)
    BY <1>4, <1>5 DEF PacedEvent, SameKey
  <2>4. QED
    <3> HIDE DEF gone
    <3>1. gone = {a \in alerts : SameKey(a, e.alert)}
      BY DEF gone
    <3>2. QED
      BY <1>1, <1>2, <1>3, <1>5, <2>2, <2>3, <3>1, RowsReplaced
<1>6. CASE e.kind = "close" /\ alerts' = Applied(e) /\ UNCHANGED faults
  <2>1. e.alert \in alerts /\ RowOf(e) = {e.alert} /\ gone = {e.alert}
    BY <1>6, StandingRow DEF RowsInv, OneOpenPerSubject, SameKey
  <2>2. alerts' = (alerts \ gone) \cup {}
    BY <1>6, <2>1 DEF Applied
  <2>3. PacedRow(e.alert, clock, peak) /\ SameKey(e.alert, e.alert)
    BY <2>1 DEF RowsInv, Paced, SameKey
  <2>4. QED
    <3> HIDE DEF gone
    <3>1. gone = {a \in alerts : SameKey(a, e.alert)}
      BY DEF gone
    <3>2. QED
      BY <1>1, <1>2, <1>3, <1>6, <2>2, <2>3, <3>1, RowsReplaced
<1>7. CASE e.kind = "repeat" /\ alerts' = Applied(e) /\ UNCHANGED faults
  <2>1. e.alert \in alerts /\ RowOf(e) = {e.alert} /\ gone = {e.alert}
    BY <1>7, StandingRow DEF RowsInv, OneOpenPerSubject, SameKey
  <2>2. PICK b : b = [e.alert EXCEPT !.last = clock, !.repeats = e.alert.repeats + 1]
    OBVIOUS
  <2>3. alerts' = (alerts \ gone) \cup {b}
    BY <1>7, <2>1, <2>2 DEF Applied
  <2>4. /\ e.alert.repeats \in Nat /\ e.alert.opened \in Nat /\ e.alert.last \in Nat
        /\ e.alert.told \in Nat
    BY <1>3 DEF AlertRow
  <2>5. /\ b \in AlertRow /\ SameKey(e.alert, b)
        /\ b.type = e.alert.type /\ b.opened = e.alert.opened
        /\ b.last = clock /\ b.repeats = e.alert.repeats + 1 /\ b.told = e.alert.told
    <3>1. b \in AlertRow /\ Touched(e.alert, b, clock, e.alert.repeats)
      BY <1>3, <2>2, <2>4, TouchedRow
    <3>2. QED
      BY <3>1 DEF Touched, SameKey
  <2>6. SameKey(b, e.alert)
    BY <2>5 DEF SameKey
  <2>7. PacedRow(b, clock, peak)
    <3> DEFINE interval == consecutiveMissAlert.repeatInterval
    <3>1. interval \in Nat
      BY AlertConfigAssumption
    <3>2. PacedRow(e.alert, clock, peak) /\ PacedRepeat(e.alert, clock, peak)
      BY <1>4, <1>7, <2>1 DEF PacedEvent, RowsInv, Paced
    <3>3. (e.alert.repeats + 1) * interval = e.alert.repeats * interval + interval
      <4> HIDE DEF interval
      <4> QED BY <2>4, <3>1
    <3>4. e.alert.repeats * interval \in Int
      BY <2>4, <3>1
    <3>5. b.type = "consecutive_miss" => b.repeats * interval <= b.last - b.opened
      BY <1>3, <2>4, <2>5, <3>1, <3>2, <3>3, <3>4 DEF PacedRow, PacedRepeat
    <3>6. b.type = "percentage_miss" => b.repeats + 1 <= peak
      BY <1>3, <2>4, <2>5, <3>2 DEF PacedRepeat
    <3>7. b.opened <= b.last /\ b.last <= clock
      BY <1>3, <2>4, <2>5, <3>2 DEF PacedRow
    <3>8. QED
      BY <3>5, <3>6, <3>7 DEF PacedRow
  <2>8. NoFailedWrite => b.told <= b.repeats
    BY <2>1, <2>4, <2>5 DEF RowsInv, Told
  <2>9. QED
    <3> HIDE DEF gone
    <3>1. gone = {a \in alerts : SameKey(a, e.alert)}
      BY DEF gone
    <3>2. QED
      BY <1>1, <1>2, <1>7, <2>3, <2>5, <2>6, <2>7, <2>8, <3>1, RowsReplaced
<1>8. CASE UNCHANGED alerts /\ Fails("write")
  <2>1. ~NoFailedWrite'
    <3>1. faults.write <= WriteFaults /\ faults.write \in Nat /\ WriteFaults \in Nat
      BY AlertPipelineAssumption DEF Phases, TypeOK
    <3>2. faults'["write"] = faults["write"] - 1
      BY <1>8, FailsEffect
    <3>3. QED
      BY <3>1, <3>2 DEF NoFailedWrite
  <2>2. Keyed'
    BY <1>1 DEF RowsInv, Keyed, SameKey
  <2>3. Pending' /\ StatusSubject'
    BY <1>1, <1>8 DEF RowsInv, Pending, StatusSubject
  <2>4. Paced'
    BY <1>1, <1>2, <1>8 DEF RowsInv, Paced
  <2>5. QED
    BY <1>8, <2>1, <2>2, <2>3, <2>4 DEF RowsInv, OneOpenPerSubject, Exclusive, Told
<1>9. QED
  BY <1>1, <1>3, <1>5, <1>6, <1>7, <1>8

\* The notification is counted, or lost.
LEMMA RowsDispatched ==
  ASSUME TypeOK, Phases, RowsInv, dispatch
  PROVE  RowsInv'
<1>1. PICK e \in event :
        \/ /\ alerts' = (alerts \ RowOf(e)) \cup {[a EXCEPT !.told = @ + 1] : a \in RowOf(e)}
           /\ UNCHANGED faults
        \/ UNCHANGED alerts /\ Fails("send")
  BY DEF dispatch
<1>2. /\ clock' = clock /\ peak' = peak /\ world' = world /\ event' = {} /\ events' = events
      /\ faults'["write"] = faults["write"]
  BY <1>1, FailsEffect DEF dispatch, environment, judgement
<1>3. NoFailedWrite' <=> NoFailedWrite
  BY <1>2 DEF NoFailedWrite
<1>4. /\ IsFiniteSet(alerts) /\ OneOpenPerSubject /\ Keyed /\ Pending /\ StatusSubject
      /\ Exclusive /\ Told /\ Paced
  BY DEF RowsInv
<1>5. CASE alerts' = alerts
  BY <1>2, <1>3, <1>4, <1>5 DEF RowsInv, OneOpenPerSubject, Keyed, Pending, StatusSubject,
     Exclusive, Told, Paced
<1>6. CASE /\ alerts' = (alerts \ RowOf(e)) \cup {[a EXCEPT !.told = @ + 1] : a \in RowOf(e)}
           /\ RowOf(e) # {}
  <2>1. PICK a \in RowOf(e) : TRUE
    BY <1>6
  <2>2. a \in alerts /\ a \in AlertRow /\ SameKey(a, e.alert)
    BY RowsOfAnEvent
  <2>3. RowOf(e) = {a}
    <3>1. \A c \in RowOf(e) : c \in alerts /\ SameKey(c, e.alert)
      BY RowsOfAnEvent
    <3>2. QED
      BY <1>4, <2>2, <3>1 DEF OneOpenPerSubject, SameKey
  <2>4. PICK b : b = [a EXCEPT !.told = @ + 1]
    OBVIOUS
  <2>5. alerts' = (alerts \ {a}) \cup {b}
    BY <1>6, <2>3, <2>4
  <2>6. /\ b \in AlertRow /\ SameKey(a, b)
        /\ b.type = a.type /\ b.subject = a.subject /\ b.n = a.n /\ b.opened = a.opened
        /\ b.last = a.last /\ b.repeats = a.repeats /\ b.told = a.told + 1
    BY <2>2, <2>4, ToldRow
  <2>7. \A f \in events : ~SameKey(f.alert, a) /\ ~SameKey(f.alert, b)
    BY <1>4, <2>2, <2>6 DEF Keyed, SameKey
  <2>8. IsFiniteSet(alerts')
    <3>1. IsFiniteSet(alerts \ {a})
      BY <1>4, FS_Subset
    <3>2. QED
      BY <2>5, <3>1, FS_AddElement
  <2>9. OneOpenPerSubject'
    BY <1>4, <2>2, <2>5, <2>6 DEF OneOpenPerSubject
  <2>10. Keyed'
    BY <1>2, <1>4 DEF Keyed
  <2>11. Pending'
    <3>1. \A f \in events : f.kind = "open" => \A c \in alerts' : ~SameKey(c, f.alert)
      BY <1>4, <2>5, <2>7 DEF Pending, SameKey
    <3>2. \A f \in events : f.kind # "open" => f.alert \in alerts'
      BY <1>4, <2>5, <2>7 DEF Pending, SameKey
    <3>3. QED
      BY <1>2, <3>1, <3>2 DEF Pending
  <2>12. StatusSubject'
    BY <1>2, <1>4, <2>2, <2>5, <2>6 DEF StatusSubject, IsStatus
  <2>13. Exclusive'
    <3>1. SUFFICES ASSUME NoFailedWrite
                   PROVE  /\ \A c, d \in alerts' : IsStatus(c) /\ IsStatus(d) => c = d
                          /\ \A f, g \in events : StatusOpening(f) /\ StatusOpening(g) => f = g
                          /\ \A f \in events : StatusOpening(f) =>
                               \A c \in alerts' : IsStatus(c) =>
                                 \E g \in events : g.kind = "close" /\ g.alert = c
      BY <1>2, <1>3 DEF Exclusive
    <3>2. /\ \A c, d \in alerts : IsStatus(c) /\ IsStatus(d) => c = d
          /\ \A f, g \in events : StatusOpening(f) /\ StatusOpening(g) => f = g
          /\ \A f \in events : StatusOpening(f) =>
               \A c \in alerts : IsStatus(c) =>
                 \E g \in events : g.kind = "close" /\ g.alert = c
      BY <1>4, <3>1 DEF Exclusive
    <3>3. IsStatus(a) <=> IsStatus(b)
      BY <2>6 DEF IsStatus
    <3>4. \A c, d \in alerts' : IsStatus(c) /\ IsStatus(d) => c = d
      BY <2>2, <2>5, <3>2, <3>3
    <3>5. \A f \in events : StatusOpening(f) => ~IsStatus(a)
      BY <2>2, <2>7, <3>2 DEF SameKey
    <3>6. QED
      BY <2>5, <3>2, <3>3, <3>4, <3>5
  <2>14. Told'
    <3>1. SUFFICES ASSUME NoFailedWrite PROVE \A c \in alerts' : c.told <= 1 + c.repeats
      BY <1>2, <1>3 DEF Told
    <3>2. (\A c \in alerts : c.told <= 1 + c.repeats) /\ a.told <= a.repeats
      BY <1>4, <3>1 DEF Told
    <3>3. a.told \in Nat /\ a.repeats \in Nat
      BY <2>2 DEF AlertRow
    <3>4. QED
      BY <2>5, <2>6, <3>2, <3>3
  <2>15. Paced'
    <3>1. PacedRow(b, clock, peak)
      BY <1>4, <2>2, <2>6 DEF Paced, PacedRow
    <3>2. QED
      BY <1>2, <1>4, <2>5, <3>1 DEF Paced
  <2>16. QED
    BY <2>8, <2>9, <2>10, <2>11, <2>12, <2>13, <2>14, <2>15 DEF RowsInv
<1>7. QED
  BY <1>1, <1>5, <1>6

-----------------------------------------------------------------------------
(* The endpoints.                                                           *)

\* A request leaves a snapshot that is right about the endpoints that were up all
\* along, and after one to an RPC endpoint no recovered one is taken for down.
LEMMA AskedEndpoints ==
  ASSUME TypeOK, UpHistory, Snapshots, NEW kind \in Kinds, Asks(kind),
         clock' = clock, up' = up, upSince' = upSince
  PROVE  /\ Snapshots'
         /\ \A url \in recovered \cap rpcUrls :
              kind = "rpc" \/ health[url] # "down" => health'[url] # "down"
<1>1. /\ clock \in Nat /\ checkedAt \in [Kinds -> Time] /\ upSince \in [alertIfDown -> Time]
      /\ recovered \subseteq alertIfDown /\ healthCheckInterval \in Nat
  BY AlertPipelineAssumption DEF TypeOK, EnvironmentOK, PollOK
<1>2. UrlsOf("rpc") = rpcUrls /\ UrlsOf("api") = apiUrls /\ "rpc" \in Kinds /\ "api" \in Kinds
      /\ kind \in {"rpc", "api"} /\ rpcUrls \subseteq Urls /\ rpcUrls \cap apiUrls = {}
  BY AlertConfigAssumption DEF UrlsOf, Kinds, Urls
<1>3. CASE ~ChecksHealth(kind)
  <2>1. health' = health /\ checkedAt' = checkedAt
    BY <1>3, AsksEffect
  <2>2. Snapshots'
    BY <2>1 DEF Snapshots
  <2>3. ASSUME kind = "rpc", NEW url \in recovered \cap rpcUrls PROVE health[url] # "down"
    <3>1. /\ checkedAt["rpc"] # Never /\ ~(clock - checkedAt["rpc"] > healthCheckInterval)
      BY <1>3, <2>3 DEF ChecksHealth
    <3>2. url \in up /\ clock - upSince[url] > healthCheckInterval /\ upSince[url] # Never
      BY <1>1, <2>3 DEF UpHistory
    <3>3. checkedAt["rpc"] \in Nat /\ upSince[url] \in Nat
      BY <1>1, <1>2, <2>3, <3>1, <3>2 DEF Time
    <3>4. ~(checkedAt["rpc"] <= upSince[url])
      BY <1>1, <3>1, <3>2, <3>3
    <3>5. QED
      BY <1>1, <2>3, <3>2, <3>4 DEF Snapshots
  <2>4. QED
    BY <2>1, <2>2, <2>3
<1>4. CASE ChecksHealth(kind) /\ kind = "rpc"
  <2>1. /\ checkedAt'["rpc"] = clock
        /\ \A url \in rpcUrls : health'[url] = IF url \in up THEN "healthy" ELSE "down"
    BY <1>2, <1>4, AsksEffect
  <2>2. Snapshots'
    <3>1. clock # Never
      BY <1>1 DEF Never
    <3>2. QED
      BY <1>1, <2>1, <3>1 DEF Snapshots
  <2>3. \A url \in recovered \cap rpcUrls : health'[url] # "down"
    BY <1>1, <2>1 DEF UpHistory
  <2>4. QED
    BY <2>2, <2>3
<1>5. CASE ChecksHealth(kind) /\ kind = "api"
  <2>1. /\ checkedAt'["rpc"] = checkedAt["rpc"]
        /\ \A url \in rpcUrls : health'[url] = health[url]
    BY <1>2, <1>5, AsksEffect
  <2>2. QED
    BY <1>5, <2>1 DEF Snapshots
<1>6. QED
  BY <1>2, <1>3, <1>4, <1>5

\* The steps of the environment and of a process that comes and goes.
LEMMA EndpointsOutside ==
  ASSUME TypeOK, Phases, EndpointsInv,
         Tick \/ Change \/ (\E url \in Urls : Flip(url)) \/ Start \/ Crash
  PROVE  EndpointsInv'
<1> USE DEF environment, snapshot, judgement
<1>1. /\ clock \in Nat /\ checkedAt \in [Kinds -> Time] /\ upSince \in [alertIfDown -> Time]
      /\ recovered \subseteq alertIfDown /\ healthCheckInterval \in Nat
      /\ seenUp \in [alertIfDown -> Nat] /\ downSince \in [alertIfDown -> Time]
      /\ alertIfDown \subseteq Urls /\ rpcUrls \subseteq Urls /\ rpcUrls \cap apiUrls = {}
  BY AlertPipelineAssumption, AlertConfigAssumption
     DEF TypeOK, EnvironmentOK, PollOK, Urls
<1>2. "rpc" \in Kinds /\ "api" \in Kinds /\ Time \subseteq Int /\ Nat \subseteq Int
  BY DEF Kinds, Time, Never
<1>3. /\ checkedAt["rpc"] \in Int
      /\ \A url \in alertIfDown : upSince[url] \in Int /\ seenUp[url] \in Int
  BY <1>1, <1>2
<1>4. CASE Tick
  <2>1. clock' = clock + 1 /\ \A t \in Int : t <= clock => t <= clock'
    BY <1>1, <1>4 DEF Tick
  <2>2. Outages'
    BY <1>3, <1>4, <2>1 DEF Tick, EndpointsInv, Outages
  <2>3. UpHistory'
    BY <1>1, <1>3, <1>4, <2>1 DEF Tick, EndpointsInv, UpHistory
  <2>4. Snapshots'
    BY <1>3, <1>4, <2>1 DEF Tick, EndpointsInv, Snapshots
  <2>5. LongDown' /\ NoneStale' /\ RpcAlarmsFresh'
    BY <1>4 DEF Tick, EndpointsInv, LongDown, NoneStale, RpcAlarmsFresh, EndpointOpening
  <2>6. QED
    BY <2>2, <2>3, <2>4, <2>5 DEF EndpointsInv
<1>5. CASE Change
  BY <1>5 DEF Change, Varies, EndpointsInv, Outages, LongDown, UpHistory, Snapshots,
     NoneStale, RpcAlarmsFresh, EndpointOpening
<1>6. ASSUME NEW url \in Urls, Flip(url) PROVE EndpointsInv'
  <2>1. /\ clock' = clock /\ checkedAt' = checkedAt /\ health' = health
        /\ recovered' = recovered \ {url} /\ pc' = pc /\ faults' = faults
        /\ events' = events /\ downSince' = downSince /\ seenUp' = seenUp
        /\ \A u \in alertIfDown : u # url => upSince'[u] = upSince[u] /\ (u \in up' <=> u \in up)
        /\ url \in alertIfDown /\ url \in up => upSince'[url] = Never /\ url \notin up'
        /\ url \in alertIfDown /\ url \notin up => upSince'[url] = clock /\ url \in up'
    BY <1>6 DEF Flip
  <2>2. Outages' /\ LongDown' /\ NoneStale' /\ RpcAlarmsFresh'
    BY <2>1 DEF EndpointsInv, Outages, LongDown, NoneStale, RpcAlarmsFresh, EndpointOpening
  <2>3. UpHistory'
    BY <1>1, <2>1 DEF EndpointsInv, UpHistory, Never
  <2>4. Snapshots'
    BY <1>1, <1>3, <2>1 DEF EndpointsInv, Snapshots
  <2>5. QED
    BY <2>2, <2>3, <2>4 DEF EndpointsInv
<1>7. CASE Start
  <2>1. /\ checkedAt'["rpc"] = clock /\ clock # Never
        /\ \A url \in rpcUrls : health'[url] = IF url \in up THEN "healthy" ELSE "down"
    BY <1>1, <1>2, <1>7 DEF Start, Never
  <2>2. Snapshots'
    BY <1>1, <1>7, <2>1 DEF Start, Snapshots
  <2>3. Outages'
    <3>1. downSince' = NotDown /\ \A url \in alertIfDown : seenUp'[url] = clock
      BY <1>7 DEF Start, Phases
    <3>2. QED
      BY <1>1, <1>7, <3>1 DEF Start, Outages, NotDown
  <2>4. events' = {} /\ pc' = "idle"
    BY <1>7 DEF Start, Phases
  <2>5. LongDown' /\ NoneStale' /\ RpcAlarmsFresh'
    BY <2>4 DEF LongDown, NoneStale, RpcAlarmsFresh, EndpointOpening
  <2>6. UpHistory'
    BY <1>7 DEF Start, EndpointsInv, UpHistory
  <2>7. QED
    BY <2>2, <2>3, <2>5, <2>6 DEF EndpointsInv
<1>8. CASE Crash
  <2>1. checkedAt'["rpc"] = Never /\ \A url \in rpcUrls : health'[url] = "unchecked"
    BY <1>1, <1>2, <1>8 DEF Crash, Unchecked
  <2>2. Snapshots'
    BY <1>1, <1>8, <2>1 DEF Crash, Snapshots, Never
  <2>3. Outages'
    <3>1. downSince' = NotDown /\ seenUp' = seenUp /\ clock' = clock
      BY <1>8 DEF Crash
    <3>2. QED
      BY <3>1 DEF EndpointsInv, Outages, NotDown
  <2>4. events' = {} /\ pc' = "down"
    BY <1>8 DEF Crash
  <2>5. LongDown' /\ NoneStale' /\ RpcAlarmsFresh'
    BY <2>4 DEF LongDown, NoneStale, RpcAlarmsFresh, EndpointOpening
  <2>6. UpHistory'
    BY <1>8 DEF Crash, EndpointsInv, UpHistory
  <2>7. QED
    BY <2>2, <2>3, <2>5, <2>6 DEF EndpointsInv
<1>9. QED
  BY <1>4, <1>5, <1>6, <1>7, <1>8

\* The steps of a poll up to its judgement.
LEMMA EndpointsReading ==
  ASSUME TypeOK, Phases, EndpointsInv,
         \/ BeginPoll \/ OpenAlertsReadFails \/ HeightReadFails
         \/ getLatestCommit \/ LatestCommitFails \/ resolveValidatorStatus
         \/ (\E kind \in Kinds : FetchMore(kind)) \/ WindowReadFails
  PROVE  EndpointsInv'
<1> USE DEF environment, snapshot, judgement
<1>1. "rpc" \in Kinds /\ "api" \in Kinds
  BY DEF Kinds
<1>2. clock' = clock /\ up' = up /\ upSince' = upSince /\ seenUp' = seenUp
      /\ downSince' = downSince /\ events' = events
  BY DEF BeginPoll, OpenAlertsReadFails, HeightReadFails, getLatestCommit,
     LatestCommitFails, resolveValidatorStatus, FetchMore, WindowReadFails
<1>3. Outages' /\ LongDown'
  BY <1>2 DEF EndpointsInv, Outages, LongDown, EndpointOpening
<1>4. pc \in {"idle", "rpc", "api", "evaluate"} /\ events' = {}
  BY <1>2 DEF Phases, BeginPoll, OpenAlertsReadFails, HeightReadFails, getLatestCommit,
     LatestCommitFails, resolveValidatorStatus, FetchMore, WindowReadFails
<1>5. RpcAlarmsFresh'
  BY <1>4 DEF RpcAlarmsFresh, EndpointOpening
<1>6. CASE BeginPoll
  <2>1. UpHistory'
    BY <1>6 DEF BeginPoll, EndpointsInv, UpHistory
  <2>2. Snapshots' /\ NoneStale'
    BY <1>6 DEF BeginPoll, EndpointsInv, Snapshots, NoneStale
  <2>3. QED
    BY <1>3, <1>5, <2>1, <2>2 DEF EndpointsInv
<1>7. CASE OpenAlertsReadFails \/ HeightReadFails \/ WindowReadFails
  <2>1. Fails("read") /\ recovered' = recovered /\ health' = health /\ checkedAt' = checkedAt
    BY <1>7 DEF OpenAlertsReadFails, HeightReadFails, WindowReadFails
  <2>2. faults'.read # ReadFaults
    <3>1. faults["read"] <= ReadFaults /\ faults["read"] \in Nat /\ ReadFaults \in Nat
      BY AlertPipelineAssumption DEF Phases, TypeOK
    <3>2. QED
      BY <2>1, <3>1, FailsEffect
  <2>3. NoneStale'
    BY <2>2 DEF NoneStale
  <2>4. UpHistory' /\ Snapshots'
    BY <1>2, <2>1 DEF EndpointsInv, UpHistory, Snapshots
  <2>5. QED
    BY <1>3, <1>5, <2>3, <2>4 DEF EndpointsInv
<1>8. ASSUME NEW kind \in Kinds, Asks(kind), recovered' = recovered,
             kind = "rpc" \/ pc \in {"api", "evaluate", "endpoints"},
             faults'.read = ReadFaults => faults.read = ReadFaults
      PROVE  EndpointsInv'
  <2>1. UpHistory'
    BY <1>2, <1>8 DEF EndpointsInv, UpHistory
  <2>2. /\ Snapshots'
        /\ \A url \in recovered \cap rpcUrls :
             kind = "rpc" \/ health[url] # "down" => health'[url] # "down"
    BY <1>2, <1>8, AskedEndpoints DEF EndpointsInv
  <2>3. NoneStale'
    BY <1>8, <2>2 DEF EndpointsInv, NoneStale
  <2>4. QED
    BY <1>3, <1>5, <2>1, <2>2, <2>3 DEF EndpointsInv
<1>9. ASSUME NEW kind \in Kinds, RequestFails(kind) PROVE faults'["read"] = faults["read"]
  BY <1>9, FailsEffect DEF RequestFails
<1>10. CASE getLatestCommit
  BY <1>1, <1>8, <1>10 DEF getLatestCommit
<1>11. CASE LatestCommitFails
  BY <1>1, <1>8, <1>9, <1>11 DEF LatestCommitFails
<1>12. CASE resolveValidatorStatus
  <2>1. faults'["read"] = faults["read"]
    BY <1>1, <1>9, <1>12 DEF resolveValidatorStatus
  <2>2. QED
    BY <1>1, <1>8, <1>12, <2>1 DEF resolveValidatorStatus
<1>13. ASSUME NEW kind \in Kinds, FetchMore(kind) PROVE EndpointsInv'
  BY <1>8, <1>13 DEF FetchMore
<1>14. QED
  BY <1>6, <1>7, <1>10, <1>11, <1>12, <1>13

\* The judgement and what is done about it.
LEMMA EndpointsActing ==
  ASSUME TypeOK, Phases, EndpointsInv, IsFiniteSet(alerts), Judge \/ ApplyEvent \/ dispatch
  PROVE  EndpointsInv'
<1> USE DEF environment, snapshot, judgement
<1>1. /\ clock' = clock /\ up' = up /\ upSince' = upSince /\ recovered' = recovered
      /\ health' = health /\ checkedAt' = checkedAt
  BY DEF Judge, ApplyEvent, dispatch
<1>2. UpHistory' /\ Snapshots'
  BY <1>1 DEF EndpointsInv, UpHistory, Snapshots
<1>3. pc' \notin {"api", "evaluate", "endpoints"}
  BY DEF Judge, ApplyEvent, dispatch
<1>4. NoneStale'
  BY <1>3 DEF NoneStale
<1>5. faults["read"] = faults'["read"]
  BY FailsEffect DEF Judge, ApplyEvent, dispatch
<1>6. CASE ApplyEvent \/ dispatch
  <2>1. events' \subseteq events /\ seenUp' = seenUp /\ downSince' = downSince
    BY <1>6 DEF ApplyEvent, dispatch
  <2>2. EndpointOpening' \subseteq EndpointOpening
    BY <2>1 DEF EndpointOpening
  <2>3. Outages' /\ LongDown' /\ RpcAlarmsFresh'
    BY <1>1, <1>5, <2>1, <2>2 DEF EndpointsInv, Outages, LongDown, RpcAlarmsFresh
  <2>4. QED
    BY <1>2, <1>4, <2>3 DEF EndpointsInv
<1>7. CASE Judge
  <2>1. /\ clock \in Nat /\ seenUp \in [alertIfDown -> Nat]
        /\ downSince \in [alertIfDown -> Time] /\ alerts \in SUBSET AlertRow
        /\ openAlerts = alerts /\ endpointDownAlertAfter \in Nat
    BY <1>7, AlertConfigAssumption DEF TypeOK, EnvironmentOK, PollOK, Judge, Phases
  <2>2. /\ downSince' = endpointDownSince(health, downSince, clock)
        /\ \A url \in alertIfDown :
             seenUp'[url] = IF health[url] = "healthy" THEN clock ELSE seenUp[url]
    BY <1>7 DEF Judge
  <2>3. \A url \in alertIfDown :
          /\ downSince'[url] \in Time
          /\ health[url] = "healthy" => downSince'[url] = Never
          /\ health[url] # "healthy" => downSince'[url] \in {downSince[url], clock}
          /\ health[url] = "down" => downSince'[url] # Never
    BY <2>2, OutageEffect
  <2>4. Outages'
    <3>1. ASSUME NEW url \in alertIfDown
          PROVE  /\ seenUp'[url] <= clock
                 /\ downSince'[url] # Never => seenUp'[url] <= downSince'[url]
      <4>1. /\ seenUp[url] \in Nat /\ seenUp[url] <= clock
            /\ downSince[url] # Never => seenUp[url] <= downSince[url]
        BY <2>1 DEF EndpointsInv, Outages
      <4>2. QED
        BY <2>1, <2>2, <2>3, <4>1
    <3>2. QED
      BY <1>1, <3>1 DEF Outages
  <2>5. ASSUME NEW e \in EndpointOpening'
        PROVE  /\ e.alert.subject \in alertIfDown /\ health[e.alert.subject] = "down"
               /\ clock - downSince'[e.alert.subject] >= endpointDownAlertAfter
               /\ e.alert.opened = clock
               /\ e.alert.type = DownType(e.alert.subject)
    <3>1. e \in events' /\ e.kind = "open" /\ e.alert.subject \in Urls
      BY <2>5 DEF EndpointOpening
    <3>2. e.alert.subject # chainWide
      BY <3>1, AlertConfigAssumption
    <3>3. e \in evaluateEndpoints(alerts, health, downSince, clock)
      BY <1>7, <3>1, <3>2, JudgedEvents DEF Grounded
    <3>4. QED
      BY <2>1, <2>2, <3>1, <3>3, EndpointsShape
  <2>6. LongDown'
    <3>1. ASSUME NEW e \in EndpointOpening'
          PROVE  /\ e.alert.subject \in alertIfDown
                 /\ e.alert.opened - seenUp'[e.alert.subject] >= endpointDownAlertAfter
      <4> DEFINE url == e.alert.subject
      <4>1. /\ url \in alertIfDown /\ health[url] = "down" /\ e.alert.opened = clock
            /\ clock - downSince'[url] >= endpointDownAlertAfter
        BY <2>5
      <4>2. downSince'[url] \in Int /\ seenUp'[url] \in Int /\ seenUp'[url] <= downSince'[url]
        BY <2>1, <2>2, <2>3, <2>4, <4>1 DEF Outages, Time, Never
      <4>3. QED
        BY <2>1, <4>1, <4>2
    <3>2. QED
      BY <3>1 DEF LongDown
  <2>7. RpcAlarmsFresh'
    <3>1. SUFFICES ASSUME faults.read = ReadFaults, NEW e \in EndpointOpening',
                          e.alert.type = "rpc_down"
                   PROVE  e.alert.subject \notin recovered
      BY <1>1, <1>5 DEF RpcAlarmsFresh
    <3>2. /\ e.alert.subject \in alertIfDown /\ health[e.alert.subject] = "down"
          /\ "rpc_down" = DownType(e.alert.subject)
      BY <2>5, <3>1
    <3>3. e.alert.subject \in rpcUrls
      BY <3>2, AlertConfigAssumption DEF DownType, Urls
    <3>4. pc \in {"evaluate", "endpoints"}
      BY <1>7 DEF Judge
    <3>5. QED
      BY <3>1, <3>2, <3>3, <3>4 DEF EndpointsInv, NoneStale
  <2>8. QED
    BY <1>2, <1>4, <2>4, <2>6, <2>7 DEF EndpointsInv
<1>8. QED
  BY <1>6, <1>7

-----------------------------------------------------------------------------
(* The invariant and what follows from it.                                   *)

\* The rows of an earlier configuration are as many as its endpoints, and all
\* that a process starts from is as the invariant says.
LEMMA InitAInv == Init => AInv
<1> SUFFICES ASSUME Init PROVE AInv
  OBVIOUS
<1> USE AlertConfigAssumption, AlertPipelineAssumption
<1> DEFINE former == {Alert("rpc_down", url, 0, 0) : url \in formerUrls}
<1>1. \A a \in former :
        /\ a \in AlertRow /\ a.type = "rpc_down" /\ a.subject \in formerUrls
        /\ a = Alert("rpc_down", a.subject, 0, 0)
        /\ a.opened = 0 /\ a.last = 0 /\ a.repeats = 0 /\ a.told = 0
  BY DEF Alert, AlertRow, AlertTypes, Subjects
<1>2. alerts \subseteq former /\ events = {} /\ event = {} /\ pc = "down"
  BY DEF Init
<1>3. IsFiniteSet(former)
  <2> DEFINE f == [url \in formerUrls |-> Alert("rpc_down", url, 0, 0)]
  <2>1. f \in Surjection(formerUrls, former)
    BY DEF Surjection
  <2>2. QED
    <3> HIDE DEF f, former
    <3>1. QED
      BY <2>1, FS_Surjection
<1>4. IsFiniteSet(alerts)
  BY <1>2, <1>3, FS_Subset
<1> HIDE DEF former
<1>5. TypeOK
  <2>1. EnvironmentOK
    BY DEF Init, EnvironmentOK, World, Time, Never
  <2>2. PollOK
    BY DEF Init, PollOK, Unchecked, NotDown, Time
  <2>3. alerts \subseteq AlertRow
    BY <1>1, <1>2
  <2>4. QED
    BY <2>1, <2>2, <2>3 DEF Init, TypeOK
<1>6. Phases
  BY DEF Init, Phases
<1>7. RowsInv
  <2>1. OneOpenPerSubject
    BY <1>1, <1>2 DEF OneOpenPerSubject
  <2>2. Keyed /\ Pending
    BY <1>2 DEF Keyed, Pending
  <2>3. \A a \in alerts : ~IsStatus(a)
    BY <1>1, <1>2 DEF IsStatus, VALIDATOR_STATUS_ALERTS
  <2>4. StatusSubject /\ Exclusive
    BY <1>2, <2>3 DEF StatusSubject, Exclusive
  <2>5. Told
    BY <1>1, <1>2 DEF Told
  <2>6. Paced
    <3>1. clock = 0 /\ peak = world.level /\ world.level \in Int
      BY DEF Init, World
    <3>2. QED
      BY <1>1, <1>2, <3>1 DEF Paced, PacedRow
  <2>7. QED
    BY <1>4, <2>1, <2>2, <2>4, <2>5, <2>6 DEF RowsInv
<1>8. EndpointsInv
  <2>1. Outages
    BY DEF Init, Outages, NotDown
  <2>2. LongDown /\ NoneStale /\ RpcAlarmsFresh
    BY <1>2 DEF LongDown, NoneStale, RpcAlarmsFresh, EndpointOpening
  <2>3. UpHistory
    BY DEF Init, UpHistory, Never
  <2>4. Snapshots
    BY DEF Init, Snapshots, Unchecked, Kinds, Never, Urls
  <2>5. QED
    BY <2>1, <2>2, <2>3, <2>4 DEF EndpointsInv
<1>9. QED
  BY <1>5, <1>6, <1>7, <1>8 DEF AInv

\* Every step keeps it.
LEMMA NextAInv == AInv /\ [Next]_vars => AInv'
<1> SUFFICES ASSUME AInv, [Next]_vars PROVE AInv'
  OBVIOUS
<1>1. TypeOK /\ Phases /\ RowsInv /\ EndpointsInv /\ IsFiniteSet(alerts)
  BY DEF AInv, RowsInv
<1>2. /\ clock \in Int /\ peak \in Int /\ world \in World /\ world.level \in Int
      /\ world.level <= peak
  BY <1>1 DEF TypeOK, EnvironmentOK, World, RowsInv, Paced
<1>3. CASE Tick \/ Change \/ (\E url \in Urls : Flip(url)) \/ Start \/ Crash
  <2>1. TypeOK' /\ Phases'
    BY <1>1, <1>3, TypedOutside
  <2>2. EndpointsInv'
    BY <1>1, <1>3, EndpointsOutside
  <2>3. alerts' = alerts
    BY <1>3 DEF Tick, Change, Flip, Start, Crash
  <2>4. \/ events' = events /\ event' = event
        \/ events' = {} /\ event' = {}
    BY <1>3 DEF Tick, Change, Flip, Start, Crash, judgement
  <2>5. clock <= clock'
    BY <1>2, <1>3 DEF Tick, Change, Flip, Start, Crash, environment
  <2>6. peak <= peak' /\ world'.level <= peak'
    <3>1. CASE Change
      <4>1. world' \in World /\ world'.level \in Int
        BY <2>1 DEF TypeOK, EnvironmentOK, World
      <4>2. QED
        BY <1>2, <3>1, <4>1 DEF Change
    <3>2. CASE peak' = peak /\ world' = world
      BY <1>2, <3>2
    <3>3. QED
      BY <1>3, <3>1, <3>2 DEF Tick, Flip, Start, Crash, environment
  <2>7. faults'["write"] = faults["write"]
    BY <1>1, <1>3, FailsEffect DEF Tick, Change, Flip, Start, Crash
  <2>8. RowsInv'
    BY <1>1, <2>1, <2>3, <2>4, <2>5, <2>6, <2>7, RowsQuiet
  <2>9. QED
    BY <2>1, <2>2, <2>8 DEF AInv
<1>4. CASE \/ BeginPoll \/ OpenAlertsReadFails \/ HeightReadFails
           \/ getLatestCommit \/ LatestCommitFails \/ resolveValidatorStatus
           \/ (\E kind \in Kinds : FetchMore(kind)) \/ WindowReadFails
  <2>1. TypeOK' /\ Phases'
    BY <1>1, <1>4, TypedReading
  <2>2. EndpointsInv'
    BY <1>1, <1>4, EndpointsReading
  <2>3. /\ alerts' = alerts /\ events' = events /\ event' = event
        /\ clock' = clock /\ peak' = peak /\ world' = world
    BY <1>4 DEF BeginPoll, OpenAlertsReadFails, HeightReadFails, getLatestCommit,
       LatestCommitFails, resolveValidatorStatus, FetchMore, WindowReadFails,
       environment, judgement
  <2>4. faults'["write"] = faults["write"]
    BY <1>1, <1>4, FailsEffect DEF BeginPoll, OpenAlertsReadFails, HeightReadFails,
       getLatestCommit, LatestCommitFails, resolveValidatorStatus, FetchMore,
       WindowReadFails, RequestFails
  <2>5. RowsInv'
    BY <1>1, <1>2, <2>1, <2>3, <2>4, RowsQuiet
  <2>6. QED
    BY <2>1, <2>2, <2>5 DEF AInv
<1>5. CASE Judge \/ ApplyEvent \/ dispatch
  <2>1. TypeOK' /\ Phases'
    BY <1>1, <1>5, TypedActing
  <2>2. EndpointsInv'
    BY <1>1, <1>5, EndpointsActing
  <2>3. RowsInv'
    BY <1>1, <1>5, RowsJudged, RowsApplied, RowsDispatched
  <2>4. QED
    BY <2>1, <2>2, <2>3 DEF AInv
<1>6. CASE UNCHANGED vars
  BY <1>6 DEF vars, environment, snapshot, judgement, AInv, TypeOK, EnvironmentOK, PollOK,
     Phases, RowsInv, OneOpenPerSubject, Keyed, Pending, StatusSubject, Exclusive, Told,
     Paced, RowOf, NoFailedWrite, EndpointsInv, Outages, LongDown, UpHistory, Snapshots,
     NoneStale, RpcAlarmsFresh, EndpointOpening
<1>7. QED
  BY <1>3, <1>4, <1>5, <1>6 DEF Next, Poll

(* The invariant holds in every state of every poll, whatever fails and whenever *)
(* the worker dies (doPoll, applyAlertEvents and AlertEvaluator).              *)
THEOREM AlertInvariant == Spec => []AInv
BY InitAInv, NextAInv, PTL DEF Spec

(* The variables of the pipeline keep their types.                           *)
THEOREM AlertTypeCorrect == Spec => []TypeOK
<1>1. AInv => TypeOK
  BY DEF AInv
<1>2. QED
  BY <1>1, AlertInvariant, PTL

(* openByType and the map of evaluateEndpoints never lose an alert: no two open  *)
(* rows have one type and subject, whatever fails and whenever the worker dies. *)
THEOREM OpenAlertsAreUnique == Spec => []OneOpenPerSubject
<1>1. AInv => OneOpenPerSubject
  BY DEF AInv, RowsInv
<1>2. QED
  BY <1>1, AlertInvariant, PTL

(* checkValidatorStatus keeps at most one of inactive, jailed and tombstoned open, *)
(* between its writes and across crashes too, as long as no write fails.        *)
THEOREM StatusAlertIsUnique == Spec => []StatusExclusive
<1>1. AInv => StatusExclusive
  BY DEF AInv, RowsInv, Exclusive, StatusExclusive, IsStatus
<1>2. QED
  BY <1>1, AlertInvariant, PTL

(* Every notification was due: an alert is announced once, and once more for each  *)
(* repeat that the interval or the escalation of the ratio allowed.             *)
THEOREM NotificationsAreDue == Spec => []ToldBudget
<1>1. AInv => ToldBudget
  <2> SUFFICES ASSUME AInv, NoFailedWrite, NEW a \in alerts
               PROVE  /\ a.told <= 1 + a.repeats
                      /\ a.type = "consecutive_miss" =>
                           a.repeats * consecutiveMissAlert.repeatInterval <= clock - a.opened
                      /\ a.type = "percentage_miss" => a.repeats + 1 <= peak
    BY DEF ToldBudget
  <2>1. /\ a.repeats \in Nat /\ a.opened \in Nat /\ a.last \in Nat /\ clock \in Nat
        /\ consecutiveMissAlert.repeatInterval \in Nat
    BY AlertConfigAssumption DEF AInv, TypeOK, EnvironmentOK, AlertRow
  <2>2. a.told <= 1 + a.repeats /\ PacedRow(a, clock, peak)
    BY DEF AInv, RowsInv, Told, Paced
  <2>3. a.repeats * consecutiveMissAlert.repeatInterval \in Int
    BY <2>1
  <2>4. QED
    BY <2>1, <2>2, <2>3 DEF PacedRow
<1>2. QED
  BY <1>1, AlertInvariant, PTL

(* No endpoint alert is early: for endpointDownAlertAfter no poll of this process  *)
(* found the endpoint healthy.                                               *)
THEOREM EndpointAlertsAreNotEarly == Spec => []DownLongEnough
<1>1. AInv => DownLongEnough
  BY DEF AInv, EndpointsInv, LongDown, DownLongEnough
<1>2. QED
  BY <1>1, AlertInvariant, PTL

(* No rpc_down alert opens for an endpoint that has been back for longer than the  *)
(* health checks' interval, unless the stored height could not be read.         *)
THEOREM RpcAlertsAreFresh == Spec => []RpcAlarmsFresh
<1>1. AInv => RpcAlarmsFresh
  BY DEF AInv, EndpointsInv
<1>2. QED
  BY <1>1, AlertInvariant, PTL

-----------------------------------------------------------------------------
(* What is silenced.                                                        *)

\* No more alerts are silenced than there are rows.
LEMMA SilencedFinite ==
  ASSUME IsFiniteSet(alerts)
  PROVE  IsFiniteSet(Silenced)
<1> DEFINE S == {b \in alerts : Unannounced(b)}
           T == {<<a.type, a.subject>> : a \in S}
           f == [a \in S |-> <<a.type, a.subject>>]
<1>1. IsFiniteSet(S)
  BY FS_Subset
<1>2. f \in Surjection(S, T)
  BY DEF Surjection
<1>3. IsFiniteSet(T)
  <2> HIDE DEF S, T, f
  <2> QED BY <1>1, <1>2, FS_Surjection
<1>4. QED
  BY <1>3 DEF Silenced

\* One more, of those and another one.
LEMMA AtMostOneMore ==
  ASSUME NEW S, IsFiniteSet(S), NEW x, NEW T \in SUBSET (S \cup {x})
  PROVE  /\ Cardinality(S) \in Nat /\ Cardinality(T) \in Nat
         /\ Cardinality(T) <= Cardinality(S) + 1
<1>1. IsFiniteSet(S \cup {x}) /\ Cardinality(S \cup {x}) <= Cardinality(S) + 1
  <2>1. Cardinality(S) \in Nat
    BY FS_CardinalityType
  <2>2. /\ IsFiniteSet(S \cup {x})
        /\ Cardinality(S \cup {x}) = IF x \in S THEN Cardinality(S) ELSE Cardinality(S) + 1
    BY FS_AddElement
  <2>3. QED
    BY <2>1, <2>2
<1>2. IsFiniteSet(T) /\ Cardinality(T) <= Cardinality(S \cup {x})
  BY <1>1, FS_Subset
<1>3. Cardinality(S) \in Nat /\ Cardinality(T) \in Nat /\ Cardinality(S \cup {x}) \in Nat
  BY <1>1, <1>2, FS_CardinalityType
<1>4. QED
  BY <1>1, <1>2, <1>3

\* A row that is written is silenced if it was.
LEMMA WrittenIsAnnouncing ==
  ASSUME AInv, ApplyEvent
  PROVE  Silenced' \subseteq Silenced
<1>1. TypeOK /\ Phases /\ RowsInv
  BY DEF AInv
<1>2. PICK e \in events :
        /\ alerts' = Applied(e) \/ alerts' = alerts
        /\ event' = {e}
  BY DEF ApplyEvent
<1>3. event = {} /\ clock' = clock /\ e \in Event
  BY <1>1, <1>2 DEF ApplyEvent, Phases, environment, TypeOK, PollOK
<1>4. /\ e.kind = "open" => \A a \in alerts : ~SameKey(a, e.alert)
      /\ e.kind # "open" => e.alert \in alerts /\ RowOf(e) = {e.alert}
  BY <1>1, <1>2, StandingRow
<1>5. ASSUME NEW a \in alerts', Unannounced(a)'
      PROVE  \E b \in alerts : Unannounced(b) /\ b.type = a.type /\ b.subject = a.subject
  <2>1. a.subject \notin formerUrls
    BY <1>5 DEF Unannounced
  <2>2. Announcing(a)' <=> a \in RowOf(e)'
    BY <1>2 DEF Announcing
  <2>3. \A b \in alerts : b \in AlertRow
    BY <1>1 DEF TypeOK
  <2>4. ~Announcing(a) /\ \A b : ~Announcing(b)
    BY <1>3 DEF Announcing
  <2>5. CASE a \in alerts
    <3>1. a.told < 1 + a.repeats
      BY <1>5, <2>3, <2>5 DEF Unannounced, AlertRow
    <3>2. QED
      BY <2>1, <2>4, <2>5, <3>1 DEF Unannounced
  <2>6. CASE a \notin alerts /\ e.kind = "open"
    <3>1. a = e.alert
      BY <1>2, <2>6 DEF Applied
    <3>2. a \in RowOf(e)'
      BY <3>1 DEF RowOf
    <3>3. a.told < a.repeats
      BY <1>5, <2>2, <3>2 DEF Unannounced
    <3>4. e.alert.told = 0 /\ e.alert.repeats = 0
      BY <1>1, <1>2, <2>6 DEF RowsInv, Paced, PacedEvent
    <3>5. QED
      BY <3>1, <3>3, <3>4
  <2>7. CASE a \notin alerts /\ e.kind = "repeat"
    <3>1. /\ e.alert \in alerts /\ e.alert \in AlertRow
          /\ a = [e.alert EXCEPT !.last = clock, !.repeats = e.alert.repeats + 1]
      BY <1>2, <1>4, <2>3, <2>7 DEF Applied
    <3>2. clock \in Nat /\ e.alert.repeats \in Nat /\ e.alert.told \in Nat
      BY <1>1, <3>1 DEF TypeOK, EnvironmentOK, AlertRow
    <3>3. Touched(e.alert, a, clock, e.alert.repeats)
      BY <3>1, <3>2, TouchedRow
    <3>4. a \in RowOf(e)'
      BY <3>3 DEF Touched, RowOf
    <3>5. a.told < a.repeats
      BY <1>5, <2>2, <3>4 DEF Unannounced
    <3>6. e.alert.told < 1 + e.alert.repeats /\ e.alert.subject \notin formerUrls
      BY <2>1, <3>2, <3>3, <3>5 DEF Touched
    <3>7. QED
      BY <2>4, <3>1, <3>3, <3>6 DEF Unannounced, Touched
  <2>8. CASE a \notin alerts /\ e.kind = "close"
    BY <1>2, <2>8 DEF Applied
  <2>9. QED
    BY <1>3, <2>5, <2>6, <2>7, <2>8 DEF Event
<1>6. QED
  BY <1>5 DEF Silenced

\* With the announcement under way, one alert.
LEMMA LosesOne ==
  ASSUME TypeOK, OneOpenPerSubject, alerts' = alerts, event' = {},
         NEW e, event \subseteq {e}
  PROVE  Silenced' \subseteq Silenced \cup {<<e.alert.type, e.alert.subject>>}
<1>1. ASSUME NEW a \in alerts, Unannounced(a)', a \notin RowOf(e)
      PROVE  Unannounced(a)
  BY <1>1 DEF Unannounced, Announcing
<1>2. ASSUME NEW a \in alerts, a \in RowOf(e)
      PROVE  a.type = e.alert.type /\ a.subject = e.alert.subject
  BY <1>2, RowsOfAnEvent DEF SameKey
<1>3. QED
  BY <1>1, <1>2 DEF Silenced

\* An announcement that is made silences nothing; one that is lost, its own alert.
LEMMA DispatchedIsAnnounced ==
  ASSUME AInv, dispatch
  PROVE  /\ \E x : Silenced' \subseteq Silenced \cup {x}
         /\ faults' = faults => Silenced' \subseteq Silenced
<1>1. TypeOK /\ Phases /\ RowsInv /\ OneOpenPerSubject
  BY DEF AInv, RowsInv
<1>2. PICK e \in event :
        \/ /\ alerts' = (alerts \ RowOf(e)) \cup {[a EXCEPT !.told = @ + 1] : a \in RowOf(e)}
           /\ faults' = faults
        \/ alerts' = alerts /\ Fails("send")
  BY DEF dispatch
<1>3. event = {e} /\ event' = {}
  BY <1>1, <1>2 DEF Phases, dispatch
<1>4. \A a : (Announcing(a) <=> a \in RowOf(e)) /\ ~Announcing(a)'
  BY <1>3 DEF Announcing
<1>5. \A b \in alerts : b \in AlertRow /\ b.told \in Nat /\ b.repeats \in Nat
  BY <1>1 DEF TypeOK, AlertRow
<1>6. CASE /\ alerts' = (alerts \ RowOf(e)) \cup {[a EXCEPT !.told = @ + 1] : a \in RowOf(e)}
           /\ faults' = faults
  <2>1. ASSUME NEW a \in alerts', Unannounced(a)'
        PROVE  \E b \in alerts : Unannounced(b) /\ b.type = a.type /\ b.subject = a.subject
    <3>1. a.subject \notin formerUrls /\ a.told < 1 + a.repeats
      BY <1>4, <2>1 DEF Unannounced
    <3>2. CASE a \in alerts \ RowOf(e)
      BY <1>4, <3>1, <3>2 DEF Unannounced
    <3>3. CASE a \notin alerts \ RowOf(e)
      <4>1. PICK b \in RowOf(e) : a = [b EXCEPT !.told = @ + 1]
        BY <1>6, <3>3
      <4>2. b \in alerts /\ b \in AlertRow
        BY <1>1, <4>1, RowsOfAnEvent
      <4>3. /\ a.type = b.type /\ a.subject = b.subject /\ a.repeats = b.repeats
            /\ a.told = b.told + 1
        BY <4>1, <4>2, ToldRow
      <4>4. b.told < b.repeats
        BY <1>5, <3>1, <4>2, <4>3
      <4>5. QED
        BY <1>4, <3>1, <4>1, <4>2, <4>3, <4>4 DEF Unannounced
    <3>4. QED
      BY <3>2, <3>3
  <2>2. Silenced' \subseteq Silenced
    BY <2>1 DEF Silenced
  <2>3. QED
    BY <2>2
<1>7. CASE alerts' = alerts /\ Fails("send")
  <2>1. faults' # faults
    <3>1. faults'["send"] = faults["send"] - 1 /\ faults["send"] \in Nat
      BY <1>1, <1>7, FailsEffect DEF TypeOK
    <3>2. QED
      BY <3>1
  <2>2. Silenced' \subseteq Silenced \cup {<<e.alert.type, e.alert.subject>>}
    BY <1>1, <1>7, LosesOne, <1>3
  <2>3. QED
    BY <2>1, <2>2
<1>8. QED
  BY <1>2, <1>6, <1>7

\* Every step that silences one more is a loss.
LEMMA SilencedNext ==
  ASSUME AInv, SilencedOneByOne, [Next]_vars
  PROVE  SilencedOneByOne'
<1>1. /\ TypeOK /\ Phases /\ OneOpenPerSubject /\ IsFiniteSet(Silenced)
      /\ faults["crash"] \in Nat /\ faults["send"] \in Nat
      /\ Crashes \in Nat /\ SendFaults \in Nat
  BY SilencedFinite, AlertPipelineAssumption DEF AInv, RowsInv, TypeOK
<1>2. Cardinality(Silenced) \in Nat /\ Cardinality(Silenced) <= Losses
  BY <1>1, FS_CardinalityType DEF SilencedOneByOne
<1>3. ASSUME Silenced' \subseteq Silenced, Losses' >= Losses
      PROVE  SilencedOneByOne'
  <2>1. IsFiniteSet(Silenced') /\ Cardinality(Silenced') <= Cardinality(Silenced)
    BY <1>1, <1>3, FS_Subset
  <2>2. Cardinality(Silenced') \in Nat /\ Losses \in Int /\ Losses' \in Int
    <3>1. faults'["crash"] \in Nat /\ faults'["send"] \in Nat
      BY NextAInv DEF AInv, TypeOK
    <3>2. Losses \in Int /\ Losses' \in Int
      BY <1>1, <3>1 DEF Losses
    <3>3. Cardinality(Silenced') \in Nat
      BY <2>1, FS_CardinalityType
    <3>4. QED
      BY <3>2, <3>3
  <2>3. QED
    BY <1>2, <1>3, <2>1, <2>2 DEF SilencedOneByOne
<1>4. ASSUME NEW x, Silenced' \subseteq Silenced \cup {x}, Losses' = Losses + 1
      PROVE  SilencedOneByOne'
  <2>1. Cardinality(Silenced') \in Nat /\ Cardinality(Silenced') <= Cardinality(Silenced) + 1
    BY <1>1, <1>4, AtMostOneMore
  <2>2. Losses \in Int
    BY <1>1 DEF Losses
  <2>3. QED
    BY <1>2, <1>4, <2>1, <2>2 DEF SilencedOneByOne
<1>5. Losses \in Int
  BY <1>1 DEF Losses
<1>6. ASSUME alerts' = alerts, event' = event
      PROVE  Silenced' = Silenced
  BY <1>6 DEF Silenced, Unannounced, Announcing, RowOf
<1>7. CASE Tick \/ Change \/ (\E url \in Urls : Flip(url)) \/ Start
  BY <1>3, <1>5, <1>6, <1>7 DEF Tick, Change, Flip, Start, Losses
<1>8. CASE Crash
  <2>1. alerts' = alerts /\ event' = {} /\ Losses' = Losses + 1
    BY <1>1, <1>8, FailsEffect DEF Crash, Losses
  <2>2. CASE event = {}
    <3>1. Silenced' = Silenced
      BY <1>6, <2>1, <2>2
    <3>2. QED
      BY <1>3, <1>5, <2>1, <3>1
  <2>3. CASE event # {}
    <3>1. PICK e \in event : event \subseteq {e}
      BY <1>1, <2>3 DEF Phases
    <3>2. Silenced' \subseteq Silenced \cup {<<e.alert.type, e.alert.subject>>}
      BY <1>1, <2>1, <3>1, LosesOne
    <3>3. QED
      BY <1>4, <2>1, <3>2
  <2>4. QED
    BY <2>2, <2>3
<1>9. CASE \/ BeginPoll \/ OpenAlertsReadFails \/ HeightReadFails
           \/ getLatestCommit \/ LatestCommitFails \/ resolveValidatorStatus
           \/ (\E kind \in Kinds : FetchMore(kind)) \/ WindowReadFails
  <2>1. alerts' = alerts /\ event' = event
    BY <1>9 DEF BeginPoll, OpenAlertsReadFails, HeightReadFails, getLatestCommit,
       LatestCommitFails, resolveValidatorStatus, FetchMore, WindowReadFails
  <2>2. faults'["send"] = faults["send"] /\ faults'["crash"] = faults["crash"]
    BY <1>1, <1>9, FailsEffect DEF BeginPoll, OpenAlertsReadFails, HeightReadFails,
       getLatestCommit, LatestCommitFails, resolveValidatorStatus, FetchMore,
       WindowReadFails, RequestFails
  <2>3. QED
    BY <1>3, <1>5, <1>6, <2>1, <2>2 DEF Losses
<1>10. CASE Judge
  BY <1>3, <1>5, <1>6, <1>10 DEF Judge, Losses
<1>11. CASE ApplyEvent
  <2>1. faults'["send"] = faults["send"] /\ faults'["crash"] = faults["crash"]
    BY <1>1, <1>11, FailsEffect DEF ApplyEvent
  <2>2. Losses' = Losses
    BY <2>1 DEF Losses
  <2>3. QED
    BY <1>3, <1>5, <1>11, <2>2, WrittenIsAnnouncing
<1>12. CASE dispatch
  <2>1. CASE faults' = faults
    BY <1>3, <1>5, <1>12, <2>1, DispatchedIsAnnounced DEF Losses
  <2>2. CASE Fails("send")
    <3>1. Losses' = Losses + 1
      BY <1>1, <2>2, FailsEffect DEF Losses
    <3>2. QED
      BY <1>4, <1>12, <3>1, DispatchedIsAnnounced
  <2>3. QED
    BY <1>12, <2>1, <2>2 DEF dispatch
<1>13. CASE UNCHANGED vars
  BY <1>3, <1>5, <1>6, <1>13 DEF vars, Losses
<1>14. QED
  BY <1>7, <1>8, <1>9, <1>10, <1>11, <1>12, <1>13 DEF Next, Poll

(* What doPoll stores it announces: the alerts that are silenced are no more than  *)
(* the deliveries that failed and the deaths of the worker, whatever it opens,   *)
(* repeats and closes meanwhile.                                             *)
THEOREM NothingElseIsSilenced == Spec => []SilencedOneByOne
<1>1. Init => SilencedOneByOne
  <2> SUFFICES ASSUME Init PROVE SilencedOneByOne
    OBVIOUS
  <2>1. \A a \in alerts : a.subject \in formerUrls
    BY DEF Init, Alert
  <2>2. Silenced = {}
    BY <2>1 DEF Silenced, Unannounced
  <2>3. Cardinality({}) = 0 /\ Losses = 0
    BY FS_EmptySet, AlertPipelineAssumption DEF Init, Losses
  <2>4. QED
    BY <2>2, <2>3 DEF SilencedOneByOne
<1>2. AInv /\ SilencedOneByOne /\ [Next]_vars => SilencedOneByOne'
  BY SilencedNext
<1>3. QED
  BY <1>1, <1>2, AlertInvariant, PTL DEF Spec
=============================================================================
