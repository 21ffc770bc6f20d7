---------------------------- MODULE LiveViewProofs ----------------------------
(***************************************************************************)
(* What LiveView guarantees for every number of alerts, polls, strips,      *)
(* visits and faults.  The connections follow from one fact about the hub    *)
(* and one about each list; the order of the announcements from what a poll  *)
(* that is alone knows: what it has read is at least as new as what was      *)
(* announced before it began.                                               *)
(***************************************************************************)
EXTENDS LiveView, FiniteSetTheorems, TLAPS

AnyEvent == Event("alert_opened", Alerts) \cup Event("alert_closed", Alerts)

PollState == [at : {"idle", "height", "block", "alerts"}, answer : {"none", "ok", "failed"},
              height : 0..MaxHeight, open : SUBSET Alerts]

ListState == [life : {"new", "mounted", "gone", "haunted"},
              es : {"none", "connecting", "open"}, timers : 0..Faults]

DatabaseOK == rows \in [Alerts -> {"none", "open", "closed"}] /\ height \in 0..MaxHeight

WatcherOK ==
  /\ started \in {"height", "alerts", "up"}
  /\ polls \in [Poll -> PollState]
  /\ {lastHeight, lastBlock, unread} \subseteq 0..MaxHeight /\ lastAlertIds \subseteq Alerts
  /\ told \in [Alerts -> {"untold", "open", "closed"}]
  /\ overlapped \in BOOLEAN

\* Every timer of a list was paid for by a fault.
ListsOK ==
  /\ lists \in [List -> ListState] /\ faults \in 0..Faults
  /\ \A i \in List : lists[i].timers + faults <= Faults

\* One list is on show exactly on the page of a chain.
PageOK ==
  /\ page \in {"dashboard", "chain"}
  /\ page = "dashboard" => Mounted = {}
  /\ page = "chain" => \E i \in List : Mounted = {i}

ViewOK ==
  /\ wire \in Seq(AnyEvent)
  /\ request \in [at : {"none", "asked", "read"}, read : SUBSET Alerts]
  /\ shown \in [Alerts -> Nat] /\ missed \in BOOLEAN

HubOK ==
  /\ hub \in [refCount : 0..Strips, es : BOOLEAN, timer : BOOLEAN]
  /\ (hub.es \/ hub.timer) <=> hub.refCount > 0

\* The list on show has a connection or is about to get one; one that was left
\* for good has neither.
ListsKept ==
  /\ \A i \in Mounted : lists[i].es # "none" \/ lists[i].timers > 0
  /\ \A i \in List : lists[i].life = "gone" => lists[i].es = "none" /\ lists[i].timers = 0

-----------------------------------------------------------------------------
(* The database.                                                            *)

LEMMA DatabaseNext ==
  ASSUME DatabaseOK, [Next]_vars
  PROVE  DatabaseOK' /\ height' >= height
         /\ \A a \in Alerts : /\ rows[a] # "none" => rows'[a] # "none"
                              /\ rows[a] = "closed" => rows'[a] = "closed"
<1>a. ASSUME UNCHANGED database
      PROVE  /\ DatabaseOK' /\ height' >= height
             /\ \A a \in Alerts : /\ rows[a] # "none" => rows'[a] # "none"
                                  /\ rows[a] = "closed" => rows'[a] = "closed"
  BY <1>a, LiveViewAssumption DEF DatabaseOK, database
<1>1. CASE \E a \in Alerts : OpenAlert(a) \/ CloseAlert(a)
  <2>1. PICK a \in Alerts : OpenAlert(a) \/ CloseAlert(a)
    BY <1>1
  <2>2. /\ rows[a] # "closed" /\ UNCHANGED height
        /\ \E s \in {"open", "closed"} : rows' = [rows EXCEPT ![a] = s]
    BY <2>1 DEF OpenAlert, CloseAlert
  <2>3. QED
    BY <2>2, LiveViewAssumption DEF DatabaseOK
<1>2. CASE StoreBlock
  BY <1>2, LiveViewAssumption DEF StoreBlock, DatabaseOK
<1>3. CASE StartHeight \/ StartAlerts \/ (\E p \in Poll : Watch(p))
  BY <1>3, <1>a, Zenon DEF StartHeight, StartAlerts, Watch, Tick, Answers, checkHeight, publishBlock,
     checkAlerts
<1>4. CASE \E i \in List : Connect(i) \/ StreamBreaks(i) \/ ShowChain(i)
  BY <1>4, <1>a, Zenon DEF Connect, StreamOpens, Reconnect, StreamBreaks, ShowChain
<1>5. CASE HubBreaks \/ HubReconnects \/ DashboardLoads \/ ShowDashboard
  BY <1>5, <1>a, Zenon DEF HubBreaks, HubReconnects, DashboardLoads, ShowDashboard
<1>6. CASE FetchFails \/ Shows
  BY <1>6, <1>a, Zenon DEF FetchFails, Shows, AlertsRead, AlertsFetched, EventArrives
<1>7. CASE UNCHANGED vars
  BY <1>7, <1>a, Zenon DEF vars
<1>8. QED
  BY <1>1, <1>2, <1>3, <1>4, <1>5, <1>6, <1>7, Zenon DEF Next

-----------------------------------------------------------------------------
(* The watcher.                                                             *)

\* Only the watcher's own steps touch its variables and its history.
LEMMA OthersLeaveWatcher ==
  ASSUME [Next]_vars
  PROVE  \/ UNCHANGED <<watcher, overlapped, unread>>
         \/ UNCHANGED database /\ (StartHeight \/ StartAlerts \/ \E p \in Poll : Watch(p))
<1>1. CASE (\E a \in Alerts : OpenAlert(a) \/ CloseAlert(a)) \/ StoreBlock
  BY <1>1, Zenon DEF OpenAlert, CloseAlert, StoreBlock, history
<1>2. CASE StartHeight \/ StartAlerts \/ (\E p \in Poll : Watch(p))
  BY <1>2, Zenon DEF StartHeight, StartAlerts, Watch, Tick, Answers, checkHeight,
     publishBlock, checkAlerts
<1>3. CASE \E i \in List : Connect(i) \/ StreamBreaks(i) \/ ShowChain(i)
  BY <1>3, Zenon DEF Connect, StreamOpens, Reconnect, StreamBreaks, ShowChain, history
<1>4. CASE HubBreaks \/ HubReconnects \/ DashboardLoads \/ ShowDashboard
  BY <1>4, Zenon DEF HubBreaks, HubReconnects, DashboardLoads, ShowDashboard, history
<1>5. CASE FetchFails \/ Shows
  BY <1>5, Zenon DEF FetchFails, Shows, AlertsRead, AlertsFetched, EventArrives, history
<1>6. CASE UNCHANGED vars
  BY <1>6, Zenon DEF vars, history
<1>7. QED
  BY <1>1, <1>2, <1>3, <1>4, <1>5, <1>6, Zenon DEF Next

\* A poll that moves on to its next call, or ends.
LEMMA GoesEffect ==
  ASSUME NEW p \in Poll, NEW at \in {"idle", "height", "block", "alerts"},
         polls \in [Poll -> PollState], Goes(p, at)
  PROVE  /\ polls' \in [Poll -> PollState]
         /\ polls'[p].at = at /\ polls'[p].answer = "none"
         /\ polls'[p].height = 0 /\ polls'[p].open = {}
         /\ \A q \in Poll : q # p => polls'[q] = polls[q]
<1>1. /\ Asking(at) \in PollState
      /\ Asking(at).at = at /\ Asking(at).answer = "none"
      /\ Asking(at).height = 0 /\ Asking(at).open = {}
  BY LiveViewAssumption DEF Asking, Idle, PollState
<1>2. polls' = [polls EXCEPT ![p] = Asking(at)]
  BY DEF Goes
<1>3. QED
  BY <1>1, <1>2

\* The engine's answer to a call is what the database holds now.
LEMMA AnswersEffect ==
  ASSUME NEW p \in Poll, WatcherOK, DatabaseOK, Answers(p)
  PROVE  /\ polls' \in [Poll -> PollState]
         /\ polls[p].at # "idle" /\ polls[p].answer = "none"
         /\ polls'[p].at = polls[p].at
         /\ polls'[p].height \in {polls[p].height, height}
         /\ polls'[p].open \in {polls[p].open, getUnclosedAlerts}
         /\ polls'[p].answer = "ok" =>
              IF polls[p].at = "alerts" THEN polls'[p].open = getUnclosedAlerts
              ELSE polls'[p].height = height
         /\ \A q \in Poll : q # p => polls'[q] = polls[q]
<1>1. polls[p] \in PollState /\ polls \in [Poll -> PollState]
  BY DEF WatcherOK
<1>2. getUnclosedAlerts \in SUBSET Alerts /\ height \in 0..MaxHeight
  BY DEF getUnclosedAlerts, DatabaseOK
<1>3. polls[p].at # "idle" /\ polls[p].answer = "none"
  BY DEF Answers
<1>4. CASE polls[p].at = "alerts" /\ polls' =
             [polls EXCEPT ![p] = [polls[p] EXCEPT !.answer = "ok", !.open = getUnclosedAlerts]]
  BY <1>1, <1>2, <1>3, <1>4 DEF PollState
<1>5. CASE polls[p].at # "alerts" /\ polls' =
             [polls EXCEPT ![p] = [polls[p] EXCEPT !.answer = "ok", !.height = height]]
  BY <1>1, <1>2, <1>3, <1>5 DEF PollState
<1>6. CASE polls' = [polls EXCEPT ![p].answer = "failed"]
  BY <1>1, <1>3, <1>6 DEF PollState
<1>7. QED
  BY <1>4, <1>5, <1>6 DEF Answers

LEMMA WatcherNext ==
  ASSUME DatabaseOK, WatcherOK, [Next]_vars
  PROVE  WatcherOK'
<1>a. ASSUME UNCHANGED <<watcher, overlapped, unread>> PROVE WatcherOK'
  BY <1>a DEF WatcherOK, watcher
<1>b. getUnclosedAlerts \subseteq Alerts /\ 0 \in 0..MaxHeight
  BY LiveViewAssumption DEF getUnclosedAlerts
<1> USE DEF watcher
<1>1. CASE StartHeight
  BY <1>1, <1>b DEF StartHeight, WatcherOK, DatabaseOK, history
<1>2. CASE StartAlerts
  <2>1. /\ started' = "up" /\ lastAlertIds' \subseteq Alerts
        /\ told' = [a \in Alerts |-> IF a \in lastAlertIds' THEN "open" ELSE "untold"]
        /\ UNCHANGED <<polls, lastHeight, lastBlock, overlapped, unread>>
    BY <1>2, <1>b DEF StartAlerts, history
  <2>2. told' \in [Alerts -> {"untold", "open", "closed"}]
    BY <2>1
  <2>3. QED
    BY <2>1, <2>2 DEF WatcherOK
<1>3. ASSUME NEW p \in Poll, Tick(p) PROVE WatcherOK'
  <2>1. Goes(p, "height") /\ UNCHANGED <<started, lastHeight, lastAlertIds, told, lastBlock, unread>>
        /\ (overlapped' = TRUE \/ UNCHANGED overlapped)
    BY <1>3 DEF Tick, Goes
  <2>2. QED
    BY <2>1, GoesEffect DEF WatcherOK
<1>4. ASSUME NEW p \in Poll, Answers(p) PROVE WatcherOK'
  <2>1. UNCHANGED <<started, lastHeight, lastAlertIds, told, lastBlock, overlapped, unread>>
    BY <1>4 DEF Answers, history
  <2>2. QED
    BY <1>4, <2>1, AnswersEffect DEF WatcherOK
<1>5. ASSUME NEW p \in Poll, checkHeight(p) PROVE WatcherOK'
  <2>1. /\ UNCHANGED <<started, lastAlertIds, told, lastBlock, overlapped, unread>>
        /\ lastHeight' \in {lastHeight, polls[p].height}
        /\ Goes(p, "block") \/ Goes(p, "alerts")
    BY <1>5 DEF checkHeight, history
  <2>2. polls[p].height \in 0..MaxHeight
    BY DEF WatcherOK, PollState
  <2>3. polls' \in [Poll -> PollState]
    BY <2>1, GoesEffect DEF WatcherOK
  <2>4. QED
    BY <2>1, <2>2, <2>3 DEF WatcherOK
<1>6. ASSUME NEW p \in Poll, publishBlock(p) PROVE WatcherOK'
  <2>1. /\ UNCHANGED <<started, lastHeight, lastAlertIds, told, overlapped>>
        /\ lastBlock' \in {lastBlock, polls[p].height} /\ unread' \in {unread, lastHeight}
        /\ Goes(p, "alerts")
    BY <1>6 DEF publishBlock
  <2>2. polls[p].height \in 0..MaxHeight
    BY DEF WatcherOK, PollState
  <2>3. polls' \in [Poll -> PollState]
    BY <2>1, GoesEffect DEF WatcherOK
  <2>4. QED
    BY <2>1, <2>2, <2>3 DEF WatcherOK
<1>7. ASSUME NEW p \in Poll, checkAlerts(p) PROVE WatcherOK'
  <2>1. /\ UNCHANGED <<started, lastHeight, lastBlock, overlapped, unread>>
        /\ Goes(p, "idle")
        /\ lastAlertIds' \in {lastAlertIds, polls[p].open}
    BY <1>7 DEF checkAlerts
  <2>2. told' \in [Alerts -> {"untold", "open", "closed"}]
    BY <1>7 DEF checkAlerts, WatcherOK
  <2>3. polls[p].open \subseteq Alerts
    BY DEF WatcherOK, PollState
  <2>4. polls' \in [Poll -> PollState]
    BY <2>1, GoesEffect DEF WatcherOK
  <2>5. QED
    BY <2>1, <2>2, <2>3, <2>4 DEF WatcherOK
<1>8. QED
  BY <1>a, <1>1, <1>2, <1>3, <1>4, <1>5, <1>6, <1>7, OthersLeaveWatcher, Zenon DEF Watch

-----------------------------------------------------------------------------
(* The order of the announcements.                                          *)

\* What the watcher has heard of is in the table, and no height it has read is
\* above the newest block.
Known ==
  \A a \in Alerts :
    (a \in lastAlertIds \/ told[a] # "untold" \/ \E p \in Poll : a \in polls[p].open)
      => rows[a] # "none"

Reached == lastBlock <= height /\ \A p \in Poll : polls[p].height <= height

\* Until startWatcher has returned nothing is polled and no alert is announced.
Starting ==
  started # "up" =>
    /\ \A p \in Poll : polls[p].at = "idle"
    /\ \A a \in Alerts : told[a] = "untold"
    /\ started = "height" => lastBlock = 0

\* As long as no two polls overlapped, there is one at most.
Alone ==
  ~overlapped =>
    \A p, q \in Poll : polls[p].at # "idle" /\ polls[q].at # "idle" => p = q

\* What such a poll has read is as new as what was announced before it.
NewBlock ==
  ~overlapped =>
    \A p \in Poll :
      polls[p].at = "block" /\ polls[p].answer = "ok" => lastBlock <= polls[p].height

NewAlerts ==
  ~overlapped =>
    /\ \A a \in Alerts : told[a] = "closed" => rows[a] = "closed"
    /\ \A p \in Poll :
         polls[p].at = "alerts" /\ polls[p].answer = "ok" =>
           \A a \in Alerts :
             /\ a \in polls[p].open => told[a] # "closed"
             /\ a \in lastAlertIds \ polls[p].open => rows[a] = "closed"

WatchInv ==
  /\ DatabaseOK /\ WatcherOK
  /\ Known /\ Reached /\ Starting /\ Alone /\ NewBlock /\ NewAlerts

\* The part of the invariant a step has to keep, given types.
Heard == Known /\ Reached /\ Starting /\ Alone /\ NewBlock /\ NewAlerts

\* What a step of the watcher may do to what was announced.
InOrder ==
  ~overlapped => /\ \A a \in Alerts : told[a] = "closed" => told'[a] = "closed"
                 /\ lastBlock' >= lastBlock

\* Steps of others: rows only ever go on, and so does the height.
LEMMA OthersHeard ==
  ASSUME WatchInv, [Next]_vars, UNCHANGED <<watcher, overlapped, unread>>
  PROVE  Heard' /\ InOrder
<1>1. /\ height' >= height /\ height \in Nat /\ height' \in Nat
      /\ \A a \in Alerts : /\ rows[a] # "none" => rows'[a] # "none"
                           /\ rows[a] = "closed" => rows'[a] = "closed"
  BY DatabaseNext, LiveViewAssumption DEF WatchInv, DatabaseOK
<1>2. /\ lastBlock \in Nat /\ \A p \in Poll : polls[p].height \in Nat
  BY LiveViewAssumption DEF WatchInv, WatcherOK, PollState
<1>3. UNCHANGED <<started, polls, lastHeight, lastAlertIds, told, lastBlock, overlapped>>
  BY DEF watcher
<1>4. Known'
  BY <1>1, <1>3 DEF WatchInv, Known
<1>5. Reached'
  BY <1>1, <1>2, <1>3 DEF WatchInv, Reached
<1>6. Starting' /\ Alone' /\ NewBlock'
  BY <1>3 DEF WatchInv, Starting, Alone, NewBlock
<1>7. NewAlerts'
  BY <1>1, <1>3 DEF WatchInv, NewAlerts
<1>8. QED
  BY <1>2, <1>3, <1>4, <1>5, <1>6, <1>7 DEF Heard, InOrder

LEMMA StartHeard ==
  ASSUME WatchInv, UNCHANGED database, StartHeight \/ StartAlerts
  PROVE  Heard' /\ InOrder
<1> USE DEF database
<1>1. /\ height \in Nat /\ lastBlock \in Nat /\ \A p \in Poll : polls[p].height \in Nat
  BY LiveViewAssumption DEF WatchInv, DatabaseOK, WatcherOK, PollState
<1>2. CASE StartHeight
  <2>1. /\ started = "height" /\ started' = "alerts" /\ lastBlock' \in {height, 0}
        /\ UNCHANGED <<rows, height, polls, lastAlertIds, told, overlapped>>
    BY <1>2 DEF StartHeight, history
  <2>2. lastBlock = 0
    BY <2>1 DEF WatchInv, Starting
  <2>3. \A p \in Poll : polls[p].at = "idle"
    BY <2>1 DEF WatchInv, Starting
  <2>4. QED
    BY <1>1, <2>1, <2>2, <2>3
       DEF WatchInv, Heard, Known, Reached, Starting, Alone, NewBlock, NewAlerts, InOrder
<1>3. CASE StartAlerts
  <2>1. /\ started = "alerts" /\ started' = "up" /\ lastAlertIds' \subseteq getUnclosedAlerts
        /\ told' = [a \in Alerts |-> IF a \in lastAlertIds' THEN "open" ELSE "untold"]
        /\ UNCHANGED <<rows, height, polls, lastBlock, overlapped>>
    BY <1>3 DEF StartAlerts, history
  <2>2. \A a \in Alerts : told[a] = "untold"
    BY <2>1 DEF WatchInv, Starting
  <2>3. \A p \in Poll : polls[p].at = "idle"
    BY <2>1 DEF WatchInv, Starting
  <2>4. \A a \in lastAlertIds' : rows[a] # "none"
    BY <2>1 DEF getUnclosedAlerts
  <2>5. \A a \in Alerts : told'[a] # "closed" /\ (told'[a] # "untold" => a \in lastAlertIds')
    BY <2>1
  <2>6. Known'
    BY <2>1, <2>4, <2>5 DEF WatchInv, Known
  <2>7. QED
    BY <1>1, <2>1, <2>2, <2>3, <2>5, <2>6
       DEF WatchInv, Heard, Reached, Starting, Alone, NewBlock, NewAlerts, InOrder
<1>4. QED
  BY <1>2, <1>3

LEMMA TickHeard ==
  ASSUME WatchInv, UNCHANGED database, NEW p \in Poll, Tick(p)
  PROVE  Heard' /\ InOrder
<1>1. /\ started = "up" /\ Goes(p, "height")
      /\ UNCHANGED <<rows, height, started, lastAlertIds, told, lastBlock>>
      /\ ~overlapped' => ~overlapped /\ \A q \in Poll : polls[q].at = "idle"
  BY DEF Tick, Goes, database
<1>2. /\ polls'[p].at = "height" /\ polls'[p].height = 0 /\ polls'[p].open = {}
      /\ \A q \in Poll : q # p => polls'[q] = polls[q]
  BY <1>1, GoesEffect DEF WatchInv, WatcherOK
<1>3. height \in Nat /\ lastBlock \in Nat
  BY LiveViewAssumption DEF WatchInv, DatabaseOK, WatcherOK
<1>4. Known'
  BY <1>1, <1>2 DEF WatchInv, Known
<1>5. Reached'
  BY <1>1, <1>2, <1>3 DEF WatchInv, Reached
<1>6. Starting' /\ InOrder
  BY <1>1, <1>3 DEF Starting, InOrder
<1>7. Alone'
  BY <1>1, <1>2 DEF Alone
<1>8. NewBlock' /\ NewAlerts'
  BY <1>1, <1>2 DEF WatchInv, NewBlock, NewAlerts
<1>9. QED
  BY <1>4, <1>5, <1>6, <1>7, <1>8 DEF Heard

LEMMA AnswersHeard ==
  ASSUME WatchInv, UNCHANGED database, NEW p \in Poll, Answers(p)
  PROVE  Heard' /\ InOrder
<1>1. UNCHANGED <<rows, height, started, lastAlertIds, told, lastBlock, overlapped>>
  BY DEF Answers, database, history
<1>2. /\ polls[p].at # "idle" /\ polls[p].answer = "none"
      /\ polls'[p].at = polls[p].at
      /\ polls'[p].height \in {polls[p].height, height}
      /\ polls'[p].open \in {polls[p].open, getUnclosedAlerts}
      /\ polls'[p].answer = "ok" =>
           IF polls[p].at = "alerts" THEN polls'[p].open = getUnclosedAlerts
           ELSE polls'[p].height = height
      /\ \A q \in Poll : q # p => polls'[q] = polls[q]
  BY AnswersEffect DEF WatchInv
<1>3. /\ height \in Nat /\ lastBlock \in Nat /\ \A q \in Poll : polls[q].height \in Nat
  BY LiveViewAssumption DEF WatchInv, DatabaseOK, WatcherOK, PollState
<1>4. Known'
  BY <1>1, <1>2 DEF WatchInv, Known, getUnclosedAlerts
<1>5. Reached'
  BY <1>1, <1>2, <1>3 DEF WatchInv, Reached
<1>6. Starting' /\ InOrder
  BY <1>1, <1>2, <1>3 DEF WatchInv, Starting, InOrder
<1>7. Alone'
  BY <1>1, <1>2 DEF WatchInv, Alone
<1>8. NewBlock'
  BY <1>1, <1>2 DEF WatchInv, NewBlock, Reached
<1>9. NewAlerts'
  <2>1. SUFFICES ASSUME ~overlapped PROVE NewAlerts'
    BY <1>1 DEF NewAlerts
  <2>2. \A a \in Alerts : told[a] = "closed" => rows[a] = "closed"
    BY <2>1 DEF WatchInv, NewAlerts
  <2>3. \A a \in lastAlertIds \ getUnclosedAlerts : rows[a] = "closed"
    BY DEF WatchInv, DatabaseOK, WatcherOK, Known, getUnclosedAlerts
  <2>4. \A a \in getUnclosedAlerts : told[a] # "closed"
    BY <2>2 DEF getUnclosedAlerts
  <2>5. QED
    BY <1>1, <1>2, <2>1, <2>2, <2>3, <2>4 DEF WatchInv, NewAlerts
<1>10. QED
  BY <1>4, <1>5, <1>6, <1>7, <1>8, <1>9 DEF Heard

LEMMA BlockHeard ==
  ASSUME WatchInv, UNCHANGED database, NEW p \in Poll, checkHeight(p) \/ publishBlock(p)
  PROVE  Heard' /\ InOrder
<1>1. /\ UNCHANGED <<rows, height, started, lastAlertIds, told, overlapped>>
      /\ polls[p].at # "idle"
      /\ Goes(p, "block") \/ Goes(p, "alerts")
      /\ \/ UNCHANGED lastBlock
         \/ polls[p].at = "block" /\ polls[p].answer = "ok" /\ lastBlock' = polls[p].height
  BY DEF checkHeight, publishBlock, Ok, database, history
<1>2. /\ polls'[p].answer = "none" /\ polls'[p].height = 0 /\ polls'[p].open = {}
      /\ polls'[p].at # "idle"
      /\ \A q \in Poll : q # p => polls'[q] = polls[q]
  BY <1>1, GoesEffect DEF WatchInv, WatcherOK
<1>3. /\ height \in Nat /\ lastBlock \in Nat /\ \A q \in Poll : polls[q].height \in Nat
  BY LiveViewAssumption DEF WatchInv, DatabaseOK, WatcherOK, PollState
<1>4. Known'
  BY <1>1, <1>2 DEF WatchInv, Known
<1>5. Reached'
  BY <1>1, <1>2, <1>3 DEF WatchInv, Reached
<1>6. started = "up"
  BY <1>1 DEF WatchInv, Starting
<1>7. Alone'
  BY <1>1, <1>2 DEF WatchInv, Alone
<1>8. NewBlock'
  BY <1>1, <1>2 DEF WatchInv, NewBlock, Alone
<1>9. NewAlerts'
  BY <1>1, <1>2 DEF WatchInv, NewAlerts
<1>10. InOrder
  BY <1>1, <1>3 DEF WatchInv, NewBlock, InOrder
<1>11. QED
  BY <1>1, <1>4, <1>5, <1>6, <1>7, <1>8, <1>9, <1>10 DEF Heard, Starting

\* An alert is announced exactly when it is in one of two polls and not the other.
LEMMA ChangesTell ==
  ASSUME NEW current, NEW a
  PROVE  (\E e \in Changes(current) : e.alert = a)
           <=> (a \in current \ lastAlertIds \/ a \in lastAlertIds \ current)
<1>1. ASSUME NEW e \in Changes(current), e.alert = a
      PROVE  a \in current \ lastAlertIds \/ a \in lastAlertIds \ current
  BY <1>1 DEF Changes, Event
<1>2. ASSUME a \in current \ lastAlertIds
      PROVE  \E e \in Changes(current) : e.alert = a
  <2>1. [type |-> "alert_opened", alert |-> a] \in Changes(current)
    BY <1>2 DEF Changes, Event
  <2>2. QED
    BY <2>1
<1>3. ASSUME a \in lastAlertIds \ current
      PROVE  \E e \in Changes(current) : e.alert = a
  <2>1. [type |-> "alert_closed", alert |-> a] \in Changes(current)
    BY <1>3 DEF Changes, Event
  <2>2. QED
    BY <2>1
<1>4. QED
  BY <1>1, <1>2, <1>3

LEMMA AlertsHeard ==
  ASSUME WatchInv, UNCHANGED database, NEW p \in Poll, checkAlerts(p)
  PROVE  Heard' /\ InOrder
<1> DEFINE open == polls[p].open
<1>1. /\ UNCHANGED <<rows, height, started, lastBlock, overlapped>>
      /\ polls[p].at = "alerts" /\ Goes(p, "idle")
  BY DEF checkAlerts, database
<1>2. /\ polls'[p].at = "idle" /\ polls'[p].height = 0 /\ polls'[p].open = {}
      /\ \A q \in Poll : q # p => polls'[q] = polls[q]
  BY <1>1, GoesEffect DEF WatchInv, WatcherOK
<1>3. \/ UNCHANGED <<lastAlertIds, told>>
      \/ /\ polls[p].answer = "ok" /\ lastAlertIds' = open
         /\ told' = [a \in Alerts |-> IF \E e \in Changes(open) : e.alert = a
                                      THEN IF a \in open THEN "open" ELSE "closed"
                                      ELSE told[a]]
  BY DEF checkAlerts, Ok
<1>4. \A a \in Alerts : (\E e \in Changes(open) : e.alert = a)
                          <=> (a \in open \ lastAlertIds \/ a \in lastAlertIds \ open)
  BY ChangesTell
<1>5. \/ UNCHANGED <<lastAlertIds, told>>
      \/ /\ polls[p].answer = "ok" /\ lastAlertIds' = open
         /\ \A a \in Alerts :
              told'[a] = IF a \in open \ lastAlertIds THEN "open"
                         ELSE IF a \in lastAlertIds \ open THEN "closed" ELSE told[a]
  BY <1>3, <1>4
<1>6. height \in Nat /\ lastBlock \in Nat
  BY LiveViewAssumption DEF WatchInv, DatabaseOK, WatcherOK
<1> HIDE DEF open
<1>7. started = "up"
  BY <1>1 DEF WatchInv, Starting
<1>8. Known'
  BY <1>1, <1>2, <1>5 DEF WatchInv, Known, open
<1>9. Reached'
  BY <1>1, <1>2, <1>6 DEF WatchInv, Reached
<1>10. Alone' /\ NewBlock'
  BY <1>1, <1>2 DEF WatchInv, Alone, NewBlock
<1>11. ~overlapped => /\ \A a \in Alerts : told[a] = "closed" => told'[a] = "closed"
                      /\ \A a \in Alerts : told'[a] = "closed" => rows[a] = "closed"
  <2>1. SUFFICES ASSUME ~overlapped, NEW a \in Alerts
                 PROVE  /\ told[a] = "closed" => told'[a] = "closed"
                        /\ told'[a] = "closed" => rows[a] = "closed"
    OBVIOUS
  <2>2. told[a] = "closed" => rows[a] = "closed"
    BY <2>1 DEF WatchInv, NewAlerts
  <2>3. polls[p].answer = "ok" => /\ a \in open => told[a] # "closed"
                                  /\ a \in lastAlertIds \ open => rows[a] = "closed"
    BY <2>1, <1>1 DEF WatchInv, NewAlerts, open
  <2>4. QED
    BY <1>5, <2>2, <2>3
<1>12. NewAlerts'
  <2>1. SUFFICES ASSUME ~overlapped PROVE NewAlerts'
    BY <1>1 DEF NewAlerts
  <2>2. \A q \in Poll : polls'[q].at = "idle"
    BY <1>1, <1>2, <2>1 DEF WatchInv, Alone
  <2>3. QED
    BY <1>1, <1>11, <2>1, <2>2 DEF NewAlerts
<1>13. QED
  BY <1>1, <1>6, <1>7, <1>8, <1>9, <1>10, <1>11, <1>12 DEF Heard, Starting, InOrder

LEMMA WatchInvNext ==
  ASSUME WatchInv, [Next]_vars
  PROVE  WatchInv' /\ InOrder
<1>1. DatabaseOK' /\ WatcherOK'
  BY DatabaseNext, WatcherNext DEF WatchInv
<1>2. Heard' /\ InOrder
  BY OthersLeaveWatcher, OthersHeard, StartHeard, TickHeard, AnswersHeard, BlockHeard,
     AlertsHeard, Zenon DEF Watch
<1>3. QED
  BY <1>1, <1>2 DEF WatchInv, Heard

LEMMA WatchInvInit == Init => WatchInv
<1> SUFFICES ASSUME Init PROVE WatchInv
  OBVIOUS
<1>1. Idle \in PollState /\ Idle.at = "idle" /\ Idle.height = 0 /\ Idle.open = {}
  BY LiveViewAssumption DEF Idle, PollState
<1>2. DatabaseOK /\ WatcherOK
  <2>1. DatabaseOK
    <3>1. 0 \in 0..MaxHeight
      BY LiveViewAssumption
    <3>2. rows \in [Alerts -> {"none", "open", "closed"}]
      BY DEF Init
    <3>3. QED
      BY <3>1, <3>2 DEF Init, DatabaseOK
  <2>2. polls \in [Poll -> PollState]
    BY <1>1 DEF Init
  <2>3. told \in [Alerts -> {"untold", "open", "closed"}]
    BY DEF Init
  <2>4. 0 \in 0..MaxHeight
    BY LiveViewAssumption
  <2>5. /\ lastHeight = 0 /\ lastBlock = 0 /\ unread = 0 /\ lastAlertIds = {}
        /\ overlapped \in BOOLEAN /\ started = "height"
    BY DEF Init
  <2>6. QED
    BY <2>1, <2>2, <2>3, <2>4, <2>5 DEF WatcherOK
<1>3. QED
  BY <1>1, <1>2 DEF Init, WatchInv, Known, Reached, Starting, Alone, NewBlock, NewAlerts

(* No alert is announced as opened once it was announced as closed, and no      *)
(* height after a higher one, as long as no two polls of the watcher overlap:   *)
(* whatever fails, and however old an answer is when it is handled.            *)
THEOREM AnnouncementsAreInOrder == Spec => AnnouncedInOrder
<1>1. WatchInv /\ [Next]_vars =>
        [~overlapped => /\ \A a \in Alerts : told[a] = "closed" => told'[a] = "closed"
                        /\ lastBlock' >= lastBlock]_vars
  BY WatchInvNext DEF InOrder
<1>2. WatchInv /\ [Next]_vars => WatchInv'
  BY WatchInvNext
<1>3. QED
  BY <1>1, <1>2, WatchInvInit, PTL DEF Spec, AnnouncedInOrder

-----------------------------------------------------------------------------
(* The lists.                                                               *)

\* One list changes its connection, or has a timer more or less; whether it is
\* on show does not change.
Rewired(i) ==
  /\ lists' \in [List -> ListState]
  /\ lists'[i].life = lists[i].life
  /\ \A j \in List : j # i => lists'[j] = lists[j]

LEMMA OpensEffect ==
  ASSUME ListsOK, NEW i \in List, StreamOpens(i)
  PROVE  /\ Rewired(i) /\ UNCHANGED faults
         /\ lists[i].es = "connecting" /\ lists'[i].es = "open"
         /\ lists'[i].timers = lists[i].timers
<1>1. /\ lists \in [List -> ListState] /\ lists[i] \in ListState
      /\ lists[i].es = "connecting" /\ lists' = [lists EXCEPT ![i].es = "open"]
      /\ UNCHANGED faults
  BY DEF ListsOK, StreamOpens
<1>2. QED
  BY <1>1 DEF Rewired, ListState

LEMMA BreaksEffect ==
  ASSUME ListsOK, NEW i \in List, StreamBreaks(i)
  PROVE  /\ Rewired(i) /\ faults' = faults - 1 /\ faults > 0
         /\ lists[i].es # "none"
         /\ lists'[i].timers = lists[i].timers + 1
<1>1. /\ lists \in [List -> ListState] /\ lists[i] \in ListState
      /\ lists[i].es # "none" /\ faults > 0 /\ faults' = faults - 1
      /\ faults \in Nat /\ Faults \in Nat /\ lists[i].timers \in 0..Faults
      /\ lists[i].timers + faults <= Faults
  BY LiveViewAssumption DEF ListsOK, StreamBreaks, Fault, ListState
<1>2. PICK es \in {"connecting", "none"} :
        lists' = [lists EXCEPT ![i].es = es, ![i].timers = @ + 1]
  BY DEF StreamBreaks
<1>3. lists[i].timers + 1 \in 0..Faults
  BY <1>1
<1>4. lists' \in [List -> ListState]
  BY <1>1, <1>2, <1>3 DEF ListState
<1>5. QED
  BY <1>1, <1>2, <1>4 DEF Rewired, ListState

LEMMA ReconnectEffect ==
  ASSUME ListsOK, NEW i \in List, Reconnect(i)
  PROVE  /\ Rewired(i) /\ UNCHANGED faults
         /\ lists[i].timers > 0 /\ lists'[i].es = "connecting"
         /\ lists'[i].timers = lists[i].timers - 1
<1>1. /\ lists \in [List -> ListState] /\ lists[i] \in ListState
      /\ lists[i].timers > 0 /\ UNCHANGED faults
      /\ Faults \in Nat /\ lists[i].timers \in 0..Faults
  BY LiveViewAssumption DEF ListsOK, Reconnect, ListState
<1>2. lists' = [lists EXCEPT ![i] = [Connected(lists[i])
                                       EXCEPT !.timers = Connected(lists[i]).timers - 1]]
  BY DEF Reconnect
<1>3. lists[i].timers - 1 \in 0..Faults
  BY <1>1
<1>4. /\ Connected(lists[i]) \in ListState
      /\ Connected(lists[i]).es = "connecting" /\ Connected(lists[i]).life = lists[i].life
      /\ Connected(lists[i]).timers = lists[i].timers
  BY <1>1 DEF Connected, ListState
<1>5. QED
  BY <1>1, <1>2, <1>3, <1>4 DEF Rewired, ListState

LEMMA ShowChainEffect ==
  ASSUME ListsOK, NEW i \in List, ShowChain(i)
  PROVE  /\ lists' \in [List -> ListState] /\ UNCHANGED faults
         /\ lists[i].life = "new" /\ lists'[i].life = "mounted"
         /\ lists'[i].es = "connecting" /\ lists'[i].timers = lists[i].timers
         /\ \A j \in List : j # i => lists'[j] = lists[j]
<1>1. /\ lists \in [List -> ListState] /\ lists[i] \in ListState
      /\ lists[i].life = "new" /\ UNCHANGED faults
  BY DEF ListsOK, ShowChain
<1>2. lists' = [lists EXCEPT ![i] = [[lists[i] EXCEPT !.es = "connecting"]
                                       EXCEPT !.life = "mounted"]]
  BY <1>1 DEF ShowChain, Connected
<1>3. QED
  BY <1>1, <1>2 DEF ListState

LEMMA ShowDashboardEffect ==
  ASSUME ListsOK, ShowDashboard
  PROVE  /\ lists' \in [List -> ListState] /\ UNCHANGED faults
         /\ \A i \in List :
              IF i \in Mounted
              THEN /\ lists'[i].es = "none" /\ lists'[i].timers = lists[i].timers
                   /\ lists'[i].life = IF lists[i].timers > 0 THEN "haunted" ELSE "gone"
              ELSE lists'[i] = lists[i]
<1>1. /\ lists \in [List -> ListState] /\ UNCHANGED faults
      /\ lists' = [i \in List |-> IF i \in Mounted THEN Unmounted(lists[i]) ELSE lists[i]]
  BY DEF ListsOK, ShowDashboard
<1>2. \A i \in List :
        /\ Unmounted(lists[i]) \in ListState
        /\ Unmounted(lists[i]).es = "none"
        /\ Unmounted(lists[i]).timers = lists[i].timers
        /\ Unmounted(lists[i]).life = IF lists[i].timers > 0 THEN "haunted" ELSE "gone"
  BY <1>1 DEF Unmounted, ListState
<1> HIDE DEF List
<1>3. QED
  BY <1>1, <1>2

\* Only these steps touch a list.
LEMMA OthersLeaveLists ==
  ASSUME [Next]_vars
  PROVE  \/ UNCHANGED <<lists, page>>
         \/ (\E i \in List : Connect(i) \/ StreamBreaks(i) \/ ShowChain(i)) \/ ShowDashboard
<1>1. CASE (\E a \in Alerts : OpenAlert(a) \/ CloseAlert(a)) \/ StoreBlock
  BY <1>1, Zenon DEF OpenAlert, CloseAlert, StoreBlock, tab
<1>2. CASE StartHeight \/ StartAlerts \/ (\E p \in Poll : Watch(p))
  BY <1>2, Zenon DEF StartHeight, StartAlerts, Watch, Tick, Answers, checkHeight,
     publishBlock, checkAlerts, tab
<1>3. CASE HubBreaks \/ HubReconnects \/ DashboardLoads
  BY <1>3, Zenon DEF HubBreaks, HubReconnects, DashboardLoads
<1>4. CASE FetchFails \/ Shows
  BY <1>4, Zenon DEF FetchFails, Shows, AlertsRead, AlertsFetched, EventArrives
<1>5. CASE UNCHANGED vars
  BY <1>5, Zenon DEF vars, tab
<1>6. QED
  BY <1>1, <1>2, <1>3, <1>4, <1>5, Zenon DEF Next

LEMMA FaultsFall ==
  ASSUME faults \in 0..Faults, [Next]_vars
  PROVE  faults' \in 0..Faults /\ faults' <= faults
<1>1. UNCHANGED faults \/ Fault
  BY Zenon DEF Next, OpenAlert, CloseAlert, StoreBlock, StartHeight, StartAlerts, Watch, Tick,
     Answers, checkHeight, publishBlock, checkAlerts, Connect, StreamOpens, Reconnect,
     StreamBreaks, ShowChain, HubBreaks, HubReconnects, DashboardLoads, ShowDashboard,
     FetchFails, Shows, AlertsRead, AlertsFetched, EventArrives, vars
<1>2. QED
  BY <1>1, LiveViewAssumption DEF Fault

ListsInv == ListsOK /\ PageOK /\ ListsKept

\* A rewired list that keeps a connection or a timer keeps all that is asked.
LEMMA RewiredKeeps ==
  ASSUME ListsInv, NEW i \in List, Rewired(i), UNCHANGED page,
         faults' \in 0..Faults, faults' <= faults,
         lists'[i].timers + faults' <= Faults,
         lists'[i].es # "none" \/ lists'[i].timers > 0,
         lists[i].es # "none" \/ lists[i].timers > 0
  PROVE  ListsInv'
<1>1. Mounted' = Mounted
  BY DEF Mounted, Rewired
<1>2. ListsOK'
  <2>1. SUFFICES ASSUME NEW j \in List PROVE lists'[j].timers + faults' <= Faults
    BY DEF ListsOK, Rewired
  <2>2. CASE j = i
    BY <2>2
  <2>3. CASE j # i
    <3>1. /\ lists'[j].timers = lists[j].timers /\ lists[j].timers + faults <= Faults
          /\ lists[j].timers \in Int /\ faults \in Int /\ faults' \in Int /\ Faults \in Int
      BY <2>3, LiveViewAssumption DEF ListsInv, ListsOK, Rewired, ListState
    <3>2. QED
      BY <3>1
  <2>4. QED
    BY <2>2, <2>3
<1>3. PageOK'
  BY <1>1 DEF ListsInv, PageOK
<1>4. lists[i].life # "gone"
  BY LiveViewAssumption DEF ListsInv, ListsKept
<1>5. ASSUME NEW j \in List
      PROVE  /\ j \in Mounted => lists'[j].es # "none" \/ lists'[j].timers > 0
             /\ lists'[j].life = "gone" => lists'[j].es = "none" /\ lists'[j].timers = 0
  <2>1. CASE j = i
    BY <1>4, <2>1 DEF Rewired
  <2>2. CASE j # i
    BY <2>2 DEF Rewired, ListsInv, ListsKept
  <2>3. QED
    BY <2>1, <2>2
<1>6. ListsKept'
  BY <1>1, <1>5 DEF ListsKept, Mounted
<1>7. QED
  BY <1>2, <1>3, <1>6 DEF ListsInv

LEMMA ListsNext ==
  ASSUME ListsInv, [Next]_vars
  PROVE  ListsInv'
<1>1. /\ faults' \in 0..Faults /\ faults' <= faults
      /\ faults \in Int /\ faults' \in Int /\ Faults \in Int
      /\ \A i \in List : lists[i].timers \in Nat /\ lists[i].timers + faults <= Faults
  BY FaultsFall, LiveViewAssumption DEF ListsInv, ListsOK, ListState
<1>2. ASSUME UNCHANGED <<lists, page>> PROVE ListsInv'
  <2>1. \A i \in List : lists[i].timers + faults' <= Faults
    BY <1>1
  <2>2. QED
    BY <1>1, <1>2, <2>1 DEF ListsInv, ListsOK, PageOK, ListsKept, Mounted
<1>3. ASSUME NEW i \in List, StreamOpens(i) PROVE ListsInv'
  <2>1. UNCHANGED page
    BY <1>3 DEF StreamOpens
  <2>2. /\ Rewired(i) /\ UNCHANGED faults
        /\ lists[i].es = "connecting" /\ lists'[i].es = "open"
        /\ lists'[i].timers = lists[i].timers
    BY <1>3, OpensEffect DEF ListsInv
  <2>3. QED
    BY <1>1, <2>1, <2>2, RewiredKeeps
<1>4. ASSUME NEW i \in List, StreamBreaks(i) PROVE ListsInv'
  <2>1. UNCHANGED page
    BY <1>4 DEF StreamBreaks
  <2>2. /\ Rewired(i) /\ faults' = faults - 1
        /\ lists[i].es # "none" /\ lists'[i].timers = lists[i].timers + 1
    BY <1>4, BreaksEffect DEF ListsInv
  <2>3. lists'[i].timers + faults' <= Faults /\ lists'[i].timers > 0
    BY <1>1, <2>2
  <2>4. QED
    BY <1>1, <2>1, <2>2, <2>3, RewiredKeeps
<1>5. ASSUME NEW i \in List, Reconnect(i) PROVE ListsInv'
  <2>1. UNCHANGED page
    BY <1>5 DEF Reconnect
  <2>2. /\ Rewired(i) /\ UNCHANGED faults
        /\ lists[i].timers > 0 /\ lists'[i].es = "connecting"
        /\ lists'[i].timers = lists[i].timers - 1
    BY <1>5, ReconnectEffect DEF ListsInv
  <2>3. lists'[i].timers + faults' <= Faults
    BY <1>1, <2>2
  <2>4. QED
    BY <1>1, <2>1, <2>2, <2>3, RewiredKeeps
<1>6. ASSUME NEW i \in List, ShowChain(i) PROVE ListsInv'
  <2>1. page = "dashboard" /\ page' = "chain"
    BY <1>6 DEF ShowChain
  <2>2. /\ lists' \in [List -> ListState] /\ UNCHANGED faults
        /\ lists[i].life = "new" /\ lists'[i].life = "mounted"
        /\ lists'[i].es = "connecting" /\ lists'[i].timers = lists[i].timers
        /\ \A j \in List : j # i => lists'[j] = lists[j]
    BY <1>6, ShowChainEffect DEF ListsInv
  <2>3. Mounted = {} /\ Mounted' = {i}
    <3>1. Mounted = {}
      BY <2>1 DEF ListsInv, PageOK
    <3>2. QED
      BY <2>2, <3>1 DEF Mounted
  <2>4. ListsOK'
    BY <1>1, <2>2 DEF ListsOK
  <2>5. PageOK'
    BY <2>1, <2>3 DEF PageOK
  <2>6. ListsKept'
    BY <2>2, <2>3 DEF ListsInv, ListsKept
  <2>7. QED
    BY <2>4, <2>5, <2>6 DEF ListsInv
<1>7. CASE ShowDashboard
  <2>1. page = "chain" /\ page' = "dashboard"
    BY <1>7 DEF ShowDashboard
  <2>2. /\ lists' \in [List -> ListState] /\ UNCHANGED faults
        /\ \A i \in List :
             IF i \in Mounted
             THEN /\ lists'[i].es = "none" /\ lists'[i].timers = lists[i].timers
                  /\ lists'[i].life = IF lists[i].timers > 0 THEN "haunted" ELSE "gone"
             ELSE lists'[i] = lists[i]
    BY <1>7, ShowDashboardEffect DEF ListsInv
  <2>3. Mounted' = {}
    BY <2>2 DEF Mounted
  <2>4. \A i \in List : lists'[i].timers = lists[i].timers
    BY <2>2
  <2>5. ListsOK'
    BY <1>1, <2>2, <2>4 DEF ListsOK
  <2>6. PageOK'
    BY <2>1, <2>3 DEF PageOK
  <2>7. ListsKept'
    BY <1>1, <2>2, <2>3 DEF ListsInv, ListsKept
  <2>8. QED
    BY <2>5, <2>6, <2>7 DEF ListsInv
<1>8. QED
  BY <1>2, <1>3, <1>4, <1>5, <1>6, <1>7, OthersLeaveLists, Zenon DEF Connect

-----------------------------------------------------------------------------
(* What the tab is sent and shows.                                          *)

(* The events of one poll go on the wire as a sequence of exactly these events. *)
LEMMA SetToSeqType ==
  ASSUME NEW T, NEW S \in SUBSET T, IsFiniteSet(S)
  PROVE  SetToSeq(S) \in Seq(T)
<1>1. Cardinality(S) \in Nat /\ ExistsBijection(1..Cardinality(S), S)
  BY FS_CardinalityType
<1>2. \E f \in [1..Cardinality(S) -> S] : IsInjective(f)
  BY <1>1 DEF ExistsBijection, Bijection, Injection, Surjection
<1>3. SetToSeq(S) \in [1..Cardinality(S) -> S]
  BY <1>2 DEF SetToSeq
<1> DEFINE s == SetToSeq(S)
           n == Cardinality(S)
<1>4. s \in [1..n -> T] /\ n \in Nat
  BY <1>1, <1>3
<1> HIDE DEF s, n
<1>5. s \in Seq(T)
  BY <1>4
<1>6. QED
  BY <1>5 DEF s

LEMMA ChangesType ==
  ASSUME NEW current \in SUBSET Alerts, lastAlertIds \in SUBSET Alerts
  PROVE  Changes(current) \in SUBSET AnyEvent /\ IsFiniteSet(Changes(current))
<1>1. Changes(current) \in SUBSET AnyEvent
  BY DEF Changes, Event, AnyEvent
<1>2. ASSUME NEW type, NEW set \in SUBSET Alerts PROVE IsFiniteSet(Event(type, set))
  <2> DEFINE event(a) == [type |-> type, alert |-> a]
             f == [a \in set |-> event(a)]
  <2>1. IsFiniteSet(set)
    BY FS_Subset, LiveViewAssumption
  <2>2. f \in Surjection(set, Event(type, set))
    BY DEF Surjection, Event
  <2>3. QED
    BY <2>1, <2>2, FS_Surjection DEF ExistsSurjection
<1>3. IsFiniteSet(Changes(current))
  <2>1. IsFiniteSet(Event("alert_opened", current \ lastAlertIds))
    BY <1>2
  <2>2. IsFiniteSet(Event("alert_closed", lastAlertIds \ current))
    BY <1>2
  <2>3. QED
    BY <2>1, <2>2, FS_Union DEF Changes
<1>4. QED
  BY <1>1, <1>3

LEMMA CutType ==
  ASSUME ViewOK, NEW i \in List, Cut(i), UNCHANGED <<request, shown>>
  PROVE  ViewOK'
<1>1. <<>> \in Seq(AnyEvent)
  OBVIOUS
<1>2. wire' \in Seq(AnyEvent)
  BY <1>1 DEF Cut, ViewOK
<1>3. missed' \in BOOLEAN
  BY Zenon DEF Cut
<1>4. QED
  BY <1>2, <1>3 DEF ViewOK

LEMMA ViewNext ==
  ASSUME DatabaseOK, WatcherOK, ViewOK, [Next]_vars
  PROVE  ViewOK'
<1>a. ASSUME UNCHANGED <<wire, request, shown, missed>> PROVE ViewOK'
  BY <1>a DEF ViewOK
<1>b. /\ <<>> \in Seq(AnyEvent) /\ [a \in Alerts |-> 0] \in [Alerts -> Nat]
      /\ getUnclosedAlerts \in SUBSET Alerts
      /\ \A set : Show(set) \in [Alerts -> Nat]
  BY DEF getUnclosedAlerts, Show
<1>1. CASE (\E a \in Alerts : OpenAlert(a) \/ CloseAlert(a)) \/ StoreBlock
  BY <1>1, <1>a, Zenon DEF OpenAlert, CloseAlert, StoreBlock, tab, history
<1>2. CASE StartHeight \/ StartAlerts
  BY <1>2, <1>a, Zenon DEF StartHeight, StartAlerts, tab, history
<1>3. ASSUME NEW p \in Poll, Tick(p) \/ Answers(p) \/ checkHeight(p) \/ publishBlock(p)
      PROVE  ViewOK'
  BY <1>3, <1>a, Zenon DEF Tick, Answers, checkHeight, publishBlock, tab, history
<1>4. ASSUME NEW p \in Poll, checkAlerts(p) PROVE ViewOK'
  <2>1. UNCHANGED <<request, shown>>
    BY <1>4, Zenon DEF checkAlerts
  <2>2. polls[p].open \in SUBSET Alerts /\ lastAlertIds \in SUBSET Alerts
    BY DEF WatcherOK, PollState
  <2>3. SetToSeq(Changes(polls[p].open)) \in Seq(AnyEvent)
    BY <2>2, ChangesType, SetToSeqType
  <2>4. \/ UNCHANGED wire
        \/ wire' = wire \o SetToSeq(Changes(polls[p].open))
    BY <1>4, Zenon DEF checkAlerts, publish
  <2>5. wire' \in Seq(AnyEvent)
    <3>1. \A s, more \in Seq(AnyEvent) : s \o more \in Seq(AnyEvent)
      OBVIOUS
    <3>2. QED
      BY <2>3, <2>4, <3>1, Zenon DEF ViewOK
  <2>6. missed' \in BOOLEAN
    <3>1. UNCHANGED missed \/ publish(Changes(polls[p].open))
      BY <1>4, Zenon DEF checkAlerts
    <3>2. QED
      BY <3>1, Zenon DEF ViewOK, publish
  <2>7. QED
    BY <2>1, <2>5, <2>6 DEF ViewOK
<1>5. ASSUME NEW i \in List, Connect(i) \/ StreamBreaks(i) PROVE ViewOK'
  <2>1. \/ UNCHANGED <<wire, request, shown, missed>>
        \/ Cut(i) /\ UNCHANGED <<request, shown>>
    BY <1>5, Zenon DEF Connect, StreamOpens, Reconnect, StreamBreaks, history
  <2>2. QED
    BY <2>1, <1>a, CutType
<1>6. ASSUME NEW i \in List, ShowChain(i) PROVE ViewOK'
  <2>1. /\ wire' = <<>> /\ shown' = [a \in Alerts |-> 0]
        /\ request' = [at |-> "asked", read |-> {}] /\ missed' = FALSE
    BY <1>6, Zenon DEF ShowChain, fetchAlerts
  <2>2. QED
    BY <1>b, <2>1 DEF ViewOK
<1>7. CASE ShowDashboard
  <2>1. /\ wire' = <<>> /\ shown' = [a \in Alerts |-> 0]
        /\ request' = [at |-> "none", read |-> {}] /\ UNCHANGED missed
    BY <1>7, Zenon DEF ShowDashboard, NoRequest, history
  <2>2. QED
    BY <1>b, <2>1 DEF ViewOK
<1>8. CASE HubBreaks \/ HubReconnects \/ DashboardLoads
  BY <1>8, <1>a, Zenon DEF HubBreaks, HubReconnects, DashboardLoads, history
<1>9. CASE FetchFails
  <2>1. /\ UNCHANGED wire /\ shown' \in {shown, Show({})}
        /\ request' = [at |-> "none", read |-> {}] /\ missed' = TRUE
    BY <1>9, Zenon DEF FetchFails, NoRequest
  <2>2. QED
    BY <1>b, <2>1 DEF ViewOK
<1>10. CASE AlertsRead
  <2>1. /\ UNCHANGED <<wire, shown>>
        /\ request' = [at |-> "read", read |-> getUnclosedAlerts]
    BY <1>10, Zenon DEF AlertsRead
  <2>2. missed' \in BOOLEAN
    BY <1>10, Zenon DEF AlertsRead
  <2>3. QED
    BY <1>b, <2>1, <2>2 DEF ViewOK
<1>11. CASE AlertsFetched
  <2>1. /\ UNCHANGED <<wire, missed>> /\ shown' = Show(request.read)
        /\ request' = [at |-> "none", read |-> {}]
    BY <1>11, Zenon DEF AlertsFetched, NoRequest, history
  <2>2. QED
    BY <1>b, <2>1 DEF ViewOK
<1>12. CASE EventArrives
  <2>1. /\ UNCHANGED request /\ wire # <<>> /\ wire' = Tail(wire)
        /\ shown' = [shown EXCEPT ![Head(wire).alert] = Lines(Head(wire))]
    BY <1>12, Zenon DEF EventArrives
  <2>2. Head(wire) \in AnyEvent /\ wire' \in Seq(AnyEvent)
    BY <2>1 DEF ViewOK
  <2>3. Head(wire).alert \in Alerts
    BY <2>2 DEF AnyEvent, Event
  <2>4. Lines(Head(wire)) \in Nat
    BY <2>3 DEF Lines, ViewOK
  <2>5. missed' \in BOOLEAN
    BY <1>12, Zenon DEF EventArrives
  <2>6. QED
    BY <2>1, <2>2, <2>3, <2>4, <2>5 DEF ViewOK
<1>13. CASE UNCHANGED vars
  BY <1>13, <1>a, Zenon DEF vars, tab, history
<1>14. QED
  BY <1>1, <1>2, <1>3, <1>4, <1>5, <1>6, <1>7, <1>8, <1>9, <1>10, <1>11, <1>12, <1>13, Zenon
     DEF Next, Watch, Shows

-----------------------------------------------------------------------------
(* The hub.                                                                 *)

HubState == [refCount : 0..Strips, es : BOOLEAN, timer : BOOLEAN]

\* Strips that subscribe leave a hub that is connected.
LEMMA SubscribedEffect ==
  ASSUME NEW h \in HubState, NEW n \in Nat
  PROVE  /\ Subscribed(h, n).refCount = h.refCount + n
         /\ n > 0 => Subscribed(h, n).es
         /\ Subscribed(h, n) \in [refCount : Nat, es : BOOLEAN, timer : BOOLEAN]
<1> DEFINE es == h.es \/ n > 0
<1>1. es \in BOOLEAN /\ (n > 0 => es)
  BY Zenon
<1>2. Subscribed(h, n) = [h EXCEPT !.refCount = h.refCount + n, !.es = es]
  BY Zenon DEF Subscribed
<1> HIDE DEF es
<1>3. h.refCount \in Nat /\ h.refCount + n \in Nat
  BY LiveViewAssumption DEF HubState
<1>4. QED
  BY <1>1, <1>2, <1>3 DEF HubState

\* A page that follows another leaves a hub for its own strips, or none.
LEMMA ReplacedEffect ==
  ASSUME HubOK, NEW n \in 0..Strips
  PROVE  /\ Replaced(n) \in HubState
         /\ (Replaced(n).es \/ Replaced(n).timer) <=> Replaced(n).refCount > 0
<1> DEFINE left == [Subscribed(hub, n) EXCEPT !.refCount = @ - hub.refCount]
<1>1. hub \in HubState /\ hub.refCount \in Nat /\ n \in Nat
  BY LiveViewAssumption DEF HubOK, HubState
<1>2. /\ Subscribed(hub, n).refCount = hub.refCount + n
      /\ n > 0 => Subscribed(hub, n).es
      /\ Subscribed(hub, n) \in [refCount : Nat, es : BOOLEAN, timer : BOOLEAN]
  BY SubscribedEffect, <1>1
<1>3. left.refCount = n /\ (n > 0 => left.es) /\ left \in HubState
  <2> DEFINE h == Subscribed(hub, n)
  <2>1. h \in [refCount : Nat, es : BOOLEAN, timer : BOOLEAN]
        /\ h.refCount - hub.refCount = n /\ (n > 0 => h.es)
    BY <1>1, <1>2
  <2>2. left = [h EXCEPT !.refCount = h.refCount - hub.refCount]
    OBVIOUS
  <2> HIDE DEF h, left
  <2>3. QED
    BY <1>1, <2>1, <2>2 DEF HubState
<1>4. Replaced(n) = IF left.refCount > 0 THEN left ELSE NoHub
  BY DEF Replaced, Unsubscribed, disconnectIfIdle
<1> HIDE DEF left
<1>5. CASE n > 0
  BY <1>3, <1>4, <1>5
<1>6. CASE n = 0
  <2>1. Replaced(n) = NoHub
    BY <1>3, <1>4, <1>6
  <2>2. QED
    BY <2>1, LiveViewAssumption DEF NoHub, HubState
<1>7. QED
  BY <1>1, <1>5, <1>6

LEMMA HubNext ==
  ASSUME HubOK, [Next]_vars
  PROVE  HubOK'
<1>a. ASSUME UNCHANGED hub PROVE HubOK'
  BY <1>a DEF HubOK
<1>b. /\ hub \in HubState /\ hub.refCount \in Nat /\ hub.es \in BOOLEAN /\ hub.timer \in BOOLEAN
      /\ (hub.es \/ hub.timer) <=> hub.refCount > 0
  BY LiveViewAssumption DEF HubOK, HubState
<1>1. CASE (\E a \in Alerts : OpenAlert(a) \/ CloseAlert(a)) \/ StoreBlock
  BY <1>1, <1>a, Zenon DEF OpenAlert, CloseAlert, StoreBlock, tab
<1>2. CASE StartHeight \/ StartAlerts \/ (\E p \in Poll : Watch(p))
  BY <1>2, <1>a, Zenon DEF StartHeight, StartAlerts, Watch, Tick, Answers, checkHeight, publishBlock,
     checkAlerts, tab
<1>3. CASE \E i \in List : Connect(i) \/ StreamBreaks(i)
  BY <1>3, <1>a, Zenon DEF Connect, StreamOpens, Reconnect, StreamBreaks
<1>4. CASE \E n \in 0..Strips : hub' = Replaced(n)
  BY <1>4, ReplacedEffect DEF HubOK, HubState
<1>5. CASE \E i \in List : ShowChain(i)
  <2>1. hub' = Replaced(1) /\ 1 \in 0..Strips
    BY <1>5, LiveViewAssumption DEF ShowChain
  <2>2. QED
    BY <1>4, <2>1
<1>6. CASE ShowDashboard
  <2>1. \E n \in {0, Strips} : hub' = Replaced(n)
    BY <1>6 DEF ShowDashboard
  <2>2. {0, Strips} \subseteq 0..Strips
    BY LiveViewAssumption
  <2>3. QED
    BY <1>4, <2>1, <2>2
<1>7. CASE HubBreaks
  <2>1. hub' = [hub EXCEPT !.es = FALSE, !.timer = hub.timer \/ hub.refCount > 0]
    BY <1>7 DEF HubBreaks
  <2>2. QED
    BY <1>b, <2>1 DEF HubOK, HubState
<1>8. CASE HubReconnects
  <2>1. hub' = [hub EXCEPT !.timer = FALSE, !.es = hub.es \/ hub.refCount > 0]
    BY <1>8 DEF HubReconnects
  <2>2. QED
    BY <1>b, <2>1 DEF HubOK, HubState
<1>9. CASE DashboardLoads
  <2>1. hub.refCount = 0 /\ hub' = Subscribed(hub, Strips)
    BY <1>9 DEF DashboardLoads
  <2>2. Strips \in Nat /\ Strips > 0
    BY LiveViewAssumption
  <2>3. /\ hub'.refCount = Strips /\ hub'.es
        /\ hub' \in [refCount : Nat, es : BOOLEAN, timer : BOOLEAN]
    BY <1>b, <2>1, <2>2, SubscribedEffect
  <2>4. QED
    BY <2>2, <2>3 DEF HubOK
<1>10. CASE FetchFails \/ Shows
  BY <1>10, <1>a, Zenon DEF FetchFails, Shows, AlertsRead, AlertsFetched, EventArrives
<1>11. CASE UNCHANGED vars
  BY <1>11, <1>a, Zenon DEF vars, tab
<1>12. QED
  BY <1>1, <1>2, <1>3, <1>5, <1>6, <1>7, <1>8, <1>9, <1>10, <1>11, Zenon DEF Next

-----------------------------------------------------------------------------
(* The theorems.                                                            *)

TabInv == ListsInv /\ ViewOK /\ HubOK

LEMMA TabInvInit == Init => TabInv
<1> SUFFICES ASSUME Init PROVE TabInv
  OBVIOUS
<1>1. /\ 0 \in 0..Faults /\ Faults \in 0..Faults /\ 0 + Faults <= Faults /\ 0 \in 0..Strips
  BY LiveViewAssumption
<1>2. NewList \in ListState /\ NewList.life = "new" /\ NewList.timers = 0
  BY <1>1 DEF NewList, ListState
<1>3. lists = [i \in List |-> NewList] /\ faults = Faults /\ page = "dashboard"
  BY DEF Init
<1>4. ListsOK
  BY <1>1, <1>2, <1>3 DEF ListsOK
<1>5. PageOK
  BY <1>2, <1>3 DEF PageOK, Mounted
<1>6. ListsKept
  BY <1>2, <1>3 DEF ListsKept, Mounted
<1>7. ViewOK
  <2>1. wire = <<>> /\ request = [at |-> "none", read |-> {}] /\ missed \in BOOLEAN
    BY DEF Init, NoRequest
  <2>2. shown \in [Alerts -> Nat]
    BY DEF Init
  <2>3. <<>> \in Seq(AnyEvent)
    OBVIOUS
  <2>4. QED
    BY <2>1, <2>2, <2>3 DEF ViewOK
<1>8. HubOK
  BY <1>1 DEF Init, HubOK, NoHub
<1>9. QED
  BY <1>4, <1>5, <1>6, <1>7, <1>8 DEF TabInv, ListsInv

LEMMA ViewInvariant == Spec => [](WatchInv /\ TabInv)
<1>1. WatchInv /\ TabInv /\ [Next]_vars => WatchInv' /\ TabInv'
  BY WatchInvNext, ListsNext, ViewNext, HubNext DEF WatchInv, TabInv
<1>2. QED
  BY <1>1, WatchInvInit, TabInvInit, PTL DEF Spec

(* Every variable of the watcher, the streams and the tab keeps its type; one   *)
(* list at most is on show, and no list has more timers than streams broke.     *)
THEOREM ViewTypeCorrect == Spec => []TypeOK
<1>1. WatchInv /\ TabInv => TypeOK
  <2>1. SUFFICES ASSUME WatchInv, TabInv PROVE TypeOK
    OBVIOUS
  <2>2. Cardinality(Mounted) = IF page = "chain" THEN 1 ELSE 0
    BY <2>1, FS_EmptySet, FS_Singleton DEF TabInv, ListsInv, PageOK
  <2>3. \A k \in DOMAIN wire :
          wire[k] \in Event("alert_opened", Alerts) \cup Event("alert_closed", Alerts)
    BY <2>1 DEF TabInv, ViewOK, AnyEvent
  <2>4. {overlapped, missed} \subseteq BOOLEAN
    BY <2>1, Zenon DEF TabInv, ViewOK, WatchInv, WatcherOK
  <2>5. QED
    BY <2>1, <2>2, <2>3, <2>4
       DEF TypeOK, WatchInv, DatabaseOK, WatcherOK, TabInv, ListsInv, ListsOK, PageOK, ViewOK,
           HubOK, PollState, ListState
<1>2. QED
  BY <1>1, ViewInvariant, PTL

(* Whatever page follows which and whatever breaks in between, the hub has a    *)
(* connection or a timer exactly while a strip listens, the list on show has    *)
(* one or the other, and a list that was left for good has neither.            *)
THEOREM ConnectionsAreKept == Spec => []ConnectionsKept
<1>1. TabInv => ConnectionsKept
  BY DEF TabInv, ListsInv, ListsKept, HubOK, ConnectionsKept
<1>2. QED
  BY <1>1, ViewInvariant, PTL
=============================================================================
