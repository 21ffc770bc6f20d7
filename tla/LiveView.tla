------------------------------ MODULE LiveView ------------------------------
(***************************************************************************)
(* The live side of cosmad for one chain: the watcher of the API process     *)
(* (src/api/watcher.ts) polls the database through the engine and publishes  *)
(* what changed; each open stream of /api/v1/events carries the events, in   *)
(* order, to a browser tab, where AlertList.vue keeps the open alerts on      *)
(* show and the strips of UptimeStrip.vue share one connection (SseHub).     *)
(*                                                                         *)
(* An answer of the engine is what the database held when it was read, and   *)
(* may be old when it is handled.  setInterval starts a poll whether or not  *)
(* the last one has ended.                                                  *)
(***************************************************************************)
EXTENDS Integers, Sequences, FiniteSets, SequencesExt

CONSTANTS
  Alerts,      \* rows that may be opened, each once
  MaxHeight,   \* bound: blocks
  Polls,       \* bound: polls under way at a time
  Strips,      \* chains on the dashboard
  Visits,      \* bound: times the chain page is opened
  Faults       \* bound: failed reads, failed responses, broken connections

ASSUME LiveViewAssumption ==
  /\ IsFiniteSet(Alerts)
  /\ MaxHeight \in Nat /\ Polls \in Nat \ {0}
  /\ Strips \in Nat \ {0} /\ Visits \in Nat /\ Faults \in Nat

VARIABLES
  rows,         \* the alerts table
  height,       \* the newest stored block
  started,      \* how far startWatcher is
  polls,        \* the polls of the watcher
  lastHeight, lastAlertIds,
  told,         \* what was announced of each alert last
  lastBlock,    \* the height announced last
  lists,        \* the AlertLists, one per visit of the chain page
  page,         \* what the tab shows
  wire,         \* events on their way to the AlertList on show
  request,      \* its fetchAlerts
  shown,        \* how many times it shows an alert
  hub,          \* the SseHub of the tab
  overlapped,   \* history: a poll began while another was under way
  unread,       \* history: the last new height whose block could not be read
  missed,       \* history: the list lost an event, or a response crossed one
  faults        \* what is left of the bound

database == <<rows, height>>
watcher == <<started, polls, lastHeight, lastAlertIds, told, lastBlock>>
tab == <<lists, page, wire, request, shown, hub>>
history == <<overlapped, unread, missed>>
vars == <<database, watcher, tab, history, faults>>

Fault == faults > 0 /\ faults' = faults - 1

getUnclosedAlerts == {a \in Alerts : rows[a] = "open"}

-----------------------------------------------------------------------------
(* The database, as the ingestion process writes it.                        *)

OpenAlert(a) ==
  /\ rows[a] = "none"
  /\ rows' = [rows EXCEPT ![a] = "open"]
  /\ UNCHANGED <<height, watcher, tab, history, faults>>

CloseAlert(a) ==
  /\ rows[a] = "open"
  /\ rows' = [rows EXCEPT ![a] = "closed"]
  /\ UNCHANGED <<height, watcher, tab, history, faults>>

StoreBlock ==
  /\ height < MaxHeight
  /\ height' = height + 1
  /\ UNCHANGED <<rows, watcher, tab, history, faults>>

-----------------------------------------------------------------------------
(* The connections of the AlertLists.                                       *)

List == 1..Visits
NewList == [life |-> "new", es |-> "none", timers |-> 0]

Mounted == {i \in List : lists[i].life = "mounted"}
Streaming == \E i \in Mounted : lists[i].es = "open"

\* connectSse: the connection there may still be is closed.
Connected(list) == [list EXCEPT !.es = "connecting"]

\* What a stream loses when it is closed under the list on show.
Cut(i) == /\ wire' = IF i \in Mounted THEN <<>> ELSE wire
          /\ missed' = (missed \/ (i \in Mounted /\ wire # <<>>))

StreamOpens(i) ==
  /\ lists[i].es = "connecting"
  /\ lists' = [lists EXCEPT ![i].es = "open"]
  /\ UNCHANGED <<database, watcher, page, wire, request, shown, hub, history, faults>>

\* es.onerror.  The browser tries again by itself unless the server has
\* refused the stream, and the timer opens another in any case.
StreamBreaks(i) ==
  /\ lists[i].es # "none"
  /\ Fault
  /\ \E es \in IF lists[i].es = "open" THEN {"connecting"} ELSE {"connecting", "none"} :
       lists' = [lists EXCEPT ![i].es = es, ![i].timers = @ + 1]
  /\ Cut(i)
  /\ UNCHANGED <<database, watcher, page, request, shown, hub, overlapped, unread>>

\* The timer of onerror: nothing clears it, not even onUnmounted.
Reconnect(i) ==
  /\ lists[i].timers > 0
  /\ lists' = [lists EXCEPT ![i] = [Connected(lists[i]) EXCEPT !.timers = @ - 1]]
  /\ Cut(i)
  /\ UNCHANGED <<database, watcher, page, request, shown, hub, overlapped, unread, faults>>

\* Mutant: onUnmounted does nothing.
LeftOpen(list) == [list EXCEPT !.life = "gone"]

\* onUnmounted.  "haunted": with a timer still to come.
Unmounted(list) ==
  [list EXCEPT !.es = "none", !.life = IF list.timers > 0 THEN "haunted" ELSE "gone"]

-----------------------------------------------------------------------------
(* The hub, shared by the strips on show.                                   *)

NoHub == [refCount |-> 0, es |-> FALSE, timer |-> FALSE]

\* n strips subscribe; the first connects.
Subscribed(h, n) == [h EXCEPT !.refCount = @ + n, !.es = @ \/ n > 0]

\* Mutant: the timer is left alone.
OnlyCloses(h) == IF h.refCount > 0 THEN h ELSE [h EXCEPT !.es = FALSE]

disconnectIfIdle(h) == IF h.refCount > 0 THEN h ELSE NoHub

\* n strips unsubscribe.
Unsubscribed(h, n) == disconnectIfIdle([h EXCEPT !.refCount = @ - n])

\* Mutant: the strips of a page that was left go on listening.
NeverLeft(n) == Subscribed(hub, n)

\* A new page is set up before the old one is unmounted.
Replaced(n) == Unsubscribed(Subscribed(hub, n), hub.refCount)

HubBreaks ==
  /\ hub.es
  /\ Fault
  /\ hub' = [hub EXCEPT !.es = FALSE, !.timer = @ \/ hub.refCount > 0]
  /\ UNCHANGED <<database, watcher, lists, page, wire, request, shown, history>>

HubReconnects ==
  /\ hub.timer
  /\ hub' = [hub EXCEPT !.timer = FALSE, !.es = @ \/ hub.refCount > 0]
  /\ UNCHANGED <<database, watcher, lists, page, wire, request, shown, history, faults>>

-----------------------------------------------------------------------------
(* The pages of the tab.                                                    *)

\* The overview has come: one strip per chain.
DashboardLoads ==
  /\ page = "dashboard" /\ hub.refCount = 0
  /\ hub' = Subscribed(hub, Strips)
  /\ UNCHANGED <<database, watcher, lists, page, wire, request, shown, history, faults>>

NoRequest == [at |-> "none", read |-> {}]

\* The watch of the chain is immediate.  Mutant (NoRequest): it is not, and the
\* list asks only when the chain changes.
fetchAlerts == [at |-> "asked", read |-> {}]

\* The list asks for the alerts and connects; the page has one strip.
ShowChain(i) ==
  /\ page = "dashboard"
  /\ lists[i].life = "new" /\ (i > 1 => lists[i - 1].life # "new")
  /\ page' = "chain"
  /\ lists' = [lists EXCEPT ![i] = [Connected(@) EXCEPT !.life = "mounted"]]
  /\ wire' = <<>> /\ shown' = [a \in Alerts |-> 0]
  /\ request' = fetchAlerts
  /\ hub' = Replaced(1)
  /\ missed' = FALSE
  /\ UNCHANGED <<database, watcher, overlapped, unread, faults>>

\* The overview may be in the cache of the queries, or still to come.
ShowDashboard ==
  /\ page = "chain"
  /\ page' = "dashboard"
  /\ lists' = [i \in List |-> IF i \in Mounted THEN Unmounted(lists[i]) ELSE lists[i]]
  /\ wire' = <<>> /\ shown' = [a \in Alerts |-> 0] /\ request' = NoRequest
  /\ \E n \in {0, Strips} : hub' = Replaced(n)
  /\ UNCHANGED <<database, watcher, history, faults>>

-----------------------------------------------------------------------------
(* The watcher.  "answer": what the engine has said to the call under way.   *)

Idle == [at |-> "idle", answer |-> "none", height |-> 0, open |-> {}]
Asking(at) == [Idle EXCEPT !.at = at]

Poll == 1..Polls

Init ==
  /\ rows \in [Alerts -> {"none", "open"}] /\ height = 0
  /\ started = "height" /\ polls = [p \in Poll |-> Idle]
  /\ lastHeight = 0 /\ lastAlertIds = {}
  /\ told = [a \in Alerts |-> "untold"] /\ lastBlock = 0
  /\ lists = [i \in List |-> NewList] /\ page = "dashboard" /\ wire = <<>>
  /\ request = NoRequest /\ shown = [a \in Alerts |-> 0] /\ hub = NoHub
  /\ overlapped = FALSE /\ unread = 0 /\ missed = FALSE /\ faults = Faults

\* The reads of startWatcher, which createApp awaits before the server listens.
\* One that fails counts as an empty database.
StartHeight ==
  /\ started = "height" /\ started' = "alerts"
  /\ \/ lastHeight' = height /\ UNCHANGED faults
     \/ lastHeight' = 0 /\ Fault
  /\ lastBlock' = lastHeight'
  /\ UNCHANGED <<database, polls, lastAlertIds, told, tab, history>>

StartAlerts ==
  /\ started = "alerts" /\ started' = "up"
  /\ \/ lastAlertIds' = getUnclosedAlerts /\ UNCHANGED faults
     \/ lastAlertIds' = {} /\ Fault
  /\ told' = [a \in Alerts |-> IF a \in lastAlertIds' THEN "open" ELSE "untold"]
  /\ UNCHANGED <<database, polls, lastHeight, lastBlock, tab, history>>

\* setInterval: any poll that is not under way may be the next.  Bound: one of
\* them begins while another is under way.
Tick(p) ==
  /\ started = "up"
  /\ polls[p].at = "idle" /\ \A q \in 1..(p - 1) : polls[q].at # "idle"
  /\ polls' = [polls EXCEPT ![p] = Asking("height")]
  /\ IF \E q \in Poll : polls[q].at # "idle"
     THEN ~overlapped /\ overlapped' = TRUE
     ELSE UNCHANGED overlapped
  /\ UNCHANGED <<database, started, lastHeight, lastAlertIds, told, lastBlock, tab,
                 unread, missed, faults>>

\* The engine answers the call under way: latestBlockHeight, latestBlock or
\* getUnclosedAlerts.
Answers(p) ==
  /\ polls[p].at # "idle" /\ polls[p].answer = "none"
  /\ \/ /\ polls' = [polls EXCEPT ![p] =
                     IF @.at = "alerts" THEN [@ EXCEPT !.answer = "ok", !.open = getUnclosedAlerts]
                     ELSE [@ EXCEPT !.answer = "ok", !.height = height]]
        /\ UNCHANGED faults
     \/ /\ polls' = [polls EXCEPT ![p].answer = "failed"]
        /\ Fault
  /\ UNCHANGED <<database, started, lastHeight, lastAlertIds, told, lastBlock, tab, history>>

\* Mutant: the error of the call is not looked at.
AnyAnswer(p) == TRUE

\* result.ok
Ok(p) == polls[p].answer = "ok"

Goes(p, at) == polls' = [polls EXCEPT ![p] = Asking(at)]

\* Mutant: one block is not worth an event.
ByTwo(p) == polls[p].height > lastHeight + 1

IsNewer(p) == polls[p].height > lastHeight

\* checkBlocks up to its second call.
checkHeight(p) ==
  /\ polls[p].at = "height" /\ polls[p].answer # "none"
  /\ IF Ok(p) /\ IsNewer(p)
     THEN lastHeight' = polls[p].height /\ Goes(p, "block")
     ELSE UNCHANGED lastHeight /\ Goes(p, "alerts")
  /\ UNCHANGED <<database, started, lastAlertIds, told, lastBlock, tab, history, faults>>

\* The block is published as it was read, not at the height found first.
publishBlock(p) ==
  /\ polls[p].at = "block" /\ polls[p].answer # "none"
  /\ lastBlock' = IF Ok(p) THEN polls[p].height ELSE lastBlock
  /\ unread' = IF Ok(p) THEN unread ELSE lastHeight
  /\ Goes(p, "alerts")
  /\ UNCHANGED <<database, started, lastHeight, lastAlertIds, told, tab, overlapped, missed, faults>>

Event(type, alerts) == {[type |-> type, alert |-> a] : a \in alerts}

\* Every open stream gets the events; the list on show may have none.
publish(events) ==
  /\ wire' = IF Streaming THEN wire \o SetToSeq(events) ELSE wire
  /\ missed' = (missed \/ (Mounted # {} /\ ~Streaming /\ events # {}))

Changes(current) ==
  Event("alert_opened", current \ lastAlertIds) \cup Event("alert_closed", lastAlertIds \ current)

\* checkAlerts: what differs from the poll before is published.
checkAlerts(p) ==
  /\ polls[p].at = "alerts" /\ polls[p].answer # "none"
  /\ IF Ok(p)
     THEN LET events == Changes(polls[p].open)
          IN /\ publish(events)
             /\ lastAlertIds' = polls[p].open
             /\ told' = [a \in Alerts |->
                          IF \E e \in events : e.alert = a
                          THEN IF a \in polls[p].open THEN "open" ELSE "closed"
                          ELSE told[a]]
     ELSE UNCHANGED <<wire, missed, lastAlertIds, told>>
  /\ Goes(p, "idle")
  /\ UNCHANGED <<database, started, lastHeight, lastBlock, lists, page, request, shown, hub,
                 overlapped, unread, faults>>

-----------------------------------------------------------------------------
(* The list on show.                                                        *)

Show(set) == [a \in Alerts |-> IF a \in set THEN 1 ELSE 0]

\* GET /alerts reads the table.  Of an alert that it finds the list may still
\* be told.
AlertsRead ==
  /\ request.at = "asked" /\ started = "up"
  /\ request' = [at |-> "read", read |-> getUnclosedAlerts]
  /\ missed' = (missed \/ ~(getUnclosedAlerts \subseteq lastAlertIds)
                       \/ \E k \in DOMAIN wire : wire[k] \in Event("alert_opened", getUnclosedAlerts))
  /\ UNCHANGED <<database, watcher, lists, page, wire, shown, hub, overlapped, unread, faults>>

\* The answer replaces what is shown.
AlertsFetched ==
  /\ request.at = "read"
  /\ shown' = Show(request.read) /\ request' = NoRequest
  /\ UNCHANGED <<database, watcher, lists, page, wire, hub, history, faults>>

\* fetch rejects; or it is answered by an error, which has no alerts.
FetchFails ==
  /\ request.at = "asked"
  /\ Fault
  /\ shown' \in {shown, Show({})}
  /\ request' = NoRequest /\ missed' = TRUE
  /\ UNCHANGED <<database, watcher, lists, page, wire, hub, overlapped, unread>>

\* alert_opened adds a line, alert_closed removes all of the alert.
Lines(event) == IF event.type = "alert_opened" THEN shown[event.alert] + 1 ELSE 0

EventArrives ==
  /\ wire # <<>>
  /\ wire' = Tail(wire)
  /\ shown' = [shown EXCEPT ![Head(wire).alert] = Lines(Head(wire))]
  /\ missed' = (missed \/ request.at = "read")
  /\ UNCHANGED <<database, watcher, lists, page, request, hub, overlapped, unread, faults>>

-----------------------------------------------------------------------------
Watch(p) ==
  Tick(p) \/ Answers(p) \/ checkHeight(p) \/ publishBlock(p) \/ checkAlerts(p)

Connect(i) == (started = "up" /\ StreamOpens(i)) \/ Reconnect(i)

Shows == AlertsRead \/ AlertsFetched \/ EventArrives

Next ==
  \/ \E a \in Alerts : OpenAlert(a) \/ CloseAlert(a)
  \/ StoreBlock \/ StartHeight \/ StartAlerts
  \/ \E p \in Poll : Watch(p)
  \/ \E i \in List : Connect(i) \/ StreamBreaks(i) \/ ShowChain(i)
  \/ HubBreaks \/ HubReconnects \/ DashboardLoads \/ ShowDashboard
  \/ FetchFails \/ Shows

\* Calls are answered, timers fire, streams open and answers arrive.  Nobody has
\* to look, no alert has to close, and nothing has to break.
Spec ==
  /\ Init /\ [][Next]_vars
  /\ WF_vars(StartHeight) /\ WF_vars(StartAlerts)
  /\ \A p \in Poll : WF_vars(Watch(p))
  /\ \A i \in List : WF_vars(Connect(i))
  /\ WF_vars(HubReconnects)
  /\ WF_vars(Shows)

-----------------------------------------------------------------------------
(* Properties.                                                             *)

(* Every variable has its type.                                             *)
TypeOK ==
  /\ rows \in [Alerts -> {"none", "open", "closed"}] /\ height \in 0..MaxHeight
  /\ started \in {"height", "alerts", "up"}
  /\ polls \in [Poll -> [at : {"idle", "height", "block", "alerts"},
                         answer : {"none", "ok", "failed"},
                         height : 0..MaxHeight, open : SUBSET Alerts]]
  /\ {lastHeight, lastBlock, unread} \subseteq 0..MaxHeight /\ lastAlertIds \subseteq Alerts
  /\ told \in [Alerts -> {"untold", "open", "closed"}]
  /\ lists \in [List -> [life : {"new", "mounted", "gone", "haunted"},
                         es : {"none", "connecting", "open"}, timers : 0..Faults]]
  /\ page \in {"dashboard", "chain"} /\ Cardinality(Mounted) = IF page = "chain" THEN 1 ELSE 0
  /\ \A k \in DOMAIN wire : wire[k] \in Event("alert_opened", Alerts) \cup Event("alert_closed", Alerts)
  /\ request \in [at : {"none", "asked", "read"}, read : SUBSET Alerts]
  /\ shown \in [Alerts -> Nat]
  /\ hub \in [refCount : 0..Strips, es : BOOLEAN, timer : BOOLEAN]
  /\ {overlapped, missed} \subseteq BOOLEAN /\ faults \in 0..Faults

(* The hub has a connection, or a timer to open one, exactly while somebody     *)
(* listens, whatever page follows which and whatever breaks in between; so has  *)
(* the list on show; and a list that was left has a connection only if its       *)
(* timer was still to come then - a connection nobody closes any more.         *)
ConnectionsKept ==
  /\ (hub.es \/ hub.timer) <=> hub.refCount > 0
  /\ \A i \in Mounted : lists[i].es # "none" \/ lists[i].timers > 0
  /\ \A i \in List : lists[i].life = "gone" => lists[i].es = "none" /\ lists[i].timers = 0

(* No alert is announced as opened again and no height after a higher one,     *)
(* failed reads and all - unless two polls overlapped, of which the one that     *)
(* read first may be handled last.                                          *)
AnnouncedInOrder ==
  [][~overlapped =>
       /\ \A a \in Alerts : told[a] = "closed" => told'[a] = "closed"
       /\ lastBlock' >= lastBlock]_vars

(* When the database is at rest, its open alerts are those announced, however   *)
(* the polls before crossed, and its newest block has been announced - unless    *)
(* it could not be read when its height was new, or polls overlapped.         *)
AnnouncementsSettle ==
  /\ <>[](\A a \in Alerts : told[a] = "open" <=> rows[a] = "open")
  /\ <>[](lastBlock = height \/ unread = height \/ overlapped)

(* A list that stays on show ends up with each open alert once and nothing       *)
(* else - unless an event was published while its stream was down, or its one    *)
(* request crossed an event or failed: it never asks again.                   *)
ListShowsOpen == <>[](Mounted # {} /\ ~missed => shown = Show(getUnclosedAlerts))
=============================================================================
