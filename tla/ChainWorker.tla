---------------------------- MODULE ChainWorker ----------------------------
(***************************************************************************)
(* The poll cycle of one chain worker: pollChain of src/dp/chain_worker.ts, *)
(* with the database rows it owns.  Every await of the code ends an action, *)
(* so the chain moves, calls fail and the process dies between any two of    *)
(* them.  Of the alerts only the consecutive-miss one is here, because it is *)
(* judged on the rows this cycle has just written.                          *)
(*                                                                         *)
(* Heights start at 1; 0 stands for the null the code gets from an empty     *)
(* table.  Several RPC nodes answer in turn: each answer may come from a     *)
(* node up to Lag heights behind the chain.                                 *)
(***************************************************************************)
EXTENDS CommitToBlock, InactivityTable, Sequences

CONSTANTS
  allowBlockGaps,      \* the config flag of the same name
  maxBlocksPerPoll,    \* most heights fetched by one poll
  threshold,           \* consecutiveMissAlert.threshold
  Standings,           \* the standings the chain of this model may show
  Lag,                 \* how far an RPC node may be behind the chain
  MaxHeight,           \* bound: where the chain stops
  QueryFaults,         \* bound: failed RPC and API calls (retries exhausted)
  DbFaults,            \* bound: failed database calls
  Crashes              \* bound: deaths of the worker's process

ASSUME ChainWorkerAssumption ==
  /\ allowBlockGaps \in BOOLEAN
  /\ maxBlocksPerPoll \in Nat \ {0}
  /\ threshold \in Nat \ {0}
  /\ Standings \subseteq Standing /\ Standings # {}
  /\ Lag \in Nat /\ MaxHeight \in Nat
  /\ QueryFaults \in Nat /\ DbFaults \in Nat /\ Crashes \in Nat

VARIABLES
  chain,          \* the validator's standing at each height the chain reached
  blocks,         \* the rows of `blocks`: height -> signed
  periods,        \* validator_inactivity rows, see InactivityTable
  missAlert,      \* an unclosed consecutive_miss row exists
  activeSetHex,   \* the set cached at startup has the validator
  pc,             \* where the poll is
  dbHeight,       \* latest stored height, as read at the start of the poll
  hadAlert,       \* missAlert, as read at the start of the poll
  rpcHeight,      \* the tip the poll works with
  status,         \* "unknown", "active" or a reason: the validator at rpcHeight
  openPeriod,     \* start of the ongoing period as read by the poll, 0 if none
  lastKnown,      \* lastKnownActive
  next,           \* height attributed next
  batch,          \* `blocks` of the poll: height -> signed
  cache,          \* fallbackCache.value
  apiFailed,      \* history: an API answer was missing in this poll
  polling,        \* the flag of the same name: a poll is under way
  waiting,        \* other polls under way, each suspended at an await of its own
  faults          \* what is left of the bounds on failures

store  == <<blocks, periods, missAlert>>
locals == <<dbHeight, hadAlert, rpcHeight, status, openPeriod, lastKnown,
            next, batch, cache, apiFailed>>
polls  == <<polling, waiting>>
vars   == <<chain, store, activeSetHex, pc, locals, polls, faults>>

-----------------------------------------------------------------------------
(* What the worker derives from its reads.                                 *)

NoBlocks == [h \in {} |-> 0]

\* latestBlockHeight: 0 when nothing is stored.
Latest(heights) == IF heights = {} THEN 0 ELSE Max(heights)

\* The heights an RPC node may be at, up to Lag behind the chain's tip.
NodeTips == {h \in 1..Len(chain) : h + Lag >= Len(chain)}

\* Mutant: polls start at the stored height, not above it.
FromStored ==
  IF dbHeight # 0 THEN dbHeight ELSE IF rpcHeight > 1 THEN rpcHeight - 1 ELSE 1

\* The first poll seeds from the newest settled block, later ones continue
\* above what is stored.
fromHeight ==
  IF dbHeight # 0 THEN dbHeight + 1 ELSE IF rpcHeight > 1 THEN rpcHeight - 1 ELSE 1

toHeight ==
  IF rpcHeight < fromHeight + maxBlocksPerPoll - 1
  THEN rpcHeight
  ELSE fromHeight + maxBlocksPerPoll - 1

\* The startup set settles doubts only while the validator is not known to be
\* out of it.
trustedActiveSet == activeSetHex /\ lastKnown # "inactive"

\* Mutant: without new blocks the window ends at the tip of the chain.
WindowAtTip == IF DOMAIN batch # {} THEN Max(DOMAIN batch) ELSE rpcHeight

\* Where the alert windows end: the last block of this poll, stored or not.
latestHeight ==
  IF DOMAIN batch # {} THEN Max(DOMAIN batch)
  ELSE IF dbHeight # 0 THEN dbHeight ELSE rpcHeight

\* Mutant: the window is one block short.
BreachedOneEarly ==
  \A h \in latestHeight - threshold + 2..latestHeight :
    h \in DOMAIN blocks /\ blocks[h] = 0

\* checkConsecutiveMiss on the rows of the trailing window: every one of the
\* last `threshold` heights is stored and missed.
breached ==
  \A h \in latestHeight - threshold + 1..latestHeight :
    h \in DOMAIN blocks /\ blocks[h] = 0

-----------------------------------------------------------------------------
Forget ==
  /\ dbHeight' = 0 /\ hadAlert' = FALSE /\ rpcHeight' = 0
  /\ status' = "unknown" /\ openPeriod' = 0 /\ lastKnown' = "unknown"
  /\ next' = 0 /\ batch' = NoBlocks /\ cache' = "unknown" /\ apiFailed' = FALSE

Init ==
  /\ chain \in {<<s>> : s \in Standings}
  /\ blocks = NoBlocks /\ periods = NoPeriods /\ missAlert = FALSE
  /\ activeSetHex = FALSE /\ pc = "down"
  /\ dbHeight = 0 /\ hadAlert = FALSE /\ rpcHeight = 0
  /\ status = "unknown" /\ openPeriod = 0 /\ lastKnown = "unknown"
  /\ next = 0 /\ batch = NoBlocks /\ cache = "unknown" /\ apiFailed = FALSE
  /\ polling = FALSE /\ waiting = {}
  /\ faults = [query |-> QueryFaults, db |-> DbFaults, crash |-> Crashes]

\* A call of this kind fails, within the bound.
Fails(kind) ==
  /\ faults[kind] > 0
  /\ faults' = [faults EXCEPT ![kind] = @ - 1]

\* The chain produces its next block.
Advance ==
  /\ Len(chain) < MaxHeight
  /\ \E s \in Standings :
       /\ Follows(chain[Len(chain)], s)
       /\ chain' = Append(chain, s)
  /\ UNCHANGED <<store, activeSetHex, pc, locals, polls, faults>>

\* runChainWorker: the active set is fetched once, at some node's tip; either
\* call may fail, which leaves no set to find the validator in.
Start ==
  /\ pc = "down"
  /\ pc' = "idle"
  /\ \/ activeSetHex' = FALSE
     \/ /\ chainType = "bft"
        /\ \E h \in NodeTips : chain[h] \in ActiveStanding
        /\ activeSetHex' = TRUE
  /\ UNCHANGED <<chain, store, locals, polls, faults>>

\* The process dies: what it held is gone, what it stored stays.
Crash ==
  /\ pc # "down"
  /\ Fails("crash")
  /\ pc' = "down" /\ activeSetHex' = FALSE
  /\ polling' = FALSE /\ waiting' = {}
  /\ Forget
  /\ UNCHANGED <<chain, store>>

\* The end of poll, the finally included.
EndPoll ==
  /\ pc' = "idle"
  /\ polling' = FALSE
  /\ Forget

\* A poll that has read what it starts from: getUnclosedAlerts, latestBlockHeight.
NewPoll ==
  [pc |-> "tip", dbHeight |-> Latest(DOMAIN blocks), hadAlert |-> missAlert,
   rpcHeight |-> 0, status |-> "unknown", openPeriod |-> 0, lastKnown |-> "unknown",
   next |-> 0, batch |-> NoBlocks, cache |-> "unknown", apiFailed |-> FALSE]

\* The poll in hand, as it is left at an await.
ThisPoll ==
  [pc |-> pc, dbHeight |-> dbHeight, hadAlert |-> hadAlert, rpcHeight |-> rpcHeight,
   status |-> status, openPeriod |-> openPeriod, lastKnown |-> lastKnown,
   next |-> next, batch |-> batch, cache |-> cache, apiFailed |-> apiFailed]

\* Mutant: the timer begins a poll whether one is under way or not.
NeverBusy == FALSE

Busy == polling

\* The polls the event loop may take up: those that wait, and the one the timer
\* begins (bound: two at a time).
Ready == waiting \cup IF Busy \/ waiting # {} THEN {} ELSE {NewPoll}

\* The event loop takes up a poll; the one in hand, if any, waits meanwhile.
BeginPoll ==
  /\ pc # "down"
  /\ \E poll \in Ready :
       /\ pc' = poll.pc /\ dbHeight' = poll.dbHeight /\ hadAlert' = poll.hadAlert
       /\ rpcHeight' = poll.rpcHeight /\ status' = poll.status
       /\ openPeriod' = poll.openPeriod /\ lastKnown' = poll.lastKnown
       /\ next' = poll.next /\ batch' = poll.batch /\ cache' = poll.cache
       /\ apiFailed' = poll.apiFailed
       /\ waiting' = (waiting \ {poll}) \cup IF pc = "idle" THEN {} ELSE {ThisPoll}
       /\ polling' = (polling \/ poll \notin waiting)
  /\ UNCHANGED <<chain, store, activeSetHex, faults>>

\* A read without which the poll gives up: the open alerts or the stored
\* height, or at the end the rows of a window.
ReadFails ==
  /\ pc \in {"idle", "evaluate"}
  /\ pc = "idle" => ~Busy
  /\ Fails("db")
  /\ EndPoll
  /\ UNCHANGED <<chain, store, activeSetHex, waiting>>

getLatestCommit ==
  /\ pc = "tip"
  /\ pc' = "status"
  /\ rpcHeight' \in NodeTips
  /\ UNCHANGED <<chain, store, activeSetHex, polls, dbHeight, hadAlert, status,
                 openPeriod, lastKnown, next, batch, cache, apiFailed, faults>>

LatestCommitFails ==
  /\ pc = "tip"
  /\ Fails("query")
  /\ EndPoll
  /\ UNCHANGED <<chain, store, activeSetHex, waiting>>

\* Mutant: the status is asked for without the height header.
StandingNow == chain[Len(chain)]

\* What the API knows of the validator as of the height of the poll.
StandingOfPoll == chain[rpcHeight]

\* The status as of rpcHeight.  A validator whose signing info cannot be read
\* is reported jailed, tombstoned or not.
resolveValidatorStatus ==
  /\ pc = "status"
  /\ pc' = "inactivity"
  /\ IF chainType = "tm2"
     THEN status' = "unknown" /\ UNCHANGED <<apiFailed, faults>>
     ELSE \/ /\ status' = IF StandingOfPoll \in ActiveStanding
                          THEN "active" ELSE StandingOfPoll
             /\ UNCHANGED <<apiFailed, faults>>
          \/ /\ Fails("query")
             /\ apiFailed' = TRUE
             /\ \/ status' = "unknown"
                \/ StandingOfPoll = "tombstoned" /\ status' = "jailed"
  /\ UNCHANGED <<chain, store, activeSetHex, polls, dbHeight, hadAlert, rpcHeight,
                 openPeriod, lastKnown, next, batch, cache>>

\* The ongoing period doubles as the last known status when the live one is
\* unknown.
LastKnown(read) ==
  IF status # "unknown"
  THEN IF status = "active" THEN "active" ELSE "inactive"
  ELSE IF read /\ getOpenInactivity(periods) # 0 THEN "inactive" ELSE "unknown"

\* getOpenInactivity; a failed read leaves the table alone for this poll.
readInactivity ==
  /\ pc = "inactivity"
  /\ \E read \in BOOLEAN :
       LET open == getOpenInactivity(periods) IN
       /\ IF read THEN UNCHANGED faults ELSE Fails("db")
       /\ lastKnown' = LastKnown(read)
       /\ openPeriod' = IF read THEN open ELSE 0
       /\ pc' = IF read /\ status # "unknown" THEN "end" ELSE "fetch"
  /\ UNCHANGED <<chain, store, activeSetHex, polls, dbHeight, hadAlert, rpcHeight,
                 status, next, batch, cache, apiFailed>>

\* recordInactivity, first half: the ongoing period ends.  A failed update is
\* only logged.
EndInactivity ==
  /\ pc = "end"
  /\ pc' = IF StartsPeriod(periods, openPeriod, status) THEN "insert" ELSE "fetch"
  /\ IF EndsPeriod(periods, openPeriod, status)
     THEN \/ /\ periods' = endInactivity(periods, openPeriod, rpcHeight)
             /\ UNCHANGED faults
          \/ UNCHANGED periods /\ Fails("db")
     ELSE UNCHANGED <<periods, faults>>
  /\ UNCHANGED <<chain, blocks, missAlert, activeSetHex, polls, locals>>

\* recordInactivity, second half: a period starts at the tip of this poll.
StartInactivity ==
  /\ pc = "insert"
  /\ pc' = "fetch"
  /\ \/ periods' = insertInactivity(periods, rpcHeight, status) /\ UNCHANGED faults
     \/ UNCHANGED periods /\ Fails("db")
  /\ UNCHANGED <<chain, blocks, missAlert, activeSetHex, polls, locals>>

\* getRangeCommits for this poll's slice, nothing to do when the node answering
\* is not past what is stored.
getRangeCommits ==
  /\ pc = "fetch"
  /\ IF fromHeight <= rpcHeight
     THEN pc' = "attribute" /\ next' = fromHeight
     ELSE pc' = "evaluate" /\ UNCHANGED next
  /\ UNCHANGED <<chain, store, activeSetHex, polls, dbHeight, hadAlert, rpcHeight,
                 status, openPeriod, lastKnown, batch, cache, apiFailed, faults>>

\* On to the next height of the slice.
Proceed ==
  /\ next' = next + 1
  /\ pc' = IF next = toHeight THEN "ingest" ELSE "attribute"

Stop == pc' = "ingest" /\ UNCHANGED next

\* A settled commit becomes a block of the batch.
AttributeCommit ==
  /\ pc = "attribute"
  /\ next < Len(chain)
  /\ \E answer \in {ActivityOf(chain[next]), "failed"} :
       LET asks  == Ambiguous(chain[next], trustedActiveSet) /\ cache = "unknown"
           block == commitToBlock(chain[next], trustedActiveSet, cache,
                                  lastKnown, answer)
       IN /\ IF answer = "failed"
             THEN asks /\ Fails("query") /\ apiFailed' = TRUE
             ELSE UNCHANGED <<faults, apiFailed>>
          /\ batch' = [h \in DOMAIN batch \cup {next} |->
                        IF h = next THEN block.signed ELSE batch[h]]
          /\ cache' = block.cache
  /\ Proceed
  /\ UNCHANGED <<chain, store, activeSetHex, polls, dbHeight, hadAlert, rpcHeight,
                 status, openPeriod, lastKnown>>

\* Mutant: an unusable commit is skipped whatever the config says.
SkipAlways == Proceed

\* Skipped under allowBlockGaps, else the slice ends before it.
SkipOrStop == IF allowBlockGaps THEN Proceed ELSE Stop

\* The fetch failed or the commit cannot be parsed.  A node that was behind this
\* height had no commit for it; any node may fail.
CommitUnusable ==
  /\ pc = "attribute"
  /\ IF next + Lag > rpcHeight THEN UNCHANGED faults ELSE Fails("query")
  /\ SkipOrStop
  /\ UNCHANGED <<chain, store, activeSetHex, polls, dbHeight, hadAlert, rpcHeight,
                 status, openPeriod, lastKnown, batch, cache, apiFailed>>

\* canonical = false: the height was the tip of the node that answered, when it
\* did - the chain may have moved on since.  The slice ends before it,
\* allowBlockGaps or not.
CommitNotCanonical ==
  /\ pc = "attribute"
  /\ next + Lag >= rpcHeight
  /\ Stop
  /\ UNCHANGED <<chain, store, activeSetHex, polls, dbHeight, hadAlert, rpcHeight,
                 status, openPeriod, lastKnown, batch, cache, apiFailed, faults>>

\* ingestBlocks: all rows or none (a stored height is refused by the primary
\* key).  A failure is only logged.
ingestBlocks ==
  /\ pc = "ingest"
  /\ pc' = "evaluate"
  /\ \/ /\ DOMAIN batch \cap DOMAIN blocks = {}
        /\ blocks' = [h \in DOMAIN blocks \cup DOMAIN batch |->
                        IF h \in DOMAIN blocks THEN blocks[h] ELSE batch[h]]
        /\ UNCHANGED faults
     \/ /\ DOMAIN batch \cap DOMAIN blocks # {}
        /\ UNCHANGED <<blocks, faults>>
     \/ DOMAIN batch # {} /\ UNCHANGED blocks /\ Fails("db")
  /\ UNCHANGED <<chain, periods, missAlert, activeSetHex, polls, locals>>

\* The windows are read, the evaluator judges, its event is applied.  A failed
\* write is only logged.
Evaluate ==
  /\ pc = "evaluate"
  /\ EndPoll
  /\ \/ missAlert' = breached /\ UNCHANGED faults
     \/ breached # hadAlert /\ UNCHANGED missAlert /\ Fails("db")
  /\ UNCHANGED <<chain, blocks, periods, activeSetHex, waiting>>

Poll ==
  \/ BeginPoll \/ getLatestCommit \/ resolveValidatorStatus \/ readInactivity
  \/ EndInactivity \/ StartInactivity \/ getRangeCommits
  \/ AttributeCommit \/ CommitUnusable \/ CommitNotCanonical
  \/ ingestBlocks \/ Evaluate \/ ReadFails \/ LatestCommitFails

Next == Poll \/ Advance \/ Start \/ Crash

Spec == Init /\ [][Next]_vars

\* The timer keeps polling and a dead process is started again; the chain owes
\* nothing.  Failures are bounded, so no call fails for ever.
FairSpec == Spec /\ WF_vars(Poll) /\ WF_vars(Start)

-----------------------------------------------------------------------------
(* Properties.                                                             *)

Reasons == {"active"} \cup InactiveStanding

ChainOK == chain \in Seq(Standing) /\ Len(chain) > 0

FlagsOK == {missAlert, activeSetHex, hadAlert, apiFailed, polling} \subseteq BOOLEAN

RowsOK ==
  /\ DOMAIN blocks \subseteq 1..Len(chain)
  /\ blocks \in [DOMAIN blocks -> Signed]
  /\ DOMAIN periods \subseteq 1..Len(chain)
  /\ periods \in [DOMAIN periods -> [reason : Reason, end : Nat]]

PollOK ==
  /\ pc \in {"down", "idle", "tip", "status", "inactivity", "end", "insert",
             "fetch", "attribute", "ingest", "evaluate"}
  /\ dbHeight \in Nat /\ rpcHeight \in 0..Len(chain) /\ openPeriod \in Nat
  /\ next \in Nat
  /\ status \in {"unknown"} \cup Reasons
  /\ lastKnown \in Knowledge /\ cache \in Knowledge
  /\ DOMAIN batch \subseteq 1..Len(chain) /\ batch \in [DOMAIN batch -> Signed]

WaitingOK == \A poll \in waiting : DOMAIN poll = DOMAIN NewPoll

FaultsOK == faults \in [{"query", "db", "crash"} -> Nat]

TypeOK == ChainOK /\ RowsOK /\ FlagsOK /\ PollOK /\ WaitingOK /\ FaultsOK

(* The stored blocks are what BlockLedger promises: contiguous, final, never   *)
(* rewritten.  At stake is every early exit of the loop over the slice        *)
(* (chain_worker.ts:487-544), a poll that dies or loses its write, and nodes  *)
(* that answer from behind what is stored.  Without allowBlockGaps only.      *)
Ledger == INSTANCE BlockLedger
ImplementsLedger == Ledger!LedgerSpec

\* The polls under way, the one in hand included.
UnderWay == waiting \cup IF pc \in {"down", "idle"} THEN {} ELSE {ThisPoll}

(* However often the timer fires (643-644, 667): a poll never holds a height    *)
(* that another one has stored since it began, so no batch is refused for      *)
(* being stored already, and the open alerts it judges by are still the ones   *)
(* of the table - though both are read before any of its awaits (371, 432)     *)
(* and used after all of them (547, 395-409).                                 *)
PollsKeepApart ==
  \A poll \in UnderWay :
    /\ poll.hadAlert = missAlert
    /\ poll.pc # "evaluate" => /\ poll.dbHeight = Latest(DOMAIN blocks)
                               /\ DOMAIN poll.batch \cap DOMAIN blocks = {}

Active(h) == chain[h] \in ActiveStanding

(* Between these heights the validator's activity changes at most once.       *)
ChangesOnce(lo, hi) ==
  \A i, j, k \in lo..hi :
    i <= j /\ j <= k /\ (Active(i) <=> Active(k)) => (Active(j) <=> Active(i))

(* A block of the batch has a wrong `signed` only if an API answer was missing *)
(* in this poll, or the startup set was trusted for a height the validator    *)
(* spent outside it, or its activity changed more than once up to the tip of  *)
(* the poll - the memo of resolveActiveFallback (131-158) is right otherwise. *)
MisattributionExplained ==
  pc \in {"attribute", "ingest"} =>
    \A h \in DOMAIN batch :
      \/ batch[h] = Truth(chain[h])
      \/ apiFailed
      \/ trustedActiveSet /\ ~Active(h)
      \/ ~ChangesOnce(fromHeight, rpcHeight)

(* While the poll takes the validator for inactive - by its live status or,    *)
(* the API being down, by the stored ongoing period, across restarts - a      *)
(* height it spent outside the set is never stored as a miss (459-469).       *)
NoMissWhileKnownInactive ==
  lastKnown = "inactive" =>
    \A h \in DOMAIN batch : ~Active(h) => batch[h] = -1

(* Every recorded period starts at a height at which the validator was out of *)
(* the active set, and an end is a height at which it was back, or out for     *)
(* another reason than the one recorded, or tombstoned, which a missing        *)
(* signing info hides.                                                        *)
PeriodsTruthful ==
  \A h \in DOMAIN periods :
    /\ ~Active(h)
    /\ periods[h].end # 0 =>
         LET end == chain[periods[h].end] IN
         end \in ActiveStanding \cup {"tombstoned"} \/ end # periods[h].reason

(* Periods never overlap and only the newest is open (tables.ts:191-199), as   *)
(* long as no database call failed and no node answers from behind: across    *)
(* crashes between the two writes of recordInactivity, changes of reason      *)
(* within one height and signing infos that cannot be read.                   *)
PeriodsDisjoint ==
  Lag = 0 /\ faults.db = DbFaults =>
    \A a, b \in DOMAIN periods :
      a < b => periods[a].end # 0 /\ a <= periods[a].end /\ periods[a].end <= b

\* The newest stored heights, as many as the threshold.
Newest ==
  {h \in DOMAIN blocks : Latest(DOMAIN blocks) - threshold < h}

(* A consecutive_miss alert is closed only when one of the newest stored       *)
(* blocks is not a miss - unless the rows of this poll were refused.          *)
ClosedBySigning ==
  [][missAlert /\ ~missAlert' /\ DOMAIN batch \subseteq DOMAIN blocks
       => \E h \in Newest : blocks[h] # 0]_vars

(* Liveness.                                                               *)

(* Above the first stored height every settled height is stored in the end,   *)
(* whatever failed on the way.                                                *)
CatchesUp ==
  \A h \in 1..MaxHeight :
    (h < Len(chain) /\ \E g \in DOMAIN blocks : g <= h) ~> (h \in DOMAIN blocks)

Stopped == Len(chain) = MaxHeight

\* The last final heights, as many as the threshold, were all missed.
Missing == \A h \in Len(chain) - threshold..Len(chain) - 1 :
             h >= 1 /\ chain[h] = "missed"

\* The chain stopped with the validator in the set all along, and the heights
\* the alert is about are past the first stored one.
StoppedInSet ==
  /\ Stopped
  /\ \A h \in 1..Len(chain) : Active(h)
  /\ \E g \in DOMAIN blocks : g <= Len(chain) - threshold

(* For a validator that never left the set, the alert ends up open exactly     *)
(* when the last `threshold` settled blocks of the chain were missed.         *)
AlertSettles == [](StoppedInSet => <>[](missAlert <=> Missing))

\* The table says what the chain says.
TableAgrees ==
  LET open == getOpenInactivity(periods) IN
  IF Active(Len(chain)) THEN open = 0
  ELSE open # 0 /\ periods[open].reason = chain[Len(chain)]

(* The table ends up with an ongoing period exactly when the validator is out, *)
(* for the reason it is out.                                                  *)
InactivityConverges == [](Stopped => <>[]TableAgrees)

(* The promise of commitToBlock (162-163) and of the `signed` column           *)
(* (tables.ts:30): a height the validator spent outside the set is no miss.   *)
MissOnlyWhenActive ==
  \A h \in DOMAIN blocks : blocks[h] = 0 => chain[h] = "missed"

(* A permanent period never ends: the validator is "jailed forever"            *)
(* (tables.ts:196), its alert "will never close on its own" (alert/index.ts:   *)
(* 228).                                                                      *)
TombstoneStands ==
  [][\A h \in DOMAIN periods :
       periods[h] = [reason |-> "tombstoned", end |-> 0]
         => h \in DOMAIN periods' /\ periods'[h] = periods[h]]_vars
=============================================================================
