------------------------- MODULE ChainWorkerProofs -------------------------
(***************************************************************************)
(* What ChainWorker guarantees for every chain, every bound and every       *)
(* configuration.  The argument runs over one inductive invariant, built     *)
(* from named parts: what the poll has read is still true when it is used,   *)
(* and the batch is the run of final heights the poll has walked over.       *)
(***************************************************************************)
EXTENDS ChainWorker, FiniteSetTheorems, TLAPS

-----------------------------------------------------------------------------
(* Operators.                                                              *)

(* A non-empty bounded set of heights has a greatest element, so what the       *)
(* queries `ORDER BY height DESC LIMIT 1` return (latestBlockHeight,           *)
(* getOpenInactivity) is a row of the table that no other row is above: among   *)
(* the sets of heights above a height of S one is minimal, and the height it    *)
(* belongs to has none above it.                                              *)
LEMMA MaxIsMax ==
  ASSUME NEW n \in Nat, NEW S \in SUBSET (1..n), S # {}
  PROVE  Max(S) \in S /\ \A h \in S : h <= Max(S)
<1> DEFINE Above(h) == {g \in S : g > h}
           T == {Above(h) : h \in S}
<1>1. IsFiniteSet(S)
  <2>1. S \in SUBSET Nat /\ \A s \in S : s <= n
    OBVIOUS
  <2>2. QED
    BY <2>1, FS_BoundedSetOfNaturals
<1>2. IsWellFoundedOn(StrictSubsetOrdering(S), SUBSET S)
  BY <1>1, FS_StrictSubsetOrderingWellFounded, FS_FiniteSubsetsOfFinite
<1>3. T \subseteq SUBSET S /\ T # {}
  OBVIOUS
<1>4. PICK t \in T : \A u \in T : ~(<<u, t>> \in StrictSubsetOrdering(S))
  <2> HIDE DEF T
  <2> QED BY <1>2, <1>3, WFMin
<1>5. PICK m \in S : t = Above(m)
  OBVIOUS
<1>6. ASSUME NEW g \in S PROVE m >= g
  <2>1. SUFFICES ASSUME g > m PROVE FALSE
    OBVIOUS
  <2>2. Above(g) \subseteq Above(m) /\ g \in Above(m) /\ g \notin Above(g)
    <3>1. S \subseteq Int
      OBVIOUS
    <3>2. \A h \in S : h > g => h > m
      BY <3>1, <2>1
    <3>3. ~(g > g)
      BY <3>1
    <3>4. QED
      BY <2>1, <3>2, <3>3
  <2>3. <<Above(g), t>> \in StrictSubsetOrdering(S)
    BY <2>2, <1>5 DEF StrictSubsetOrdering
  <2>4. QED
    BY <2>3, <1>4
<1>7. QED
  BY <1>6 DEF Max

(* A block built from a commit is well-typed, records a signature exactly when *)
(* there is one, and - the validator known to be out - is no miss.            *)
LEMMA BlockOfCommit ==
  ASSUME NEW standing \in Standing, NEW trusted \in BOOLEAN,
         NEW memo \in Knowledge, NEW known \in Knowledge,
         NEW answer \in {ActivityOf(standing), "failed"}
  PROVE  LET b == commitToBlock(standing, trusted, memo, known, answer) IN
         /\ b.signed \in Signed
         /\ b.cache \in Knowledge
         /\ (b.signed = 1) <=> (standing = "signed")
         /\ known = "inactive" /\ memo # "active"
              => \/ standing \in ActiveStanding
                 \/ trusted
                 \/ chainType = "tm2"
                 \/ b.signed = -1 /\ b.cache # "active"
         /\ known = "inactive" /\ memo # "active" => b.cache # "active"
<1>1. CASE HasEntry(standing)
  BY <1>1 DEF commitToBlock, HasEntry, Signed, Standing, ActiveStanding, InactiveStanding,
         Ambiguous, Knowledge, Activity
<1>2. CASE ~HasEntry(standing)
  BY <1>2, ChainTypeAssumption
     DEF commitToBlock, HasEntry, Signed, Standing, ActiveStanding, InactiveStanding,
         Ambiguous, resolveActiveFallback, Knowledge, Activity, ActivityOf
<1>3. QED
  BY <1>1, <1>2

(* Extending the chain keeps every height it had.                             *)
LEMMA AppendKeeps ==
  ASSUME NEW c \in Seq(Standing), NEW s \in Standing
  PROVE  /\ Append(c, s) \in Seq(Standing)
         /\ Len(Append(c, s)) = Len(c) + 1
         /\ \A h \in 1..Len(c) : Append(c, s)[h] = c[h]
OBVIOUS

(* The height a query for the newest row returns is 0 or a row no other is     *)
(* above.                                                                     *)
LEMMA LatestIsLatest ==
  ASSUME NEW n \in Nat, NEW S \in SUBSET (1..n)
  PROVE  /\ Latest(S) \in Nat
         /\ S = {} <=> Latest(S) = 0
         /\ S # {} => Latest(S) = Max(S)
         /\ \A h \in S : h <= Latest(S)
<1>1. CASE S = {}
  BY <1>1 DEF Latest
<1>2. CASE S # {}
  <2>1. Max(S) \in S /\ \A h \in S : h <= Max(S)
    BY <1>2, MaxIsMax
  <2>2. Max(S) \in 1..n
    BY <2>1, Zenon
  <2>3. Latest(S) = Max(S)
    BY <1>2 DEF Latest
  <2>4. QED
    BY <1>2, <2>1, <2>2, <2>3
<1>3. QED
  BY <1>1, <1>2

(* The ongoing period a poll reads is 0 or the start of a recorded period.     *)
LEMMA OpenIsHeight ==
  ASSUME RowsOK, ChainOK
  PROVE  getOpenInactivity(periods) \in Nat
<1>1. OpenHeights(periods) \in SUBSET (1..Len(chain)) /\ Len(chain) \in Nat
  BY DEF RowsOK, OpenHeights, ChainOK
<1>2. CASE OpenHeights(periods) = {}
  BY <1>2 DEF getOpenInactivity
<1>3. CASE OpenHeights(periods) # {}
  <2>1. Max(OpenHeights(periods)) \in 1..Len(chain)
    BY <1>1, <1>3, MaxIsMax
  <2>2. QED
    BY <1>3, <2>1 DEF getOpenInactivity
<1>4. QED
  BY <1>2, <1>3

-----------------------------------------------------------------------------
(* Type correctness.                                                       *)

\* What the types of the batch and of the recorded periods rest on: which of
\* its variables a poll has set, by the phase it is in.
PollSet ==
  /\ pc \in {"status", "inactivity", "end", "insert", "fetch", "attribute", "ingest"}
       => rpcHeight \in 1..Len(chain)
  /\ pc \in {"down", "idle", "tip", "status"} => status = "unknown"
  /\ pc \in {"end", "insert"} => status \in Reasons
  /\ pc = "insert" => status # "active"
  /\ pc \notin {"attribute", "ingest", "evaluate"}
       => batch = NoBlocks /\ cache = "unknown"
  /\ pc = "attribute" => next >= 1

\* The flag keeps polls apart: it is up as long as one is under way, and none
\* waits while another has the event loop.
Alone ==
  /\ waiting = {}
  /\ polling <=> pc \notin {"down", "idle"}

TInv == ChainOK /\ RowsOK /\ PollOK /\ PollSet /\ Alone

LEMMA AloneInit == Init => Alone
  BY DEF Init, Alone

\* What BeginPoll comes to, no other poll being under way.
LEMMA BeginsAlone ==
  ASSUME Alone, BeginPoll
  PROVE  /\ pc = "idle" /\ pc' = "tip" /\ waiting' = {} /\ polling'
         /\ dbHeight' = Latest(DOMAIN blocks) /\ hadAlert' = missAlert
         /\ rpcHeight' = 0 /\ status' = "unknown" /\ openPeriod' = 0
         /\ lastKnown' = "unknown" /\ next' = 0 /\ batch' = NoBlocks
         /\ cache' = "unknown" /\ apiFailed' = FALSE
         /\ UNCHANGED <<chain, store, activeSetHex, faults>>
<1>1. pc # "down" /\ Ready # {} /\ waiting = {}
  BY DEF BeginPoll, Alone
<1>2. ~polling /\ Ready = {NewPoll}
  BY <1>1 DEF Ready, Busy
<1>3. pc = "idle"
  BY <1>1, <1>2 DEF Alone
<1>4. PICK poll \in {NewPoll} :
        /\ pc' = poll.pc /\ dbHeight' = poll.dbHeight /\ hadAlert' = poll.hadAlert
        /\ rpcHeight' = poll.rpcHeight /\ status' = poll.status
        /\ openPeriod' = poll.openPeriod /\ lastKnown' = poll.lastKnown
        /\ next' = poll.next /\ batch' = poll.batch /\ cache' = poll.cache
        /\ apiFailed' = poll.apiFailed
        /\ waiting' = (waiting \ {poll}) \cup IF pc = "idle" THEN {} ELSE {ThisPoll}
        /\ polling' = (polling \/ poll \notin waiting)
  BY <1>2 DEF BeginPoll
<1>5. poll = NewPoll /\ waiting' = {} /\ polling'
  BY <1>1, <1>3, <1>4
<1>6. UNCHANGED <<chain, store, activeSetHex, faults>>
  BY DEF BeginPoll
<1>7. QED
  BY <1>3, <1>4, <1>5, <1>6 DEF NewPoll

LEMMA AloneNext == Alone /\ [Next]_vars => Alone'
<1> SUFFICES ASSUME Alone, [Next]_vars PROVE Alone'
  OBVIOUS
<1>a. ASSUME UNCHANGED polls, pc \notin {"down", "idle"} <=> pc' \notin {"down", "idle"}
      PROVE  Alone'
  BY <1>a DEF Alone, polls
<1>b. ASSUME EndPoll, UNCHANGED waiting PROVE Alone'
  BY <1>b DEF Alone, EndPoll
<1>1. CASE Advance
  BY <1>1, <1>a DEF Advance
<1>2. CASE Start
  BY <1>2, <1>a DEF Start
<1>3. CASE Crash
  BY <1>3 DEF Crash, Alone
<1>4. CASE BeginPoll
  BY <1>4, BeginsAlone DEF Alone
<1>5. CASE getLatestCommit \/ resolveValidatorStatus
  BY <1>5, <1>a DEF getLatestCommit, resolveValidatorStatus
<1>6. CASE readInactivity
  BY <1>6, <1>a DEF readInactivity
<1>7. CASE EndInactivity \/ StartInactivity
  BY <1>7, <1>a DEF EndInactivity, StartInactivity
<1>8. CASE getRangeCommits
  BY <1>8, <1>a DEF getRangeCommits
<1>9. CASE AttributeCommit
  BY <1>9, <1>a DEF AttributeCommit, Proceed
<1>10. CASE CommitUnusable \/ CommitNotCanonical
  BY <1>10, <1>a DEF CommitUnusable, CommitNotCanonical, SkipOrStop, Proceed, Stop
<1>11. CASE ingestBlocks
  BY <1>11, <1>a DEF ingestBlocks
<1>12. CASE Evaluate
  BY <1>12, <1>b DEF Evaluate
<1>13. CASE ReadFails \/ LatestCommitFails
  BY <1>13, <1>b DEF ReadFails, LatestCommitFails
<1>14. CASE UNCHANGED vars
  BY <1>14, <1>a DEF vars
<1>15. QED
  BY <1>1, <1>2, <1>3, <1>4, <1>5, <1>6, <1>7, <1>8, <1>9, <1>10, <1>11, <1>12,
     <1>13, <1>14 DEF Next, Poll

LEMMA FlagsInit == Init => FlagsOK
  BY Zenon DEF Init, FlagsOK

LEMMA FlagsNext == TInv /\ FlagsOK /\ [Next]_vars => FlagsOK'
<1> SUFFICES ASSUME TInv, FlagsOK, [Next]_vars PROVE FlagsOK'
  OBVIOUS
<1>a. Alone
  BY DEF TInv
<1> USE DEF FlagsOK, store, locals, polls
<1>1. CASE Advance
  BY <1>1, Zenon DEF Advance
<1>2. CASE Start
  BY <1>2, Zenon DEF Start
<1>3. CASE Crash
  BY <1>3, Zenon DEF Crash, Forget
<1>4. CASE BeginPoll
  <2>1. polling' \in BOOLEAN
    BY <1>4, Zenon DEF BeginPoll
  <2>2. QED
    BY <1>4, <1>a, <2>1, BeginsAlone, Zenon
<1>5. CASE getLatestCommit
  BY <1>5, Zenon DEF getLatestCommit
<1>6. CASE resolveValidatorStatus
  <2>1. apiFailed' \in BOOLEAN
    BY <1>6, Zenon DEF resolveValidatorStatus
  <2>2. QED
    BY <1>6, <2>1, Zenon DEF resolveValidatorStatus
<1>7. CASE readInactivity
  BY <1>7, Zenon DEF readInactivity
<1>8. CASE EndInactivity
  BY <1>8, Zenon DEF EndInactivity
<1>9. CASE StartInactivity
  BY <1>9, Zenon DEF StartInactivity
<1>10. CASE getRangeCommits
  BY <1>10, Zenon DEF getRangeCommits
<1>11. CASE AttributeCommit
  <2>1. apiFailed' \in BOOLEAN
    BY <1>11, Zenon DEF AttributeCommit
  <2>2. QED
    BY <1>11, <2>1, Zenon DEF AttributeCommit
<1>12. CASE CommitUnusable
  BY <1>12, Zenon DEF CommitUnusable
<1>13. CASE CommitNotCanonical
  BY <1>13, Zenon DEF CommitNotCanonical
<1>14. CASE ingestBlocks
  BY <1>14, Zenon DEF ingestBlocks
<1>15. CASE Evaluate
  <2>1. missAlert' \in BOOLEAN
    BY <1>15, Zenon DEF Evaluate, breached
  <2>2. QED
    BY <1>15, <2>1, Zenon DEF Evaluate, EndPoll, Forget
<1>16. CASE ReadFails
  BY <1>16, Zenon DEF ReadFails, EndPoll, Forget
<1>17. CASE LatestCommitFails
  BY <1>17, Zenon DEF LatestCommitFails, EndPoll, Forget
<1>18. CASE UNCHANGED vars
  BY <1>18, Zenon DEF vars
<1>19. QED
  BY <1>1, <1>2, <1>3, <1>4, <1>5, <1>6, <1>7, <1>8, <1>9, <1>10, <1>11, <1>12,
     <1>13, <1>14, <1>15, <1>16, <1>17, <1>18 DEF Next, Poll

LEMMA TInvInit == Init => TInv
<1> SUFFICES ASSUME Init PROVE TInv
  OBVIOUS
<1>1. PICK s \in Standings : chain = <<s>>
  BY DEF Init
<1>2. s \in Standing
  BY <1>1, ChainWorkerAssumption
<1>3. chain \in Seq(Standing) /\ Len(chain) = 1
  BY <1>1, <1>2
<1>4. ChainOK /\ RowsOK
  BY <1>3 DEF Init, ChainOK, RowsOK, NoBlocks, NoPeriods
<1>7. PollOK
  BY <1>3 DEF Init, PollOK, NoBlocks, Knowledge, Activity
<1>5. PollSet
  BY DEF Init, PollSet
<1>6. QED
  BY <1>4, <1>5, <1>7, AloneInit DEF TInv

\* A step uses up one unit of at most one bound.
LEMMA FaultsNext == FaultsOK /\ [Next]_vars => FaultsOK'
<1> SUFFICES ASSUME FaultsOK, [Next]_vars PROVE FaultsOK'
  OBVIOUS
<1> DEFINE Spends == \/ UNCHANGED faults
                     \/ \E kind \in {"query", "db", "crash"} : Fails(kind)
<1>a. Spends => FaultsOK'
  BY DEF FaultsOK, Fails
<1>1. CASE Advance
  BY <1>1, <1>a, Zenon DEF Advance
<1>2. CASE Start
  BY <1>2, <1>a, Zenon DEF Start
<1>3. CASE Crash
  BY <1>3, <1>a, Zenon DEF Crash
<1>4. CASE BeginPoll
  BY <1>4, <1>a, Zenon DEF BeginPoll
<1>5. CASE getLatestCommit
  BY <1>5, <1>a, Zenon DEF getLatestCommit
<1>6. CASE resolveValidatorStatus
  BY <1>6, <1>a, Zenon DEF resolveValidatorStatus
<1>7. CASE readInactivity
  BY <1>7, <1>a, Zenon DEF readInactivity
<1>8. CASE EndInactivity
  BY <1>8, <1>a, Zenon DEF EndInactivity
<1>9. CASE StartInactivity
  BY <1>9, <1>a, Zenon DEF StartInactivity
<1>10. CASE getRangeCommits
  BY <1>10, <1>a, Zenon DEF getRangeCommits
<1>11. CASE AttributeCommit
  BY <1>11, <1>a, Zenon DEF AttributeCommit
<1>12. CASE CommitUnusable
  BY <1>12, <1>a, Zenon DEF CommitUnusable
<1>13. CASE CommitNotCanonical
  BY <1>13, <1>a, Zenon DEF CommitNotCanonical
<1>14. CASE ingestBlocks
  BY <1>14, <1>a, Zenon DEF ingestBlocks
<1>15. CASE Evaluate
  BY <1>15, <1>a, Zenon DEF Evaluate
<1>16. CASE ReadFails
  BY <1>16, <1>a, Zenon DEF ReadFails
<1>17. CASE LatestCommitFails
  BY <1>17, <1>a, Zenon DEF LatestCommitFails
<1>18. CASE UNCHANGED vars
  BY <1>18, <1>a, Zenon DEF vars
<1>19. QED
  BY <1>1, <1>2, <1>3, <1>4, <1>5, <1>6, <1>7, <1>8, <1>9, <1>10, <1>11, <1>12,
     <1>13, <1>14, <1>15, <1>16, <1>17, <1>18 DEF Next, Poll

LEMMA RowsNext ==
  ASSUME ChainOK, RowsOK, PollOK, PollSet, [Next]_vars
  PROVE  RowsOK'
<1>a. ASSUME UNCHANGED <<chain, blocks, periods>> PROVE RowsOK'
  BY <1>a, Zenon DEF RowsOK
<1>1. CASE Advance
  <2>1. UNCHANGED <<blocks, periods>> /\ Len(chain') = Len(chain) + 1
    BY <1>1, AppendKeeps, ChainWorkerAssumption DEF Advance, store, ChainOK
  <2>2. 1..Len(chain) \subseteq 1..Len(chain')
    BY <2>1 DEF ChainOK
  <2>3. QED
    BY <2>1, <2>2, Zenon DEF RowsOK
<1>2. CASE Start
  BY <1>2, <1>a, Zenon DEF Start, store
<1>3. CASE Crash
  BY <1>3, <1>a, Zenon DEF Crash, store
<1>4. CASE BeginPoll
  BY <1>4, <1>a, Zenon DEF BeginPoll, store
<1>5. CASE getLatestCommit
  BY <1>5, <1>a, Zenon DEF getLatestCommit, store
<1>6. CASE resolveValidatorStatus
  BY <1>6, <1>a, Zenon DEF resolveValidatorStatus, store
<1>7. CASE readInactivity
  BY <1>7, <1>a, Zenon DEF readInactivity, store
<1>8. CASE EndInactivity
  <2>1. rpcHeight \in Nat
    BY <1>8 DEF EndInactivity, PollSet
  <2>2. endInactivity(periods, openPeriod, rpcHeight)
          \in [DOMAIN periods -> [reason : Reason, end : Nat]]
    BY <2>1 DEF endInactivity, RowsOK
  <2>3. UNCHANGED <<chain, blocks>>
        /\ \/ UNCHANGED periods
           \/ periods' = endInactivity(periods, openPeriod, rpcHeight)
    BY <1>8, Zenon DEF EndInactivity
  <2>4. QED
    BY <2>2, <2>3, Zenon DEF RowsOK
<1>9. CASE StartInactivity
  <2>1. rpcHeight \in 1..Len(chain) /\ status \in Reason
    BY <1>9 DEF StartInactivity, PollSet, Reasons, Reason, InactiveStanding
  <2>2. insertInactivity(periods, rpcHeight, status)
          \in [DOMAIN periods \cup {rpcHeight} -> [reason : Reason, end : Nat]]
    BY <2>1 DEF insertInactivity, RowsOK
  <2>3. UNCHANGED <<chain, blocks>>
        /\ \/ UNCHANGED periods
           \/ periods' = insertInactivity(periods, rpcHeight, status)
    BY <1>9, Zenon DEF StartInactivity
  <2>4. QED
    BY <2>1, <2>2, <2>3, Zenon DEF RowsOK
<1>10. CASE getRangeCommits
  BY <1>10, <1>a, Zenon DEF getRangeCommits, store
<1>11. CASE AttributeCommit
  BY <1>11, <1>a, Zenon DEF AttributeCommit, store
<1>12. CASE CommitUnusable
  BY <1>12, <1>a, Zenon DEF CommitUnusable, store
<1>13. CASE CommitNotCanonical
  BY <1>13, <1>a, Zenon DEF CommitNotCanonical, store
<1>14. CASE ingestBlocks
  <2> DEFINE merged == [h \in DOMAIN blocks \cup DOMAIN batch |->
                          IF h \in DOMAIN blocks THEN blocks[h] ELSE batch[h]]
  <2>1. merged \in [DOMAIN blocks \cup DOMAIN batch -> Signed]
        /\ DOMAIN blocks \cup DOMAIN batch \subseteq 1..Len(chain)
    BY DEF RowsOK, PollOK
  <2>2. UNCHANGED <<chain, periods>> /\ (UNCHANGED blocks \/ blocks' = merged)
    BY <1>14, Zenon DEF ingestBlocks
  <2> HIDE DEF merged
  <2>3. QED
    BY <2>1, <2>2, Zenon DEF RowsOK
<1>15. CASE Evaluate
  BY <1>15, <1>a, Zenon DEF Evaluate, store
<1>16. CASE ReadFails
  BY <1>16, <1>a, Zenon DEF ReadFails, store
<1>17. CASE LatestCommitFails
  BY <1>17, <1>a, Zenon DEF LatestCommitFails, store
<1>18. CASE UNCHANGED vars
  BY <1>18, <1>a, Zenon DEF vars, store
<1>19. QED
  BY <1>1, <1>2, <1>3, <1>4, <1>5, <1>6, <1>7, <1>8, <1>9, <1>10, <1>11, <1>12,
     <1>13, <1>14, <1>15, <1>16, <1>17, <1>18 DEF Next, Poll

LEMMA TInvNext == TInv /\ FlagsOK /\ [Next]_vars => TInv'
<1> SUFFICES ASSUME TInv, FlagsOK, [Next]_vars PROVE TInv'
  OBVIOUS
<1>a. RowsOK' /\ Alone'
  BY RowsNext, AloneNext, Zenon DEF TInv
<1> USE ChainWorkerAssumption, ChainTypeAssumption
    DEF TInv, ChainOK, RowsOK, PollOK, PollSet, store, locals, Reasons, Knowledge, Activity
<1>1. CASE Advance
  <2>0. chain' \in Seq(Standing) /\ Len(chain') = Len(chain) + 1
    BY <1>1, AppendKeeps DEF Advance
  <2>1. ChainOK'
    BY <1>1, <2>0, SMT DEF Advance
  <2>2. PollOK'
    BY <1>1, <2>0, SMT DEF Advance
  <2>3. PollSet'
    BY <1>1, <2>0, SMT DEF Advance
  <2>4. QED
    BY <1>a, <2>1, <2>2, <2>3, Zenon DEF TInv
<1>2. CASE Start
  <2>1. ChainOK'
    BY <1>2, SMT DEF Start
  <2>2. PollOK'
    BY <1>2, SMT DEF Start
  <2>3. PollSet'
    BY <1>2, SMT DEF Start
  <2>4. QED
    BY <1>a, <2>1, <2>2, <2>3, Zenon DEF TInv
<1>3. CASE Crash
  <2>1. ChainOK'
    BY <1>3, SMT DEF Crash, Forget, NoBlocks
  <2>2. PollOK'
    BY <1>3, SMT DEF Crash, Forget, NoBlocks
  <2>3. PollSet'
    BY <1>3, SMT DEF Crash, Forget, NoBlocks
  <2>4. QED
    BY <1>a, <2>1, <2>2, <2>3, Zenon DEF TInv
<1>4. CASE BeginPoll
  <2>a. DOMAIN blocks \in SUBSET (1..Len(chain)) /\ Len(chain) \in Nat
    BY DEF RowsOK
  <2>0. Latest(DOMAIN blocks) \in Nat
    BY <2>a, LatestIsLatest
  <2>b. /\ pc' = "tip" /\ dbHeight' = Latest(DOMAIN blocks)
        /\ rpcHeight' = 0 /\ status' = "unknown" /\ openPeriod' = 0
        /\ lastKnown' = "unknown" /\ next' = 0 /\ batch' = NoBlocks
        /\ cache' = "unknown" /\ UNCHANGED <<chain, blocks, periods>>
    BY <1>4, BeginsAlone
  <2>1. ChainOK'
    BY <2>b, SMT
  <2>2. PollOK'
    BY <2>0, <2>b, SMT DEF NoBlocks
  <2>3. PollSet'
    BY <2>b, SMT
  <2>4. QED
    BY <1>a, <2>1, <2>2, <2>3, Zenon DEF TInv
<1>5. CASE getLatestCommit
  <2>1. ChainOK'
    BY <1>5, SMT DEF getLatestCommit, NodeTips
  <2>2. PollOK'
    BY <1>5, SMT DEF getLatestCommit, NodeTips
  <2>3. PollSet'
    BY <1>5, SMT DEF getLatestCommit, NodeTips
  <2>4. QED
    BY <1>a, <2>1, <2>2, <2>3, Zenon DEF TInv
<1>6. CASE resolveValidatorStatus
  <2>a. chain[rpcHeight] \in Standing
    BY <1>6 DEF resolveValidatorStatus
  <2>b. \/ status' \in {"unknown", "jailed"}
        \/ status' = IF StandingOfPoll \in ActiveStanding THEN "active" ELSE StandingOfPoll
    BY <1>6, Zenon DEF resolveValidatorStatus
  <2>0. status' \in {"unknown"} \cup Reasons
    BY <2>a, <2>b, SMT DEF StandingOfPoll, Standing, InactiveStanding
  <2>1. ChainOK'
    BY <1>6, <2>0, SMT DEF resolveValidatorStatus
  <2>2. PollOK'
    BY <1>6, <2>0, SMT DEF resolveValidatorStatus
  <2>3. PollSet'
    BY <1>6, <2>0, SMT DEF resolveValidatorStatus
  <2>4. QED
    BY <1>a, <2>1, <2>2, <2>3, Zenon DEF TInv
<1>7. CASE readInactivity
  <2>0. getOpenInactivity(periods) \in Nat
    BY OpenIsHeight
  <2>1. ChainOK'
    BY <1>7, <2>0, SMT DEF readInactivity, LastKnown
  <2>2. PollOK'
    BY <1>7, <2>0, SMT DEF readInactivity, LastKnown
  <2>3. PollSet'
    BY <1>7, <2>0, SMT DEF readInactivity, LastKnown
  <2>4. QED
    BY <1>a, <2>1, <2>2, <2>3, Zenon DEF TInv
<1>8. CASE EndInactivity
  <2>1. ChainOK'
    BY <1>8, SMT DEF EndInactivity, StartsPeriod
  <2>2. PollOK'
    BY <1>8, SMT DEF EndInactivity, StartsPeriod
  <2>3. PollSet'
    BY <1>8, SMT DEF EndInactivity, StartsPeriod
  <2>4. QED
    BY <1>a, <2>1, <2>2, <2>3, Zenon DEF TInv
<1>9. CASE StartInactivity
  <2>1. ChainOK'
    BY <1>9, SMT DEF StartInactivity
  <2>2. PollOK'
    BY <1>9, SMT DEF StartInactivity
  <2>3. PollSet'
    BY <1>9, SMT DEF StartInactivity
  <2>4. QED
    BY <1>a, <2>1, <2>2, <2>3, Zenon DEF TInv
<1>10. CASE getRangeCommits
  <2>0. fromHeight \in Nat /\ fromHeight >= 1
    BY <1>10 DEF getRangeCommits, fromHeight
  <2>1. ChainOK'
    BY <1>10, <2>0, SMT DEF getRangeCommits
  <2>2. PollOK'
    BY <1>10, <2>0, SMT DEF getRangeCommits
  <2>3. PollSet'
    BY <1>10, <2>0, SMT DEF getRangeCommits
  <2>4. QED
    BY <1>a, <2>1, <2>2, <2>3, Zenon DEF TInv
<1>11. CASE AttributeCommit
  <2>0. next \in 1..Len(chain) /\ chain[next] \in Standing
    BY <1>11 DEF AttributeCommit
  <2>a. PICK answer \in {ActivityOf(chain[next]), "failed"} :
          LET block == commitToBlock(chain[next], trustedActiveSet, cache,
                                     lastKnown, answer)
          IN /\ batch' = [h \in DOMAIN batch \cup {next} |->
                           IF h = next THEN block.signed ELSE batch[h]]
             /\ cache' = block.cache
    BY <1>11, Zenon DEF AttributeCommit
  <2>b. trustedActiveSet \in BOOLEAN
    BY Zenon DEF trustedActiveSet, FlagsOK
  <2>c. batch' \in [DOMAIN batch' -> Signed] /\ DOMAIN batch' \subseteq 1..Len(chain)
        /\ cache' \in Knowledge
    BY <2>0, <2>a, <2>b, BlockOfCommit
  <2>d. pc = "attribute" /\ pc' \in {"attribute", "ingest"} /\ next' = next + 1
        /\ UNCHANGED <<chain, dbHeight, rpcHeight, status, openPeriod, lastKnown>>
    BY <1>11, Zenon DEF AttributeCommit, Proceed
  <2>1. ChainOK'
    BY <2>0, <2>c, <2>d, SMT
  <2>2. PollOK'
    BY <2>0, <2>c, <2>d, SMT
  <2>3. PollSet'
    BY <2>0, <2>c, <2>d, SMT
  <2>4. QED
    BY <1>a, <2>1, <2>2, <2>3, Zenon DEF TInv
<1>12. CASE CommitUnusable
  <2>0. pc = "attribute" /\ pc' \in {"attribute", "ingest"} /\ next' \in {next, next + 1}
        /\ UNCHANGED <<chain, dbHeight, rpcHeight, status, openPeriod, lastKnown,
                       batch, cache>>
    BY <1>12, Zenon DEF CommitUnusable, SkipOrStop, Proceed, Stop
  <2>1. ChainOK'
    BY <2>0, SMT
  <2>2. PollOK'
    BY <2>0, SMT
  <2>3. PollSet'
    BY <2>0, SMT
  <2>4. QED
    BY <1>a, <2>1, <2>2, <2>3, Zenon DEF TInv
<1>13. CASE CommitNotCanonical
  <2>1. ChainOK'
    BY <1>13, SMT DEF CommitNotCanonical, Stop
  <2>2. PollOK'
    BY <1>13, SMT DEF CommitNotCanonical, Stop
  <2>3. PollSet'
    BY <1>13, SMT DEF CommitNotCanonical, Stop
  <2>4. QED
    BY <1>a, <2>1, <2>2, <2>3, Zenon DEF TInv
<1>14. CASE ingestBlocks
  <2>1. ChainOK'
    BY <1>14, SMT DEF ingestBlocks
  <2>2. PollOK'
    BY <1>14, SMT DEF ingestBlocks
  <2>3. PollSet'
    BY <1>14, SMT DEF ingestBlocks
  <2>4. QED
    BY <1>a, <2>1, <2>2, <2>3, Zenon DEF TInv
<1>15. CASE Evaluate
  <2>1. ChainOK'
    BY <1>15, SMT DEF Evaluate, EndPoll, Forget, NoBlocks
  <2>2. PollOK'
    BY <1>15, SMT DEF Evaluate, EndPoll, Forget, NoBlocks
  <2>3. PollSet'
    BY <1>15, SMT DEF Evaluate, EndPoll, Forget, NoBlocks
  <2>4. QED
    BY <1>a, <2>1, <2>2, <2>3, Zenon DEF TInv
<1>16. CASE ReadFails
  <2>1. ChainOK'
    BY <1>16, SMT DEF ReadFails, EndPoll, Forget, NoBlocks
  <2>2. PollOK'
    BY <1>16, SMT DEF ReadFails, EndPoll, Forget, NoBlocks
  <2>3. PollSet'
    BY <1>16, SMT DEF ReadFails, EndPoll, Forget, NoBlocks
  <2>4. QED
    BY <1>a, <2>1, <2>2, <2>3, Zenon DEF TInv
<1>17. CASE LatestCommitFails
  <2>1. ChainOK'
    BY <1>17, SMT DEF LatestCommitFails, EndPoll, Forget, NoBlocks
  <2>2. PollOK'
    BY <1>17, SMT DEF LatestCommitFails, EndPoll, Forget, NoBlocks
  <2>3. PollSet'
    BY <1>17, SMT DEF LatestCommitFails, EndPoll, Forget, NoBlocks
  <2>4. QED
    BY <1>a, <2>1, <2>2, <2>3, Zenon DEF TInv
<1>18. CASE UNCHANGED vars
  <2>1. ChainOK'
    BY <1>18, SMT DEF vars
  <2>2. PollOK'
    BY <1>18, SMT DEF vars
  <2>3. PollSet'
    BY <1>18, SMT DEF vars
  <2>4. QED
    BY <1>a, <2>1, <2>2, <2>3, Zenon DEF TInv
<1>19. QED
  BY <1>1, <1>2, <1>3, <1>4, <1>5, <1>6, <1>7, <1>8, <1>9, <1>10, <1>11, <1>12,
     <1>13, <1>14, <1>15, <1>16, <1>17, <1>18 DEF Next, Poll

(* Every variable keeps its type; in particular every stored height is a       *)
(* height the chain has reached and every `signed` is one of -1, 0, 1.        *)
THEOREM TypeCorrect == Spec => []TypeOK
<1>1. TInv /\ FlagsOK /\ FaultsOK => TypeOK
  BY DEF TInv, TypeOK, WaitingOK, Alone
<1>2. Init => FaultsOK
  BY ChainWorkerAssumption DEF Init, FaultsOK
<1>3. QED
  BY <1>1, <1>2, TInvInit, TInvNext, FlagsInit, FlagsNext, FaultsNext, PTL DEF Spec
=============================================================================
