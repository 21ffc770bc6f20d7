-------------------------- MODULE InactivityProofs --------------------------
(***************************************************************************)
(* What the validator_inactivity rows are worth: every recorded period is   *)
(* true of the chain, and a poll that takes the validator for inactive -    *)
(* often from nothing but such a row - never stores a miss for a height the  *)
(* validator spent outside the set.  Lag, failures and deaths are free there. *)
(* Then why a block may be wrong all the same, and when periods are disjoint. *)
(***************************************************************************)
EXTENDS ChainWorkerProofs

\* The status of a poll is what the chain shows at the height of the poll,
\* except that a tombstoned validator may pass for jailed.
StatusTrue ==
  /\ status = "active" => rpcHeight >= 1 /\ Active(rpcHeight)
  /\ status \in Reason =>
       /\ rpcHeight >= 1
       /\ chain[rpcHeight] = status \/ chain[rpcHeight] = "tombstoned"

\* A period only ends at a height the chain has reached.
EndsReached == \A h \in DOMAIN periods : periods[h].end <= Len(chain)

PInv == TInv /\ StatusTrue /\ EndsReached /\ PeriodsTruthful

LEMMA StatusTrueNext ==
  ASSUME TInv, StatusTrue, [Next]_vars
  PROVE  StatusTrue'
<1>a. ASSUME UNCHANGED <<chain, status, rpcHeight>> PROVE StatusTrue'
  BY <1>a, Zenon DEF StatusTrue, Active
<1>b. ASSUME status' = "unknown" PROVE StatusTrue'
  BY <1>b DEF StatusTrue, Reason
<1> USE DEF store, locals
<1>1. CASE Advance
  <2>1. Len(chain') = Len(chain) + 1 /\ \A h \in 1..Len(chain) : chain'[h] = chain[h]
    BY <1>1, AppendKeeps, ChainWorkerAssumption DEF Advance, TInv, ChainOK
  <2>2. UNCHANGED <<status, rpcHeight>>
    BY <1>1, Zenon DEF Advance
  <2>3. rpcHeight \in 0..Len(chain) /\ Len(chain) \in Nat
    BY DEF TInv, PollOK, ChainOK
  <2>4. QED
    BY <2>1, <2>2, <2>3 DEF StatusTrue, Active
<1>2. CASE Start
  BY <1>2, <1>a, Zenon DEF Start
<1>3. CASE Crash
  BY <1>3, <1>b, Zenon DEF Crash, Forget
<1>4. CASE BeginPoll
  BY <1>4, <1>b, BeginsAlone, Zenon DEF TInv
<1>5. CASE getLatestCommit
  <2>1. pc = "tip" /\ UNCHANGED status
    BY <1>5, Zenon DEF getLatestCommit
  <2>2. status = "unknown"
    BY <2>1 DEF TInv, PollSet
  <2>3. QED
    BY <2>1, <2>2 DEF StatusTrue, Reason
<1>6. CASE resolveValidatorStatus
  <2>1. pc = "status" /\ UNCHANGED <<chain, rpcHeight>>
        /\ \/ status' = "unknown"
           \/ status' = IF StandingOfPoll \in ActiveStanding
                        THEN "active" ELSE StandingOfPoll
           \/ StandingOfPoll = "tombstoned" /\ status' = "jailed"
    BY <1>6, Zenon DEF resolveValidatorStatus
  <2>2. rpcHeight \in 1..Len(chain) /\ chain[rpcHeight] \in Standing
    BY <2>1 DEF TInv, PollSet, ChainOK
  <2>3. rpcHeight' >= 1 /\ chain'[rpcHeight'] = StandingOfPoll /\ StandingOfPoll \in Standing
    BY <2>1, <2>2 DEF StandingOfPoll, TInv, ChainOK
  <2>4. "active" \notin Standing /\ "active" \notin Reason /\ "unknown" \notin Reason
    BY DEF Standing, ActiveStanding, InactiveStanding, Reason
  <2>5. CASE status' = "unknown"
    BY <2>4, <2>5, <1>b
  <2>6. CASE StandingOfPoll \in ActiveStanding /\ status' = "active"
    BY <2>3, <2>4, <2>6 DEF StatusTrue, Active
  <2>7. CASE StandingOfPoll \notin ActiveStanding /\ status' = StandingOfPoll
    BY <2>3, <2>4, <2>7 DEF StatusTrue, Active
  <2>8. CASE StandingOfPoll = "tombstoned" /\ status' = "jailed"
    BY <2>3, <2>8 DEF StatusTrue, Active, Reason
  <2>9. QED
    BY <2>1, <2>5, <2>6, <2>7, <2>8
<1>7. CASE readInactivity
  BY <1>7, <1>a, Zenon DEF readInactivity
<1>8. CASE EndInactivity
  BY <1>8, <1>a, Zenon DEF EndInactivity
<1>9. CASE StartInactivity
  BY <1>9, <1>a, Zenon DEF StartInactivity
<1>10. CASE getRangeCommits
  BY <1>10, <1>a, Zenon DEF getRangeCommits
<1>11. CASE AttributeCommit
  BY <1>11, <1>a, Zenon DEF AttributeCommit
<1>12. CASE CommitUnusable
  BY <1>12, <1>a, Zenon DEF CommitUnusable
<1>13. CASE CommitNotCanonical
  BY <1>13, <1>a, Zenon DEF CommitNotCanonical
<1>14. CASE ingestBlocks
  BY <1>14, <1>a, Zenon DEF ingestBlocks
<1>15. CASE Evaluate
  BY <1>15, <1>b, Zenon DEF Evaluate, EndPoll, Forget
<1>16. CASE ReadFails
  BY <1>16, <1>b, Zenon DEF ReadFails, EndPoll, Forget
<1>17. CASE LatestCommitFails
  BY <1>17, <1>b, Zenon DEF LatestCommitFails, EndPoll, Forget
<1>18. CASE UNCHANGED vars
  BY <1>18, <1>a, Zenon DEF vars
<1>19. QED
  BY <1>1, <1>2, <1>3, <1>4, <1>5, <1>6, <1>7, <1>8, <1>9, <1>10, <1>11, <1>12,
     <1>13, <1>14, <1>15, <1>16, <1>17, <1>18 DEF Next, Poll

LEMMA PeriodsNext ==
  ASSUME PInv, [Next]_vars
  PROVE  EndsReached' /\ PeriodsTruthful'
<1>a. ASSUME UNCHANGED <<chain, periods>> PROVE EndsReached' /\ PeriodsTruthful'
  BY <1>a, Zenon DEF PInv, EndsReached, PeriodsTruthful, Active
<1> USE DEF store, locals
<1>1. CASE Advance
  <2>1. Len(chain') = Len(chain) + 1 /\ \A h \in 1..Len(chain) : chain'[h] = chain[h]
    BY <1>1, AppendKeeps, ChainWorkerAssumption DEF Advance, TInv, ChainOK
  <2>2. UNCHANGED periods
    BY <1>1, Zenon DEF Advance
  <2>3. DOMAIN periods \subseteq 1..Len(chain) /\ Len(chain) \in Nat
        /\ \A h \in DOMAIN periods : periods[h].end \in 0..Len(chain)
    BY DEF PInv, TInv, RowsOK, ChainOK, EndsReached
  <2>4. QED
    BY <2>1, <2>2, <2>3 DEF PInv, PeriodsTruthful, EndsReached, Active
<1>2. CASE Start
  BY <1>2, <1>a, Zenon DEF Start
<1>3. CASE Crash
  BY <1>3, <1>a, Zenon DEF Crash
<1>4. CASE BeginPoll
  BY <1>4, <1>a, Zenon DEF BeginPoll
<1>5. CASE getLatestCommit
  BY <1>5, <1>a, Zenon DEF getLatestCommit
<1>6. CASE resolveValidatorStatus
  BY <1>6, <1>a, Zenon DEF resolveValidatorStatus
<1>7. CASE readInactivity
  BY <1>7, <1>a, Zenon DEF readInactivity
<1>8. CASE EndInactivity
  <2>1. pc = "end" /\ UNCHANGED chain
        /\ \/ UNCHANGED periods
           \/ /\ EndsPeriod(periods, openPeriod, status)
              /\ periods' = endInactivity(periods, openPeriod, rpcHeight)
    BY <1>8, Zenon DEF EndInactivity
  <2>2. CASE UNCHANGED periods
    BY <2>1, <2>2, <1>a
  <2>3. CASE EndsPeriod(periods, openPeriod, status)
             /\ periods' = endInactivity(periods, openPeriod, rpcHeight)
    <3>1. rpcHeight \in 1..Len(chain) /\ status \in Reasons
      BY <2>1 DEF PInv, TInv, PollSet
    <3>2. DOMAIN periods' = DOMAIN periods
          /\ \A h \in DOMAIN periods :
               /\ periods'[h].reason = periods[h].reason
               /\ periods'[h].end = IF h = openPeriod THEN rpcHeight ELSE periods[h].end
      BY <2>3 DEF endInactivity, PInv, TInv, RowsOK
    <3>3. status = "active" \/ periods[openPeriod].reason # status
      BY <2>3 DEF EndsPeriod, SameReason
    <3>4. \/ Active(rpcHeight)
          \/ chain[rpcHeight] = "tombstoned"
          \/ chain[rpcHeight] = status
      BY <3>1 DEF PInv, StatusTrue, Reasons, Reason, InactiveStanding
    <3>5. EndsReached'
      BY <2>1, <3>1, <3>2 DEF EndsReached, PInv, TInv, ChainOK
    <3>6. PeriodsTruthful'
      <4>1. SUFFICES ASSUME NEW h \in DOMAIN periods
                     PROVE  /\ ~Active(h)
                            /\ periods'[h].end # 0 =>
                                 LET end == chain[periods'[h].end] IN
                                 \/ end \in ActiveStanding \cup {"tombstoned"}
                                 \/ end # periods'[h].reason
        BY <2>1, <3>2 DEF PeriodsTruthful, Active
      <4>2. CASE h = openPeriod
        BY <4>2, <2>3, <3>2, <3>3, <3>4
           DEF PInv, PeriodsTruthful, Active, EndsPeriod, SameReason, StatusTrue
      <4>3. CASE h # openPeriod
        BY <4>3, <3>2 DEF PInv, PeriodsTruthful
      <4>4. QED
        BY <4>2, <4>3
    <3>7. QED
      BY <3>5, <3>6
  <2>4. QED
    BY <2>1, <2>2, <2>3
<1>9. CASE StartInactivity
  <2>1. pc = "insert" /\ UNCHANGED chain
        /\ \/ UNCHANGED periods
           \/ periods' = insertInactivity(periods, rpcHeight, status)
    BY <1>9, Zenon DEF StartInactivity
  <2>2. CASE UNCHANGED periods
    BY <2>1, <2>2, <1>a
  <2>3. CASE periods' = insertInactivity(periods, rpcHeight, status)
    <3>1. rpcHeight \in 1..Len(chain) /\ status \in Reason
      BY <2>1 DEF PInv, TInv, PollSet, Reasons, Reason, InactiveStanding
    <3>2. ~Active(rpcHeight)
      BY <3>1 DEF PInv, StatusTrue, Active, ActiveStanding, Reason
    <3>3. DOMAIN periods' = DOMAIN periods \cup {rpcHeight}
          /\ periods'[rpcHeight].end = 0
          /\ \A h \in DOMAIN periods : h # rpcHeight => periods'[h] = periods[h]
      BY <2>3 DEF insertInactivity
    <3>4. QED
      BY <2>1, <3>1, <3>2, <3>3 DEF PInv, PeriodsTruthful, EndsReached, Active, TInv, ChainOK
  <2>4. QED
    BY <2>1, <2>2, <2>3
<1>10. CASE getRangeCommits
  BY <1>10, <1>a, Zenon DEF getRangeCommits
<1>11. CASE AttributeCommit
  BY <1>11, <1>a, Zenon DEF AttributeCommit
<1>12. CASE CommitUnusable
  BY <1>12, <1>a, Zenon DEF CommitUnusable
<1>13. CASE CommitNotCanonical
  BY <1>13, <1>a, Zenon DEF CommitNotCanonical
<1>14. CASE ingestBlocks
  BY <1>14, <1>a, Zenon DEF ingestBlocks
<1>15. CASE Evaluate
  BY <1>15, <1>a, Zenon DEF Evaluate
<1>16. CASE ReadFails
  BY <1>16, <1>a, Zenon DEF ReadFails
<1>17. CASE LatestCommitFails
  BY <1>17, <1>a, Zenon DEF LatestCommitFails
<1>18. CASE UNCHANGED vars
  BY <1>18, <1>a, Zenon DEF vars
<1>19. QED
  BY <1>1, <1>2, <1>3, <1>4, <1>5, <1>6, <1>7, <1>8, <1>9, <1>10, <1>11, <1>12,
     <1>13, <1>14, <1>15, <1>16, <1>17, <1>18 DEF Next, Poll

(* Every recorded period starts where the validator was out of the active set  *)
(* and ends where it was back or out for another reason: no answer of a node  *)
(* that is behind, no failed write and no death makes a row untrue.           *)
THEOREM PeriodsStayTruthful == Spec => []PeriodsTruthful
<1>1. Init => PInv
  BY TInvInit
     DEF Init, PInv, StatusTrue, EndsReached, PeriodsTruthful, NoPeriods, Reason
<1>2. PInv /\ FlagsOK /\ [Next]_vars => PInv'
  BY TInvNext, StatusTrueNext, PeriodsNext, Zenon DEF PInv
<1>3. PInv => PeriodsTruthful /\ TInv
  BY DEF PInv
<1>4. QED
  BY <1>1, <1>2, <1>3, FlagsInit, FlagsNext, PTL DEF Spec

-----------------------------------------------------------------------------
(* Misses.                                                                 *)

\* On a tm2 chain no status is ever known, hence no period ever recorded.
Tm2Blind ==
  chainType = "tm2" => DOMAIN periods = {} /\ status = "unknown" /\ lastKnown = "unknown"

\* With the validator known to be out, the memo never says otherwise.
KInv ==
  /\ Tm2Blind
  /\ lastKnown = "inactive" => cache # "active"
  /\ NoMissWhileKnownInactive

LEMMA KInvNext ==
  ASSUME TInv, FlagsOK, KInv, [Next]_vars
  PROVE  KInv'
<1>a. ASSUME UNCHANGED <<chain, periods, status, lastKnown, batch, cache>> PROVE KInv'
  BY <1>a, Zenon DEF KInv, Tm2Blind, NoMissWhileKnownInactive, Active
<1>b. ASSUME UNCHANGED periods, status' = "unknown", lastKnown' = "unknown" PROVE KInv'
  BY <1>b DEF KInv, Tm2Blind, NoMissWhileKnownInactive
<1> USE DEF store, locals
<1>1. CASE Advance
  <2>1. \A h \in 1..Len(chain) : chain'[h] = chain[h]
    BY <1>1, AppendKeeps, ChainWorkerAssumption DEF Advance, TInv, ChainOK
  <2>2. UNCHANGED <<periods, status, lastKnown, batch, cache>>
    BY <1>1, Zenon DEF Advance
  <2>3. DOMAIN batch \subseteq 1..Len(chain)
    BY DEF TInv, PollOK
  <2>4. QED
    BY <2>1, <2>2, <2>3 DEF KInv, Tm2Blind, NoMissWhileKnownInactive, Active
<1>2. CASE Start
  BY <1>2, <1>a, Zenon DEF Start
<1>3. CASE Crash
  BY <1>3, <1>b, Zenon DEF Crash, Forget
<1>4. CASE BeginPoll
  BY <1>4, <1>b, BeginsAlone, Zenon DEF TInv
<1>5. CASE getLatestCommit
  BY <1>5, <1>a, Zenon DEF getLatestCommit
<1>6. CASE resolveValidatorStatus
  <2>1. UNCHANGED <<chain, periods, lastKnown, batch, cache>>
        /\ (chainType = "tm2" => status' = "unknown")
    BY <1>6, Zenon DEF resolveValidatorStatus
  <2>2. QED
    BY <2>1 DEF KInv, Tm2Blind, NoMissWhileKnownInactive, Active
<1>7. CASE readInactivity
  <2>1. pc = "inactivity" /\ UNCHANGED <<chain, periods, status, batch, cache>>
        /\ \E read \in BOOLEAN : lastKnown' = LastKnown(read)
    BY <1>7, Zenon DEF readInactivity
  <2>2. batch = NoBlocks /\ cache = "unknown"
    BY <2>1 DEF TInv, PollSet
  <2>3. DOMAIN periods = {} => getOpenInactivity(periods) = 0
    BY DEF getOpenInactivity, OpenHeights
  <2>4. Tm2Blind'
    BY <2>1, <2>3 DEF KInv, Tm2Blind, LastKnown
  <2>5. QED
    BY <2>1, <2>2, <2>4 DEF KInv, NoMissWhileKnownInactive, NoBlocks
<1>8. CASE EndInactivity
  <2>1. pc = "end" /\ UNCHANGED <<chain, status, lastKnown, batch, cache>>
    BY <1>8, Zenon DEF EndInactivity
  <2>2. chainType # "tm2"
    BY <2>1 DEF TInv, PollSet, KInv, Tm2Blind, Reasons, InactiveStanding
  <2>3. QED
    BY <2>1, <2>2 DEF KInv, Tm2Blind, NoMissWhileKnownInactive, Active
<1>9. CASE StartInactivity
  <2>1. pc = "insert" /\ UNCHANGED <<chain, status, lastKnown, batch, cache>>
    BY <1>9, Zenon DEF StartInactivity
  <2>2. chainType # "tm2"
    BY <2>1 DEF TInv, PollSet, KInv, Tm2Blind, Reasons, InactiveStanding
  <2>3. QED
    BY <2>1, <2>2 DEF KInv, Tm2Blind, NoMissWhileKnownInactive, Active
<1>10. CASE getRangeCommits
  BY <1>10, <1>a, Zenon DEF getRangeCommits
<1>11. CASE AttributeCommit
  <2>1. next \in 1..Len(chain) /\ chain[next] \in Standing
    BY <1>11 DEF AttributeCommit, TInv, PollSet, PollOK, ChainOK
  <2>2. PICK answer \in {ActivityOf(chain[next]), "failed"} :
          LET block == commitToBlock(chain[next], trustedActiveSet, cache,
                                     lastKnown, answer)
          IN /\ batch' = [h \in DOMAIN batch \cup {next} |->
                            IF h = next THEN block.signed ELSE batch[h]]
             /\ cache' = block.cache
    BY <1>11, Zenon DEF AttributeCommit
  <2>3. trustedActiveSet \in BOOLEAN
    BY Zenon DEF trustedActiveSet, FlagsOK
  <2>4. UNCHANGED <<chain, periods, status, lastKnown>>
    BY <1>11, Zenon DEF AttributeCommit
  <2>5. Tm2Blind'
    BY <2>4 DEF KInv, Tm2Blind
  <2>6. SUFFICES ASSUME lastKnown = "inactive"
                 PROVE  cache' # "active"
                        /\ \A h \in DOMAIN batch' : ~Active(h) => batch'[h] = -1
    BY <2>4, <2>5 DEF KInv, NoMissWhileKnownInactive, Active
  <2>7. chainType # "tm2" /\ cache # "active"
    BY <2>6 DEF KInv, Tm2Blind
  <2>8. ~trustedActiveSet
    BY <2>6 DEF trustedActiveSet
  <2>9. cache \in Knowledge /\ lastKnown \in Knowledge
    BY DEF TInv, PollOK
  <2>10. cache' # "active" /\ (chain[next] \in ActiveStanding \/ batch'[next] = -1)
    BY <2>1, <2>2, <2>3, <2>6, <2>7, <2>8, <2>9, BlockOfCommit
  <2>11. DOMAIN batch' = DOMAIN batch \cup {next}
         /\ \A h \in DOMAIN batch : h # next => batch'[h] = batch[h]
    BY <2>2
  <2>12. QED
    BY <2>6, <2>10, <2>11 DEF KInv, NoMissWhileKnownInactive, Active
<1>12. CASE CommitUnusable
  BY <1>12, <1>a, Zenon DEF CommitUnusable
<1>13. CASE CommitNotCanonical
  BY <1>13, <1>a, Zenon DEF CommitNotCanonical
<1>14. CASE ingestBlocks
  BY <1>14, <1>a, Zenon DEF ingestBlocks
<1>15. CASE Evaluate
  BY <1>15, <1>b, Zenon DEF Evaluate, EndPoll, Forget
<1>16. CASE ReadFails
  BY <1>16, <1>b, Zenon DEF ReadFails, EndPoll, Forget
<1>17. CASE LatestCommitFails
  BY <1>17, <1>b, Zenon DEF LatestCommitFails, EndPoll, Forget
<1>18. CASE UNCHANGED vars
  BY <1>18, <1>a, Zenon DEF vars
<1>19. QED
  BY <1>1, <1>2, <1>3, <1>4, <1>5, <1>6, <1>7, <1>8, <1>9, <1>10, <1>11, <1>12,
     <1>13, <1>14, <1>15, <1>16, <1>17, <1>18 DEF Next, Poll

(* While a poll takes the validator for inactive, no height the validator      *)
(* spent outside the set enters the batch as a miss, whatever the memo, the   *)
(* set cached at startup and the failing API say.                             *)
THEOREM NoMissForKnownInactive == Spec => []NoMissWhileKnownInactive
<1>1. Init => KInv
  BY DEF Init, KInv, Tm2Blind, NoMissWhileKnownInactive, NoPeriods
<1>2. KInv => NoMissWhileKnownInactive
  BY DEF KInv
<1>3. QED
  BY <1>1, <1>2, KInvNext, TInvInit, TInvNext, FlagsInit, FlagsNext, PTL DEF Spec

-----------------------------------------------------------------------------
(* Attribution.                                                            *)

\* On a bft chain a poll that has every API answer knows the status, and knows
\* by it whether the validator is active at the tip of the poll.
StatusKnown ==
  pc = "inactivity" /\ ~apiFailed => status # "unknown"

KnownTrue ==
  pc \in {"end", "insert", "fetch", "attribute", "ingest"} /\ ~apiFailed
    => lastKnown = ActivityOf(chain[rpcHeight])

\* The poll walks from fromHeight to toHeight, which is not past its tip.
InSlice ==
  /\ pc = "attribute" => 1 <= fromHeight /\ fromHeight <= next /\ next <= toHeight
  /\ pc \in {"attribute", "ingest"} =>
       next <= rpcHeight + 1 /\ \A h \in DOMAIN batch : h <= rpcHeight

\* The memo holds what was true of a height the poll has passed, and is at its
\* tip.
MemoTrue ==
  pc \in {"attribute", "ingest"} /\ ~apiFailed /\ cache # "unknown" =>
    /\ cache = lastKnown
    /\ \E k \in fromHeight..next - 1 : ActivityOf(chain[k]) = cache

\* With every answer there and a memo that is true of the height, the block is.
LEMMA BlockIsTrue ==
  ASSUME chainType = "bft", NEW standing \in Standing, NEW trusted \in BOOLEAN,
         NEW known \in Activity, NEW memo \in {"unknown", ActivityOf(standing)}
  PROVE  LET b == commitToBlock(standing, trusted, memo, known, ActivityOf(standing)) IN
         /\ b.signed = Truth(standing) \/ (trusted /\ standing \notin ActiveStanding)
         /\ b.cache = memo \/ (b.cache = known /\ b.cache = ActivityOf(standing))
<1> USE DEF commitToBlock, HasEntry, Ambiguous, resolveActiveFallback, Activity, ActivityOf,
        Truth, Standing, ActiveStanding, InactiveStanding
<1>1. CASE standing = "signed"
  BY <1>1
<1>2. CASE standing = "missed"
  BY <1>2
<1>3. CASE standing \in InactiveStanding
  BY <1>3
<1>4. QED
  BY <1>1, <1>2, <1>3

\* The bounds of the slice.
LEMMA SliceBounds ==
  ASSUME TInv
  PROVE  /\ fromHeight \in Nat /\ toHeight \in Int /\ rpcHeight \in Nat /\ next \in Nat
         /\ fromHeight >= 1 /\ toHeight <= rpcHeight
         /\ fromHeight <= rpcHeight => fromHeight <= toHeight
<1>1. /\ dbHeight \in Nat /\ rpcHeight \in Nat /\ next \in Nat
      /\ maxBlocksPerPoll \in Nat /\ maxBlocksPerPoll >= 1
  BY ChainWorkerAssumption DEF TInv, PollOK, ChainOK
<1>2. fromHeight \in Nat /\ fromHeight >= 1
  BY <1>1 DEF fromHeight
<1>3. QED
  BY <1>1, <1>2 DEF toHeight

LEMMA InSliceNext ==
  ASSUME TInv, InSlice, [Next]_vars
  PROVE  InSlice'
<1>a. ASSUME UNCHANGED <<pc, dbHeight, rpcHeight, next, batch>> PROVE InSlice'
  BY <1>a DEF InSlice, fromHeight, toHeight
<1>b. ASSUME pc' \notin {"attribute", "ingest"} PROVE InSlice'
  BY <1>b DEF InSlice
<1>p. BeginPoll => pc' = "tip" /\ UNCHANGED store
  BY BeginsAlone, Zenon DEF TInv
<1> USE DEF store, locals
<1>1. CASE Advance
  BY <1>1, <1>a, Zenon DEF Advance
<1>2. CASE Start \/ Crash \/ BeginPoll \/ getLatestCommit \/ resolveValidatorStatus
  BY <1>2, <1>p, <1>b DEF Start, Crash, getLatestCommit, resolveValidatorStatus
<1>3. CASE readInactivity \/ EndInactivity \/ StartInactivity
  BY <1>3, <1>b DEF readInactivity, EndInactivity, StartInactivity
<1>4. CASE getRangeCommits
  <2>1. /\ pc = "fetch" /\ UNCHANGED <<dbHeight, rpcHeight, batch>>
        /\ \/ pc' = "evaluate"
           \/ fromHeight <= rpcHeight /\ pc' = "attribute" /\ next' = fromHeight
    BY <1>4, Zenon DEF getRangeCommits
  <2>2. fromHeight' = fromHeight /\ toHeight' = toHeight /\ DOMAIN batch' = {}
    BY <2>1 DEF fromHeight, toHeight, TInv, PollSet, NoBlocks
  <2>3. QED
    BY <2>1, <2>2, SliceBounds DEF InSlice
<1>5. CASE AttributeCommit
  <2>1. /\ pc = "attribute" /\ UNCHANGED <<dbHeight, rpcHeight>> /\ next' = next + 1
        /\ pc' = IF next = toHeight THEN "ingest" ELSE "attribute"
        /\ DOMAIN batch' = DOMAIN batch \cup {next}
    BY <1>5 DEF AttributeCommit, Proceed
  <2>2. fromHeight' = fromHeight /\ toHeight' = toHeight
    BY <2>1 DEF fromHeight, toHeight
  <2>3. QED
    BY <2>1, <2>2, SliceBounds DEF InSlice
<1>6. CASE CommitUnusable \/ CommitNotCanonical
  <2>1. /\ pc = "attribute" /\ UNCHANGED <<dbHeight, rpcHeight, batch>>
        /\ \/ /\ next' = next + 1
              /\ pc' = IF next = toHeight THEN "ingest" ELSE "attribute"
           \/ pc' = "ingest" /\ next' = next
    BY <1>6 DEF CommitUnusable, CommitNotCanonical, SkipOrStop, Stop, Proceed
  <2>2. fromHeight' = fromHeight /\ toHeight' = toHeight
    BY <2>1 DEF fromHeight, toHeight
  <2>3. /\ 1 <= fromHeight /\ fromHeight <= next /\ next <= toHeight
        /\ \A h \in DOMAIN batch' : h <= rpcHeight'
    BY <2>1 DEF InSlice
  <2>4. CASE pc' = "ingest" /\ next' = next
    BY <2>1, <2>2, <2>3, <2>4, SliceBounds DEF InSlice
  <2>5. CASE next' = next + 1 /\ pc' = IF next = toHeight THEN "ingest" ELSE "attribute"
    BY <2>1, <2>2, <2>3, <2>5, SliceBounds DEF InSlice
  <2>6. QED
    BY <2>1, <2>4, <2>5
<1>7. CASE ingestBlocks \/ Evaluate \/ ReadFails \/ LatestCommitFails
  BY <1>7, <1>b DEF ingestBlocks, Evaluate, ReadFails, LatestCommitFails, EndPoll
<1>8. CASE UNCHANGED vars
  BY <1>8, <1>a, Zenon DEF vars
<1>9. QED
  BY <1>1, <1>2, <1>3, <1>4, <1>5, <1>6, <1>7, <1>8 DEF Next, Poll

LEMMA KnownNext ==
  ASSUME chainType = "bft", TInv, StatusTrue, StatusKnown, KnownTrue, [Next]_vars
  PROVE  StatusKnown' /\ KnownTrue'
<1>a. ASSUME UNCHANGED <<chain, rpcHeight, lastKnown>>, apiFailed' = apiFailed \/ apiFailed',
             pc \in {"end", "insert", "fetch", "attribute", "ingest"}, pc' # "inactivity"
      PROVE  StatusKnown' /\ KnownTrue'
  BY <1>a DEF StatusKnown, KnownTrue
<1>b. ASSUME pc' \notin {"inactivity", "end", "insert", "fetch", "attribute", "ingest"}
      PROVE  StatusKnown' /\ KnownTrue'
  BY <1>b DEF StatusKnown, KnownTrue
<1>p. BeginPoll => pc' = "tip" /\ UNCHANGED store
  BY BeginsAlone, Zenon DEF TInv
<1> USE DEF store, locals
<1>1. CASE Advance
  <2>1. \A h \in 1..Len(chain) : chain'[h] = chain[h]
    BY <1>1, AppendKeeps, ChainWorkerAssumption DEF Advance, TInv, ChainOK
  <2>2. UNCHANGED <<pc, status, rpcHeight, lastKnown, apiFailed>>
    BY <1>1, Zenon DEF Advance
  <2>3. pc \in {"end", "insert", "fetch", "attribute", "ingest"} => rpcHeight \in 1..Len(chain)
    BY DEF TInv, PollSet
  <2>4. QED
    BY <2>1, <2>2, <2>3 DEF StatusKnown, KnownTrue
<1>2. CASE Start \/ Crash \/ BeginPoll \/ getLatestCommit
  BY <1>2, <1>p, <1>b DEF Start, Crash, getLatestCommit
<1>3. CASE resolveValidatorStatus
  <2>1. /\ pc = "status" /\ pc' = "inactivity" /\ chain[rpcHeight] \in Standing
    BY <1>3 DEF resolveValidatorStatus, TInv, PollSet, ChainOK
  <2>2. \/ status' = IF StandingOfPoll \in ActiveStanding THEN "active" ELSE StandingOfPoll
        \/ apiFailed' = TRUE
    BY <1>3 DEF resolveValidatorStatus
  <2>3. "unknown" \notin Standing
    BY DEF Standing, ActiveStanding, InactiveStanding
  <2>4. QED
    BY <2>1, <2>2, <2>3 DEF StatusKnown, KnownTrue, StandingOfPoll
<1>4. CASE readInactivity
  <2>1. /\ pc = "inactivity" /\ pc' \in {"end", "fetch"}
        /\ UNCHANGED <<chain, status, rpcHeight, apiFailed>>
        /\ \E read \in BOOLEAN : lastKnown' = LastKnown(read)
    BY <1>4 DEF readInactivity
  <2>2. rpcHeight \in 1..Len(chain) /\ chain[rpcHeight] \in Standing
        /\ status \in {"unknown", "active"} \cup Reason
    BY <2>1 DEF TInv, PollSet, PollOK, ChainOK, Reasons, InactiveStanding, Reason
  <2>3. status # "unknown" => lastKnown' = ActivityOf(chain[rpcHeight])
    <3>1. CASE status = "active"
      BY <2>1, <3>1 DEF LastKnown, StatusTrue, Active, ActivityOf
    <3>2. CASE status \in Reason
      <4>1. chain[rpcHeight] \in Reason
        BY <3>2 DEF StatusTrue, Reason
      <4>2. QED
        BY <2>1, <3>2, <4>1 DEF LastKnown, ActivityOf, Reason, ActiveStanding
    <3>3. QED
      BY <2>2, <3>1, <3>2
  <2>4. QED
    BY <2>1, <2>3 DEF StatusKnown, KnownTrue
<1>5. CASE EndInactivity \/ StartInactivity \/ getRangeCommits
  BY <1>5, <1>a DEF EndInactivity, StartInactivity, getRangeCommits
<1>6. CASE AttributeCommit
  <2>1. /\ UNCHANGED <<chain, rpcHeight, lastKnown>> /\ pc = "attribute"
        /\ pc' \in {"attribute", "ingest"} /\ (apiFailed' = apiFailed \/ apiFailed')
    BY <1>6 DEF AttributeCommit, Proceed
  <2>2. QED
    BY <1>a, <2>1
<1>7. CASE CommitUnusable \/ CommitNotCanonical
  BY <1>7, <1>a DEF CommitUnusable, CommitNotCanonical, SkipOrStop, Stop, Proceed
<1>8. CASE ingestBlocks \/ Evaluate \/ ReadFails \/ LatestCommitFails
  BY <1>8, <1>b DEF ingestBlocks, Evaluate, ReadFails, LatestCommitFails, EndPoll
<1>9. CASE UNCHANGED vars
  BY <1>9 DEF vars, StatusKnown, KnownTrue
<1>10. QED
  BY <1>1, <1>2, <1>3, <1>4, <1>5, <1>6, <1>7, <1>8, <1>9 DEF Next, Poll

LEMMA MemoNext ==
  ASSUME chainType = "bft", TInv, FlagsOK, KnownTrue, InSlice, MemoTrue,
         MisattributionExplained, [Next]_vars
  PROVE  MemoTrue' /\ MisattributionExplained'
<1>a. ASSUME pc' \notin {"attribute", "ingest"} PROVE MemoTrue' /\ MisattributionExplained'
  BY <1>a DEF MemoTrue, MisattributionExplained
<1>b. ASSUME pc = "attribute", next' \in {next, next + 1},
             UNCHANGED <<chain, activeSetHex, dbHeight, rpcHeight, lastKnown, batch, cache,
                         apiFailed>>
      PROVE  MemoTrue' /\ MisattributionExplained'
  <2>1. /\ fromHeight' = fromHeight /\ (trustedActiveSet' <=> trustedActiveSet)
        /\ (ChangesOnce(fromHeight, rpcHeight)' <=> ChangesOnce(fromHeight, rpcHeight))
    BY <1>b DEF fromHeight, trustedActiveSet, ChangesOnce, Active
  <2>2. MisattributionExplained'
    BY <1>b, <2>1 DEF MisattributionExplained, Active
  <2>3. fromHeight..next - 1 \subseteq fromHeight..next' - 1
    BY <1>b, SliceBounds
  <2>4. MemoTrue'
    BY <1>b, <2>1, <2>3 DEF MemoTrue
  <2>5. QED
    BY <2>2, <2>4
<1>p. BeginPoll => pc' = "tip" /\ UNCHANGED store
  BY BeginsAlone, Zenon DEF TInv
<1> USE DEF store, locals
<1>1. CASE Advance
  <2>1. \A h \in 1..Len(chain) : chain'[h] = chain[h]
    BY <1>1, AppendKeeps, ChainWorkerAssumption DEF Advance, TInv, ChainOK
  <2>2. UNCHANGED <<pc, dbHeight, rpcHeight, next, activeSetHex, lastKnown, cache, batch, apiFailed>>
    BY <1>1, Zenon DEF Advance
  <2>3. fromHeight' = fromHeight /\ (trustedActiveSet' <=> trustedActiveSet)
    BY <2>2 DEF fromHeight, trustedActiveSet
  <2>4. SUFFICES ASSUME pc \in {"attribute", "ingest"}
                 PROVE  MemoTrue' /\ MisattributionExplained'
    BY <2>2 DEF MemoTrue, MisattributionExplained
  <2>5. rpcHeight \in 1..Len(chain) /\ DOMAIN batch \subseteq 1..Len(chain) /\ Len(chain) \in Nat
    BY <2>4 DEF TInv, PollSet, PollOK, ChainOK
  <2>6. ChangesOnce(fromHeight, rpcHeight)' <=> ChangesOnce(fromHeight, rpcHeight)
    <3>1. fromHeight..rpcHeight \subseteq 1..Len(chain)
      BY <2>5, SliceBounds
    <3>2. \A h \in fromHeight..rpcHeight : Active(h)' <=> Active(h)
      BY <2>1, <3>1 DEF Active
    <3>3. QED
      BY <2>2, <2>3, <3>2 DEF ChangesOnce
  <2>7. MisattributionExplained'
    BY <2>1, <2>2, <2>3, <2>5, <2>6 DEF MisattributionExplained, Active
  <2>8. MemoTrue'
    <3>1. next - 1 <= Len(chain)
      <4>1. next \in Nat /\ next <= rpcHeight + 1
        BY <2>4, SliceBounds DEF InSlice
      <4>2. QED
        BY <2>5, <4>1
    <3>2. QED
      BY <2>1, <2>2, <2>3, <3>1, SliceBounds DEF MemoTrue
  <2>9. QED
    BY <2>7, <2>8
<1>2. CASE Start \/ Crash \/ BeginPoll \/ getLatestCommit \/ resolveValidatorStatus
  BY <1>2, <1>p, <1>a DEF Start, Crash, getLatestCommit, resolveValidatorStatus
<1>3. CASE readInactivity \/ EndInactivity \/ StartInactivity
  BY <1>3, <1>a DEF readInactivity, EndInactivity, StartInactivity
<1>4. CASE getRangeCommits
  <2>1. pc = "fetch" /\ UNCHANGED <<batch, cache>>
    BY <1>4, Zenon DEF getRangeCommits
  <2>2. DOMAIN batch' = {} /\ cache' = "unknown"
    BY <2>1 DEF TInv, PollSet, NoBlocks
  <2>3. QED
    BY <2>2 DEF MemoTrue, MisattributionExplained
<1>5. CASE AttributeCommit
  <2>1. /\ pc = "attribute" /\ pc' \in {"attribute", "ingest"} /\ next' = next + 1
        /\ UNCHANGED <<chain, activeSetHex, dbHeight, rpcHeight, lastKnown>>
    BY <1>5 DEF AttributeCommit, Proceed
  <2>2. PICK answer \in {ActivityOf(chain[next]), "failed"} :
          LET block == commitToBlock(chain[next], trustedActiveSet, cache, lastKnown, answer)
          IN /\ IF answer = "failed" THEN apiFailed' = TRUE ELSE UNCHANGED apiFailed
             /\ batch' = [h \in DOMAIN batch \cup {next} |->
                            IF h = next THEN block.signed ELSE batch[h]]
             /\ cache' = block.cache
    BY <1>5, Zenon DEF AttributeCommit
  <2>3. next \in 1..Len(chain) /\ chain[next] \in Standing
    BY <1>5, <2>1 DEF AttributeCommit, TInv, PollSet, PollOK, ChainOK
  <2>4. /\ fromHeight' = fromHeight /\ (trustedActiveSet' <=> trustedActiveSet)
        /\ (ChangesOnce(fromHeight, rpcHeight)' <=> ChangesOnce(fromHeight, rpcHeight))
    BY <2>1 DEF fromHeight, trustedActiveSet, ChangesOnce, Active
  <2>5. /\ DOMAIN batch' = DOMAIN batch \cup {next}
        /\ \A h \in DOMAIN batch : h # next => batch'[h] = batch[h]
    BY <2>2
  <2>6. CASE apiFailed'
    BY <2>6 DEF MemoTrue, MisattributionExplained
  <2>7. CASE ~apiFailed'
    <3>1. ~apiFailed /\ answer = ActivityOf(chain[next])
      BY <2>2, <2>7
    <3>2. lastKnown = ActivityOf(chain[rpcHeight]) /\ lastKnown \in Activity
      BY <2>1, <3>1 DEF KnownTrue, ActivityOf, Activity
    <3>3. trustedActiveSet \in BOOLEAN
      BY Zenon DEF trustedActiveSet, FlagsOK
    <3>4. /\ fromHeight <= next /\ next <= rpcHeight
          /\ fromHeight \in Nat /\ rpcHeight \in Nat /\ next \in Nat
      BY <2>1, SliceBounds DEF InSlice
    <3>5. ChangesOnce(fromHeight, rpcHeight) /\ cache # "unknown"
            => cache = ActivityOf(chain[next])
      <4>1. SUFFICES ASSUME ChangesOnce(fromHeight, rpcHeight), cache # "unknown"
                     PROVE  cache = ActivityOf(chain[next])
        OBVIOUS
      <4>2. PICK k \in fromHeight..next - 1 : ActivityOf(chain[k]) = cache
        BY <2>1, <3>1, <4>1 DEF MemoTrue
      <4>3. cache = lastKnown
        BY <2>1, <3>1, <4>1 DEF MemoTrue
      <4>4. Active(k) <=> Active(rpcHeight)
        BY <3>2, <4>2, <4>3 DEF ActivityOf, Active
      <4>5. Active(next) <=> Active(k)
        BY <3>4, <4>1, <4>2, <4>4 DEF ChangesOnce
      <4>6. QED
        BY <4>2, <4>5 DEF ActivityOf, Active
    <3>6. cache = "unknown" \/ cache = ActivityOf(chain[next]) =>
            /\ \/ batch'[next] = Truth(chain[next])
               \/ trustedActiveSet /\ chain[next] \notin ActiveStanding
            /\ \/ cache' = cache
               \/ cache' = lastKnown /\ cache' = ActivityOf(chain[next])
      BY <2>2, <2>3, <3>1, <3>2, <3>3, BlockIsTrue
    <3>7. MisattributionExplained'
      <4>1. CASE ~ChangesOnce(fromHeight, rpcHeight)
        BY <2>4, <4>1 DEF MisattributionExplained
      <4>2. CASE ChangesOnce(fromHeight, rpcHeight)
        <5>1. \A h \in DOMAIN batch :
                batch[h] = Truth(chain[h]) \/ (trustedActiveSet /\ ~Active(h))
          BY <2>1, <3>1, <4>2 DEF MisattributionExplained
        <5>2. batch'[next] = Truth(chain[next]) \/ (trustedActiveSet /\ ~Active(next))
          BY <3>5, <3>6, <4>2 DEF Active
        <5>3. QED
          BY <2>1, <2>4, <2>5, <5>1, <5>2 DEF MisattributionExplained, Active
      <4>3. QED
        BY <4>1, <4>2
    <3>8. MemoTrue'
      <4>1. SUFFICES ASSUME cache' # "unknown"
                     PROVE  /\ cache' = lastKnown
                            /\ \E k \in fromHeight..next : ActivityOf(chain[k]) = cache'
        BY <2>1, <2>4, <3>4 DEF MemoTrue
      <4>2. CASE cache' = cache
        <5>1. cache = lastKnown /\ \E k \in fromHeight..next - 1 : ActivityOf(chain[k]) = cache
          BY <2>1, <3>1, <4>1, <4>2 DEF MemoTrue
        <5>2. fromHeight..next - 1 \subseteq fromHeight..next
          BY <3>4
        <5>3. QED
          BY <4>2, <5>1, <5>2
      <4>3. CASE cache' # cache
        <5>1. cache = "unknown"
          <6>1. cache # "unknown" => cache' = cache
            BY <2>2 DEF commitToBlock, resolveActiveFallback
          <6>2. QED
            BY <4>3, <6>1
        <5>2. cache' = lastKnown /\ cache' = ActivityOf(chain[next])
          BY <3>6, <4>3, <5>1
        <5>3. next \in fromHeight..next
          BY <3>4
        <5>4. QED
          BY <5>2, <5>3
      <4>4. QED
        BY <4>2, <4>3
    <3>9. QED
      BY <3>7, <3>8
  <2>8. QED
    BY <2>6, <2>7
<1>6. CASE CommitUnusable
  <2>1. pc = "attribute" /\ next' \in {next, next + 1}
    BY <1>6 DEF CommitUnusable, SkipOrStop, Stop, Proceed
  <2>2. QED
    BY <1>6, <1>b, <2>1, Zenon DEF CommitUnusable
<1>7. CASE CommitNotCanonical
  BY <1>7, <1>b, Zenon DEF CommitNotCanonical, Stop
<1>8. CASE ingestBlocks \/ Evaluate \/ ReadFails \/ LatestCommitFails
  BY <1>8, <1>a DEF ingestBlocks, Evaluate, ReadFails, LatestCommitFails, EndPoll
<1>9. CASE UNCHANGED vars
  BY <1>9 DEF vars, MemoTrue, MisattributionExplained, fromHeight, trustedActiveSet,
     ChangesOnce, Active
<1>10. QED
  BY <1>1, <1>2, <1>3, <1>4, <1>5, <1>6, <1>7, <1>8, <1>9 DEF Next, Poll

(* On a bft chain a block of the batch is wrong only for one of the three       *)
(* reasons commitToBlock cannot see: an answer was missing, the set cached at   *)
(* startup is out of date, or the activity changed more than once in the slice. *)
THEOREM MisattributionIsExplained ==
  chainType = "bft" => (Spec => []MisattributionExplained)
<1> SUFFICES ASSUME chainType = "bft" PROVE Spec => []MisattributionExplained
  OBVIOUS
<1> DEFINE Inv == /\ TInv /\ FlagsOK /\ StatusTrue /\ StatusKnown /\ KnownTrue
                  /\ InSlice /\ MemoTrue /\ MisattributionExplained
<1>1. Init => Inv
  BY TInvInit, FlagsInit DEF Init, StatusTrue, StatusKnown, KnownTrue, InSlice, MemoTrue,
     MisattributionExplained, Reason
<1>2. Inv /\ [Next]_vars => Inv'
  BY TInvNext, FlagsNext, StatusTrueNext, KnownNext, InSliceNext, MemoNext, Zenon
<1>3. QED
  BY <1>1, <1>2, PTL DEF Spec

-----------------------------------------------------------------------------
(* Disjoint periods.                                                       *)

\* With every node at the tip of the chain, no recorded height is past the
\* height of the poll.
Past ==
  Lag = 0 /\ pc \in {"status", "inactivity", "end", "insert"} =>
    \A h \in DOMAIN periods : h <= rpcHeight /\ periods[h].end <= rpcHeight

\* As long as no database call failed, what recordInactivity was given is the
\* table's open period, and when it inserts there is none.
NoDbFault == Lag = 0 /\ faults.db = DbFaults

ReadOpen ==
  NoDbFault =>
    /\ pc = "end" => openPeriod = getOpenInactivity(periods)
    /\ pc = "insert" => OpenHeights(periods) = {}
    /\ \A h \in DOMAIN periods : periods[h].end # 0 => h <= periods[h].end

DbBound == FaultsOK /\ faults.db <= DbFaults

\* Failures only ever use up the bound: where none was used after a step, none
\* was used before it, nor in it.
LEMMA DbBoundNext ==
  ASSUME DbBound, [Next]_vars
  PROVE  DbBound' /\ faults'.db <= faults.db
<1>1. FaultsOK' /\ DbFaults \in Nat
  BY FaultsNext, ChainWorkerAssumption DEF DbBound
<1>2. /\ faults \in [{"query", "db", "crash"} -> Nat]
      /\ faults' \in [{"query", "db", "crash"} -> Nat]
  BY <1>1 DEF DbBound, FaultsOK
<1>3. UNCHANGED faults \/ Fails("query") \/ Fails("db") \/ Fails("crash")
  BY DEF Next, Poll, Advance, Start, Crash, BeginPoll, getLatestCommit,
     resolveValidatorStatus, readInactivity, EndInactivity, StartInactivity,
     getRangeCommits, AttributeCommit, CommitUnusable, CommitNotCanonical, ingestBlocks,
     Evaluate, ReadFails, LatestCommitFails, vars
<1>4. faults'.db <= faults.db
  <2>1. CASE UNCHANGED faults
    BY <2>1, <1>2
  <2>2. CASE Fails("query") \/ Fails("crash")
    BY <2>2, <1>2 DEF Fails
  <2>3. CASE Fails("db")
    BY <2>3, <1>2 DEF Fails
  <2>4. QED
    BY <1>3, <2>1, <2>2, <2>3
<1>5. QED
  BY <1>1, <1>2, <1>4 DEF DbBound

LEMMA PastNext ==
  ASSUME TInv, EndsReached, Past, [Next]_vars
  PROVE  Past'
<1>a. ASSUME UNCHANGED <<periods, rpcHeight>>,
             pc \in {"status", "inactivity", "end", "insert"} \/ pc' = pc
      PROVE  Past'
  BY <1>a DEF Past
<1>b. ASSUME pc' \notin {"status", "inactivity", "end", "insert"} PROVE Past'
  BY <1>b DEF Past
<1>p. BeginPoll => pc' = "tip" /\ UNCHANGED store
  BY BeginsAlone, Zenon DEF TInv
<1> USE DEF store, locals
<1>1. CASE Advance
  BY <1>1, <1>a, Zenon DEF Advance
<1>2. CASE Start \/ Crash \/ BeginPoll \/ StartInactivity \/ getRangeCommits
  BY <1>2, <1>p, <1>b DEF Start, Crash, StartInactivity, getRangeCommits
<1>3. CASE getLatestCommit
  <2>1. rpcHeight' \in NodeTips /\ UNCHANGED <<chain, periods>>
    BY <1>3, Zenon DEF getLatestCommit
  <2>2. Lag = 0 => rpcHeight' = Len(chain)
    BY <2>1 DEF NodeTips, TInv, ChainOK
  <2>3. DOMAIN periods \subseteq 1..Len(chain)
    BY DEF TInv, RowsOK
  <2>4. QED
    BY <2>1, <2>2, <2>3 DEF Past, EndsReached
<1>4. CASE resolveValidatorStatus
  BY <1>4, <1>a DEF resolveValidatorStatus
<1>5. CASE readInactivity
  BY <1>5, <1>a DEF readInactivity
<1>6. CASE EndInactivity
  <2>1. /\ pc = "end" /\ UNCHANGED rpcHeight
        /\ \/ UNCHANGED periods
           \/ periods' = endInactivity(periods, openPeriod, rpcHeight)
    BY <1>6 DEF EndInactivity
  <2>2. CASE UNCHANGED periods
    BY <2>1, <2>2, <1>a
  <2>3. CASE periods' = endInactivity(periods, openPeriod, rpcHeight)
    <3>1. rpcHeight \in Nat
      BY DEF TInv, PollOK, ChainOK
    <3>2. /\ DOMAIN periods' = DOMAIN periods
          /\ \A h \in DOMAIN periods : periods'[h].end \in {rpcHeight, periods[h].end}
      BY <2>3 DEF endInactivity, TInv, RowsOK
    <3>3. QED
      BY <2>1, <3>1, <3>2 DEF Past
  <2>4. QED
    BY <2>1, <2>2, <2>3
<1>7. CASE AttributeCommit \/ CommitUnusable \/ CommitNotCanonical
  BY <1>7, <1>b DEF AttributeCommit, CommitUnusable, CommitNotCanonical, SkipOrStop, Stop,
     Proceed
<1>8. CASE ingestBlocks \/ Evaluate \/ ReadFails \/ LatestCommitFails
  BY <1>8, <1>b DEF ingestBlocks, Evaluate, ReadFails, LatestCommitFails, EndPoll
<1>9. CASE UNCHANGED vars
  BY <1>9, <1>a, Zenon DEF vars
<1>10. QED
  BY <1>1, <1>2, <1>3, <1>4, <1>5, <1>6, <1>7, <1>8, <1>9 DEF Next, Poll

\* Ending the open period, the newest, leaves none open.
LEMMA EndingCloses ==
  ASSUME TInv, Past, ReadOpen, PeriodsDisjoint, NoDbFault, pc = "end", openPeriod # 0,
         NEW table, table = endInactivity(periods, openPeriod, rpcHeight)
  PROVE  /\ OpenHeights(table) = {}
         /\ \A h \in DOMAIN table : table[h].end # 0 => h <= table[h].end
         /\ \A a, b \in DOMAIN table :
              a < b => table[a].end # 0 /\ a <= table[a].end /\ table[a].end <= b
<1>1. /\ DOMAIN periods \subseteq 1..Len(chain) /\ Len(chain) \in Nat
      /\ \A h \in DOMAIN periods : periods[h].end \in Nat
      /\ rpcHeight \in 1..Len(chain)
  BY DEF TInv, RowsOK, ChainOK, PollSet
<1>2. openPeriod \in OpenHeights(periods) /\ \A h \in OpenHeights(periods) : h <= openPeriod
  <2>1. openPeriod = getOpenInactivity(periods)
    BY DEF ReadOpen
  <2>2. OpenHeights(periods) # {} /\ openPeriod = Max(OpenHeights(periods))
    BY <2>1 DEF getOpenInactivity
  <2>3. OpenHeights(periods) \in SUBSET (1..Len(chain))
    BY <1>1 DEF OpenHeights
  <2>4. QED
    BY <1>1, <2>2, <2>3, MaxIsMax
<1>3. /\ openPeriod \in DOMAIN periods /\ periods[openPeriod].end = 0
      /\ openPeriod <= rpcHeight
  BY <1>2 DEF OpenHeights, Past, NoDbFault
<1>4. /\ DOMAIN table = DOMAIN periods
      /\ table[openPeriod].end = rpcHeight
      /\ \A h \in DOMAIN periods : h # openPeriod => table[h].end = periods[h].end
  BY <1>3 DEF endInactivity, TInv, RowsOK
<1>5. \A a, b \in DOMAIN periods :
        a < b => periods[a].end # 0 /\ a <= periods[a].end /\ periods[a].end <= b
  BY DEF PeriodsDisjoint, NoDbFault
<1>6. \A h \in DOMAIN periods : h # openPeriod => h < openPeriod /\ periods[h].end # 0
  <2>1. TAKE h \in DOMAIN periods
  <2>2. HAVE h # openPeriod
  <2>3. ~(openPeriod < h)
    BY <1>3, <1>5
  <2>4. h < openPeriod
    BY <1>1, <1>3, <2>2, <2>3
  <2>5. QED
    BY <1>3, <1>5, <2>4
<1>7. OpenHeights(table) = {}
  BY <1>1, <1>4, <1>6 DEF OpenHeights
<1>8. \A h \in DOMAIN table : table[h].end # 0 => h <= table[h].end
  BY <1>3, <1>4 DEF ReadOpen
<1>9. \A a, b \in DOMAIN table :
        a < b => table[a].end # 0 /\ a <= table[a].end /\ table[a].end <= b
  <2>1. SUFFICES ASSUME NEW a \in DOMAIN periods, NEW b \in DOMAIN periods, a < b
                 PROVE  table[a].end # 0 /\ a <= table[a].end /\ table[a].end <= b
    BY <1>4
  <2>2. a # openPeriod
    BY <1>3, <1>5, <2>1
  <2>3. QED
    BY <1>4, <1>5, <2>1, <2>2
<1>10. QED
  BY <1>7, <1>8, <1>9

\* A period started when none is open starts where every other has ended.
LEMMA StartingIsLast ==
  ASSUME TInv, Past, ReadOpen, PeriodsDisjoint, NoDbFault, pc = "insert",
         NEW table, table = insertInactivity(periods, rpcHeight, status)
  PROVE  /\ \A h \in DOMAIN table : table[h].end # 0 => h <= table[h].end
         /\ \A a, b \in DOMAIN table :
              a < b => table[a].end # 0 /\ a <= table[a].end /\ table[a].end <= b
<1>1. /\ DOMAIN periods \subseteq 1..Len(chain) /\ Len(chain) \in Nat
      /\ \A h \in DOMAIN periods : periods[h].end \in Nat
      /\ rpcHeight \in 1..Len(chain)
  BY DEF TInv, RowsOK, ChainOK, PollSet
<1>2. \A h \in DOMAIN periods :
        h <= rpcHeight /\ periods[h].end # 0 /\ h <= periods[h].end
        /\ periods[h].end <= rpcHeight
  BY DEF OpenHeights, ReadOpen, Past, NoDbFault
<1>3. /\ DOMAIN table = DOMAIN periods \cup {rpcHeight}
      /\ table[rpcHeight].end = 0
      /\ \A h \in DOMAIN periods : h # rpcHeight => table[h] = periods[h]
  BY DEF insertInactivity
<1>4. \A h \in DOMAIN table : table[h].end # 0 => h <= table[h].end
  BY <1>2, <1>3
<1>5. \A a, b \in DOMAIN table :
        a < b => table[a].end # 0 /\ a <= table[a].end /\ table[a].end <= b
  <2>1. SUFFICES ASSUME NEW a \in DOMAIN table, NEW b \in DOMAIN table, a < b
                 PROVE  table[a].end # 0 /\ a <= table[a].end /\ table[a].end <= b
    OBVIOUS
  <2>2. a \in Int /\ b \in Int /\ b <= rpcHeight /\ rpcHeight \in Int
    BY <1>1, <1>2, <1>3
  <2>3. a \in DOMAIN periods /\ a # rpcHeight /\ table[a] = periods[a]
    BY <1>3, <2>1, <2>2
  <2>4. CASE b = rpcHeight
    BY <1>2, <2>3, <2>4
  <2>5. CASE b # rpcHeight
    BY <1>3, <2>1, <2>3, <2>5 DEF PeriodsDisjoint, NoDbFault
  <2>6. QED
    BY <2>4, <2>5
<1>6. QED
  BY <1>4, <1>5

LEMMA DisjointNext ==
  ASSUME TInv, DbBound, Past, ReadOpen, PeriodsDisjoint, [Next]_vars
  PROVE  ReadOpen' /\ PeriodsDisjoint'
<1>n. SUFFICES ASSUME NoDbFault' PROVE ReadOpen' /\ PeriodsDisjoint'
  BY DEF ReadOpen, PeriodsDisjoint, NoDbFault
<1>f. NoDbFault /\ faults'.db = faults.db /\ faults.db \in Nat
  BY <1>n, DbBoundNext, ChainWorkerAssumption DEF NoDbFault, DbBound, FaultsOK
<1>d. ~Fails("db")
  BY <1>f DEF Fails, DbBound, FaultsOK
<1>a. ASSUME UNCHANGED periods, pc' \notin {"end", "insert"}
      PROVE  ReadOpen' /\ PeriodsDisjoint'
  BY <1>a, <1>f DEF ReadOpen, PeriodsDisjoint, NoDbFault
<1>b. ASSUME UNCHANGED <<periods, pc, openPeriod>> PROVE ReadOpen' /\ PeriodsDisjoint'
  BY <1>b, <1>f DEF ReadOpen, PeriodsDisjoint, NoDbFault
<1>p. BeginPoll => pc' = "tip" /\ UNCHANGED store
  BY BeginsAlone, Zenon DEF TInv
<1> USE DEF store, locals
<1>1. CASE Advance
  BY <1>1, <1>b, Zenon DEF Advance
<1>2. CASE Start \/ Crash \/ BeginPoll \/ getLatestCommit \/ resolveValidatorStatus
  BY <1>2, <1>p, <1>a DEF Start, Crash, getLatestCommit, resolveValidatorStatus
<1>3. CASE readInactivity
  <2>1. /\ UNCHANGED periods /\ pc' \in {"end", "fetch"}
        /\ openPeriod' = getOpenInactivity(periods)
    BY <1>3, <1>d DEF readInactivity
  <2>2. QED
    BY <2>1, <1>f DEF ReadOpen, PeriodsDisjoint, NoDbFault
<1>4. CASE EndInactivity
  <2>1. /\ pc = "end" /\ pc' \in {"insert", "fetch"} /\ UNCHANGED openPeriod
        /\ pc' = "insert" => StartsPeriod(periods, openPeriod, status)
        /\ IF EndsPeriod(periods, openPeriod, status)
           THEN periods' = endInactivity(periods, openPeriod, rpcHeight)
           ELSE UNCHANGED periods
    BY <1>4, <1>d DEF EndInactivity
  <2>2. CASE EndsPeriod(periods, openPeriod, status)
    <3>1. openPeriod # 0 /\ periods' = endInactivity(periods, openPeriod, rpcHeight)
      BY <2>1, <2>2 DEF EndsPeriod
    <3>2. /\ OpenHeights(periods') = {}
          /\ \A h \in DOMAIN periods' : periods'[h].end # 0 => h <= periods'[h].end
          /\ \A a, b \in DOMAIN periods' :
               a < b => periods'[a].end # 0 /\ a <= periods'[a].end /\ periods'[a].end <= b
      BY <2>1, <3>1, <1>f, EndingCloses
    <3>3. QED
      BY <2>1, <3>2 DEF ReadOpen, PeriodsDisjoint
  <2>3. CASE ~EndsPeriod(periods, openPeriod, status)
    <3>1. UNCHANGED periods
      BY <2>1, <2>3
    <3>2. openPeriod = getOpenInactivity(periods)
      BY <2>1, <1>f DEF ReadOpen
    <3>3. pc' = "insert" => OpenHeights(periods) = {}
      <4>1. SUFFICES ASSUME pc' = "insert" PROVE OpenHeights(periods) = {}
        OBVIOUS
      <4>2. openPeriod = 0
        BY <4>1, <2>1, <2>3 DEF StartsPeriod, EndsPeriod, SameReason
      <4>3. OpenHeights(periods) \in SUBSET (1..Len(chain)) /\ Len(chain) \in Nat
        BY DEF TInv, RowsOK, OpenHeights, ChainOK
      <4>4. ASSUME OpenHeights(periods) # {} PROVE FALSE
        <5>1. Max(OpenHeights(periods)) \in 1..Len(chain)
          BY <4>3, <4>4, MaxIsMax
        <5>2. Max(OpenHeights(periods)) = 0
          BY <3>2, <4>2, <4>4 DEF getOpenInactivity
        <5>3. QED
          BY <5>1, <5>2
      <4>5. QED
        BY <4>4
    <3>4. QED
      BY <2>1, <3>1, <3>3, <1>f DEF ReadOpen, PeriodsDisjoint, NoDbFault
  <2>4. QED
    BY <2>2, <2>3
<1>5. CASE StartInactivity
  <2>1. /\ pc = "insert" /\ pc' = "fetch"
        /\ periods' = insertInactivity(periods, rpcHeight, status)
    BY <1>5, <1>d DEF StartInactivity
  <2>2. /\ \A h \in DOMAIN periods' : periods'[h].end # 0 => h <= periods'[h].end
        /\ \A a, b \in DOMAIN periods' :
             a < b => periods'[a].end # 0 /\ a <= periods'[a].end /\ periods'[a].end <= b
    BY <2>1, <1>f, StartingIsLast
  <2>3. QED
    BY <2>1, <2>2 DEF ReadOpen, PeriodsDisjoint
<1>6. CASE getRangeCommits
  BY <1>6, <1>a DEF getRangeCommits
<1>7. CASE AttributeCommit \/ CommitUnusable \/ CommitNotCanonical
  BY <1>7, <1>a DEF AttributeCommit, CommitUnusable, CommitNotCanonical, SkipOrStop, Stop,
     Proceed
<1>8. CASE ingestBlocks \/ Evaluate \/ ReadFails \/ LatestCommitFails
  BY <1>8, <1>a DEF ingestBlocks, Evaluate, ReadFails, LatestCommitFails, EndPoll
<1>9. CASE UNCHANGED vars
  BY <1>9, <1>b, Zenon DEF vars
<1>10. QED
  BY <1>1, <1>2, <1>3, <1>4, <1>5, <1>6, <1>7, <1>8, <1>9 DEF Next, Poll

(* Recorded periods never overlap and only the newest is open, whatever dies    *)
(* between the two writes of recordInactivity and whatever the API leaves out,  *)
(* as long as every node is at the tip and no database call failed.            *)
THEOREM PeriodsStayDisjoint == Spec => []PeriodsDisjoint
<1> DEFINE Inv == PInv /\ FlagsOK /\ DbBound /\ Past /\ ReadOpen /\ PeriodsDisjoint
<1>1. Init => Inv
  <2>1. SUFFICES ASSUME Init PROVE Inv
    OBVIOUS
  <2>2. DOMAIN periods = {} /\ pc = "down" /\ OpenHeights(periods) = {}
    BY <2>1 DEF Init, NoPeriods, OpenHeights
  <2>3. PInv
    BY <2>1, <2>2, TInvInit DEF Init, PInv, StatusTrue, EndsReached, PeriodsTruthful, Reason
  <2>4. DbBound
    BY <2>1, ChainWorkerAssumption DEF Init, DbBound, FaultsOK
  <2>5. QED
    BY <2>1, <2>2, <2>3, <2>4, FlagsInit DEF Past, ReadOpen, PeriodsDisjoint
<1>2. Inv /\ [Next]_vars => Inv'
  <2>1. SUFFICES ASSUME Inv, [Next]_vars PROVE Inv'
    OBVIOUS
  <2>2. TInv /\ EndsReached
    BY <2>1 DEF PInv
  <2>3. PInv'
    BY <2>1, TInvNext, StatusTrueNext, PeriodsNext, Zenon DEF PInv
  <2>4. QED
    BY <2>1, <2>2, <2>3, FlagsNext, DbBoundNext, PastNext, DisjointNext, Zenon
<1>3. QED
  BY <1>1, <1>2, PTL DEF Spec
=============================================================================
