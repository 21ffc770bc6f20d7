---------------------------- MODULE LedgerProofs ----------------------------
(***************************************************************************)
(* The stored blocks implement BlockLedger when gaps are not allowed.  A    *)
(* poll reads the stored height once and writes rows many awaits later; the  *)
(* argument is that the polling flag lets no other poll write meanwhile,      *)
(* and that the batch is exactly the run of final heights walked over so     *)
(* far.  On such rows the consecutive-miss alert is closed for one reason     *)
(* only.                                                                    *)
(***************************************************************************)
EXTENDS ChainWorkerProofs

\* The phases that rely on what BeginPoll read of the stored heights.
Holding == {"tip", "status", "inactivity", "end", "insert", "fetch", "attribute",
            "ingest"}

\* What the poll read of the tables is what they hold: the alerts up to its last
\* step, the heights up to its write.
SnapshotFresh ==
  /\ pc \in Holding \cup {"evaluate"} => hadAlert = missAlert
  /\ pc \in Holding => dbHeight = Latest(DOMAIN blocks)

LEMMA FreshInit == Init => SnapshotFresh
  BY DEF Init, SnapshotFresh, Holding

LEMMA FreshNext == Alone /\ SnapshotFresh /\ [Next]_vars => SnapshotFresh'
<1> SUFFICES ASSUME Alone, SnapshotFresh, [Next]_vars PROVE SnapshotFresh'
  OBVIOUS
<1>a. ASSUME pc \in Holding, UNCHANGED <<blocks, missAlert, dbHeight, hadAlert>>
      PROVE  SnapshotFresh'
  BY <1>a DEF SnapshotFresh, Holding
<1>b. ASSUME pc' \notin Holding \cup {"evaluate"} PROVE SnapshotFresh'
  BY <1>b DEF SnapshotFresh, Holding
<1>c. ASSUME UNCHANGED <<pc, blocks, missAlert, dbHeight, hadAlert>>
      PROVE  SnapshotFresh'
  BY <1>c DEF SnapshotFresh
<1> USE DEF store, locals
<1>1. CASE Advance
  BY <1>1, <1>c, Zenon DEF Advance
<1>2. CASE Start
  BY <1>2, <1>b DEF Start, Holding
<1>3. CASE Crash
  BY <1>3, <1>b DEF Crash, Holding
<1>4. CASE BeginPoll
  BY <1>4, BeginsAlone, Zenon DEF SnapshotFresh
<1>5. CASE getLatestCommit
  BY <1>5, <1>a, Zenon DEF getLatestCommit, Holding
<1>6. CASE resolveValidatorStatus
  BY <1>6, <1>a, Zenon DEF resolveValidatorStatus, Holding
<1>7. CASE readInactivity
  BY <1>7, <1>a, Zenon DEF readInactivity, Holding
<1>8. CASE EndInactivity
  BY <1>8, <1>a, Zenon DEF EndInactivity, Holding
<1>9. CASE StartInactivity
  BY <1>9, <1>a, Zenon DEF StartInactivity, Holding
<1>10. CASE getRangeCommits
  BY <1>10, <1>a, Zenon DEF getRangeCommits, Holding
<1>11. CASE AttributeCommit
  BY <1>11, <1>a, Zenon DEF AttributeCommit, Holding
<1>12. CASE CommitUnusable
  BY <1>12, <1>a, Zenon DEF CommitUnusable, Holding
<1>13. CASE CommitNotCanonical
  BY <1>13, <1>a, Zenon DEF CommitNotCanonical, Holding
<1>14. CASE ingestBlocks
  BY <1>14 DEF ingestBlocks, SnapshotFresh, Holding
<1>15. CASE Evaluate
  BY <1>15, <1>b DEF Evaluate, EndPoll, Holding
<1>16. CASE ReadFails
  BY <1>16, <1>b DEF ReadFails, EndPoll, Holding
<1>17. CASE LatestCommitFails
  BY <1>17, <1>b DEF LatestCommitFails, EndPoll, Holding
<1>18. CASE UNCHANGED vars
  BY <1>18, <1>c, Zenon DEF vars
<1>19. QED
  BY <1>1, <1>2, <1>3, <1>4, <1>5, <1>6, <1>7, <1>8, <1>9, <1>10, <1>11, <1>12,
     <1>13, <1>14, <1>15, <1>16, <1>17, <1>18 DEF Next, Poll

\* Whether gaps are allowed or not, the batch lies above the height the poll
\* started from.
BatchAbove ==
  pc \in {"attribute", "ingest"} =>
    fromHeight <= next /\ \A h \in DOMAIN batch : fromHeight <= h

LEMMA BatchAboveNext ==
  ASSUME TInv, BatchAbove, [Next]_vars
  PROVE  BatchAbove'
<1>a. ASSUME UNCHANGED <<pc, dbHeight, rpcHeight, next, batch>> PROVE BatchAbove'
  BY <1>a DEF BatchAbove, fromHeight
<1>b. ASSUME pc' \notin {"attribute", "ingest"} PROVE BatchAbove'
  BY <1>b DEF BatchAbove
<1>p. BeginPoll => pc' = "tip"
  BY BeginsAlone, Zenon DEF TInv
<1>n. fromHeight \in Nat /\ next \in Nat
  BY DEF TInv, PollOK, ChainOK, fromHeight
<1> USE DEF store, locals
<1>1. CASE Advance
  BY <1>1, <1>a, Zenon DEF Advance
<1>2. CASE Start \/ Crash \/ BeginPoll \/ getLatestCommit \/ resolveValidatorStatus
  BY <1>2, <1>b, <1>p DEF Start, Crash, getLatestCommit, resolveValidatorStatus
<1>3. CASE readInactivity \/ EndInactivity \/ StartInactivity
  BY <1>3, <1>b DEF readInactivity, EndInactivity, StartInactivity
<1>4. CASE getRangeCommits
  <2>1. pc = "fetch" /\ UNCHANGED <<dbHeight, rpcHeight, batch>>
        /\ (pc' = "evaluate" \/ next' = fromHeight)
    BY <1>4, Zenon DEF getRangeCommits
  <2>2. fromHeight' = fromHeight /\ DOMAIN batch' = {}
    BY <2>1 DEF fromHeight, TInv, PollSet, NoBlocks
  <2>3. QED
    BY <1>n, <2>1, <2>2 DEF BatchAbove
<1>5. CASE AttributeCommit
  <2>1. pc = "attribute" /\ next' = next + 1 /\ UNCHANGED <<dbHeight, rpcHeight>>
        /\ DOMAIN batch' = DOMAIN batch \cup {next}
    BY <1>5 DEF AttributeCommit, Proceed
  <2>2. fromHeight' = fromHeight
    BY <2>1 DEF fromHeight
  <2>3. QED
    BY <1>n, <2>1, <2>2 DEF BatchAbove
<1>6. CASE CommitUnusable \/ CommitNotCanonical
  <2>1. pc = "attribute" /\ next' \in {next, next + 1}
        /\ UNCHANGED <<dbHeight, rpcHeight, batch>>
    BY <1>6 DEF CommitUnusable, CommitNotCanonical, SkipOrStop, Stop, Proceed
  <2>2. fromHeight' = fromHeight
    BY <2>1 DEF fromHeight
  <2>3. QED
    BY <1>n, <2>1, <2>2 DEF BatchAbove
<1>7. CASE ingestBlocks \/ Evaluate \/ ReadFails \/ LatestCommitFails
  BY <1>7, <1>b DEF ingestBlocks, Evaluate, ReadFails, LatestCommitFails, EndPoll
<1>8. CASE UNCHANGED vars
  BY <1>8, <1>a, Zenon DEF vars
<1>9. QED
  BY <1>1, <1>2, <1>3, <1>4, <1>5, <1>6, <1>7, <1>8 DEF Next, Poll

\* Together with the flag that lets no second poll begin, that is enough.
LEMMA ApartWhileAlone ==
  ASSUME TInv, SnapshotFresh, BatchAbove
  PROVE  PollsKeepApart
<1> SUFFICES ASSUME NEW poll \in UnderWay
             PROVE  /\ poll.hadAlert = missAlert
                    /\ poll.pc # "evaluate" =>
                         /\ poll.dbHeight = Latest(DOMAIN blocks)
                         /\ DOMAIN poll.batch \cap DOMAIN blocks = {}
  BY DEF PollsKeepApart
<1>1. poll = ThisPoll /\ pc \in Holding \cup {"evaluate"}
  BY DEF UnderWay, TInv, Alone, PollOK, Holding
<1>2. /\ poll.pc = pc /\ poll.hadAlert = hadAlert /\ poll.dbHeight = dbHeight
      /\ poll.batch = batch
  BY <1>1 DEF ThisPoll
<1>3. hadAlert = missAlert /\ (pc # "evaluate" => dbHeight = Latest(DOMAIN blocks))
  BY <1>1 DEF SnapshotFresh
<1>4. ASSUME pc # "evaluate" PROVE DOMAIN batch \cap DOMAIN blocks = {}
  <2>1. CASE pc \notin {"attribute", "ingest"}
    BY <1>4, <2>1 DEF TInv, PollSet, NoBlocks
  <2>2. CASE pc \in {"attribute", "ingest"}
    <3>1. SUFFICES ASSUME NEW h \in DOMAIN batch, h \in DOMAIN blocks PROVE FALSE
      OBVIOUS
    <3>2. DOMAIN blocks \in SUBSET (1..Len(chain)) /\ Len(chain) \in Nat
      BY DEF TInv, RowsOK, ChainOK
    <3>3. dbHeight = Latest(DOMAIN blocks) /\ dbHeight \in Nat /\ h <= dbHeight
          /\ dbHeight # 0 /\ h \in Nat
      <4>1. dbHeight = Latest(DOMAIN blocks) /\ dbHeight \in Nat
        BY <1>3, <1>4 DEF TInv, PollOK
      <4>2. \A g \in DOMAIN blocks : g <= Latest(DOMAIN blocks) /\ g \in 1..Len(chain)
        BY <3>2, LatestIsLatest
      <4>3. QED
        BY <3>1, <4>1, <4>2
    <3>4. fromHeight = dbHeight + 1 /\ fromHeight <= h
      BY <2>2, <3>1, <3>3 DEF fromHeight, BatchAbove
    <3>5. QED
      BY <3>3, <3>4
  <2>3. QED
    BY <2>1, <2>2
<1>5. QED
  BY <1>2, <1>3, <1>4

(* The polling flag is enough: whatever the configuration, the failures and     *)
(* the deaths, and however often the timer fires, no poll works from heights    *)
(* or alerts another poll has changed since it read them.                     *)
THEOREM PollsStayApart == Spec => []PollsKeepApart
<1> DEFINE AInv == TInv /\ FlagsOK /\ SnapshotFresh /\ BatchAbove
<1>1. Init => AInv
  BY TInvInit, FlagsInit, FreshInit DEF Init, BatchAbove
<1>2. AInv /\ [Next]_vars => AInv'
  <2>1. SUFFICES ASSUME AInv, [Next]_vars PROVE AInv'
    OBVIOUS
  <2>2. Alone
    BY <2>1 DEF TInv
  <2>3. QED
    BY <2>1, <2>2, TInvNext, FlagsNext, FreshNext, BatchAboveNext, Zenon
<1>3. AInv => PollsKeepApart
  BY ApartWhileAlone
<1>4. QED
  BY <1>1, <1>2, <1>3, PTL DEF Spec

-----------------------------------------------------------------------------
(* The batch.                                                              *)

\* While the slice is walked, the batch holds the heights passed and no other.
BatchIsRun ==
  pc \in {"attribute", "ingest"} =>
    fromHeight >= 1 /\ next >= fromHeight /\ DOMAIN batch = fromHeight..next - 1

\* Each of them is final, and is stored as signed exactly when it was.
BatchIsTrue ==
  pc \in {"attribute", "ingest"} =>
    \A h \in DOMAIN batch :
      h < Len(chain) /\ ((batch[h] = 1) <=> (chain[h] = "signed"))

LInv == TInv /\ FlagsOK /\ SnapshotFresh /\ BatchIsRun /\ BatchIsTrue

LEMMA BatchIsRunNext ==
  ASSUME allowBlockGaps = FALSE, TInv, BatchIsRun, [Next]_vars
  PROVE  BatchIsRun'
<1>b. ASSUME pc' \notin {"attribute", "ingest"} PROVE BatchIsRun'
  BY <1>b DEF BatchIsRun
<1>c. ASSUME UNCHANGED <<pc, dbHeight, rpcHeight, next, batch>> PROVE BatchIsRun'
  BY <1>c DEF BatchIsRun, fromHeight
<1>d. ASSUME pc = "attribute", UNCHANGED <<dbHeight, rpcHeight, next, batch>>
      PROVE  BatchIsRun'
  BY <1>d DEF BatchIsRun, fromHeight
<1> USE DEF store, locals
<1>1. CASE Advance
  BY <1>1, <1>c, Zenon DEF Advance
<1>2. CASE Start
  BY <1>2, <1>b DEF Start
<1>3. CASE Crash
  BY <1>3, <1>b DEF Crash
<1>4. CASE BeginPoll
  BY <1>4, <1>b, BeginsAlone DEF TInv
<1>5. CASE getLatestCommit
  BY <1>5, <1>b DEF getLatestCommit
<1>6. CASE resolveValidatorStatus
  BY <1>6, <1>b DEF resolveValidatorStatus
<1>7. CASE readInactivity
  BY <1>7, <1>b DEF readInactivity
<1>8. CASE EndInactivity
  BY <1>8, <1>b DEF EndInactivity
<1>9. CASE StartInactivity
  BY <1>9, <1>b DEF StartInactivity
<1>10. CASE getRangeCommits
  <2>1. pc = "fetch" /\ UNCHANGED <<dbHeight, rpcHeight, batch>>
        /\ (pc' = "evaluate" \/ next' = fromHeight)
    BY <1>10, Zenon DEF getRangeCommits
  <2>2. batch = NoBlocks /\ rpcHeight \in Nat /\ dbHeight \in Nat
    BY <2>1 DEF TInv, PollSet, PollOK, ChainOK
  <2>3. QED
    BY <2>1, <2>2, SMT DEF BatchIsRun, fromHeight, NoBlocks
<1>11. CASE AttributeCommit
  <2>1. pc = "attribute" /\ next' = next + 1 /\ UNCHANGED <<dbHeight, rpcHeight>>
        /\ DOMAIN batch' = DOMAIN batch \cup {next}
    BY <1>11 DEF AttributeCommit, Proceed
  <2>2. fromHeight \in Nat /\ next \in Nat
    BY DEF TInv, PollOK, ChainOK, fromHeight
  <2>3. UNCHANGED fromHeight
    BY <2>1 DEF fromHeight
  <2>4. QED
    BY <2>1, <2>2, <2>3, SMT DEF BatchIsRun
<1>12. CASE CommitUnusable
  BY <1>12, <1>d, Zenon DEF CommitUnusable, SkipOrStop, Stop
<1>13. CASE CommitNotCanonical
  BY <1>13, <1>d, Zenon DEF CommitNotCanonical, Stop
<1>14. CASE ingestBlocks
  BY <1>14, <1>b DEF ingestBlocks
<1>15. CASE Evaluate
  BY <1>15, <1>b DEF Evaluate, EndPoll
<1>16. CASE ReadFails
  BY <1>16, <1>b DEF ReadFails, EndPoll
<1>17. CASE LatestCommitFails
  BY <1>17, <1>b DEF LatestCommitFails, EndPoll
<1>18. CASE UNCHANGED vars
  BY <1>18, <1>c, Zenon DEF vars
<1>19. QED
  BY <1>1, <1>2, <1>3, <1>4, <1>5, <1>6, <1>7, <1>8, <1>9, <1>10, <1>11, <1>12,
     <1>13, <1>14, <1>15, <1>16, <1>17, <1>18 DEF Next, Poll

LEMMA BatchIsTrueNext ==
  ASSUME TInv, FlagsOK, BatchIsTrue, [Next]_vars
  PROVE  BatchIsTrue'
<1>b. ASSUME pc' \notin {"attribute", "ingest"} PROVE BatchIsTrue'
  BY <1>b DEF BatchIsTrue
<1>c. ASSUME UNCHANGED <<pc, chain, batch>> PROVE BatchIsTrue'
  BY <1>c, Zenon DEF BatchIsTrue
<1>d. ASSUME pc = "attribute", UNCHANGED <<chain, batch>> PROVE BatchIsTrue'
  BY <1>d DEF BatchIsTrue
<1> USE DEF store, locals
<1>1. CASE Advance
  <2>1. Len(chain') = Len(chain) + 1 /\ \A h \in 1..Len(chain) : chain'[h] = chain[h]
    BY <1>1, AppendKeeps, ChainWorkerAssumption DEF Advance, TInv, ChainOK
  <2>2. UNCHANGED <<pc, batch>>
    BY <1>1, Zenon DEF Advance
  <2>3. DOMAIN batch \subseteq 1..Len(chain) /\ Len(chain) \in Nat
    BY DEF TInv, PollOK, ChainOK
  <2>4. QED
    BY <2>1, <2>2, <2>3, SMT DEF BatchIsTrue
<1>2. CASE Start
  BY <1>2, <1>b DEF Start
<1>3. CASE Crash
  BY <1>3, <1>b DEF Crash
<1>4. CASE BeginPoll
  BY <1>4, <1>b, BeginsAlone DEF TInv
<1>5. CASE getLatestCommit
  BY <1>5, <1>b DEF getLatestCommit
<1>6. CASE resolveValidatorStatus
  BY <1>6, <1>b DEF resolveValidatorStatus
<1>7. CASE readInactivity
  BY <1>7, <1>b DEF readInactivity
<1>8. CASE EndInactivity
  BY <1>8, <1>b DEF EndInactivity
<1>9. CASE StartInactivity
  BY <1>9, <1>b DEF StartInactivity
<1>10. CASE getRangeCommits
  BY <1>10 DEF getRangeCommits, BatchIsTrue, TInv, PollSet, NoBlocks
<1>11. CASE AttributeCommit
  <2>1. next \in 1..Len(chain) /\ next < Len(chain) /\ chain[next] \in Standing
    BY <1>11 DEF AttributeCommit, TInv, PollSet, PollOK, ChainOK
  <2>2. PICK answer \in {ActivityOf(chain[next]), "failed"} :
          LET block == commitToBlock(chain[next], trustedActiveSet, cache,
                                     lastKnown, answer)
          IN batch' = [h \in DOMAIN batch \cup {next} |->
                        IF h = next THEN block.signed ELSE batch[h]]
    BY <1>11, Zenon DEF AttributeCommit
  <2>3. trustedActiveSet \in BOOLEAN
    BY Zenon DEF trustedActiveSet, FlagsOK
  <2>4. cache \in Knowledge /\ lastKnown \in Knowledge
    BY DEF TInv, PollOK
  <2>5. (batch'[next] = 1 <=> chain[next] = "signed")
        /\ DOMAIN batch' = DOMAIN batch \cup {next}
        /\ \A h \in DOMAIN batch : h # next => batch'[h] = batch[h]
    BY <2>1, <2>2, <2>3, <2>4, BlockOfCommit
  <2>6. pc = "attribute" /\ UNCHANGED chain
    BY <1>11, Zenon DEF AttributeCommit
  <2>7. QED
    BY <2>1, <2>5, <2>6 DEF BatchIsTrue
<1>12. CASE CommitUnusable
  BY <1>12, <1>d, Zenon DEF CommitUnusable
<1>13. CASE CommitNotCanonical
  BY <1>13, <1>d, Zenon DEF CommitNotCanonical
<1>14. CASE ingestBlocks
  BY <1>14, <1>b DEF ingestBlocks
<1>15. CASE Evaluate
  BY <1>15, <1>b DEF Evaluate, EndPoll
<1>16. CASE ReadFails
  BY <1>16, <1>b DEF ReadFails, EndPoll
<1>17. CASE LatestCommitFails
  BY <1>17, <1>b DEF LatestCommitFails, EndPoll
<1>18. CASE UNCHANGED vars
  BY <1>18, <1>c, Zenon DEF vars
<1>19. QED
  BY <1>1, <1>2, <1>3, <1>4, <1>5, <1>6, <1>7, <1>8, <1>9, <1>10, <1>11, <1>12,
     <1>13, <1>14, <1>15, <1>16, <1>17, <1>18 DEF Next, Poll

LEMMA LInvNext ==
  ASSUME allowBlockGaps = FALSE, LInv, [Next]_vars
  PROVE  LInv'
<1>1. Alone
  BY DEF LInv, TInv
<1>2. QED
  BY <1>1, TInvNext, FlagsNext, FreshNext, BatchIsRunNext, BatchIsTrueNext, Zenon DEF LInv

-----------------------------------------------------------------------------
(* The refinement.                                                         *)

LEMMA LedgerInitRefined == Init => Ledger!LedgerInit
  BY ChainWorkerAssumption
     DEF Init, Ledger!LedgerInit, Ledger!Standing, Ledger!ActiveStanding,
         Ledger!InactiveStanding, Standing, ActiveStanding, InactiveStanding, NoBlocks

\* Of all the steps of a worker only the write of a batch touches the blocks.
LEMMA LedgerNextRefined ==
  ASSUME LInv, [Next]_vars
  PROVE  [Ledger!LedgerNext]_<<chain, blocks>>
<1>a. ASSUME UNCHANGED <<chain, blocks>> PROVE [Ledger!LedgerNext]_<<chain, blocks>>
  BY <1>a
<1> USE DEF store, locals
<1>1. CASE Advance
  <2>1. PICK s \in Standings : chain' = Append(chain, s)
    BY <1>1, Zenon DEF Advance
  <2>2. s \in Ledger!Standing
    BY ChainWorkerAssumption DEF Ledger!Standing, Ledger!ActiveStanding,
       Ledger!InactiveStanding, Standing, ActiveStanding, InactiveStanding
  <2>3. UNCHANGED blocks
    BY <1>1, Zenon DEF Advance
  <2>4. QED
    BY <2>1, <2>2, <2>3, Zenon DEF Ledger!LedgerNext, Ledger!Produce
<1>2. CASE Start
  BY <1>2, <1>a, Zenon DEF Start
<1>3. CASE Crash
  BY <1>3, <1>a, Zenon DEF Crash
<1>4. CASE BeginPoll
  BY <1>4, <1>a, Zenon DEF BeginPoll
<1>5. CASE getLatestCommit
  BY <1>5, <1>a, Zenon DEF getLatestCommit
<1>6. CASE resolveValidatorStatus
  BY <1>6, <1>a, Zenon DEF resolveValidatorStatus
<1>7. CASE readInactivity
  BY <1>7, <1>a, Zenon DEF readInactivity
<1>8. CASE EndInactivity
  BY <1>8, <1>a, Zenon DEF EndInactivity
<1>9. CASE StartInactivity
  BY <1>9, <1>a, Zenon DEF StartInactivity
<1>10. CASE getRangeCommits
  BY <1>10, <1>a, Zenon DEF getRangeCommits
<1>11. CASE AttributeCommit
  BY <1>11, <1>a, Zenon DEF AttributeCommit
<1>12. CASE CommitUnusable
  BY <1>12, <1>a, Zenon DEF CommitUnusable
<1>13. CASE CommitNotCanonical
  BY <1>13, <1>a, Zenon DEF CommitNotCanonical
<1>14. CASE ingestBlocks
  <2> DEFINE lo == fromHeight
             hi == next - 1
             merged == [h \in DOMAIN blocks \cup DOMAIN batch |->
                          IF h \in DOMAIN blocks THEN blocks[h] ELSE batch[h]]
  <2>1. pc = "ingest" /\ UNCHANGED chain /\ (UNCHANGED blocks \/ blocks' = merged)
    BY <1>14, Zenon DEF ingestBlocks
  <2>2. CASE UNCHANGED blocks
    BY <2>1, <2>2, <1>a
  <2>3. CASE blocks' = merged /\ lo > hi
    <3>1. DOMAIN batch = {}
      BY <2>1, <2>3 DEF LInv, BatchIsRun, TInv, PollOK, ChainOK, fromHeight
    <3>2. merged = blocks
      BY <3>1 DEF LInv, TInv, RowsOK
    <3>3. QED
      BY <2>1, <2>3, <3>2, <1>a
  <2>4. CASE blocks' = merged /\ lo <= hi
    <3>1. DOMAIN batch = lo..hi /\ lo \in Nat /\ hi \in Int /\ lo >= 1
      BY <2>1 DEF LInv, BatchIsRun, TInv, PollOK, ChainOK, fromHeight
    <3>2. batch \in [lo..hi -> Ledger!Signed]
      BY <3>1 DEF LInv, TInv, PollOK, Ledger!Signed, Signed
    <3>3. \A h \in lo..hi : (batch[h] = 1) <=> (chain[h] = "signed")
      BY <2>1, <3>1 DEF LInv, BatchIsTrue
    <3>4. lo \in Ledger!Final /\ hi \in Ledger!Final
      <4>1. lo \in DOMAIN batch /\ hi \in DOMAIN batch
        BY <3>1, <2>4
      <4>2. lo < Len(chain) /\ hi < Len(chain) /\ Len(chain) \in Nat
        BY <2>1, <4>1 DEF LInv, BatchIsTrue, TInv, ChainOK
      <4>3. QED
        BY <3>1, <4>2, <2>4 DEF Ledger!Final
    <3>5. DOMAIN blocks = {} \/ lo = Ledger!Max(DOMAIN blocks) + 1
      <4>1. dbHeight = Latest(DOMAIN blocks)
        BY <2>1 DEF LInv, SnapshotFresh, Holding
      <4>2. DOMAIN blocks \in SUBSET (1..Len(chain)) /\ Len(chain) \in Nat
        BY DEF LInv, TInv, RowsOK, ChainOK
      <4>3. DOMAIN blocks # {} => dbHeight # 0 /\ dbHeight = Max(DOMAIN blocks)
        BY <4>1, <4>2, LatestIsLatest
      <4>4. Ledger!Max(DOMAIN blocks) = Max(DOMAIN blocks)
        BY DEF Ledger!Max, Max
      <4>5. QED
        BY <4>3, <4>4 DEF fromHeight
    <3>6. blocks' = [h \in DOMAIN blocks \cup lo..hi |->
                       IF h \in DOMAIN blocks THEN blocks[h] ELSE batch[h]]
      BY <2>4, <3>1
    <3> HIDE DEF lo, hi, merged
    <3>7. Ledger!Record
      BY <2>1, <2>4, <3>2, <3>3, <3>4, <3>5, <3>6, Zenon DEF Ledger!Record
    <3>8. QED
      BY <3>7, Zenon DEF Ledger!LedgerNext
  <2>5. QED
    <3>1. lo > hi \/ lo <= hi
      BY DEF LInv, TInv, PollOK, ChainOK, fromHeight
    <3>2. QED
      BY <2>1, <2>2, <2>3, <2>4, <3>1
<1>15. CASE Evaluate
  BY <1>15, <1>a, Zenon DEF Evaluate
<1>16. CASE ReadFails
  BY <1>16, <1>a, Zenon DEF ReadFails
<1>17. CASE LatestCommitFails
  BY <1>17, <1>a, Zenon DEF LatestCommitFails
<1>18. CASE UNCHANGED vars
  BY <1>18, <1>a, Zenon DEF vars
<1>19. QED
  BY <1>1, <1>2, <1>3, <1>4, <1>5, <1>6, <1>7, <1>8, <1>9, <1>10, <1>11, <1>12,
     <1>13, <1>14, <1>15, <1>16, <1>17, <1>18 DEF Next, Poll

(* Without allowBlockGaps the stored blocks are the ledger BlockLedger          *)
(* promises: an unbroken run of final heights, grown at its upper end only,   *)
(* signed exactly where the validator signed.                                 *)
THEOREM WorkerImplementsLedger ==
  allowBlockGaps = FALSE => (Spec => ImplementsLedger)
<1> SUFFICES ASSUME allowBlockGaps = FALSE PROVE Spec => ImplementsLedger
  OBVIOUS
<1>1. Init => LInv
  BY TInvInit, FlagsInit, FreshInit DEF Init, LInv, BatchIsRun, BatchIsTrue
<1>2. LInv /\ [Next]_vars => LInv'
  BY LInvNext
<1>3. LInv /\ [Next]_vars => [Ledger!LedgerNext]_(Ledger!ledgerVars)
  BY LedgerNextRefined DEF Ledger!ledgerVars
<1>4. QED
  BY <1>1, <1>2, <1>3, LedgerInitRefined, PTL
     DEF Spec, ImplementsLedger, Ledger!LedgerSpec

-----------------------------------------------------------------------------
(* The alert of consecutive misses.                                        *)

\* The stored heights have no hole.
Contiguous ==
  \A g, h \in DOMAIN blocks : \A k \in g..h : k \in DOMAIN blocks

\* An open alert stays about stored rows: the newest heights, as many as the
\* threshold, are all there.
Covered ==
  missAlert =>
    /\ DOMAIN blocks # {}
    /\ \A h \in Latest(DOMAIN blocks) - threshold + 1..Latest(DOMAIN blocks) :
         h \in DOMAIN blocks

\* When the rows are judged, the window ends at the newest stored height, or at
\* a height whose row was refused.
AtEvaluate ==
  pc = "evaluate" =>
    IF DOMAIN batch = {} THEN dbHeight = Latest(DOMAIN blocks)
    ELSE \/ Max(DOMAIN batch) = Latest(DOMAIN blocks)
         \/ Max(DOMAIN batch) \notin DOMAIN blocks

WInv == LInv /\ Contiguous /\ Covered /\ AtEvaluate

\* A height no other of the set is above is the one the query returns.
LEMMA LatestIs ==
  ASSUME NEW n \in Nat, NEW S \in SUBSET (1..n), NEW m \in S, \A h \in S : h <= m
  PROVE  Max(S) = m /\ Latest(S) = m
<1>1. Max(S) \in S /\ \A h \in S : h <= Max(S)
  BY MaxIsMax
<1>2. m <= Max(S) /\ Max(S) <= m
  BY <1>1, Zenon
<1>3. Max(S) = m
  <2>1. m \in 1..n /\ Max(S) \in 1..n
    BY <1>1, Zenon
  <2>2. QED
    BY <1>2, <2>1
<1>4. QED
  BY <1>3 DEF Latest

\* The batch lies right above what is stored, and is stored whole or not at all.
LEMMA IngestEffect ==
  ASSUME LInv, ingestBlocks
  PROVE  /\ DOMAIN batch = fromHeight..next - 1 /\ fromHeight \in Nat /\ next \in Nat
         /\ DOMAIN blocks # {} => fromHeight = Latest(DOMAIN blocks) + 1
         /\ DOMAIN batch \cap DOMAIN blocks = {}
         /\ \/ UNCHANGED blocks
            \/ DOMAIN blocks' = DOMAIN blocks \cup DOMAIN batch
         /\ dbHeight = Latest(DOMAIN blocks)
<1>1. pc = "ingest"
      /\ \/ UNCHANGED blocks
         \/ blocks' = [h \in DOMAIN blocks \cup DOMAIN batch |->
                         IF h \in DOMAIN blocks THEN blocks[h] ELSE batch[h]]
  BY Zenon DEF ingestBlocks
<1>2. DOMAIN batch = fromHeight..next - 1 /\ next \in Nat /\ fromHeight \in Nat
  BY <1>1 DEF LInv, BatchIsRun, TInv, PollOK, ChainOK, fromHeight
<1>3. dbHeight = Latest(DOMAIN blocks)
  BY <1>1 DEF LInv, SnapshotFresh, Holding
<1>4. DOMAIN blocks \in SUBSET (1..Len(chain)) /\ Len(chain) \in Nat
  BY DEF LInv, TInv, RowsOK, ChainOK
<1>5. DOMAIN blocks # {} => fromHeight = Latest(DOMAIN blocks) + 1
  BY <1>3, <1>4, LatestIsLatest DEF fromHeight
<1>6. DOMAIN batch \cap DOMAIN blocks = {}
  <2>1. SUFFICES ASSUME NEW h \in DOMAIN batch, h \in DOMAIN blocks PROVE FALSE
    OBVIOUS
  <2>2. h <= Latest(DOMAIN blocks) /\ Latest(DOMAIN blocks) \in Nat
    BY <1>4, <2>1, LatestIsLatest
  <2>3. h \in Int /\ h >= Latest(DOMAIN blocks) + 1
    BY <1>2, <1>5, <2>1, <2>2
  <2>4. QED
    BY <2>2, <2>3
<1>7. UNCHANGED blocks \/ DOMAIN blocks' = DOMAIN blocks \cup DOMAIN batch
  BY <1>1
<1>8. QED
  BY <1>2, <1>3, <1>5, <1>6, <1>7

\* A stored batch: it ends the rows, and they have no hole.
LEMMA StoredBatch ==
  ASSUME LInv, Contiguous, ingestBlocks, DOMAIN batch # {},
         DOMAIN blocks' = DOMAIN blocks \cup DOMAIN batch, LInv'
  PROVE  /\ Contiguous'
         /\ Latest(DOMAIN blocks') = Max(DOMAIN batch)
         /\ Latest(DOMAIN blocks) <= Latest(DOMAIN blocks')
<1> DEFINE old == Latest(DOMAIN blocks)
           hi  == next - 1
<1>1. /\ DOMAIN batch = fromHeight..hi /\ fromHeight \in Nat /\ hi \in Int
      /\ DOMAIN blocks # {} => fromHeight = old + 1
  BY IngestEffect
<1>2. fromHeight <= hi /\ hi \in DOMAIN batch /\ \A h \in DOMAIN batch : h <= hi
  BY <1>1
<1>3. /\ DOMAIN blocks \in SUBSET (1..Len(chain)) /\ Len(chain) \in Nat
      /\ DOMAIN batch \in SUBSET (1..Len(chain))
      /\ DOMAIN blocks' \in SUBSET (1..Len(chain))
  BY DEF LInv, TInv, RowsOK, PollOK, ChainOK
<1>4. /\ old \in Nat /\ \A h \in DOMAIN blocks : h <= old
      /\ DOMAIN blocks = {} => old = 0
      /\ DOMAIN blocks # {} => old = Max(DOMAIN blocks) /\ old \in DOMAIN blocks
  BY <1>3, LatestIsLatest, MaxIsMax
<1> HIDE DEF old, hi
<1>5. old <= hi
  <2>1. CASE DOMAIN blocks = {}
    <3>1. hi \in 1..Len(chain)
      BY <1>2, <1>3
    <3>2. QED
      BY <1>4, <2>1, <3>1
  <2>2. CASE DOMAIN blocks # {}
    BY <1>1, <1>2, <1>4, <2>2
  <2>3. QED
    BY <2>1, <2>2
<1>6. \A h \in DOMAIN blocks' : h <= hi
  BY <1>1, <1>2, <1>3, <1>4, <1>5
<1>7. Max(DOMAIN batch) = hi /\ Latest(DOMAIN blocks') = hi
  <2>1. Max(DOMAIN batch) = hi
    BY <1>2, <1>3, LatestIs
  <2>2. hi \in DOMAIN blocks'
    BY <1>2
  <2>3. Latest(DOMAIN blocks') = hi
    BY <1>3, <1>6, <2>2, LatestIs
  <2>4. QED
    BY <2>1, <2>3
<1>8. Contiguous'
  <2>1. SUFFICES ASSUME NEW g \in DOMAIN blocks', NEW h \in DOMAIN blocks', NEW k \in g..h
                 PROVE  k \in DOMAIN blocks'
    BY DEF Contiguous
  <2>2. g \in Int /\ h \in Int /\ k \in Int /\ g <= k /\ k <= h /\ h <= hi
    BY <1>3, <1>6
  <2>3. CASE k \in fromHeight..hi
    BY <2>3, <1>1
  <2>4. CASE k \notin fromHeight..hi
    <3>1. k < fromHeight
      BY <2>2, <2>4, <1>1
    <3>2. g \in DOMAIN blocks
      BY <1>1, <2>2, <3>1
    <3>3. old \in DOMAIN blocks /\ k \in g..old
      BY <1>1, <1>4, <2>2, <3>1, <3>2
    <3>4. QED
      BY <3>2, <3>3 DEF Contiguous
  <2>5. QED
    BY <2>3, <2>4
<1>9. QED
  BY <1>5, <1>7, <1>8 DEF old

\* A window that is breached ends at the newest stored height.
LEMMA BreachedIsNewest ==
  ASSUME WInv, pc = "evaluate", breached
  PROVE  DOMAIN blocks # {} /\ latestHeight = Latest(DOMAIN blocks)
<1>1. /\ DOMAIN blocks \in SUBSET (1..Len(chain)) /\ Len(chain) \in Nat
      /\ DOMAIN batch \in SUBSET (1..Len(chain))
      /\ dbHeight \in Nat /\ rpcHeight \in Nat /\ threshold \in Nat /\ threshold >= 1
  BY ChainWorkerAssumption DEF WInv, LInv, TInv, RowsOK, PollOK, ChainOK
<1>2. latestHeight \in Int
  <2>1. DOMAIN batch # {} => Max(DOMAIN batch) \in 1..Len(chain)
    BY <1>1, MaxIsMax
  <2>2. QED
    BY <1>1, <2>1 DEF latestHeight
<1>3. latestHeight \in DOMAIN blocks
  <2>1. latestHeight \in latestHeight - threshold + 1..latestHeight
    BY <1>1, <1>2
  <2>2. QED
    BY <2>1 DEF breached
<1>4. CASE DOMAIN batch = {}
  <2>1. dbHeight = Latest(DOMAIN blocks)
    BY <1>4 DEF WInv, AtEvaluate
  <2>2. dbHeight # 0
    BY <1>1, <1>3, <2>1, LatestIsLatest
  <2>3. QED
    BY <1>3, <1>4, <2>1, <2>2 DEF latestHeight
<1>5. CASE DOMAIN batch # {}
  BY <1>3, <1>5 DEF WInv, AtEvaluate, latestHeight
<1>6. QED
  BY <1>4, <1>5

LEMMA WInvNext ==
  ASSUME allowBlockGaps = FALSE, WInv, [Next]_vars
  PROVE  WInv'
<1>l. LInv'
  BY LInvNext DEF WInv
<1>a. ASSUME UNCHANGED <<blocks, missAlert>>, pc' # "evaluate" PROVE WInv'
  BY <1>l, <1>a DEF WInv, Contiguous, Covered, AtEvaluate
<1>b. ASSUME UNCHANGED <<blocks, missAlert, pc, batch, dbHeight>> PROVE WInv'
  BY <1>l, <1>b DEF WInv, Contiguous, Covered, AtEvaluate
<1>p. BeginPoll => pc' = "tip" /\ UNCHANGED store
  BY BeginsAlone, Zenon DEF WInv, LInv, TInv
<1> USE DEF store, locals
<1>1. CASE Advance
  BY <1>1, <1>b, Zenon DEF Advance
<1>2. CASE Start \/ Crash \/ BeginPoll \/ getLatestCommit \/ resolveValidatorStatus
  BY <1>2, <1>a, <1>p DEF Start, Crash, getLatestCommit, resolveValidatorStatus
<1>3. CASE readInactivity \/ EndInactivity \/ StartInactivity
  BY <1>3, <1>a DEF readInactivity, EndInactivity, StartInactivity
<1>4. CASE getRangeCommits
  <2>1. pc = "fetch" /\ UNCHANGED <<blocks, missAlert, dbHeight, batch>>
    BY <1>4, Zenon DEF getRangeCommits
  <2>2. DOMAIN batch' = {} /\ dbHeight' = Latest(DOMAIN blocks')
    BY <2>1 DEF WInv, LInv, TInv, PollSet, NoBlocks, SnapshotFresh, Holding
  <2>3. QED
    BY <1>l, <2>1, <2>2 DEF WInv, Contiguous, Covered, AtEvaluate
<1>5. CASE AttributeCommit \/ CommitUnusable \/ CommitNotCanonical
  BY <1>5, <1>a DEF AttributeCommit, CommitUnusable, CommitNotCanonical, SkipOrStop, Stop,
     Proceed
<1>6. CASE ingestBlocks
  <2>1. UNCHANGED <<missAlert, batch, dbHeight>>
    BY <1>6, Zenon DEF ingestBlocks
  <2>2. /\ dbHeight = Latest(DOMAIN blocks) /\ DOMAIN batch \cap DOMAIN blocks = {}
        /\ UNCHANGED blocks \/ DOMAIN blocks' = DOMAIN blocks \cup DOMAIN batch
    BY <1>6, IngestEffect DEF WInv
  <2>3. CASE DOMAIN batch = {}
    <3>1. DOMAIN blocks' = DOMAIN blocks
      BY <2>2, <2>3
    <3>2. QED
      BY <1>l, <2>1, <2>2, <2>3, <3>1 DEF WInv, Contiguous, Covered, AtEvaluate
  <2>4. CASE UNCHANGED blocks /\ DOMAIN batch # {}
    <3>1. Max(DOMAIN batch) \in DOMAIN batch
      <4>1. DOMAIN batch \in SUBSET (1..Len(chain)) /\ Len(chain) \in Nat
        BY DEF WInv, LInv, TInv, PollOK, ChainOK
      <4>2. QED
        BY <2>4, <4>1, MaxIsMax
    <3>2. Max(DOMAIN batch) \notin DOMAIN blocks
      BY <2>2, <3>1
    <3>3. QED
      BY <1>l, <2>1, <2>4, <3>2 DEF WInv, Contiguous, Covered, AtEvaluate
  <2>5. CASE DOMAIN blocks' = DOMAIN blocks \cup DOMAIN batch /\ DOMAIN batch # {}
    <3>1. /\ Contiguous'
          /\ Latest(DOMAIN blocks') = Max(DOMAIN batch)
          /\ Latest(DOMAIN blocks) <= Latest(DOMAIN blocks')
      BY <1>6, <1>l, <2>5, StoredBatch DEF WInv
    <3>2. AtEvaluate'
      BY <2>1, <2>5, <3>1 DEF AtEvaluate
    <3>3. Covered'
      <4>1. SUFFICES ASSUME missAlert,
                            NEW h \in Latest(DOMAIN blocks') - threshold + 1
                                        ..Latest(DOMAIN blocks')
                     PROVE  h \in DOMAIN blocks'
        BY <2>1, <2>5 DEF Covered
      <4>2. /\ DOMAIN blocks \in SUBSET (1..Len(chain)) /\ Len(chain) \in Nat
            /\ DOMAIN blocks' \in SUBSET (1..Len(chain)')
            /\ Len(chain)' \in Nat
            /\ threshold \in Nat /\ threshold >= 1
        BY <1>l, ChainWorkerAssumption DEF WInv, LInv, TInv, RowsOK, ChainOK
      <4>3. /\ Latest(DOMAIN blocks) \in Nat /\ Latest(DOMAIN blocks') \in Nat
            /\ Latest(DOMAIN blocks') \in DOMAIN blocks'
        <5>1. DOMAIN blocks' # {}
          BY <2>5
        <5>2. Max(DOMAIN blocks') \in DOMAIN blocks'
          BY <4>2, <5>1, MaxIsMax
        <5>3. QED
          BY <4>2, <5>1, <5>2, LatestIsLatest
      <4> DEFINE lowest == Latest(DOMAIN blocks) - threshold + 1
      <4>4. lowest \in DOMAIN blocks'
        <5>1. lowest \in lowest..Latest(DOMAIN blocks)
          BY <4>2, <4>3
        <5>2. lowest \in DOMAIN blocks
          BY <4>1, <5>1 DEF WInv, Covered
        <5>3. QED
          BY <2>5, <5>2
      <4>5. h \in lowest..Latest(DOMAIN blocks')
        BY <3>1, <4>2, <4>3
      <4>6. QED
        BY <3>1, <4>3, <4>4, <4>5 DEF Contiguous
    <3>4. QED
      BY <1>l, <3>1, <3>2, <3>3 DEF WInv
  <2>6. QED
    BY <2>2, <2>3, <2>4, <2>5
<1>7. CASE Evaluate
  <2>1. /\ pc = "evaluate" /\ pc' = "idle" /\ UNCHANGED blocks
        /\ missAlert' = breached \/ UNCHANGED missAlert
    BY <1>7 DEF Evaluate, EndPoll
  <2>2. CASE UNCHANGED missAlert
    BY <2>1, <2>2, <1>a
  <2>3. CASE missAlert' = breached
    <3>1. Covered'
      BY <2>1, <2>3, BreachedIsNewest DEF Covered, breached
    <3>2. QED
      BY <1>l, <2>1, <3>1 DEF WInv, Contiguous, AtEvaluate
  <2>4. QED
    BY <2>1, <2>2, <2>3
<1>8. CASE ReadFails \/ LatestCommitFails
  BY <1>8, <1>a DEF ReadFails, LatestCommitFails, EndPoll
<1>9. CASE UNCHANGED vars
  BY <1>9, <1>b, Zenon DEF vars
<1>10. QED
  BY <1>1, <1>2, <1>3, <1>4, <1>5, <1>6, <1>7, <1>8, <1>9 DEF Next, Poll

\* Only the judgement closes the alert, and it finds a stored height that is no
\* miss: the window has no hole, and it ends where the rows do.
LEMMA ClosingStep ==
  ASSUME WInv, [Next]_vars, missAlert, ~missAlert', DOMAIN batch \subseteq DOMAIN blocks
  PROVE  \E h \in Newest : blocks[h] # 0
<1>1. pc = "evaluate" /\ ~breached
  <2>1. ~UNCHANGED missAlert
    OBVIOUS
  <2>2. Evaluate
    BY <2>1, Zenon DEF Next, Poll, store, locals, vars, Advance, Start, Crash, BeginPoll,
       getLatestCommit, resolveValidatorStatus, readInactivity, EndInactivity,
       StartInactivity, getRangeCommits, AttributeCommit, CommitUnusable,
       CommitNotCanonical, ingestBlocks, ReadFails, LatestCommitFails
  <2>3. QED
    BY <2>1, <2>2 DEF Evaluate
<1>2. /\ DOMAIN blocks \in SUBSET (1..Len(chain)) /\ Len(chain) \in Nat
      /\ DOMAIN batch \in SUBSET (1..Len(chain)) /\ threshold \in Nat
  BY ChainWorkerAssumption DEF WInv, LInv, TInv, RowsOK, PollOK, ChainOK
<1>3. DOMAIN blocks # {}
      /\ \A h \in Latest(DOMAIN blocks) - threshold + 1..Latest(DOMAIN blocks) :
           h \in DOMAIN blocks
  BY DEF WInv, Covered
<1>4. latestHeight = Latest(DOMAIN blocks)
  <2>1. CASE DOMAIN batch = {}
    <3>1. dbHeight = Latest(DOMAIN blocks)
      BY <1>1, <2>1 DEF WInv, AtEvaluate
    <3>2. dbHeight # 0
      BY <1>2, <1>3, <3>1, LatestIsLatest
    <3>3. QED
      BY <2>1, <3>1, <3>2 DEF latestHeight
  <2>2. CASE DOMAIN batch # {}
    <3>1. Max(DOMAIN batch) \in DOMAIN blocks
      BY <1>2, <2>2, MaxIsMax
    <3>2. QED
      BY <1>1, <2>2, <3>1 DEF WInv, AtEvaluate, latestHeight
  <2>3. QED
    BY <2>1, <2>2
<1>5. PICK h \in Latest(DOMAIN blocks) - threshold + 1..Latest(DOMAIN blocks) :
        h \notin DOMAIN blocks \/ blocks[h] # 0
  BY <1>1, <1>4 DEF breached
<1>6. Latest(DOMAIN blocks) \in Nat
  BY <1>2, LatestIsLatest
<1>7. h \in Newest
  BY <1>2, <1>3, <1>5, <1>6 DEF Newest
<1>8. QED
  BY <1>3, <1>5, <1>7

(* Without allowBlockGaps an open alert is only ever closed because one of the  *)
(* newest stored blocks is no miss - not because a row is missing from the     *)
(* window, a node answered from behind or the worker died - unless the rows of *)
(* the very poll that closes it were refused.                                  *)
THEOREM AlertClosesBySigning ==
  allowBlockGaps = FALSE => (Spec => ClosedBySigning)
<1> SUFFICES ASSUME allowBlockGaps = FALSE PROVE Spec => ClosedBySigning
  OBVIOUS
<1>1. Init => WInv
  <2>1. SUFFICES ASSUME Init PROVE WInv
    OBVIOUS
  <2>2. LInv
    BY <2>1, TInvInit, FlagsInit, FreshInit DEF Init, LInv, BatchIsRun, BatchIsTrue
  <2>3. QED
    BY <2>1, <2>2 DEF Init, WInv, Contiguous, Covered, AtEvaluate, NoBlocks
<1>2. WInv /\ [Next]_vars => WInv'
  BY WInvNext
<1>3. WInv /\ [Next]_vars =>
        [missAlert /\ ~missAlert' /\ DOMAIN batch \subseteq DOMAIN blocks
           => \E h \in Newest : blocks[h] # 0]_vars
  BY ClosingStep
<1>4. QED
  BY <1>1, <1>2, <1>3, PTL DEF Spec, ClosedBySigning
=============================================================================
