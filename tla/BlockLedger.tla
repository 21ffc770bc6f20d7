---------------------------- MODULE BlockLedger ----------------------------
(***************************************************************************)
(* What the ingestion of one chain promises its readers (the API, the       *)
(* alert windows): the stored blocks are one unbroken run of final heights, *)
(* grown only at its upper end, never rewritten, in which `signed` is 1     *)
(* exactly where the validator signed.                                      *)
(***************************************************************************)
EXTENDS CommitToBlock, Sequences, FiniteSetsExt

VARIABLES
  chain,     \* the validator's standing at each height the chain has reached
  blocks     \* stored height -> signed

ledgerVars == <<chain, blocks>>

\* Heights whose commit is settled: the tip's still collects votes.
Final == {h \in 1..Len(chain) : h < Len(chain)}

LedgerInit ==
  /\ chain \in {<<s>> : s \in Standing}
  /\ blocks = [h \in {} |-> 0]

\* The chain produces a block.
Produce ==
  /\ \E s \in Standing : chain' = Append(chain, s)
  /\ UNCHANGED blocks

\* A run of final heights is recorded right above what is stored; the first
\* run starts anywhere.
Record ==
  /\ \E lo, hi \in Final :
       /\ lo <= hi
       /\ DOMAIN blocks = {} \/ lo = Max(DOMAIN blocks) + 1
       /\ \E run \in [lo..hi -> Signed] :
            /\ \A h \in lo..hi : (run[h] = 1) <=> (chain[h] = "signed")
            /\ blocks' = [h \in DOMAIN blocks \cup lo..hi |->
                            IF h \in DOMAIN blocks THEN blocks[h] ELSE run[h]]
  /\ UNCHANGED chain

LedgerNext == Produce \/ Record

LedgerSpec == LedgerInit /\ [][LedgerNext]_ledgerVars
=============================================================================
