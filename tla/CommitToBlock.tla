--------------------------- MODULE CommitToBlock ---------------------------
(***************************************************************************)
(* How one commit becomes one stored block: the tri-state `signed` value    *)
(* of src/dp/chain_worker.ts (commitToBlock and resolveActiveFallback).     *)
(*                                                                         *)
(* A chain is abstracted to the validator's standing at each height, which  *)
(* is all a commit and the staking endpoint tell about it.  The operators   *)
(* are pure; ChainWorker.tla drives them.                                   *)
(***************************************************************************)
EXTENDS Integers

CONSTANT chainType                 \* "bft" or "tm2", of the chain's config

ASSUME ChainTypeAssumption == chainType \in {"bft", "tm2"}

-----------------------------------------------------------------------------
(* The validator on the chain.                                             *)

ActiveStanding   == {"signed", "missed"}
InactiveStanding == {"unbonded", "jailed", "tombstoned"}
Standing         == ActiveStanding \cup InactiveStanding

\* The values of the `signed` column.
Signed == {-1, 0, 1}

\* What the value of a height means: the reference every stored value is
\* compared with.
Truth(standing) ==
  CASE standing = "signed"            -> 1
    [] standing = "missed"            -> 0
    [] standing \in InactiveStanding  -> -1

\* The chain accepts this change of standing from one height to the next: a
\* tombstoned validator never comes back.
Follows(now, later) == now = "tombstoned" => later = "tombstoned"

\* The commit of a height carries an entry of the validator (block id flag
\* commit or nil) exactly when it signed.  An entry with another flag, stored as a
\* miss without a look-up, is not modelled: an absent validator's entry has no
\* address to be found by.
HasEntry(standing) == standing = "signed"

-----------------------------------------------------------------------------
(* What the worker knows of the active set.                                *)

Activity  == {"active", "inactive"}
Knowledge == Activity \cup {"unknown"}

\* What the staking endpoint answers for a height.
ActivityOf(standing) ==
  IF standing \in ActiveStanding THEN "active" ELSE "inactive"

\* Mutant: the first answer is memoized whatever it is.
MemoizeEveryAnswer(cache, currentlyActive, answer) ==
  LET assumed == IF currentlyActive = "unknown" THEN "active" ELSE currentlyActive IN
  CASE cache # "unknown"  -> [active |-> cache, cache |-> cache]
    [] cache = "unknown" /\ answer = "failed"
         -> [active |-> assumed, cache |-> assumed]
    [] OTHER -> [active |-> answer, cache |-> answer]

\* Mutant: a failed lookup assumes "active" whatever was last known.
AssumeActive(cache, currentlyActive, answer) ==
  CASE cache # "unknown"  -> [active |-> cache, cache |-> cache]
    [] cache = "unknown" /\ answer = "failed"
         -> [active |-> "active", cache |-> "active"]
    [] OTHER -> [active |-> answer,
                 cache |-> IF currentlyActive \in {"unknown", answer}
                           THEN answer ELSE cache]

\* The per-poll memo: a memoized answer is final for the poll; a failed lookup
\* assumes the last known status and is memoized too; an answer is memoized
\* once it agrees with the validator's current status.
resolveActiveFallback(cache, currentlyActive, answer) ==
  LET assumed == IF currentlyActive = "unknown" THEN "active" ELSE currentlyActive IN
  CASE cache # "unknown"  -> [active |-> cache, cache |-> cache]
    [] cache = "unknown" /\ answer = "failed"
         -> [active |-> assumed, cache |-> assumed]
    [] OTHER -> [active |-> answer,
                 cache |-> IF currentlyActive \in {"unknown", answer}
                           THEN answer ELSE cache]

\* No entry and no cached membership: the validator has to be looked up.
Ambiguous(standing, trusted) ==
  chainType = "bft" /\ ~HasEntry(standing) /\ ~trusted

\* Mutant: the block id flag itself is stored.
StoreFlag(standing, trusted, cache, currentlyActive, answer) ==
  [signed |-> IF HasEntry(standing) THEN 2 ELSE 0, cache |-> cache]

\* The block of one commit: its `signed` value and the memo left behind.
commitToBlock(standing, trusted, cache, currentlyActive, answer) ==
  LET fallback == resolveActiveFallback(cache, currentlyActive, answer) IN
  CASE HasEntry(standing)           -> [signed |-> 1, cache |-> cache]
    [] Ambiguous(standing, trusted) ->
         [signed |-> IF fallback.active = "active" THEN 0 ELSE -1,
          cache  |-> fallback.cache]
    [] OTHER                        -> [signed |-> 0, cache |-> cache]
=============================================================================
