-------------------------- MODULE InactivityTable --------------------------
(***************************************************************************)
(* The validator_inactivity table of one chain, as the three statements of *)
(* src/pkgs/database/duckdb/queries/inactivity.ts read and write it, and    *)
(* the decision recordInactivity takes from it.                             *)
(*                                                                         *)
(* A table is a function from the height a period was first observed at (   *)
(* the primary key) to its reason and end height, 0 standing for NULL.      *)
(* A reason stands for the pair (jailed, permanent).                        *)
(***************************************************************************)
EXTENDS Integers, FiniteSets, FiniteSetsExt

Reason == {"unbonded", "jailed", "tombstoned"}

NoPeriods == [h \in {} |-> [reason |-> "unbonded", end |-> 0]]

OpenHeights(periods) == {h \in DOMAIN periods : periods[h].end = 0}

\* The ongoing period: the newest start height without an end, 0 for none.
getOpenInactivity(periods) ==
  IF OpenHeights(periods) = {} THEN 0 ELSE Max(OpenHeights(periods))

\* INSERT OR REPLACE: a period already starting at this height is overwritten.
insertInactivity(periods, height, reason) ==
  [h \in DOMAIN periods \cup {height} |->
     IF h = height THEN [reason |-> reason, end |-> 0] ELSE periods[h]]

\* UPDATE by start height.
endInactivity(periods, start, height) ==
  [h \in DOMAIN periods |->
     IF h = start THEN [periods[h] EXCEPT !.end = height] ELSE periods[h]]

-----------------------------------------------------------------------------
(* recordInactivity: `status` is "active" or the reason of the inactivity, *)
(* `open` the start height of the ongoing period or 0.                     *)

\* Mutant: only `jailed` is compared, not `permanent`.
SameJailed(periods, open, status) ==
  open # 0 /\ (periods[open].reason = "unbonded") = (status = "unbonded")

SameReason(periods, open, status) ==
  open # 0 /\ periods[open].reason = status

\* Mutant: a change of reason does not end the ongoing period.
EndsOnlyOnReturn(periods, open, status) == open # 0 /\ status = "active"

EndsPeriod(periods, open, status) ==
  open # 0 /\ (status = "active" \/ ~SameReason(periods, open, status))

StartsPeriod(periods, open, status) ==
  status # "active" /\ ~SameReason(periods, open, status)
=============================================================================
