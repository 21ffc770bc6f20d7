--------------------------- MODULE MCAlertPipeline ---------------------------
(***************************************************************************)
(* Small instances of AlertPipeline for TLC.                                *)
(***************************************************************************)
EXTENDS AlertPipeline

On  == [enabled |-> TRUE]
Off == [enabled |-> FALSE]

Repeated(interval) == [enabled |-> TRUE, repeat |-> TRUE, repeatInterval |-> interval]

EveryTick == Repeated(1)

Escalating == [enabled |-> TRUE, repeat |-> TRUE]

Once == [enabled |-> TRUE, repeat |-> FALSE]

Silent == [enabled |-> FALSE, repeat |-> FALSE]

NoMisses == [enabled |-> FALSE, repeat |-> FALSE, repeatInterval |-> 0]

Calm == [breached |-> FALSE, stalled |-> FALSE, level |-> 0, status |-> "active"]

\* The validator misses more and more, and is jailed and tombstoned for it.
Decline ==
  {Calm,
   [Calm EXCEPT !.breached = TRUE, !.level = 1, !.status = "jailed"],
   [Calm EXCEPT !.breached = TRUE, !.level = 3, !.status = "tombstoned"]}

\* It is jailed, and then tombstoned as the chain stalls.
Standstill ==
  {Calm,
   [Calm EXCEPT !.level = 1, !.status = "jailed"],
   [Calm EXCEPT !.level = -1, !.status = "tombstoned", !.stalled = TRUE]}

Quiet == {Calm}
=============================================================================
