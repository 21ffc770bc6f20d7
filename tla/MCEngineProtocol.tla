--------------------------- MODULE MCEngineProtocol ---------------------------
(***************************************************************************)
(* A small instance of EngineProtocol for TLC.                              *)
(***************************************************************************)
EXTENDS EngineProtocol

CONSTANTS k1, other

Ask(type, chainId) == [type |-> type, chainId |-> chainId]

\* The ingestion process updates an alert and reads it; the API process asks for an
\* overview, about a chain the engine does not have, and for what it may not do.
DpAndApi ==
  [c \in {"dp", "api"} |->
     IF c = "dp" THEN {Ask("touchAlertNotified", k1), Ask("getAlert", k1)}
     ELSE {Ask("getOverviewLatestBlocks", noChain), Ask("touchAlertNotified", k1),
           Ask("getAlert", other)}]

\* Two requests of the ingestion process may overlap.
TwoAndOne == [c \in {"dp", "api"} |-> IF c = "dp" THEN 2 ELSE 1]

\* The ingestion process writes, the API process reads.
OneOfEach == [c \in {"dp", "api"} |-> IF c = "dp" THEN "writer" ELSE "reader"]
=============================================================================
