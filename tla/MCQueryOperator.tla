-------------------------- MODULE MCQueryOperator --------------------------
(***************************************************************************)
(* A small instance of QueryOperator for TLC.                               *)
(***************************************************************************)
EXTENDS QueryOperator

TwoRpcs == <<"rpc1", "rpc2">>
OneApi  == <<"api1">>

Cycle == [rpc |-> 2, api |-> 1]

Node(up, home, synced, height) ==
  [up |-> up, home |-> home, synced |-> synced, height |-> height]

InOrder == Node(TRUE, TRUE, TRUE, 40)
Down    == Node(FALSE, TRUE, TRUE, 40)
Behind  == Node(TRUE, TRUE, TRUE, 20)
Foreign == Node(TRUE, FALSE, TRUE, 80)

\* Any of them may be down; one may be on another network, whose chain is
\* higher, one far behind.
Nodes == [rpc1 |-> {InOrder, Down, Foreign},
          rpc2 |-> {InOrder, Down, Behind},
          api1 |-> {InOrder, Down}]
=============================================================================
