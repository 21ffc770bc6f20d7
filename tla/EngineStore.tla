----------------------------- MODULE EngineStore -----------------------------
(***************************************************************************)
(* What the engine promises the processes that use it: the database behaves   *)
(* as if each statement of a call ran at one moment between the call and its   *)
(* return, on the rows of its own request; a call that fails has changed       *)
(* nothing; a reader changes nothing.  It does not promise that a call         *)
(* returns, nor that an overview has every chain.                            *)
(***************************************************************************)
EXTENDS EngineOps

CONSTANTS
  Connections, Role,           \* the callers' connections and their roles
  Ids                          \* tells the calls on one connection apart

VARIABLES
  store,      \* chain -> the call that wrote it last
  calls,      \* connection -> id -> the call as its caller knows it
  effects     \* connection -> id -> what it has done in the database

storeVars == <<store, calls, effects>>

NoCall == [state |-> "none"]
NoRow == noChain
Untouched == [seen |-> NothingSeen, error |-> "none"]

Open(c, id, body) == calls[c][id] = [state |-> "open", body |-> body]

StoreInit ==
  /\ store = [chainId \in knownChainIds |-> NoRow]
  /\ calls = [c \in Connections |-> [id \in Ids |-> NoCall]]
  /\ effects = [c \in Connections |-> [id \in Ids |-> Untouched]]

Call(c, id, body) ==
  /\ calls[c][id] = NoCall
  /\ calls' = [calls EXCEPT ![c][id] = [state |-> "open", body |-> body]]
  /\ UNCHANGED <<store, effects>>

\* A statement takes effect: a write leaves its mark, a read sees the last one.
Perform(c, id, body, chains) ==
  /\ Open(c, id, body)
  /\ effects[c][id].error = "none"
  /\ chains \cap DOMAIN effects[c][id].seen = {}
  /\ chains \subseteq knownChainIds
  /\ IF body.type \in WritingOps
     THEN /\ Role[c] = "writer"
          /\ store' = Add(store, chains, [chainId \in chains |-> <<c, id>>])
     ELSE UNCHANGED store
  /\ effects' = [effects EXCEPT ![c][id] =
                   [seen |-> Add(@.seen, chains, store'), error |-> "none"]]
  /\ UNCHANGED calls

\* An overview may leave a chain out.
LeaveOut(c, id, body, chains) ==
  /\ Open(c, id, body)
  /\ body.type = "getOverviewLatestBlocks"
  /\ effects[c][id].error = "none"
  /\ chains \cap DOMAIN effects[c][id].seen = {}
  /\ effects' = [effects EXCEPT ![c][id] =
                   [seen |-> Add(@.seen, chains, [chainId \in chains |-> NoRow]),
                    error |-> "none"]]
  /\ UNCHANGED <<store, calls>>

Refuse(c, id, body, error) ==
  /\ Open(c, id, body)
  /\ effects[c][id] = Untouched
  /\ CASE error = "readOnly" -> Role[c] = "reader" /\ body.type \in WritingOps
       [] error = "unknownChain" -> body.chainId \in otherChainIds
       [] OTHER -> error = "failed"
  /\ effects' = [effects EXCEPT ![c][id] = [seen |-> NothingSeen, error |-> error]]
  /\ UNCHANGED <<store, calls>>

\* The caller learns what its call has done.
Return(c, id, body) ==
  /\ Open(c, id, body)
  /\ effects[c][id].error # "none" \/ Complete(body, effects[c][id].seen)
  /\ calls' = [calls EXCEPT ![c][id] =
                 [state |-> "returned", body |-> body, answer |-> effects[c][id]]]
  /\ UNCHANGED <<store, effects>>

StoreNext ==
  \E c \in Connections, id \in Ids, body \in EngineRequestBody :
    \/ Call(c, id, body)
    \/ \E chains \in Statements(body) :
         Perform(c, id, body, chains) \/ LeaveOut(c, id, body, chains)
    \/ \E error \in {"readOnly", "unknownChain", "failed"} : Refuse(c, id, body, error)
    \/ Return(c, id, body)

StoreSpec == StoreInit /\ [][StoreNext]_storeVars
=============================================================================
