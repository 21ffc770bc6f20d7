----------------------------- MODULE EngineProofs -----------------------------
(***************************************************************************)
(* EngineProtocol keeps its types, forgets no call and implements EngineStore. *)
(*                                                                         *)
(* First the types; then what each action changes, connection by connection   *)
(* and call by call (the ...Effect lemmas), so that no later step opens an     *)
(* action; then the inductive invariant EInv; then its two consequences.      *)
(***************************************************************************)
EXTENDS EngineProtocol, FiniteSetTheorems, TLAPS

Marks == {NoRow} \cup (Connections \X Ids)

LEMMA AddIsSeen ==
  ASSUME NEW seen \in Seen, NEW chains \in SUBSET knownChainIds,
         NEW value, \A chainId \in chains : value[chainId] \in Marks
  PROVE  Add(seen, chains, value) \in Seen
<1>1. PICK covered \in SUBSET knownChainIds : seen \in [covered -> Marks]
  BY DEF Seen, Marks
<1>2. Add(seen, chains, value) \in [covered \cup chains -> Marks]
  BY <1>1 DEF Add
<1>3. covered \cup chains \in SUBSET knownChainIds
  OBVIOUS
<1> QED
  BY <1>2, <1>3 DEF Seen, Marks

LEMMA NothingIsSeen == NothingSeen \in Seen
<1>1. NothingSeen \in [{} -> Marks]
  BY DEF NothingSeen
<1> QED
  BY <1>1 DEF Seen, Marks

LEMMA HeadAndTail ==
  ASSUME NEW S, NEW s \in Seq(S), s # <<>>
  PROVE  Head(s) \in S /\ Tail(s) \in Seq(S)
OBVIOUS

LEMMA SentLine ==
  ASSUME NEW S, NEW wire \in [Connections -> Seq(S)], NEW c \in Connections, NEW line \in S
  PROVE  sendLine(wire, c, line) \in [Connections -> Seq(S)]
BY DEF sendLine

LEMMA NewPromise ==
  ASSUME NEW promises \in [Connections -> [Ids -> Promises]],
         NEW c \in Connections, NEW id \in Ids, NEW promise \in Promises
  PROVE  [promises EXCEPT ![c][id] = promise] \in [Connections -> [Ids -> Promises]]
OBVIOUS

LEMMA RequestIds ==
  ASSUME EngineProtocolAssumption, NEW c \in Connections
  PROVE  1..MaxRequests[c] \subseteq Ids
BY DEF Ids, EngineProtocolAssumption

LEMMA IdleIsPromise == Idle \in Promises
BY NothingIsSeen DEF Idle, Promises, Errors

-----------------------------------------------------------------------------
\* A step preserves the types.
LEMMA TypeStep == TypeOK /\ [Next]_vars => TypeOK'
<1> SUFFICES ASSUME TypeOK, [Next]_vars
             PROVE  TypeOK'
  OBVIOUS
<1> USE EngineProtocolAssumption
<1>s. served \in [Connections -> [Ids -> Promises]]
  BY DEF TypeOK
<1>f. faults \in [death : 0..Deaths, db : 0..DbFaults] /\ Deaths \in Nat /\ DbFaults \in Nat
  BY DEF TypeOK, EngineProtocolAssumption
<1>w. /\ toServer \in [Connections -> Seq(ToServer)]
      /\ toClient \in [Connections -> Seq(ToClient)]
  BY DEF TypeOK
<1>1. CASE EngineDies
  <2>1. served' \in [Connections -> [Ids -> Promises]]
    <3>1. ASSUME NEW promise \in Promises
          PROVE  [promise EXCEPT !.state = "gone"] \in Promises
      BY DEF Promises
    <3>2. served' = [c \in Connections |-> [id \in Ids |->
                       IF served[c][id].state = "running"
                       THEN [served[c][id] EXCEPT !.state = "gone"] ELSE served[c][id]]]
      BY <1>1 DEF EngineDies
    <3> QED
      BY <1>s, <3>1, <3>2
  <2>2. faults' \in [death : 0..Deaths, db : 0..DbFaults]
    <3>1. faults.death > 0 /\ faults' = [faults EXCEPT !.death = faults.death - 1]
      BY <1>1 DEF EngineDies
    <3> QED
      BY <1>f, <3>1
  <2>3. /\ toServer' \in [Connections -> Seq(ToServer)]
        /\ toClient' \in [Connections -> Seq(ToClient)]
    BY <1>1 DEF EngineDies
  <2> QED
    BY <1>1, <2>1, <2>2, <2>3 DEF EngineDies, TypeOK
<1>2. CASE startEngineServer
  BY <1>2 DEF startEngineServer, TypeOK, serverVars, clientVars
<1>3. ASSUME NEW c \in Connections, connect(c)
      PROVE  TypeOK'
  <2>1. Hello(c) \in ToServer
    BY DEF Hello, ToServer, EngineProtocolAssumption
  <2>2. <<Hello(c)>> \in Seq(ToServer)
    BY <2>1
  <2> QED
    BY <1>3, <2>2 DEF connect, TypeOK, serverVars
<1>4. ASSUME NEW c \in Connections, onResponse(c)
      PROVE  TypeOK'
  <2> DEFINE response == Head(toClient[c])
  <2>1. response \in ToClient
    BY <1>4, <1>w, HeadAndTail DEF onResponse
  <2>2. toClient' \in [Connections -> Seq(ToClient)]
    <3>1. Tail(toClient[c]) \in Seq(ToClient)
      BY <1>4, <1>w, HeadAndTail DEF onResponse
    <3> QED
      BY <1>4, <1>w, <3>1 DEF onResponse
  <2>3. ASSUME Pending(c, response.id)
        PROVE  calls[c][response.id].body \in EngineRequestBody
    BY <2>1, <2>3 DEF Pending, TypeOK, Calls, NoCall, ToClient
  <2>4. calls' \in [Connections -> [Ids -> Calls]]
    <3>1. CASE Pending(c, response.id)
      <4> DEFINE returned == [state |-> "returned", body |-> calls[c][response.id].body,
                              answer |-> response.answer]
      <4>1. returned \in Calls
        BY <2>1, <2>3, <3>1 DEF Calls, ToClient
      <4>2. calls' = [calls EXCEPT ![c][response.id] = returned]
        BY <1>4, <3>1 DEF onResponse
      <4> HIDE DEF returned
      <4> QED
        BY <2>1, <4>1, <4>2 DEF TypeOK, ToClient
    <3>2. CASE ~Pending(c, response.id)
      BY <1>4, <3>2 DEF onResponse, TypeOK
    <3> QED
      BY <3>1, <3>2
  <2> QED
    BY <1>4, <2>2, <2>4 DEF onResponse, TypeOK, serverVars
<1>5. ASSUME NEW c \in Connections, ClientExits(c)
      PROVE  TypeOK'
  <2>1. toClient' \in [Connections -> Seq(ToClient)]
    BY <1>5, <1>w DEF ClientExits
  <2> QED
    BY <1>5, <2>1 DEF ClientExits, TypeOK, serverVars
<1>6. ASSUME NEW c \in Connections, handleHello(c)
      PROVE  TypeOK'
  <2>1. Head(toServer[c]) \in ToServer /\ Tail(toServer[c]) \in Seq(ToServer)
    BY <1>6, <1>w, HeadAndTail DEF handleHello, Received
  <2>2. Head(toServer[c]).role \in {"reader", "writer"}
    BY <1>6, <2>1 DEF handleHello, Received, ToServer
  <2> QED
    BY <1>6, <2>1, <2>2 DEF handleHello, Received, TypeOK, clientVars
<1>7. ASSUME NEW c \in Connections, handleRequest(c)
      PROVE  TypeOK'
  <2> DEFINE line == Head(toServer[c])
  <2>1. line \in ToServer /\ Tail(toServer[c]) \in Seq(ToServer)
    BY <1>7, <1>w, HeadAndTail DEF handleRequest, Received
  <2>2. line.id \in Ids /\ line.body \in EngineRequestBody
    BY <1>7, <2>1 DEF handleRequest, Received, ToServer
  <2> DEFINE refusal == RefusalOf(c, line.body)
             refused == [Idle EXCEPT !.state = "answered", !.error = refusal]
             answer == [id |-> line.id,
                        answer |-> [seen |-> refused.seen, error |-> refusal]]
  <2>3. refusal \in Errors
    BY DEF RefusalOf, Errors
  <2>4. refused \in Promises /\ answer \in ToClient
    BY <2>2, <2>3, NothingIsSeen DEF Promises, Idle, Answers, Errors, ToClient
  <2>5. DispatchOf(line.body) \in Promises
    BY <2>2, NothingIsSeen DEF DispatchOf, Idle, Promises, Errors
  <2>6. \/ /\ served' = [served EXCEPT ![c][line.id] = refused]
           /\ toClient' = sendLine(toClient, c, answer)
        \/ /\ served' = [served EXCEPT ![c][line.id] = DispatchOf(line.body)]
           /\ UNCHANGED toClient
    BY <1>7 DEF handleRequest
  <2> HIDE DEF line, refusal, refused, answer
  <2>7. served' \in [Connections -> [Ids -> Promises]]
    <3>1. PICK promise \in Promises : served' = [served EXCEPT ![c][line.id] = promise]
      BY <2>4, <2>5, <2>6
    <3>2. line.id \in Ids
      BY <2>2
    <3> QED
      BY <3>1, <3>2, <1>s, NewPromise
  <2>8. toClient' \in [Connections -> Seq(ToClient)]
    <3>1. sendLine(toClient, c, answer) \in [Connections -> Seq(ToClient)]
      BY <2>4, <1>w, SentLine
    <3> QED
      BY <3>1, <2>6, <1>w
  <2>9. toServer' \in [Connections -> Seq(ToServer)]
    BY <1>7, <1>w, <2>1 DEF handleRequest, Received
  <2> QED
    BY <1>7, <2>7, <2>8, <2>9 DEF handleRequest, Received, TypeOK, clientVars
<1>8. ASSUME NEW c \in Connections, NEW body \in bodies[c], request(c, body)
      PROVE  TypeOK'
  <2>1. body \in EngineRequestBody
    BY DEF EngineProtocolAssumption
  <2>2. nextId[c] \in Ids
    BY <1>8, RequestIds DEF request, TypeOK, EngineProtocolAssumption
  <2>3. Request(nextId[c], body) \in ToServer
    BY <2>1, <2>2 DEF Request, ToServer
  <2>4. toServer' \in [Connections -> Seq(ToServer)]
    BY <1>8, <1>w, <2>3, SentLine DEF request
  <2>5. [state |-> "open", body |-> body] \in Calls
    BY <2>1 DEF Calls
  <2>6. calls' \in [Connections -> [Ids -> Calls]]
    BY <1>8, <2>2, <2>5 DEF request, TypeOK
  <2>7. /\ nextId' \in [Connections -> Nat]
        /\ \A d \in Connections : nextId'[d] \in 1..MaxRequests[d] + 1
    <3>1. /\ nextId \in [Connections -> Nat]
          /\ \A d \in Connections : nextId[d] \in 1..MaxRequests[d] + 1
      BY DEF TypeOK
    <3>2. nextId' = [nextId EXCEPT ![c] = @ + 1] /\ nextId[c] <= MaxRequests[c]
      BY <1>8 DEF request
    <3>3. nextId' \in [Connections -> Nat]
      BY <3>1, <3>2
    <3>4. nextId[c] \in Nat /\ MaxRequests[c] \in Nat
      BY <3>1 DEF EngineProtocolAssumption
    <3>5. nextId'[c] = nextId[c] + 1 /\ nextId[c] >= 1
      BY <3>1, <3>2
    <3>6. ASSUME NEW d \in Connections
          PROVE  nextId'[d] \in 1..MaxRequests[d] + 1
      <4>1. CASE d = c
        BY <3>2, <3>4, <3>5, <4>1
      <4>2. CASE d # c
        BY <3>1, <3>2, <4>2
      <4> QED
        BY <4>1, <4>2
    <3> QED
      BY <3>3, <3>6
  <2> QED
    BY <1>8, <2>4, <2>6, <2>7 DEF request, TypeOK, serverVars
<1>9. ASSUME NEW c \in Connections, NEW id \in Ids, respond(c, id)
      PROVE  TypeOK'
  <2> DEFINE promise == served[c][id]
             answer == [id |-> id, answer |-> [seen |-> promise.seen, error |-> promise.error]]
  <2>1. promise \in Promises
    BY DEF TypeOK
  <2>2. answer \in ToClient
    BY <2>1 DEF Promises, Answers, ToClient
  <2>3. toClient' = sendLine(toClient, c, answer)
    BY <1>9 DEF respond
  <2>4. served' \in [Connections -> [Ids -> Promises]]
    <3>1. served' = [served EXCEPT ![c][id] = [promise EXCEPT !.state = "answered"]]
      BY <1>9, <1>s DEF respond
    <3>2. [promise EXCEPT !.state = "answered"] \in Promises
      BY <2>1 DEF Promises
    <3> QED
      BY <1>s, <3>1, <3>2
  <2> HIDE DEF answer
  <2>5. toClient' \in [Connections -> Seq(ToClient)]
    BY <2>2, <2>3, <1>w, SentLine
  <2> QED
    BY <1>9, <2>4, <2>5 DEF respond, TypeOK, clientVars
<1>10. ASSUME NEW c \in Connections, NEW id \in Ids, NEW chains \in SUBSET knownChainIds,
              runStatement(c, id, chains)
       PROVE  TypeOK'
  <2>1. served[c][id] \in Promises
    BY DEF TypeOK
  <2>2. store' \in [knownChainIds -> Marks]
    <3> DEFINE marks == [chainId \in chains |-> <<c, id>>]
    <3>1. Add(store, chains, marks) \in [knownChainIds -> Marks]
      BY DEF TypeOK, Add, Marks
    <3>2. store' = Add(store, chains, marks) \/ store' = store
      BY <1>10 DEF runStatement
    <3> QED
      BY <3>1, <3>2 DEF TypeOK, Marks
  <2>3. Add(served[c][id].seen, chains, store') \in Seen
    BY <2>1, <2>2, AddIsSeen DEF Promises
  <2>4. served' = [served EXCEPT ![c][id].seen = Add(served[c][id].seen, chains, store')]
    BY <1>10, <1>s DEF runStatement
  <2>5. served' \in [Connections -> [Ids -> Promises]]
    <3> DEFINE seen == Add(served[c][id].seen, chains, store')
    <3>1. served' = [served EXCEPT ![c][id] = [served[c][id] EXCEPT !.seen = seen]]
      BY <2>4, <1>s
    <3>2. [served[c][id] EXCEPT !.seen = seen] \in Promises
      BY <2>1, <2>3 DEF Promises
    <3> QED
      BY <1>s, <3>1, <3>2
  <2> QED
    BY <1>10, <2>2, <2>5 DEF runStatement, Runs, TypeOK, clientVars, Marks
<1>11. ASSUME NEW c \in Connections, NEW id \in Ids, NEW chains \in SUBSET knownChainIds,
              statementFails(c, id, chains)
       PROVE  TypeOK'
  <2>1. served[c][id] \in Promises
    BY DEF TypeOK
  <2> DEFINE noRows == [chainId \in chains |-> NoRow]
  <2>2. Add(served[c][id].seen, chains, noRows) \in Seen
    BY <2>1, AddIsSeen DEF Promises, Marks
  <2>3. \/ served' = [served EXCEPT ![c][id].seen = Add(served[c][id].seen, chains, noRows)]
        \/ served' = [served EXCEPT ![c][id].error = "failed"]
    BY <1>11 DEF statementFails, TypeOK
  <2> HIDE DEF noRows
  <2>4. served' \in [Connections -> [Ids -> Promises]]
    <3> DEFINE seen == Add(served[c][id].seen, chains, noRows)
    <3>1. \/ served' = [served EXCEPT ![c][id] = [served[c][id] EXCEPT !.seen = seen]]
          \/ served' = [served EXCEPT ![c][id] = [served[c][id] EXCEPT !.error = "failed"]]
      BY <2>3, <1>s
    <3>2. /\ [served[c][id] EXCEPT !.seen = seen] \in Promises
          /\ [served[c][id] EXCEPT !.error = "failed"] \in Promises
      BY <2>1, <2>2 DEF Promises, Errors
    <3>3. PICK promise \in Promises : served' = [served EXCEPT ![c][id] = promise]
      BY <3>1, <3>2
    <3> QED
      BY <1>s, <3>3, NewPromise
  <2>5. faults' \in [death : 0..Deaths, db : 0..DbFaults]
    <3>1. faults.db > 0 /\ faults' = [faults EXCEPT !.db = faults.db - 1]
      BY <1>11 DEF statementFails
    <3> QED
      BY <1>f, <3>1
  <2> QED
    BY <1>11, <2>4, <2>5 DEF statementFails, Runs, TypeOK, clientVars
<1>12. CASE UNCHANGED vars
  BY <1>12 DEF vars, serverVars, clientVars, TypeOK
<1> QED
  BY <1>1, <1>2, <1>3, <1>4, <1>5, <1>6, <1>7, <1>8, <1>9, <1>10, <1>11, <1>12 DEF Next

LEMMA TypeInit == Init => TypeOK
<1> USE EngineProtocolAssumption
<1>1. Init => served \in [Connections -> [Ids -> Promises]]
  BY IdleIsPromise DEF Init
<1>2. Init => calls \in [Connections -> [Ids -> Calls]]
  BY DEF Init, Calls
<1>3. Init => /\ nextId \in [Connections -> Nat]
              /\ \A c \in Connections : nextId[c] \in 1..MaxRequests[c] + 1
  BY DEF Init, EngineProtocolAssumption
<1>4. Init => faults \in [death : 0..Deaths, db : 0..DbFaults]
  BY DEF Init, EngineProtocolAssumption
<1> QED
  BY <1>1, <1>2, <1>3, <1>4 DEF Init, TypeOK

\* Connections, calls, the engine's promises and the lines between them keep their
\* types, for any number of connections, requests, deaths and failures.
THEOREM EngineTypeCorrect == Spec => []TypeOK
BY TypeInit, TypeStep, PTL DEF Spec
-----------------------------------------------------------------------------
(* What each action does, connection by connection and call by call. *)

LEMMA IdsAreNumbers == ASSUME EngineProtocolAssumption PROVE Ids \subseteq Nat
<1>1. \A c \in Connections : MaxRequests[c] \in Nat
  BY DEF EngineProtocolAssumption
<1>2. \A c \in Connections : 1..MaxRequests[c] \subseteq Nat
  BY <1>1
<1> QED
  BY <1>2 DEF Ids

LEMMA Positions ==
  ASSUME NEW S, NEW s \in Seq(S)
  PROVE  /\ \A k \in DOMAIN s : s[k] \in S /\ k \in Nat \ {0}
         /\ s # <<>> => /\ 1 \in DOMAIN s /\ Head(s) = s[1]
                        /\ \A k \in DOMAIN Tail(s) : k + 1 \in DOMAIN s /\ Tail(s)[k] = s[k + 1]
                        /\ \A k \in DOMAIN s : k = 1 \/ (k - 1 \in DOMAIN Tail(s)
                                                          /\ Tail(s)[k - 1] = s[k])
         /\ \A e \in S : /\ DOMAIN Append(s, e) = DOMAIN s \cup {Len(s) + 1}
                         /\ Append(s, e)[Len(s) + 1] = e
                         /\ \A k \in DOMAIN s : Append(s, e)[k] = s[k] /\ k # Len(s) + 1
OBVIOUS

LEMMA RequestEffect ==
  ASSUME EngineProtocolAssumption, TypeOK,
         NEW c \in Connections, NEW body \in bodies[c], request(c, body)
  PROVE  /\ nextId[c] \in Ids /\ body \in EngineRequestBody
         /\ Request(nextId[c], body) \in ToServer
         /\ calls'[c][nextId[c]] = [state |-> "open", body |-> body]
         /\ \A d \in Connections : \A i \in Ids :
              d # c \/ i # nextId[c] => calls'[d][i] = calls[d][i]
         /\ nextId'[c] = nextId[c] + 1
         /\ \A d \in Connections : d # c => nextId'[d] = nextId[d]
         /\ \A d \in Connections : d # c => toServer'[d] = toServer[d]
         /\ toServer'[c] = IF conn[c] = "open"
                           THEN Append(toServer[c], Request(nextId[c], body)) ELSE toServer[c]
         /\ UNCHANGED <<store, role, served, conn, toClient>>
<1>1. body \in EngineRequestBody
  BY DEF EngineProtocolAssumption
<1>2. nextId[c] \in Ids
  BY RequestIds DEF request, TypeOK, EngineProtocolAssumption
<1>3. Request(nextId[c], body) \in ToServer
  BY <1>1, <1>2 DEF Request, ToServer
<1>4. calls \in [Connections -> [Ids -> Calls]]
  BY DEF TypeOK
<1>5. /\ calls' = [calls EXCEPT ![c][nextId[c]] = [state |-> "open", body |-> body]]
      /\ UNCHANGED <<store, role, served, conn, toClient>>
  BY DEF request, serverVars
<1>6. /\ calls'[c][nextId[c]] = [state |-> "open", body |-> body]
      /\ \A d \in Connections : \A i \in Ids :
           d # c \/ i # nextId[c] => calls'[d][i] = calls[d][i]
  BY <1>2, <1>4, <1>5
<1>7. /\ nextId'[c] = nextId[c] + 1
      /\ \A d \in Connections : d # c => nextId'[d] = nextId[d]
  BY DEF request, TypeOK
<1>8. /\ \A d \in Connections : d # c => toServer'[d] = toServer[d]
      /\ toServer'[c] = IF conn[c] = "open"
                        THEN Append(toServer[c], Request(nextId[c], body)) ELSE toServer[c]
  BY DEF request, sendLine, TypeOK
<1> QED
  BY <1>1, <1>2, <1>3, <1>5, <1>6, <1>7, <1>8

LEMMA ResponseEffect ==
  ASSUME TypeOK, NEW c \in Connections, onResponse(c)
  PROVE  /\ conn[c] = "open"
         /\ toClient[c] \in Seq(ToClient) /\ toClient[c] # <<>>
         /\ toClient[c][1].id \in Ids
         /\ toClient'[c] = Tail(toClient[c])
         /\ \A d \in Connections : d # c => toClient'[d] = toClient[d]
         /\ \A d \in Connections : \A i \in Ids :
              d # c \/ i # toClient[c][1].id => calls'[d][i] = calls[d][i]
         /\ calls'[c][toClient[c][1].id] =
              IF Pending(c, toClient[c][1].id)
              THEN [state |-> "returned", body |-> calls[c][toClient[c][1].id].body,
                    answer |-> toClient[c][1].answer]
              ELSE calls[c][toClient[c][1].id]
         /\ UNCHANGED <<store, role, served, conn, nextId, toServer>>
<1> DEFINE id == toClient[c][1].id
<1>1. toClient[c] \in Seq(ToClient) /\ toClient[c] # <<>> /\ conn[c] = "open"
  BY DEF onResponse, TypeOK
<1>2. Head(toClient[c]) = toClient[c][1]
  BY <1>1
<1>3. toClient[c][1] \in ToClient
  BY <1>1, <1>2, HeadAndTail
<1>4. id \in Ids
  BY <1>3 DEF ToClient
<1>5. calls \in [Connections -> [Ids -> Calls]]
  BY DEF TypeOK
<1>6. calls' = IF Pending(c, id)
               THEN [calls EXCEPT ![c][id] = [state |-> "returned", body |-> calls[c][id].body,
                                              answer |-> toClient[c][1].answer]]
               ELSE calls
  BY <1>2, <1>4, <1>5 DEF onResponse
<1>7. /\ \A d \in Connections : \A i \in Ids : d # c \/ i # id => calls'[d][i] = calls[d][i]
      /\ calls'[c][id] = IF Pending(c, id)
                         THEN [state |-> "returned", body |-> calls[c][id].body,
                               answer |-> toClient[c][1].answer]
                         ELSE calls[c][id]
  BY <1>4, <1>5, <1>6
<1>8. /\ toClient'[c] = Tail(toClient[c])
      /\ \A d \in Connections : d # c => toClient'[d] = toClient[d]
  BY DEF onResponse, TypeOK
<1> QED
  BY <1>1, <1>4, <1>7, <1>8 DEF onResponse, serverVars

LEMMA ReceivedEffect ==
  ASSUME TypeOK, NEW c \in Connections, NEW type, Received(c, type)
  PROVE  /\ toServer[c] \in Seq(ToServer) /\ toServer[c] # <<>>
         /\ Head(toServer[c]) = toServer[c][1]
         /\ toServer[c][1] \in ToServer /\ toServer[c][1].type = type
         /\ toServer'[c] = Tail(toServer[c])
         /\ \A d \in Connections : d # c => toServer'[d] = toServer[d]
         /\ UNCHANGED <<store, conn, nextId, calls>>
<1>1. toServer[c] \in Seq(ToServer) /\ toServer[c] # <<>>
  BY DEF Received, TypeOK
<1>2. Head(toServer[c]) = toServer[c][1]
  BY <1>1
<1>3. toServer[c][1] \in ToServer
  BY <1>1, <1>2, HeadAndTail
<1>4. /\ toServer'[c] = Tail(toServer[c])
      /\ \A d \in Connections : d # c => toServer'[d] = toServer[d]
  BY DEF Received, TypeOK
<1> QED
  BY <1>1, <1>2, <1>3, <1>4 DEF Received, clientVars

\* The request that handleRequest reads, and its refusal.
ReadId(c) == toServer[c][1].id
ReadBody(c) == toServer[c][1].body
Refusal(c) == RefusalOf(c, ReadBody(c))
RefusalLine(c) == [id |-> ReadId(c), answer |-> [seen |-> NothingSeen, error |-> Refusal(c)]]

LEMMA HandleEffect ==
  ASSUME TypeOK, NEW c \in Connections, handleRequest(c)
  PROVE  /\ ReadId(c) \in Ids /\ ReadBody(c) \in EngineRequestBody
         /\ \A d \in Connections : \A i \in Ids :
              d # c \/ i # ReadId(c) => served'[d][i] = served[d][i]
         /\ \A d \in Connections : d # c => toClient'[d] = toClient[d]
         /\ \/ /\ Refusal(c) # "none"
               /\ served'[c][ReadId(c)] =
                    [Idle EXCEPT !.state = "answered", !.error = Refusal(c)]
               /\ RefusalLine(c) \in ToClient
               /\ toClient'[c] = IF conn[c] = "open"
                                 THEN Append(toClient[c], RefusalLine(c)) ELSE toClient[c]
            \/ /\ Refusal(c) = "none"
               /\ served'[c][ReadId(c)] = DispatchOf(ReadBody(c))
               /\ toClient' = toClient
         /\ UNCHANGED role
<1> DEFINE id == ReadId(c)
           body == ReadBody(c)
           refusal == Refusal(c)
           answer == RefusalLine(c)
           refused == [Idle EXCEPT !.state = "answered", !.error = refusal]
<1>1. Head(toServer[c]) = toServer[c][1] /\ toServer[c][1] \in ToServer
      /\ toServer[c][1].type = "request"
  BY ReceivedEffect DEF handleRequest
<1>2. id \in Ids /\ body \in EngineRequestBody
  BY <1>1 DEF ToServer, ReadId, ReadBody
<1>3. answer \in ToClient
  BY <1>2, NothingIsSeen DEF ToClient, Answers, Errors, RefusalOf, Refusal, RefusalLine
<1>4. refused.seen = NothingSeen
  BY DEF Idle
<1>5. \/ /\ refusal # "none"
         /\ served' = [served EXCEPT ![c][id] = refused]
         /\ toClient' = sendLine(toClient, c, answer)
      \/ /\ refusal = "none"
         /\ served' = [served EXCEPT ![c][id] = DispatchOf(body)]
         /\ toClient' = toClient
  BY <1>1, <1>4 DEF handleRequest, ReadId, ReadBody, Refusal, RefusalLine
<1>6. served \in [Connections -> [Ids -> Promises]] /\ toClient \in [Connections -> Seq(ToClient)]
  BY DEF TypeOK
<1> HIDE DEF id, body, refusal, answer, refused
<1>7. CASE refusal # "none"
  <2>1. /\ served'[c][id] = refused
        /\ \A d \in Connections : \A i \in Ids : d # c \/ i # id => served'[d][i] = served[d][i]
    BY <1>2, <1>5, <1>6, <1>7
  <2>2. /\ toClient'[c] = IF conn[c] = "open" THEN Append(toClient[c], answer) ELSE toClient[c]
        /\ \A d \in Connections : d # c => toClient'[d] = toClient[d]
    BY <1>5, <1>6, <1>7 DEF sendLine
  <2> QED
    BY <1>2, <1>3, <1>7, <2>1, <2>2 DEF handleRequest, id, body, refusal, answer, refused
<1>8. CASE refusal = "none"
  <2>1. /\ served'[c][id] = DispatchOf(body)
        /\ \A d \in Connections : \A i \in Ids : d # c \/ i # id => served'[d][i] = served[d][i]
    BY <1>2, <1>5, <1>6, <1>8
  <2> QED
    BY <1>2, <1>5, <1>8, <2>1 DEF handleRequest, id, body, refusal
<1> QED
  BY <1>7, <1>8

\* A statement changes the promise in `seen` or, failing, in `error`.
LEMMA StatementEffect ==
  ASSUME TypeOK, NEW c \in Connections, NEW id \in Ids, NEW chains \in SUBSET knownChainIds,
         runStatement(c, id, chains) \/ statementFails(c, id, chains)
  PROVE  /\ served[c][id].state = "running" /\ served[c][id].error = "none"
         /\ chains \in Statements(served[c][id].body)
         /\ chains \cap DOMAIN served[c][id].seen = {}
         /\ \A d \in Connections : \A i \in Ids :
              d # c \/ i # id => served'[d][i] = served[d][i]
         /\ served'[c][id].state = "running" /\ served'[c][id].body = served[c][id].body
         /\ \/ /\ \E value : served'[c][id].seen = Add(served[c][id].seen, chains, value)
               /\ served'[c][id].error = "none"
            \/ /\ served'[c][id].seen = served[c][id].seen
               /\ served'[c][id].error = "failed"
         /\ UNCHANGED <<role, conn, nextId, calls, toServer, toClient>>
<1> DEFINE noRows == [chainId \in chains |-> NoRow]
<1>1. served \in [Connections -> [Ids -> Promises]] /\ served[c][id] \in Promises
  BY DEF TypeOK
<1>2. Runs(c, id, chains)
  BY DEF runStatement, statementFails
<1>3. \/ served' = [served EXCEPT ![c][id].seen = Add(served[c][id].seen, chains, store')]
      \/ served' = [served EXCEPT ![c][id].seen = Add(served[c][id].seen, chains, noRows)]
      \/ served' = [served EXCEPT ![c][id].error = "failed"]
  BY <1>1 DEF runStatement, statementFails
<1>4. /\ \A d \in Connections : \A i \in Ids :
           d # c \/ i # id => served'[d][i] = served[d][i]
      /\ \/ served'[c][id] = [served[c][id] EXCEPT !.seen = Add(served[c][id].seen, chains, store')]
         \/ served'[c][id] = [served[c][id] EXCEPT !.seen = Add(served[c][id].seen, chains, noRows)]
         \/ served'[c][id] = [served[c][id] EXCEPT !.error = "failed"]
  <2> HIDE DEF noRows
  <2> QED
    BY <1>1, <1>3
<1>5. /\ served'[c][id].state = served[c][id].state
      /\ served'[c][id].body = served[c][id].body
      /\ \/ /\ \E value : served'[c][id].seen = Add(served[c][id].seen, chains, value)
            /\ served'[c][id].error = served[c][id].error
         \/ /\ served'[c][id].seen = served[c][id].seen
            /\ served'[c][id].error = "failed"
  <2> HIDE DEF noRows
  <2> QED
    BY <1>1, <1>4 DEF Promises
<1> QED
  BY <1>2, <1>4, <1>5 DEF Runs, clientVars

\* The line that carries what a promise has come to.
AnswerLine(c, id) ==
  [id |-> id, answer |-> [seen |-> served[c][id].seen, error |-> served[c][id].error]]

LEMMA RespondEffect ==
  ASSUME TypeOK, NEW c \in Connections, NEW id \in Ids, respond(c, id)
  PROVE  /\ served[c][id].state = "running" /\ AnswerLine(c, id) \in ToClient
         /\ served[c][id].error # "none" \/ Complete(served[c][id].body, served[c][id].seen)
         /\ \A d \in Connections : \A i \in Ids :
              d # c \/ i # id => served'[d][i] = served[d][i]
         /\ served'[c][id].state = "answered" /\ served'[c][id].body = served[c][id].body
         /\ served'[c][id].seen = served[c][id].seen
         /\ served'[c][id].error = served[c][id].error
         /\ \A d \in Connections : d # c => toClient'[d] = toClient[d]
         /\ toClient'[c] = IF conn[c] = "open" THEN Append(toClient[c], AnswerLine(c, id)) ELSE toClient[c]
         /\ UNCHANGED <<store, role, conn, nextId, calls, toServer>>
<1>1. served \in [Connections -> [Ids -> Promises]] /\ served[c][id] \in Promises
      /\ toClient \in [Connections -> Seq(ToClient)]
  BY DEF TypeOK
<1>2. AnswerLine(c, id) \in ToClient
  BY <1>1 DEF Promises, Answers, ToClient, AnswerLine
<1>3. served' = [served EXCEPT ![c][id].state = "answered"]
      /\ toClient' = sendLine(toClient, c, AnswerLine(c, id))
  BY DEF respond, AnswerLine
<1>4. /\ \A d \in Connections : \A i \in Ids : d # c \/ i # id => served'[d][i] = served[d][i]
      /\ served'[c][id] = [served[c][id] EXCEPT !.state = "answered"]
  BY <1>1, <1>3
<1>5. /\ served'[c][id].state = "answered" /\ served'[c][id].body = served[c][id].body
      /\ served'[c][id].seen = served[c][id].seen
      /\ served'[c][id].error = served[c][id].error
  BY <1>1, <1>4 DEF Promises
<1>6. /\ \A d \in Connections : d # c => toClient'[d] = toClient[d]
      /\ toClient'[c] = IF conn[c] = "open" THEN Append(toClient[c], AnswerLine(c, id)) ELSE toClient[c]
  BY <1>1, <1>3 DEF sendLine
<1> QED
  BY <1>2, <1>4, <1>5, <1>6 DEF respond, clientVars

LEMMA DeathEffect ==
  ASSUME TypeOK, EngineDies
  PROVE  /\ \A c \in Connections : /\ role'[c] = "null" /\ toServer'[c] = <<>> /\ toClient'[c] = <<>>
                                   /\ conn'[c] # "open" /\ (conn'[c] = "none" <=> conn[c] = "none")
         /\ \A c \in Connections : \A id \in Ids :
              /\ served'[c][id].state # "running"
              /\ served[c][id].state # "running" => served'[c][id] = served[c][id]
              /\ served'[c][id].seen = served[c][id].seen
              /\ served'[c][id].error = served[c][id].error
         /\ UNCHANGED <<store, nextId, calls>>
<1>1. served \in [Connections -> [Ids -> Promises]]
  BY DEF TypeOK
<1>2. ASSUME NEW c \in Connections, NEW id \in Ids
      PROVE  served'[c][id] = IF served[c][id].state = "running"
                              THEN [served[c][id] EXCEPT !.state = "gone"] ELSE served[c][id]
  BY DEF EngineDies
<1>3. ASSUME NEW c \in Connections, NEW id \in Ids
      PROVE  /\ served'[c][id].state # "running"
             /\ served[c][id].state # "running" => served'[c][id] = served[c][id]
             /\ served'[c][id].seen = served[c][id].seen
             /\ served'[c][id].error = served[c][id].error
  <2>1. served[c][id] \in Promises
    BY <1>1
  <2> QED
    BY <1>2, <2>1 DEF Promises
<1>4. \A c \in Connections : conn'[c] = IF conn[c] = "open" THEN "broken" ELSE conn[c]
  BY DEF EngineDies
<1> QED
  BY <1>3, <1>4 DEF EngineDies

-----------------------------------------------------------------------------
(* The inductive invariant: where a request may be, and what is known there. *)

\* Ids not yet given out have left no trace.
IdsFresh ==
  \A c \in Connections : \A id \in Ids : id >= nextId[c] =>
    calls[c][id] = NoCall /\ served[c][id] = Idle

\* The engine knows the role before it reads the first request.
HelloFirst(c) ==
  /\ \A k \in DOMAIN toServer[c] :
       /\ toServer[c][k].type = "hello" <=> k = 1 /\ role[c] = "null"
       /\ toServer[c][k].type = "hello" => toServer[c][k].role = Role[c]
  /\ role[c] \in {"null", Role[c]}
  /\ conn[c] = "none" => role[c] = "null" /\ toServer[c] = <<>>
  /\ conn[c] = "open" /\ role[c] = "null" => toServer[c] # <<>>

\* A request on its way has a caller who waits for it, and no namesake.
LinesOpen(c) ==
  \A k \in DOMAIN toServer[c] : toServer[c][k].type = "request" =>
    /\ calls[c][toServer[c][k].id] = [state |-> "open", body |-> toServer[c][k].body]
    /\ served[c][toServer[c][k].id] = Idle
    /\ \A l \in DOMAIN toServer[c] :
         toServer[c][l].type = "request" /\ toServer[c][l].id = toServer[c][k].id => l = k

\* So has a request the engine works on; it covers no chain but its own.
WorkOpen(c) ==
  \A id \in Ids : served[c][id].state = "running" =>
    /\ calls[c][id] = [state |-> "open", body |-> served[c][id].body]
    /\ DOMAIN served[c][id].seen \subseteq UNION Statements(served[c][id].body)
    /\ served[c][id].body.type \in WritingOps => Role[c] = "writer"

\* An answer on its way says what was done, to a caller who waits for it.
AnswerTrue(c, k, id) ==
  /\ calls[c][id].state = "open"
  /\ served[c][id].state = "answered"
  /\ toClient[c][k].answer = [seen |-> served[c][id].seen, error |-> served[c][id].error]
  /\ served[c][id].error # "none" \/ Complete(calls[c][id].body, served[c][id].seen)
  /\ \A l \in DOMAIN toClient[c] : toClient[c][l].id = id => l = k

AnswersTrue(c) == \A k \in DOMAIN toClient[c] : AnswerTrue(c, k, toClient[c][k].id)

\* On an open connection, who waits is served, has been or will be.
UnderWay(c) ==
  \A id \in Ids : Pending(c, id) =>
    /\ conn[c] # "none"
    /\ conn[c] = "open" =>
         \/ served[c][id].state = "running"
         \/ \E k \in DOMAIN toServer[c] :
              toServer[c][k].type = "request" /\ toServer[c][k].id = id
         \/ \E k \in DOMAIN toClient[c] : toClient[c][k].id = id

WireInv(c) == HelloFirst(c) /\ LinesOpen(c) /\ WorkOpen(c) /\ AnswersTrue(c) /\ UnderWay(c)

EInv == TypeOK /\ IdsFresh /\ \A c \in Connections : WireInv(c)

LEMMA EInvInit == EngineProtocolAssumption /\ Init => EInv
<1> SUFFICES ASSUME EngineProtocolAssumption, Init
             PROVE  EInv
  OBVIOUS
<1>1. TypeOK
  BY TypeInit
<1>2. IdsFresh
  BY DEF Init, IdsFresh
<1>3. ASSUME NEW c \in Connections
      PROVE  WireInv(c)
  <2>1. HelloFirst(c)
    BY DEF Init, HelloFirst
  <2>2. LinesOpen(c) /\ AnswersTrue(c)
    BY DEF Init, LinesOpen, AnswersTrue, AnswerTrue
  <2>3. WorkOpen(c)
    BY DEF Init, WorkOpen, Idle
  <2>4. UnderWay(c)
    BY DEF Init, UnderWay, Pending, NoCall
  <2> QED
    BY <2>1, <2>2, <2>3, <2>4 DEF WireInv
<1> QED
  BY <1>1, <1>2, <1>3 DEF EInv

LEMMA UsedIds ==
  ASSUME EngineProtocolAssumption, TypeOK, IdsFresh, NEW c \in Connections, NEW id \in Ids,
         calls[c][id].state # "none" \/ served[c][id].state # "idle"
  PROVE  id < nextId[c]
<1>1. id \in Nat /\ nextId[c] \in Nat
  BY IdsAreNumbers DEF TypeOK
<1>2. ~(id >= nextId[c])
  BY DEF IdsFresh, NoCall, Idle
<1> QED
  BY <1>1, <1>2

\* Who sent the line the engine reads is waiting, unserved, and sent it once.
LEMMA FrontLine ==
  ASSUME TypeOK, NEW c \in Connections, LinesOpen(c), Received(c, "request")
  PROVE  /\ 1 \in DOMAIN toServer[c]
         /\ calls[c][ReadId(c)] = [state |-> "open", body |-> ReadBody(c)]
         /\ served[c][ReadId(c)] = Idle
         /\ \A k \in DOMAIN toServer[c] :
              toServer[c][k].type = "request" /\ toServer[c][k].id = ReadId(c) => k = 1
<1>1. toServer[c] \in Seq(ToServer) /\ toServer[c] # <<>> /\ toServer[c][1].type = "request"
  BY ReceivedEffect
<1>2. 1 \in DOMAIN toServer[c]
  BY <1>1
<1> QED
  BY <1>1, <1>2 DEF LinesOpen, ReadId, ReadBody

LEMMA IdsFreshStep == EInv /\ [Next]_vars => IdsFresh'
<1> SUFFICES ASSUME EInv, [Next]_vars
             PROVE  IdsFresh'
  OBVIOUS
<1> USE EngineProtocolAssumption
<1>t. TypeOK /\ IdsFresh
  BY DEF EInv
<1>n. \A c \in Connections : nextId[c] \in Nat
  BY <1>t DEF TypeOK
<1>i. \A id \in Ids : id \in Nat
  BY IdsAreNumbers
<1>1. CASE EngineDies
  <2>1. /\ \A c \in Connections : \A id \in Ids :
             served[c][id] = Idle => served'[c][id] = Idle
        /\ UNCHANGED <<nextId, calls>>
    BY <1>1, <1>t, DeathEffect DEF Idle
  <2> QED
    BY <1>t, <2>1 DEF IdsFresh
<1>2. CASE startEngineServer
  BY <1>2, <1>t DEF startEngineServer, serverVars, clientVars, IdsFresh
<1>3. ASSUME NEW c \in Connections, connect(c) \/ ClientExits(c) \/ handleHello(c)
      PROVE  IdsFresh'
  BY <1>3, <1>t DEF connect, ClientExits, handleHello, Received, serverVars, clientVars, IdsFresh
<1>4. ASSUME NEW c \in Connections, onResponse(c)
      PROVE  IdsFresh'
  <2>1. PICK id \in Ids :
          /\ \A d \in Connections : \A i \in Ids : d # c \/ i # id => calls'[d][i] = calls[d][i]
          /\ ~Pending(c, id) => calls'[c][id] = calls[c][id]
    <3>1. toClient[c][1].id \in Ids
      BY <1>4, <1>t, ResponseEffect
    <3>2. \A d \in Connections : \A i \in Ids :
            d # c \/ i # toClient[c][1].id => calls'[d][i] = calls[d][i]
      BY <1>4, <1>t, ResponseEffect
    <3>3. ~Pending(c, toClient[c][1].id)
            => calls'[c][toClient[c][1].id] = calls[c][toClient[c][1].id]
      BY <1>4, <1>t, ResponseEffect
    <3> QED
      BY <3>1, <3>2, <3>3
  <2>2. ASSUME Pending(c, id) PROVE id < nextId[c]
    <3>1. calls[c][id].state # "none"
      BY <2>2 DEF Pending
    <3> QED
      BY <3>1, <1>t, UsedIds
  <2>3. UNCHANGED <<served, nextId>>
    BY <1>4 DEF onResponse, serverVars
  <2> QED
    BY <1>t, <1>n, <1>i, <2>1, <2>2, <2>3 DEF IdsFresh
<1>5. ASSUME NEW c \in Connections, handleRequest(c)
      PROVE  IdsFresh'
  <2> DEFINE id == ReadId(c)
  <2>1. UNCHANGED <<nextId, calls>>
    BY <1>5 DEF handleRequest, Received, clientVars
  <2>2. calls[c][id].state = "open"
    <3>1. Received(c, "request") /\ LinesOpen(c)
      BY <1>5 DEF handleRequest, EInv, WireInv
    <3>2. calls[c][id] = [state |-> "open", body |-> ReadBody(c)]
      BY <3>1, <1>t, FrontLine
    <3> QED
      BY <3>2
  <2>3. /\ id \in Ids
        /\ \A d \in Connections : \A i \in Ids : d # c \/ i # id => served'[d][i] = served[d][i]
    BY <1>5, <1>t, HandleEffect
  <2>4. id < nextId[c]
    BY <2>2, <2>3, <1>t, UsedIds
  <2> HIDE DEF id
  <2> QED
    BY <1>t, <1>n, <1>i, <2>1, <2>3, <2>4 DEF IdsFresh
<1>6. ASSUME NEW c \in Connections, NEW body \in bodies[c], request(c, body)
      PROVE  IdsFresh'
  <2>1. /\ nextId[c] \in Ids
        /\ \A d \in Connections : \A i \in Ids :
             d # c \/ i # nextId[c] => calls'[d][i] = calls[d][i]
        /\ nextId'[c] = nextId[c] + 1
        /\ \A d \in Connections : d # c => nextId'[d] = nextId[d]
        /\ UNCHANGED served
    BY <1>6, <1>t, RequestEffect
  <2> QED
    BY <1>t, <1>n, <1>i, <2>1 DEF IdsFresh
<1>7. ASSUME NEW c \in Connections, NEW id \in Ids,
             \/ respond(c, id)
             \/ \E chains \in SUBSET knownChainIds :
                  runStatement(c, id, chains) \/ statementFails(c, id, chains)
      PROVE  IdsFresh'
  <2>1. served[c][id].state = "running"
    BY <1>7 DEF respond, runStatement, statementFails, Runs
  <2>2. \A d \in Connections : \A i \in Ids : d # c \/ i # id => served'[d][i] = served[d][i]
    <3>1. CASE respond(c, id)
      BY <3>1, <1>t, RespondEffect
    <3>2. ASSUME NEW chains \in SUBSET knownChainIds,
                 runStatement(c, id, chains) \/ statementFails(c, id, chains)
          PROVE  \A d \in Connections : \A i \in Ids :
                   d # c \/ i # id => served'[d][i] = served[d][i]
      BY <3>2, <1>t, StatementEffect
    <3> QED
      BY <1>7, <3>1, <3>2
  <2>3. UNCHANGED <<nextId, calls>>
    BY <1>7 DEF respond, runStatement, statementFails, Runs, clientVars
  <2>4. id < nextId[c]
    BY <2>1, <1>t, UsedIds
  <2> QED
    BY <1>t, <1>n, <1>i, <2>2, <2>3, <2>4 DEF IdsFresh
<1>8. CASE UNCHANGED vars
  BY <1>8, <1>t DEF vars, serverVars, clientVars, IdsFresh
<1> QED
  BY <1>1, <1>2, <1>3, <1>4, <1>5, <1>6, <1>7, <1>8 DEF Next

-----------------------------------------------------------------------------
(* The invariant, connection by connection: where an action does not reach... *)

SameWire(d) ==
  /\ role'[d] = role[d] /\ conn'[d] = conn[d]
  /\ toServer'[d] = toServer[d] /\ toClient'[d] = toClient[d]
  /\ \A i \in Ids : calls'[d][i] = calls[d][i] /\ served'[d][i] = served[d][i]

LEMMA LineIds ==
  ASSUME TypeOK, NEW c \in Connections
  PROVE  /\ toServer[c] \in Seq(ToServer) /\ toClient[c] \in Seq(ToClient)
         /\ \A k \in DOMAIN toServer[c] :
              toServer[c][k].type = "request" =>
                toServer[c][k].id \in Ids /\ toServer[c][k].body \in EngineRequestBody
         /\ \A k \in DOMAIN toClient[c] : toClient[c][k].id \in Ids
<1>1. toServer[c] \in Seq(ToServer) /\ toClient[c] \in Seq(ToClient)
  BY DEF TypeOK
<1>2. ASSUME NEW k \in DOMAIN toServer[c], toServer[c][k].type = "request"
      PROVE  toServer[c][k].id \in Ids /\ toServer[c][k].body \in EngineRequestBody
  <2>1. toServer[c][k] \in ToServer
    BY <1>1
  <2> QED
    BY <1>2, <2>1 DEF ToServer
<1>3. ASSUME NEW k \in DOMAIN toClient[c]
      PROVE  toClient[c][k].id \in Ids
  <2>1. toClient[c][k] \in ToClient
    BY <1>1
  <2> QED
    BY <2>1 DEF ToClient
<1> QED
  BY <1>1, <1>2, <1>3

LEMMA AnswersStay ==
  ASSUME NEW c \in Connections, AnswersTrue(c), toClient'[c] = toClient[c],
         \A k \in DOMAIN toClient[c] :
           /\ calls'[c][toClient[c][k].id] = calls[c][toClient[c][k].id]
           /\ served'[c][toClient[c][k].id] = served[c][toClient[c][k].id]
  PROVE  AnswersTrue(c)'
<1>1. ASSUME NEW k \in DOMAIN toClient[c], NEW i, i = toClient[c][k].id
      PROVE  AnswerTrue(c, k, i)'
  <2>1. AnswerTrue(c, k, i)
    BY <1>1 DEF AnswersTrue
  <2>2. calls'[c][i] = calls[c][i] /\ served'[c][i] = served[c][i]
    BY <1>1
  <2> QED
    BY <2>1, <2>2 DEF AnswerTrue
<1> QED
  BY <1>1 DEF AnswersTrue

LEMMA Elsewhere ==
  ASSUME TypeOK, NEW c \in Connections, WireInv(c), SameWire(c)
  PROVE  WireInv(c)'
<1>1. HelloFirst(c)'
  BY DEF WireInv, SameWire, HelloFirst
<1>2. LinesOpen(c)'
  <2>1. LinesOpen(c)
    BY DEF WireInv
  <2>2. \A k \in DOMAIN toServer[c] :
          toServer[c][k].type = "request" => toServer[c][k].id \in Ids
    BY LineIds
  <2>3. /\ toServer'[c] = toServer[c]
        /\ \A i \in Ids : calls'[c][i] = calls[c][i] /\ served'[c][i] = served[c][i]
    BY DEF SameWire
  <2> QED
    BY <2>1, <2>2, <2>3 DEF LinesOpen
<1>3. WorkOpen(c)'
  BY DEF WireInv, SameWire, WorkOpen
<1>4. AnswersTrue(c)'
  <2>1. AnswersTrue(c)
    BY DEF WireInv
  <2>2. \A k \in DOMAIN toClient[c] : toClient[c][k].id \in Ids
    BY LineIds
  <2>3. /\ toClient'[c] = toClient[c]
        /\ \A i \in Ids : calls'[c][i] = calls[c][i] /\ served'[c][i] = served[c][i]
    BY DEF SameWire
  <2> QED
    BY <2>1, <2>2, <2>3, AnswersStay
<1>5. UnderWay(c)'
  BY DEF WireInv, SameWire, UnderWay, Pending
<1> QED
  BY <1>1, <1>2, <1>3, <1>4, <1>5 DEF WireInv

(* ... and where it does. *)

LEMMA RequestKeeps ==
  ASSUME EngineProtocolAssumption, TypeOK, IdsFresh, NEW c \in Connections, WireInv(c),
         NEW body \in bodies[c], request(c, body)
  PROVE  WireInv(c)'
<1> DEFINE id == nextId[c]
           line == Request(id, body)
<1>i. HelloFirst(c) /\ LinesOpen(c) /\ WorkOpen(c) /\ AnswersTrue(c) /\ UnderWay(c)
  BY DEF WireInv
<1>1. /\ id \in Ids /\ line \in ToServer /\ conn[c] # "none"
      /\ line.type = "request" /\ line.id = id /\ line.body = body
      /\ UNCHANGED <<role, served, conn, toClient>>
  <2>1. id \in Ids /\ line \in ToServer /\ UNCHANGED <<role, served, conn, toClient>>
    BY RequestEffect
  <2>2. conn[c] # "none"
    BY DEF request
  <2> QED
    BY <2>1, <2>2 DEF Request
<1>2. calls'[c][id] = [state |-> "open", body |-> body]
  BY RequestEffect
<1>3. \A i \in Ids : i # id => calls'[c][i] = calls[c][i]
  <2>1. \A d \in Connections : \A i \in Ids :
          d # c \/ i # nextId[c] => calls'[d][i] = calls[d][i]
    BY RequestEffect
  <2> QED
    BY <2>1
<1>4. toServer'[c] = IF conn[c] = "open" THEN Append(toServer[c], line) ELSE toServer[c]
  BY RequestEffect
<1>5. calls[c][id] = NoCall /\ served[c][id] = Idle
  <2>1. id \in Nat /\ id >= nextId[c]
    BY <1>1, IdsAreNumbers
  <2> QED
    BY <1>1, <2>1 DEF IdsFresh
<1>6. \A k \in DOMAIN toServer[c] : toServer[c][k].type = "request" => toServer[c][k].id # id
  <2>1. ASSUME NEW k \in DOMAIN toServer[c], toServer[c][k].type = "request",
               toServer[c][k].id = id
        PROVE  FALSE
    <3>1. calls[c][id] = [state |-> "open", body |-> toServer[c][k].body]
      BY <1>i, <2>1 DEF LinesOpen
    <3> QED
      BY <1>5, <3>1 DEF NoCall
  <2> QED
    BY <2>1
<1>7. \A k \in DOMAIN toClient[c] : toClient[c][k].id # id
  <2>1. ASSUME NEW k \in DOMAIN toClient[c], toClient[c][k].id = id
        PROVE  FALSE
    <3>1. calls[c][id].state = "open"
      BY <1>i, <2>1 DEF AnswersTrue, AnswerTrue
    <3> QED
      BY <1>5, <3>1 DEF NoCall
  <2> QED
    BY <2>1
<1>8. /\ \A k \in DOMAIN toServer[c] : k \in DOMAIN toServer'[c] /\ toServer'[c][k] = toServer[c][k]
      /\ \A k \in DOMAIN toServer'[c] :
           \/ k \in DOMAIN toServer[c]
           \/ k = Len(toServer[c]) + 1 /\ conn[c] = "open" /\ toServer'[c][k] = line
      /\ conn[c] = "open" =>
           Len(toServer[c]) + 1 \in DOMAIN toServer'[c]
             /\ toServer'[c][Len(toServer[c]) + 1] = line
  <2>1. toServer[c] \in Seq(ToServer)
    BY LineIds
  <2> HIDE DEF line
  <2> QED
    BY <1>1, <1>4, <2>1, Positions
<1>t. toServer[c] \in Seq(ToServer) /\ Len(toServer[c]) \in Nat
      /\ (toServer[c] # <<>> => 1 \in DOMAIN toServer[c] /\ Len(toServer[c]) + 1 # 1)
  BY LineIds
<1> HIDE DEF line, id
<1>9. HelloFirst(c)'
  <2>1. ASSUME NEW k \in DOMAIN toServer'[c]
        PROVE  /\ toServer'[c][k].type = "hello" <=> k = 1 /\ role[c] = "null"
               /\ toServer'[c][k].type = "hello" => toServer'[c][k].role = Role[c]
    <3>1. CASE k \in DOMAIN toServer[c]
      BY <1>i, <1>8, <3>1 DEF HelloFirst
    <3>2. CASE k = Len(toServer[c]) + 1 /\ conn[c] = "open" /\ toServer'[c][k] = line
      <4>1. role[c] = "null" => k # 1
        BY <1>i, <1>t, <3>2 DEF HelloFirst
      <4> QED
        BY <1>1, <3>2, <4>1
    <3> QED
      BY <1>8, <3>1, <3>2
  <2>2. conn[c] = "open" => toServer'[c] # <<>>
    BY <1>8
  <2> QED
    BY <1>i, <1>1, <2>1, <2>2 DEF HelloFirst
<1>10. LinesOpen(c)'
  <2> SUFFICES ASSUME NEW k \in DOMAIN toServer'[c], toServer'[c][k].type = "request"
               PROVE  /\ calls'[c][toServer'[c][k].id] =
                           [state |-> "open", body |-> toServer'[c][k].body]
                      /\ served'[c][toServer'[c][k].id] = Idle
                      /\ \A l \in DOMAIN toServer'[c] :
                           toServer'[c][l].type = "request"
                             /\ toServer'[c][l].id = toServer'[c][k].id => l = k
    BY DEF LinesOpen
  <2>1. CASE k \in DOMAIN toServer[c]
    <3>1. /\ toServer'[c][k] = toServer[c][k] /\ toServer[c][k].type = "request"
          /\ toServer[c][k].id \in Ids
      BY <1>8, <2>1, LineIds
    <3>2. toServer[c][k].id # id
      BY <1>6, <2>1, <3>1
    <3>3. /\ calls[c][toServer[c][k].id] = [state |-> "open", body |-> toServer[c][k].body]
          /\ served[c][toServer[c][k].id] = Idle
          /\ \A l \in DOMAIN toServer[c] :
               toServer[c][l].type = "request" /\ toServer[c][l].id = toServer[c][k].id => l = k
      BY <1>i, <2>1, <3>1 DEF LinesOpen
    <3>4. calls'[c][toServer[c][k].id] = calls[c][toServer[c][k].id]
      BY <1>3, <3>1, <3>2
    <3>5. \A l \in DOMAIN toServer'[c] :
            toServer'[c][l].type = "request" /\ toServer'[c][l].id = toServer[c][k].id => l = k
      BY <1>1, <1>8, <3>2, <3>3
    <3> QED
      BY <1>1, <3>1, <3>3, <3>4, <3>5
  <2>2. CASE k \notin DOMAIN toServer[c]
    <3>1. toServer'[c][k] = line /\ k = Len(toServer[c]) + 1
      BY <1>8, <2>2
    <3>2. \A l \in DOMAIN toServer'[c] :
            toServer'[c][l].type = "request" /\ toServer'[c][l].id = id => l = k
      BY <1>6, <1>8, <3>1
    <3> QED
      BY <1>1, <1>2, <1>5, <3>1, <3>2
  <2> QED
    BY <2>1, <2>2
<1>11. WorkOpen(c)'
  BY <1>i, <1>1, <1>3, <1>5 DEF WorkOpen, Idle
<1>12. AnswersTrue(c)'
  <2>1. \A k \in DOMAIN toClient[c] :
          calls'[c][toClient[c][k].id] = calls[c][toClient[c][k].id]
    BY <1>3, <1>7, LineIds
  <2> QED
    BY <1>i, <1>1, <2>1, AnswersStay
<1>13. UnderWay(c)'
  BY <1>i, <1>1, <1>3, <1>8 DEF UnderWay, Pending
<1> QED
  BY <1>9, <1>10, <1>11, <1>12, <1>13 DEF WireInv

\* The end of a queue, and a queue one line longer, by position.
LEMMA TailLines ==
  ASSUME NEW S, NEW s \in Seq(S), s # <<>>
  PROVE  /\ 1 \in DOMAIN s
         /\ \A k \in DOMAIN Tail(s) : /\ k + 1 \in DOMAIN s /\ Tail(s)[k] = s[k + 1]
                                      /\ k \in Nat /\ k + 1 # 1
         /\ \A k \in DOMAIN s :
              k = 1 \/ \E l \in DOMAIN Tail(s) : l + 1 = k /\ Tail(s)[l] = s[k]
<1>1. ASSUME NEW k \in DOMAIN s, k # 1
      PROVE  k - 1 \in DOMAIN Tail(s) /\ (k - 1) + 1 = k /\ Tail(s)[k - 1] = s[k]
  BY <1>1
<1>2. /\ 1 \in DOMAIN s
      /\ \A k \in DOMAIN Tail(s) : /\ k + 1 \in DOMAIN s /\ Tail(s)[k] = s[k + 1]
                                   /\ k \in Nat /\ k + 1 # 1
  OBVIOUS
<1> QED
  BY <1>1, <1>2

LEMMA AppendLines ==
  ASSUME NEW S, NEW s \in Seq(S), NEW e \in S
  PROVE  /\ \A k \in DOMAIN s : k \in DOMAIN Append(s, e) /\ Append(s, e)[k] = s[k]
         /\ Len(s) + 1 \in DOMAIN Append(s, e) /\ Append(s, e)[Len(s) + 1] = e
         /\ \A k \in DOMAIN Append(s, e) : k \in DOMAIN s \/ k = Len(s) + 1
         /\ Len(s) + 1 \notin DOMAIN s
OBVIOUS

LEMMA ResponseKeeps ==
  ASSUME TypeOK, NEW c \in Connections, WireInv(c), onResponse(c)
  PROVE  WireInv(c)'
<1> DEFINE id == toClient[c][1].id
<1>i. HelloFirst(c) /\ LinesOpen(c) /\ WorkOpen(c) /\ AnswersTrue(c) /\ UnderWay(c)
  BY DEF WireInv
<1>1. toClient[c] \in Seq(ToClient) /\ toClient[c] # <<>> /\ toClient'[c] = Tail(toClient[c])
  BY ResponseEffect
<1>2. /\ 1 \in DOMAIN toClient[c]
      /\ \A k \in DOMAIN toClient'[c] : /\ k + 1 \in DOMAIN toClient[c]
                                        /\ toClient'[c][k] = toClient[c][k + 1]
                                        /\ k \in Nat /\ k + 1 # 1
      /\ \A k \in DOMAIN toClient[c] :
           k = 1 \/ \E l \in DOMAIN toClient'[c] :
                      l + 1 = k /\ toClient'[c][l] = toClient[c][k]
  BY <1>1, TailLines
<1>3. /\ calls[c][id].state = "open" /\ served[c][id].state = "answered"
      /\ \A l \in DOMAIN toClient[c] : toClient[c][l].id = id => l = 1
  BY <1>i, <1>2 DEF AnswersTrue, AnswerTrue
<1>4. /\ id \in Ids
      /\ UNCHANGED <<role, served, conn, toServer>>
  BY ResponseEffect
<1>5. \A i \in Ids : i # id => calls'[c][i] = calls[c][i]
  <2>1. \A d \in Connections : \A i \in Ids :
          d # c \/ i # toClient[c][1].id => calls'[d][i] = calls[d][i]
    BY ResponseEffect
  <2> QED
    BY <2>1
<1>6. calls'[c][id].state = "returned"
  <2>1. calls'[c][id] = IF Pending(c, id)
                        THEN [state |-> "returned", body |-> calls[c][id].body,
                              answer |-> toClient[c][1].answer]
                        ELSE calls[c][id]
    BY ResponseEffect
  <2> QED
    BY <1>3, <2>1 DEF Pending
<1> HIDE DEF id
<1>7. HelloFirst(c)'
  BY <1>i, <1>4 DEF HelloFirst
<1>8. LinesOpen(c)'
  <2>1. \A k \in DOMAIN toServer[c] : toServer[c][k].type = "request" =>
          toServer[c][k].id # id /\ toServer[c][k].id \in Ids
    <3>1. \A k \in DOMAIN toServer[c] : toServer[c][k].type = "request" =>
            served[c][toServer[c][k].id] = Idle /\ toServer[c][k].id \in Ids
      BY <1>i, LineIds DEF LinesOpen
    <3>2. served[c][id] # Idle
      BY <1>3 DEF Idle
    <3> QED
      BY <3>1, <3>2
  <2> QED
    BY <1>i, <1>4, <1>5, <2>1 DEF LinesOpen
<1>9. WorkOpen(c)'
  <2>1. \A i \in Ids : served[c][i].state = "running" => i # id
    BY <1>3
  <2> QED
    BY <1>i, <1>4, <1>5, <2>1 DEF WorkOpen
<1>10. AnswersTrue(c)'
  <2> SUFFICES ASSUME NEW k \in DOMAIN toClient'[c],
                      NEW i, i = toClient'[c][k].id
               PROVE  /\ calls'[c][i].state = "open"
                      /\ served'[c][i].state = "answered"
                      /\ toClient'[c][k].answer =
                           [seen |-> served'[c][i].seen, error |-> served'[c][i].error]
                      /\ \/ served'[c][i].error # "none"
                         \/ Complete(calls'[c][i].body, served'[c][i].seen)
                      /\ \A l \in DOMAIN toClient'[c] : toClient'[c][l].id = i => l = k
    BY DEF AnswersTrue, AnswerTrue
  <2>1. /\ k + 1 \in DOMAIN toClient[c] /\ toClient'[c][k] = toClient[c][k + 1]
        /\ k \in Nat /\ k + 1 # 1 /\ i = toClient[c][k + 1].id
    BY <1>2
  <2>2. i # id /\ i \in Ids
    BY <1>3, <2>1, LineIds
  <2>3. /\ calls[c][i].state = "open"
        /\ served[c][i].state = "answered"
        /\ toClient[c][k + 1].answer = [seen |-> served[c][i].seen, error |-> served[c][i].error]
        /\ served[c][i].error # "none" \/ Complete(calls[c][i].body, served[c][i].seen)
        /\ \A l \in DOMAIN toClient[c] : toClient[c][l].id = i => l = k + 1
    <3>1. AnswerTrue(c, k + 1, i)
      BY <1>i, <2>1 DEF AnswersTrue
    <3> QED
      BY <3>1 DEF AnswerTrue
  <2>4. ASSUME NEW l \in DOMAIN toClient'[c], toClient'[c][l].id = i
        PROVE  l = k
    <3>1. l \in Nat /\ l + 1 \in DOMAIN toClient[c] /\ toClient[c][l + 1].id = i
      BY <1>2, <2>4
    <3>2. l + 1 = k + 1
      BY <2>3, <3>1
    <3> QED
      BY <2>1, <3>1, <3>2
  <2> QED
    BY <1>4, <1>5, <2>1, <2>2, <2>3, <2>4
<1>11. UnderWay(c)'
  <2> SUFFICES ASSUME NEW i \in Ids, Pending(c, i)'
               PROVE  /\ conn'[c] # "none"
                      /\ conn'[c] = "open" =>
                           \/ served'[c][i].state = "running"
                           \/ \E k \in DOMAIN toServer'[c] :
                                toServer'[c][k].type = "request" /\ toServer'[c][k].id = i
                           \/ \E k \in DOMAIN toClient'[c] : toClient'[c][k].id = i
    BY DEF UnderWay
  <2>1. i # id /\ Pending(c, i)
    BY <1>5, <1>6 DEF Pending
  <2>2. ASSUME NEW k \in DOMAIN toClient[c], toClient[c][k].id = i
        PROVE  \E l \in DOMAIN toClient'[c] : toClient'[c][l].id = i
    <3>1. k # 1
      BY <2>1, <2>2 DEF id
    <3> QED
      BY <1>2, <2>2, <3>1
  <2> QED
    BY <1>i, <1>4, <2>1, <2>2 DEF UnderWay
<1> QED
  BY <1>7, <1>8, <1>9, <1>10, <1>11 DEF WireInv

\* What is left to read when the engine has taken a line.
LEMMA LinesLeft ==
  ASSUME TypeOK, NEW c \in Connections, NEW type, Received(c, type)
  PROVE  /\ 1 \in DOMAIN toServer[c] /\ toServer[c] # <<>> /\ toServer[c][1].type = type
         /\ \A k \in DOMAIN toServer'[c] : /\ k + 1 \in DOMAIN toServer[c]
                                           /\ toServer'[c][k] = toServer[c][k + 1]
                                           /\ k \in Nat /\ k + 1 # 1
         /\ \A k \in DOMAIN toServer[c] :
              k = 1 \/ \E l \in DOMAIN toServer'[c] :
                         l + 1 = k /\ toServer'[c][l] = toServer[c][k]
<1>1. /\ toServer[c] \in Seq(ToServer) /\ toServer[c] # <<>>
      /\ toServer'[c] = Tail(toServer[c]) /\ toServer[c][1].type = type
  BY ReceivedEffect
<1> QED
  BY <1>1, TailLines

\* Of those lines the engine knows the sender's role.
LEMMA RequestsLeft ==
  ASSUME TypeOK, NEW c \in Connections, NEW type, Received(c, type), HelloFirst(c),
         role'[c] = Role[c], Role[c] # "null", conn'[c] = conn[c]
  PROVE  HelloFirst(c)'
<1>1. /\ toServer[c] # <<>>
      /\ \A k \in DOMAIN toServer'[c] : /\ k + 1 \in DOMAIN toServer[c]
                                        /\ toServer'[c][k] = toServer[c][k + 1]
                                        /\ k \in Nat /\ k + 1 # 1
  BY LinesLeft
<1>2. conn'[c] # "none"
  BY <1>1 DEF HelloFirst
<1>3. \A k \in DOMAIN toServer'[c] : toServer'[c][k].type # "hello"
  <2>1. \A k \in DOMAIN toServer[c] : k # 1 => toServer[c][k].type # "hello"
    BY DEF HelloFirst
  <2> QED
    BY <1>1, <2>1
<1> QED
  BY <1>2, <1>3 DEF HelloFirst

LEMMA HelloKeeps ==
  ASSUME EngineProtocolAssumption, TypeOK, NEW c \in Connections, WireInv(c), handleHello(c)
  PROVE  WireInv(c)'
<1>i. HelloFirst(c) /\ LinesOpen(c) /\ WorkOpen(c) /\ AnswersTrue(c) /\ UnderWay(c)
  BY DEF WireInv
<1>1. Received(c, "hello")
  BY DEF handleHello
<1>2. UNCHANGED <<served, conn, calls, toClient>>
  BY <1>1 DEF handleHello, Received, clientVars
<1>3. /\ 1 \in DOMAIN toServer[c] /\ toServer[c][1].type = "hello"
      /\ \A k \in DOMAIN toServer'[c] : /\ k + 1 \in DOMAIN toServer[c]
                                        /\ toServer'[c][k] = toServer[c][k + 1]
                                        /\ k \in Nat /\ k + 1 # 1
      /\ \A k \in DOMAIN toServer[c] :
           k = 1 \/ \E l \in DOMAIN toServer'[c] :
                      l + 1 = k /\ toServer'[c][l] = toServer[c][k]
  BY <1>1, LinesLeft
<1>4. role'[c] = Role[c] /\ Role[c] # "null"
  <2>1. Head(toServer[c]) = toServer[c][1]
    BY <1>1, ReceivedEffect
  <2>2. role'[c] = toServer[c][1].role
    BY <2>1 DEF handleHello, TypeOK
  <2>3. toServer[c][1].role = Role[c]
    BY <1>i, <1>3 DEF HelloFirst
  <2> QED
    BY <2>2, <2>3 DEF EngineProtocolAssumption
<1>5. HelloFirst(c)'
  BY <1>i, <1>1, <1>2, <1>4, RequestsLeft
<1>6. LinesOpen(c)'
  <2> SUFFICES ASSUME NEW k \in DOMAIN toServer'[c], toServer'[c][k].type = "request"
               PROVE  /\ calls'[c][toServer'[c][k].id] =
                           [state |-> "open", body |-> toServer'[c][k].body]
                      /\ served'[c][toServer'[c][k].id] = Idle
                      /\ \A l \in DOMAIN toServer'[c] :
                           toServer'[c][l].type = "request"
                             /\ toServer'[c][l].id = toServer'[c][k].id => l = k
    BY DEF LinesOpen
  <2>1. /\ k + 1 \in DOMAIN toServer[c] /\ toServer'[c][k] = toServer[c][k + 1] /\ k \in Nat
    BY <1>3
  <2>2. /\ calls[c][toServer[c][k + 1].id] =
             [state |-> "open", body |-> toServer[c][k + 1].body]
        /\ served[c][toServer[c][k + 1].id] = Idle
        /\ \A l \in DOMAIN toServer[c] :
             toServer[c][l].type = "request"
               /\ toServer[c][l].id = toServer[c][k + 1].id => l = k + 1
    BY <1>i, <2>1 DEF LinesOpen
  <2>3. ASSUME NEW l \in DOMAIN toServer'[c], toServer'[c][l].type = "request",
               toServer'[c][l].id = toServer'[c][k].id
        PROVE  l = k
    <3>1. l \in Nat /\ l + 1 = k + 1
      BY <1>3, <2>1, <2>2, <2>3
    <3> QED
      BY <2>1, <3>1
  <2> QED
    BY <1>2, <2>1, <2>2, <2>3
<1>7. WorkOpen(c)' /\ AnswersTrue(c)'
  BY <1>i, <1>2 DEF WorkOpen, AnswersTrue, AnswerTrue
<1>8. UnderWay(c)'
  <2>1. \A k \in DOMAIN toServer[c] : toServer[c][k].type = "request" =>
          \E l \in DOMAIN toServer'[c] : toServer'[c][l] = toServer[c][k]
    BY <1>3
  <2> QED
    BY <1>i, <1>2, <2>1 DEF UnderWay, Pending
<1> QED
  BY <1>5, <1>6, <1>7, <1>8 DEF WireInv

\* An answer goes out for what the engine has done with a request.
LEMMA AnswerSent ==
  ASSUME TypeOK, NEW c \in Connections, WireInv(c),
         NEW id \in Ids, calls[c][id].state = "open", UNCHANGED calls,
         served[c][id].state # "answered", served'[c][id].state = "answered",
         \A i \in Ids : i # id => served'[c][i] = served[c][i],
         served'[c][id].error # "none" \/ Complete(calls[c][id].body, served'[c][id].seen),
         NEW line \in ToClient, line.id = id,
         line.answer = [seen |-> served'[c][id].seen, error |-> served'[c][id].error],
         toClient'[c] = IF conn[c] = "open" THEN Append(toClient[c], line) ELSE toClient[c]
  PROVE  /\ AnswersTrue(c)'
         /\ conn[c] = "open" => \E k \in DOMAIN toClient'[c] : toClient'[c][k].id = id
         /\ \A k \in DOMAIN toClient[c] :
              k \in DOMAIN toClient'[c] /\ toClient'[c][k] = toClient[c][k]
<1>i. AnswersTrue(c)
  BY DEF WireInv
<1>1. \A k \in DOMAIN toClient[c] : toClient[c][k].id # id /\ toClient[c][k].id \in Ids
  <2>1. \A k \in DOMAIN toClient[c] : served[c][toClient[c][k].id].state = "answered"
    BY <1>i DEF AnswersTrue, AnswerTrue
  <2> QED
    BY <2>1, LineIds
<1>2. CASE conn[c] # "open"
  <2>1. toClient'[c] = toClient[c]
    BY <1>2
  <2>2. \A k \in DOMAIN toClient[c] :
          /\ calls'[c][toClient[c][k].id] = calls[c][toClient[c][k].id]
          /\ served'[c][toClient[c][k].id] = served[c][toClient[c][k].id]
    BY <1>1
  <2>3. AnswersTrue(c)'
    BY <1>i, <2>1, <2>2, AnswersStay
  <2> QED
    BY <1>2, <2>1, <2>3
<1>3. CASE conn[c] = "open"
  <2>1. /\ \A k \in DOMAIN toClient[c] :
             k \in DOMAIN toClient'[c] /\ toClient'[c][k] = toClient[c][k]
        /\ \A k \in DOMAIN toClient'[c] : k \in DOMAIN toClient[c] \/ k = Len(toClient[c]) + 1
        /\ Len(toClient[c]) + 1 \in DOMAIN toClient'[c]
        /\ toClient'[c][Len(toClient[c]) + 1] = line
        /\ Len(toClient[c]) + 1 \notin DOMAIN toClient[c]
    <3>1. toClient[c] \in Seq(ToClient) /\ toClient'[c] = Append(toClient[c], line)
      BY <1>3, LineIds
    <3> QED
      BY <3>1, AppendLines
  <2>2. AnswersTrue(c)'
    <3> SUFFICES ASSUME NEW k \in DOMAIN toClient'[c], NEW i, i = toClient'[c][k].id
                 PROVE  AnswerTrue(c, k, i)'
      BY DEF AnswersTrue
    <3>1. CASE k \in DOMAIN toClient[c]
      <4>1. i = toClient[c][k].id /\ i \in Ids /\ i # id
        BY <1>1, <2>1, <3>1
      <4>2. /\ calls[c][i].state = "open"
            /\ served[c][i].state = "answered"
            /\ toClient[c][k].answer = [seen |-> served[c][i].seen, error |-> served[c][i].error]
            /\ served[c][i].error # "none" \/ Complete(calls[c][i].body, served[c][i].seen)
            /\ \A l \in DOMAIN toClient[c] : toClient[c][l].id = i => l = k
        <5>1. AnswerTrue(c, k, i)
          BY <1>i, <3>1, <4>1 DEF AnswersTrue
        <5> QED
          BY <5>1 DEF AnswerTrue
      <4>3. \A l \in DOMAIN toClient'[c] : toClient'[c][l].id = i => l = k
        BY <2>1, <4>1, <4>2
      <4>4. served'[c][i] = served[c][i] /\ calls'[c][i] = calls[c][i]
            /\ toClient'[c][k] = toClient[c][k]
        BY <2>1, <3>1, <4>1
      <4> QED
        BY <4>2, <4>3, <4>4 DEF AnswerTrue
    <3>2. CASE k \notin DOMAIN toClient[c]
      <4>1. toClient'[c][k] = line /\ k = Len(toClient[c]) + 1 /\ i = id
        BY <2>1, <3>2
      <4>2. \A l \in DOMAIN toClient'[c] : toClient'[c][l].id = i => l = k
        BY <1>1, <2>1, <4>1
      <4> QED
        BY <4>1, <4>2 DEF AnswerTrue
    <3> QED
      BY <3>1, <3>2
  <2> QED
    BY <2>1, <2>2
<1> QED
  BY <1>2, <1>3

LEMMA HandleKeeps ==
  ASSUME EngineProtocolAssumption, TypeOK, NEW c \in Connections, WireInv(c), handleRequest(c)
  PROVE  WireInv(c)'
<1> DEFINE id == ReadId(c)
           body == ReadBody(c)
<1>i. HelloFirst(c) /\ LinesOpen(c) /\ WorkOpen(c) /\ AnswersTrue(c) /\ UnderWay(c)
  BY DEF WireInv
<1>1. Received(c, "request")
  BY DEF handleRequest
<1>2. UNCHANGED <<role, conn, calls>>
  BY <1>1 DEF handleRequest, Received, clientVars
<1>3. /\ 1 \in DOMAIN toServer[c] /\ toServer[c][1].type = "request"
      /\ \A k \in DOMAIN toServer'[c] : /\ k + 1 \in DOMAIN toServer[c]
                                        /\ toServer'[c][k] = toServer[c][k + 1]
                                        /\ k \in Nat /\ k + 1 # 1
      /\ \A k \in DOMAIN toServer[c] :
           k = 1 \/ \E l \in DOMAIN toServer'[c] :
                      l + 1 = k /\ toServer'[c][l] = toServer[c][k]
  BY <1>1, LinesLeft
<1>4. role[c] = Role[c] /\ Role[c] \in {"reader", "writer"}
  BY <1>i, <1>3 DEF HelloFirst, EngineProtocolAssumption
<1>5. /\ calls[c][id] = [state |-> "open", body |-> body]
      /\ served[c][id] = Idle
      /\ \A k \in DOMAIN toServer[c] :
           toServer[c][k].type = "request" /\ toServer[c][k].id = id => k = 1
  BY <1>i, <1>1, FrontLine
<1>6. id \in Ids /\ body \in EngineRequestBody
  BY HandleEffect
<1>7. \A i \in Ids : i # id => served'[c][i] = served[c][i]
  <2>1. \A d \in Connections : \A i \in Ids :
          d # c \/ i # ReadId(c) => served'[d][i] = served[d][i]
    BY HandleEffect
  <2> QED
    BY <2>1
<1>8. \/ /\ Refusal(c) # "none"
         /\ served'[c][id] = [Idle EXCEPT !.state = "answered", !.error = Refusal(c)]
         /\ RefusalLine(c) \in ToClient
         /\ toClient'[c] = IF conn[c] = "open"
                           THEN Append(toClient[c], RefusalLine(c)) ELSE toClient[c]
      \/ /\ Refusal(c) = "none"
         /\ served'[c][id] = DispatchOf(body)
         /\ toClient'[c] = toClient[c]
  BY HandleEffect
<1>l. RefusalLine(c).id = id
      /\ RefusalLine(c).answer = [seen |-> NothingSeen, error |-> Refusal(c)]
  BY DEF RefusalLine
<1>b. Refusal(c) = RefusalOf(c, body)
  BY DEF Refusal
<1>a. Refusal(c) # "none" =>
        /\ AnswersTrue(c)'
        /\ conn[c] = "open" => \E k \in DOMAIN toClient'[c] : toClient'[c][k].id = id
        /\ \A k \in DOMAIN toClient[c] :
             k \in DOMAIN toClient'[c] /\ toClient'[c][k] = toClient[c][k]
  <2> SUFFICES ASSUME Refusal(c) # "none"
               PROVE  /\ AnswersTrue(c)'
                      /\ conn[c] = "open" =>
                           \E k \in DOMAIN toClient'[c] : toClient'[c][k].id = id
                      /\ \A k \in DOMAIN toClient[c] :
                           k \in DOMAIN toClient'[c] /\ toClient'[c][k] = toClient[c][k]
    OBVIOUS
  <2> HIDE DEF id, body
  <2>1. /\ served'[c][id].state = "answered" /\ served'[c][id].error = Refusal(c)
        /\ served'[c][id].seen = NothingSeen /\ RefusalLine(c) \in ToClient
    BY <1>8 DEF Idle
  <2>2. calls[c][id].state = "open" /\ served[c][id].state # "answered"
    BY <1>5 DEF Idle
  <2>3. toClient'[c] = IF conn[c] = "open"
                       THEN Append(toClient[c], RefusalLine(c)) ELSE toClient[c]
    BY <1>8
  <2>4. RefusalLine(c).answer = [seen |-> served'[c][id].seen, error |-> served'[c][id].error]
    BY <1>l, <2>1
  <2>5. served'[c][id].error # "none" \/ Complete(calls[c][id].body, served'[c][id].seen)
    BY <2>1
  <2>6. id \in Ids /\ calls' = calls /\ RefusalLine(c).id = id
        /\ RefusalLine(c) \in ToClient
    BY <1>i, <1>2, <1>6, <1>l, <2>1
  <2> HIDE DEF id, body
  <2> QED
    BY <1>7, <2>1, <2>2, <2>3, <2>4, <2>5, <2>6, AnswerSent
<1>c. \A k \in DOMAIN toClient[c] : toClient[c][k].id # id /\ toClient[c][k].id \in Ids
  <2>1. \A k \in DOMAIN toClient[c] : served[c][toClient[c][k].id].state = "answered"
    BY <1>i DEF AnswersTrue, AnswerTrue
  <2>2. served[c][id].state # "answered"
    BY <1>5 DEF Idle
  <2> QED
    BY <2>1, <2>2, LineIds
<1> HIDE DEF id, body
<1>9. HelloFirst(c)'
  BY <1>i, <1>1, <1>2, <1>4, RequestsLeft
<1>10. LinesOpen(c)'
  <2> SUFFICES ASSUME NEW k \in DOMAIN toServer'[c], toServer'[c][k].type = "request"
               PROVE  /\ calls'[c][toServer'[c][k].id] =
                           [state |-> "open", body |-> toServer'[c][k].body]
                      /\ served'[c][toServer'[c][k].id] = Idle
                      /\ \A l \in DOMAIN toServer'[c] :
                           toServer'[c][l].type = "request"
                             /\ toServer'[c][l].id = toServer'[c][k].id => l = k
    BY DEF LinesOpen
  <2>1. /\ k + 1 \in DOMAIN toServer[c] /\ toServer'[c][k] = toServer[c][k + 1]
        /\ k \in Nat /\ k + 1 # 1
    BY <1>3
  <2>2. /\ calls[c][toServer[c][k + 1].id] =
             [state |-> "open", body |-> toServer[c][k + 1].body]
        /\ served[c][toServer[c][k + 1].id] = Idle
        /\ \A l \in DOMAIN toServer[c] :
             toServer[c][l].type = "request"
               /\ toServer[c][l].id = toServer[c][k + 1].id => l = k + 1
    BY <1>i, <2>1 DEF LinesOpen
  <2>3. ASSUME NEW l \in DOMAIN toServer'[c], toServer'[c][l].type = "request",
               toServer'[c][l].id = toServer'[c][k].id
        PROVE  l = k
    <3>1. l \in Nat /\ l + 1 = k + 1
      BY <1>3, <2>1, <2>2, <2>3
    <3> QED
      BY <2>1, <3>1
  <2>4. toServer[c][k + 1].id # id /\ toServer[c][k + 1].id \in Ids
    BY <1>5, <2>1, LineIds
  <2> QED
    BY <1>2, <1>7, <2>1, <2>2, <2>3, <2>4
<1>11. WorkOpen(c)'
  <2>1. ASSUME served'[c][id].state = "running"
        PROVE  /\ calls'[c][id] = [state |-> "open", body |-> served'[c][id].body]
               /\ DOMAIN served'[c][id].seen \subseteq UNION Statements(served'[c][id].body)
               /\ served'[c][id].body.type \in WritingOps => Role[c] = "writer"
    <3>1. Refusal(c) = "none" /\ served'[c][id] = DispatchOf(body)
      BY <1>8, <2>1 DEF Idle
    <3>2. served'[c][id].body = body /\ served'[c][id].seen = NothingSeen
      BY <3>1 DEF DispatchOf, Idle
    <3>3. body.type \in WritingOps => Role[c] = "writer"
      BY <1>4, <1>b, <3>1 DEF RefusalOf, WRITE_REQUEST_TYPES, WritingOps
    <3>4. DOMAIN NothingSeen = {}
      BY DEF NothingSeen
    <3> QED
      BY <1>2, <1>5, <3>2, <3>3, <3>4
  <2> QED
    BY <1>i, <1>2, <1>7, <2>1 DEF WorkOpen
<1>12. AnswersTrue(c)'
  <2>1. CASE toClient'[c] = toClient[c]
    <3>1. \A k \in DOMAIN toClient[c] :
            /\ calls'[c][toClient[c][k].id] = calls[c][toClient[c][k].id]
            /\ served'[c][toClient[c][k].id] = served[c][toClient[c][k].id]
      BY <1>2, <1>7, <1>c
    <3> QED
      BY <1>i, <2>1, <3>1, AnswersStay
  <2> QED
    BY <1>8, <1>a, <2>1
<1>13. UnderWay(c)'
  <2> SUFFICES ASSUME NEW i \in Ids, Pending(c, i)'
               PROVE  /\ conn'[c] # "none"
                      /\ conn'[c] = "open" =>
                           \/ served'[c][i].state = "running"
                           \/ \E k \in DOMAIN toServer'[c] :
                                toServer'[c][k].type = "request" /\ toServer'[c][k].id = i
                           \/ \E k \in DOMAIN toClient'[c] : toClient'[c][k].id = i
    BY DEF UnderWay
  <2>1. Pending(c, i)
    BY <1>2 DEF Pending
  <2>2. CASE i = id
    <3>1. CASE Refusal(c) = "none"
      BY <1>i, <1>2, <1>8, <2>1, <2>2, <3>1 DEF UnderWay, DispatchOf, Idle
    <3>2. CASE Refusal(c) # "none"
      BY <1>i, <1>2, <1>a, <2>1, <2>2, <3>2 DEF UnderWay
    <3> QED
      BY <3>1, <3>2
  <2>3. CASE i # id
    <3>1. ASSUME NEW k \in DOMAIN toServer[c],
                 toServer[c][k].type = "request", toServer[c][k].id = i
          PROVE  \E l \in DOMAIN toServer'[c] :
                   toServer'[c][l].type = "request" /\ toServer'[c][l].id = i
      <4>1. k # 1
        BY <2>3, <3>1 DEF id, ReadId
      <4> QED
        BY <1>3, <3>1, <4>1
    <3>2. ASSUME NEW k \in DOMAIN toClient[c], toClient[c][k].id = i
          PROVE  \E l \in DOMAIN toClient'[c] : toClient'[c][l].id = i
      BY <1>8, <1>a, <3>2
    <3> QED
      BY <1>i, <1>2, <1>7, <2>1, <2>3, <3>1, <3>2 DEF UnderWay
  <2> QED
    BY <2>2, <2>3
<1> QED
  BY <1>9, <1>10, <1>11, <1>12, <1>13 DEF WireInv

\* The engine's work on a request touches no line but its answer.
LEMMA WorkApart ==
  ASSUME TypeOK, NEW c \in Connections, WireInv(c),
         NEW id \in Ids, served[c][id].state = "running"
  PROVE  /\ \A k \in DOMAIN toServer[c] : toServer[c][k].type = "request" =>
              toServer[c][k].id # id /\ toServer[c][k].id \in Ids
         /\ \A k \in DOMAIN toClient[c] :
              toClient[c][k].id # id /\ toClient[c][k].id \in Ids
<1>1. \A k \in DOMAIN toServer[c] : toServer[c][k].type = "request" =>
        served[c][toServer[c][k].id] = Idle
  BY DEF WireInv, LinesOpen
<1>2. \A k \in DOMAIN toClient[c] : served[c][toClient[c][k].id].state = "answered"
  BY DEF WireInv, AnswersTrue, AnswerTrue
<1>3. served[c][id] # Idle /\ served[c][id].state # "answered"
  BY DEF Idle
<1> QED
  BY <1>1, <1>2, <1>3, LineIds

LEMMA StatementKeeps ==
  ASSUME TypeOK, NEW c \in Connections, WireInv(c), NEW id \in Ids,
         NEW chains \in SUBSET knownChainIds,
         runStatement(c, id, chains) \/ statementFails(c, id, chains)
  PROVE  WireInv(c)'
<1>i. HelloFirst(c) /\ LinesOpen(c) /\ WorkOpen(c) /\ AnswersTrue(c) /\ UnderWay(c)
  BY DEF WireInv
<1>1. UNCHANGED <<role, conn, calls, toServer, toClient>>
  BY StatementEffect
<1>2. /\ served[c][id].state = "running" /\ chains \in Statements(served[c][id].body)
      /\ served'[c][id].state = "running" /\ served'[c][id].body = served[c][id].body
  BY StatementEffect
<1>3. DOMAIN served'[c][id].seen \subseteq DOMAIN served[c][id].seen \cup chains
  <2>1. \/ \E value : served'[c][id].seen = Add(served[c][id].seen, chains, value)
        \/ served'[c][id].seen = served[c][id].seen
    BY StatementEffect
  <2> QED
    BY <2>1 DEF Add
<1>4. \A i \in Ids : i # id => served'[c][i] = served[c][i]
  <2>1. \A d \in Connections : \A i \in Ids : d # c \/ i # id => served'[d][i] = served[d][i]
    BY StatementEffect
  <2> QED
    BY <2>1
<1>5. /\ \A k \in DOMAIN toServer[c] : toServer[c][k].type = "request" =>
           toServer[c][k].id # id /\ toServer[c][k].id \in Ids
      /\ \A k \in DOMAIN toClient[c] :
           toClient[c][k].id # id /\ toClient[c][k].id \in Ids
  BY <1>2, WorkApart
<1>6. HelloFirst(c)'
  BY <1>i, <1>1 DEF HelloFirst
<1>7. LinesOpen(c)'
  BY <1>i, <1>1, <1>4, <1>5 DEF LinesOpen
<1>8. WorkOpen(c)'
  <2>1. /\ calls'[c][id] = [state |-> "open", body |-> served'[c][id].body]
        /\ DOMAIN served'[c][id].seen \subseteq UNION Statements(served'[c][id].body)
        /\ served'[c][id].body.type \in WritingOps => Role[c] = "writer"
    BY <1>i, <1>1, <1>2, <1>3 DEF WorkOpen
  <2> QED
    BY <1>i, <1>1, <1>4, <2>1 DEF WorkOpen
<1>9. AnswersTrue(c)'
  <2>1. \A k \in DOMAIN toClient[c] :
          served'[c][toClient[c][k].id] = served[c][toClient[c][k].id]
    BY <1>4, <1>5
  <2> QED
    BY <1>i, <1>1, <2>1, AnswersStay
<1>10. UnderWay(c)'
  BY <1>i, <1>1, <1>2, <1>4 DEF UnderWay, Pending
<1> QED
  BY <1>6, <1>7, <1>8, <1>9, <1>10 DEF WireInv

LEMMA RespondKeeps ==
  ASSUME TypeOK, NEW c \in Connections, WireInv(c), NEW id \in Ids, respond(c, id)
  PROVE  WireInv(c)'
<1>i. HelloFirst(c) /\ LinesOpen(c) /\ WorkOpen(c) /\ AnswersTrue(c) /\ UnderWay(c)
  BY DEF WireInv
<1>1. UNCHANGED <<role, conn, calls, toServer>>
  BY RespondEffect
<1>2. /\ served[c][id].state = "running" /\ served'[c][id].state = "answered"
      /\ served'[c][id].seen = served[c][id].seen
      /\ served'[c][id].error = served[c][id].error
      /\ served[c][id].error # "none" \/ Complete(served[c][id].body, served[c][id].seen)
      /\ AnswerLine(c, id) \in ToClient
      /\ toClient'[c] = IF conn[c] = "open"
                        THEN Append(toClient[c], AnswerLine(c, id)) ELSE toClient[c]
  BY RespondEffect
<1>3. \A i \in Ids : i # id => served'[c][i] = served[c][i]
  <2>1. \A d \in Connections : \A i \in Ids : d # c \/ i # id => served'[d][i] = served[d][i]
    BY RespondEffect
  <2> QED
    BY <2>1
<1>4. calls[c][id] = [state |-> "open", body |-> served[c][id].body]
  BY <1>i, <1>2 DEF WorkOpen
<1>5. \A k \in DOMAIN toServer[c] : toServer[c][k].type = "request" =>
        toServer[c][k].id # id /\ toServer[c][k].id \in Ids
  BY <1>2, WorkApart
<1>6. /\ AnswersTrue(c)'
      /\ conn[c] = "open" => \E k \in DOMAIN toClient'[c] : toClient'[c][k].id = id
      /\ \A k \in DOMAIN toClient[c] :
           k \in DOMAIN toClient'[c] /\ toClient'[c][k] = toClient[c][k]
  <2>1. calls[c][id].state = "open" /\ served[c][id].state # "answered"
    BY <1>2, <1>4
  <2>2. served'[c][id].error # "none" \/ Complete(calls[c][id].body, served'[c][id].seen)
    BY <1>2, <1>4
  <2>3. /\ AnswerLine(c, id).id = id
        /\ AnswerLine(c, id).answer =
             [seen |-> served'[c][id].seen, error |-> served'[c][id].error]
    BY <1>2 DEF AnswerLine
  <2>4. /\ AnswerLine(c, id) \in ToClient /\ served'[c][id].state = "answered"
        /\ calls' = calls
        /\ toClient'[c] = IF conn[c] = "open"
                          THEN Append(toClient[c], AnswerLine(c, id)) ELSE toClient[c]
    BY <1>1, <1>2
  <2> QED
    BY <1>3, <2>1, <2>2, <2>3, <2>4, AnswerSent
<1>7. HelloFirst(c)'
  BY <1>i, <1>1 DEF HelloFirst
<1>8. LinesOpen(c)'
  BY <1>i, <1>1, <1>3, <1>5 DEF LinesOpen
<1>9. WorkOpen(c)'
  <2>1. served'[c][id].state # "running"
    BY <1>2
  <2> QED
    BY <1>i, <1>1, <1>3, <2>1 DEF WorkOpen
<1>10. UnderWay(c)'
  BY <1>i, <1>1, <1>3, <1>6 DEF UnderWay, Pending
<1> QED
  BY <1>6, <1>7, <1>8, <1>9, <1>10 DEF WireInv

LEMMA DeathKeeps ==
  ASSUME TypeOK, NEW c \in Connections, WireInv(c), EngineDies
  PROVE  WireInv(c)'
<1>1. /\ role'[c] = "null" /\ toServer'[c] = <<>> /\ toClient'[c] = <<>>
      /\ conn'[c] # "open" /\ (conn'[c] = "none" <=> conn[c] = "none")
  BY DeathEffect
<1>2. \A id \in Ids : served'[c][id].state # "running"
  BY DeathEffect
<1>3. calls' = calls
  BY DeathEffect
<1>4. HelloFirst(c)' /\ LinesOpen(c)' /\ AnswersTrue(c)'
  BY <1>1 DEF HelloFirst, LinesOpen, AnswersTrue
<1>5. WorkOpen(c)'
  BY <1>2 DEF WorkOpen
<1>6. UnderWay(c)'
  BY <1>1, <1>3 DEF WireInv, UnderWay, Pending
<1> QED
  BY <1>4, <1>5, <1>6 DEF WireInv

LEMMA ConnectKeeps ==
  ASSUME TypeOK, NEW c \in Connections, WireInv(c), connect(c)
  PROVE  WireInv(c)'
<1>i. HelloFirst(c) /\ LinesOpen(c) /\ WorkOpen(c) /\ AnswersTrue(c) /\ UnderWay(c)
  BY DEF WireInv
<1>1. /\ conn[c] = "none" /\ toServer'[c] = <<Hello(c)>> /\ conn'[c] = "open"
      /\ UNCHANGED <<role, served, calls, toClient>>
  BY DEF connect, TypeOK, serverVars
<1>2. /\ DOMAIN toServer'[c] = {1} /\ toServer'[c][1].type = "hello"
      /\ toServer'[c][1].role = Role[c] /\ toServer'[c] # <<>>
  BY <1>1 DEF Hello
<1>3. role[c] = "null"
  BY <1>i, <1>1 DEF HelloFirst
<1>4. HelloFirst(c)'
  BY <1>1, <1>2, <1>3 DEF HelloFirst
<1>5. LinesOpen(c)'
  BY <1>2 DEF LinesOpen
<1>6. WorkOpen(c)' /\ AnswersTrue(c)'
  BY <1>i, <1>1 DEF WorkOpen, AnswersTrue, AnswerTrue
<1>7. UnderWay(c)'
  BY <1>i, <1>1 DEF UnderWay, Pending
<1> QED
  BY <1>4, <1>5, <1>6, <1>7 DEF WireInv

LEMMA ExitKeeps ==
  ASSUME TypeOK, NEW c \in Connections, WireInv(c), ClientExits(c)
  PROVE  WireInv(c)'
<1>i. HelloFirst(c) /\ LinesOpen(c) /\ WorkOpen(c) /\ AnswersTrue(c) /\ UnderWay(c)
  BY DEF WireInv
<1>1. /\ conn'[c] = "closed" /\ toClient'[c] = <<>>
      /\ UNCHANGED <<role, served, calls, toServer>>
  BY DEF ClientExits, TypeOK, serverVars
<1>2. HelloFirst(c)' /\ LinesOpen(c)' /\ WorkOpen(c)'
  BY <1>i, <1>1 DEF HelloFirst, LinesOpen, WorkOpen
<1>3. AnswersTrue(c)'
  BY <1>1 DEF AnswersTrue
<1>4. UnderWay(c)'
  BY <1>1 DEF UnderWay
<1> QED
  BY <1>2, <1>3, <1>4 DEF WireInv

\* At all other connections nothing has changed.
LEMMA OthersUntouched ==
  ASSUME TypeOK, NEW c \in Connections, NEW d \in Connections, d # c,
         \/ connect(c) \/ onResponse(c) \/ ClientExits(c)
         \/ handleHello(c) \/ handleRequest(c)
  PROVE  SameWire(d)
<1>1. CASE connect(c) \/ ClientExits(c)
  BY <1>1 DEF connect, ClientExits, TypeOK, SameWire, serverVars
<1>2. CASE onResponse(c)
  <2>1. \A i \in Ids : calls'[d][i] = calls[d][i]
    <3>1. \A e \in Connections : \A i \in Ids :
            e # c \/ i # toClient[c][1].id => calls'[e][i] = calls[e][i]
      BY <1>2, ResponseEffect
    <3> QED
      BY <3>1
  <2>3. toClient'[d] = toClient[d]
    BY <1>2, ResponseEffect
  <2>2. UNCHANGED <<role, served, conn, toServer>>
    BY <1>2, ResponseEffect
  <2> QED
    BY <2>1, <2>2, <2>3 DEF SameWire
<1>3. CASE handleHello(c)
  BY <1>3 DEF handleHello, Received, TypeOK, SameWire, clientVars
<1>4. CASE handleRequest(c)
  <2>1. \A i \in Ids : served'[d][i] = served[d][i]
    BY <1>4, HandleEffect
  <2>3. toClient'[d] = toClient[d]
    BY <1>4, HandleEffect
  <2>2. toServer'[d] = toServer[d] /\ UNCHANGED <<role, conn, calls>>
    BY <1>4 DEF handleRequest, Received, TypeOK, clientVars
  <2> QED
    BY <2>1, <2>2, <2>3 DEF SameWire
<1> QED
  BY <1>1, <1>2, <1>3, <1>4

LEMMA OthersUntouchedById ==
  ASSUME EngineProtocolAssumption, TypeOK,
         NEW c \in Connections, NEW d \in Connections, d # c,
         \/ \E body \in bodies[c] : request(c, body)
         \/ \E id \in Ids : respond(c, id)
         \/ \E id \in Ids : \E chains \in SUBSET knownChainIds :
              runStatement(c, id, chains) \/ statementFails(c, id, chains)
  PROVE  SameWire(d)
<1>1. ASSUME NEW body \in bodies[c], request(c, body)
      PROVE  SameWire(d)
  <2>1. \A i \in Ids : calls'[d][i] = calls[d][i]
    <3>1. \A e \in Connections : \A i \in Ids :
            e # c \/ i # nextId[c] => calls'[e][i] = calls[e][i]
      BY <1>1, RequestEffect
    <3> QED
      BY <3>1
  <2>2. toServer'[d] = toServer[d]
    BY <1>1, RequestEffect
  <2>3. UNCHANGED <<role, served, conn, toClient>>
    BY <1>1, RequestEffect
  <2> QED
    BY <2>1, <2>2, <2>3 DEF SameWire
<1>2. ASSUME NEW id \in Ids, respond(c, id)
      PROVE  SameWire(d)
  <2>1. \A i \in Ids : served'[d][i] = served[d][i]
    BY <1>2, RespondEffect
  <2>2. toClient'[d] = toClient[d]
    BY <1>2, RespondEffect
  <2>3. UNCHANGED <<role, conn, calls, toServer>>
    BY <1>2, RespondEffect
  <2> QED
    BY <2>1, <2>2, <2>3 DEF SameWire
<1>3. ASSUME NEW id \in Ids, NEW chains \in SUBSET knownChainIds,
             runStatement(c, id, chains) \/ statementFails(c, id, chains)
      PROVE  SameWire(d)
  <2>1. \A i \in Ids : served'[d][i] = served[d][i]
    BY <1>3, StatementEffect
  <2>2. UNCHANGED <<role, conn, calls, toServer, toClient>>
    BY <1>3, StatementEffect
  <2> QED
    BY <2>1, <2>2 DEF SameWire
<1> QED
  BY <1>1, <1>2, <1>3

LEMMA EInvStep ==
  ASSUME EngineProtocolAssumption, EInv, [Next]_vars
  PROVE  EInv'
<1>t. TypeOK /\ IdsFresh /\ \A d \in Connections : WireInv(d)
  BY DEF EInv
<1>1. TypeOK'
  BY <1>t, TypeStep
<1>2. IdsFresh'
  BY IdsFreshStep
<1>3. ASSUME NEW d \in Connections
      PROVE  WireInv(d)'
  <2>1. CASE EngineDies
    BY <1>t, <2>1, DeathKeeps
  <2>2. CASE startEngineServer \/ UNCHANGED vars
    <3>1. SameWire(d)
      BY <2>2 DEF startEngineServer, SameWire, vars, serverVars, clientVars
    <3> QED
      BY <1>t, <3>1, Elsewhere
  <2>3. ASSUME NEW c \in Connections,
               \/ connect(c) \/ onResponse(c) \/ ClientExits(c)
               \/ handleHello(c) \/ handleRequest(c)
        PROVE  WireInv(d)'
    <3>1. CASE d # c
      BY <1>t, <2>3, <3>1, OthersUntouched, Elsewhere
    <3>2. CASE d = c
      BY <1>t, <2>3, <3>2, ConnectKeeps, ResponseKeeps, ExitKeeps, HelloKeeps, HandleKeeps
    <3> QED
      BY <3>1, <3>2
  <2>4. ASSUME NEW c \in Connections,
               \/ \E body \in bodies[c] : request(c, body)
               \/ \E id \in Ids : respond(c, id)
               \/ \E id \in Ids : \E chains \in SUBSET knownChainIds :
                    runStatement(c, id, chains) \/ statementFails(c, id, chains)
        PROVE  WireInv(d)'
    <3>1. CASE d # c
      BY <1>t, <2>4, <3>1, OthersUntouchedById, Elsewhere
    <3>2. CASE d = c
      BY <1>t, <2>4, <3>2, RequestKeeps, RespondKeeps, StatementKeeps
    <3> QED
      BY <3>1, <3>2
  <2> QED
    BY <2>1, <2>2, <2>3, <2>4 DEF Next
<1> QED
  BY <1>1, <1>2, <1>3 DEF EInv

\* The inductive invariant of the protocol holds in every reachable state.
THEOREM EngineInvariant == Spec => []EInv
<1>1. Init => EInv
  BY EngineProtocolAssumption, EInvInit
<1>2. EInv /\ [Next]_vars => EInv'
  BY EngineProtocolAssumption, EInvStep
<1> QED
  BY <1>1, <1>2, PTL DEF Spec

-----------------------------------------------------------------------------
(* What follows from it. *)

\* A pending call is in one place.
LEMMA OnePlace ==
  ASSUME TypeOK, NEW c \in Connections, WireInv(c), conn[c] = "open",
         NEW id \in Ids, Pending(c, id)
  PROVE  \E place : Places(c, id) = {place}
<1> DEFINE InServer(k) == /\ k \in DOMAIN toServer[c]
                          /\ toServer[c][k].type = "request" /\ toServer[c][k].id = id
           InClient(k) == k \in DOMAIN toClient[c] /\ toClient[c][k].id = id
           Running == served[c][id].state = "running"
<1>p. \A place : place \in Places(c, id) <=>
        \/ \E k : InServer(k) /\ place = <<"toServer", k>>
        \/ \E k : InClient(k) /\ place = <<"toClient", k>>
        \/ Running /\ place = <<"engine", id>>
  BY DEF Places
<1>1. \A k : InServer(k) => served[c][id] = Idle /\ \A l : InServer(l) => l = k
  <2>1. LinesOpen(c)
    BY DEF WireInv
  <2>2. ASSUME NEW k, InServer(k)
        PROVE  served[c][id] = Idle
    BY <2>1, <2>2 DEF LinesOpen
  <2>3. ASSUME NEW k, InServer(k), NEW l, InServer(l)
        PROVE  l = k
    BY <2>1, <2>3 DEF LinesOpen
  <2> HIDE DEF InServer
  <2> QED
    BY <2>2, <2>3
<1>2. \A k : InClient(k) => served[c][id].state = "answered" /\ \A l : InClient(l) => l = k
  <2>1. ASSUME NEW k, InClient(k)
        PROVE  AnswerTrue(c, k, id)
    BY <2>1 DEF WireInv, AnswersTrue
  <2>2. ASSUME NEW k, InClient(k), NEW l, InClient(l)
        PROVE  served[c][id].state = "answered" /\ l = k
    <3>1. AnswerTrue(c, k, id) /\ l \in DOMAIN toClient[c] /\ toClient[c][l].id = id
      BY <2>1, <2>2
    <3> QED
      BY <3>1 DEF AnswerTrue
  <2> HIDE DEF InClient
  <2> QED
    BY <2>2
<1>3. Running \/ (\E k : InServer(k)) \/ (\E k : InClient(k))
  BY DEF WireInv, UnderWay
<1>4. served[c][id] = Idle => served[c][id].state = "idle"
  BY DEF Idle
<1> HIDE DEF InServer, InClient
<1>5. CASE Running
  <2>1. Places(c, id) = {<<"engine", id>>}
    BY <1>p, <1>1, <1>2, <1>4, <1>5
  <2> QED
    BY <2>1
<1>6. ASSUME NEW k, InServer(k)
      PROVE  \E place : Places(c, id) = {place}
  <2>1. Places(c, id) = {<<"toServer", k>>}
    BY <1>p, <1>1, <1>2, <1>4, <1>6
  <2> QED
    BY <2>1
<1>7. ASSUME NEW k, InClient(k)
      PROVE  \E place : Places(c, id) = {place}
  <2>1. Places(c, id) = {<<"toClient", k>>}
    BY <1>p, <1>1, <1>2, <1>4, <1>7
  <2> QED
    BY <2>1
<1> QED
  BY <1>3, <1>5, <1>6, <1>7

\* A call that is not pending is nowhere.
LEMMA NoPlace ==
  ASSUME TypeOK, NEW c \in Connections, WireInv(c), NEW id \in Ids, ~Pending(c, id)
  PROVE  Places(c, id) = {}
<1>1. \A k \in DOMAIN toServer[c] :
        ~(toServer[c][k].type = "request" /\ toServer[c][k].id = id)
  <2>1. ASSUME NEW k \in DOMAIN toServer[c],
               toServer[c][k].type = "request", toServer[c][k].id = id
        PROVE  FALSE
    <3>1. calls[c][id] = [state |-> "open", body |-> toServer[c][k].body]
      BY <2>1 DEF WireInv, LinesOpen
    <3> QED
      BY <3>1 DEF Pending
  <2> QED
    BY <2>1
<1>2. \A k \in DOMAIN toClient[c] : toClient[c][k].id # id
  BY DEF WireInv, AnswersTrue, AnswerTrue, Pending
<1>3. served[c][id].state # "running"
  <2>1. ASSUME served[c][id].state = "running"
        PROVE  FALSE
    <3>1. calls[c][id] = [state |-> "open", body |-> served[c][id].body]
      BY <2>1 DEF WireInv, WorkOpen
    <3> QED
      BY <3>1 DEF Pending
  <2> QED
    BY <2>1
<1> QED
  BY <1>1, <1>2, <1>3 DEF Places

\* No call is forgotten, none is answered twice, and no answer finds nobody
\* (src/engine/client.ts:46-56), whatever the number of connections and requests.
THEOREM EngineForgetsNothing == Spec => []NothingForgotten
<1>1. EInv => NothingForgotten
  <2> SUFFICES ASSUME EInv, NEW c \in Connections, conn[c] = "open", NEW id \in Ids
               PROVE  Cardinality(Places(c, id)) = IF Pending(c, id) THEN 1 ELSE 0
    BY DEF NothingForgotten
  <2>1. TypeOK /\ WireInv(c)
    BY DEF EInv
  <2>2. CASE Pending(c, id)
    <3>1. PICK place : Places(c, id) = {place}
      BY <2>1, <2>2, OnePlace
    <3> QED
      BY <2>2, <3>1, FS_Singleton
  <2>3. CASE ~Pending(c, id)
    BY <2>1, <2>3, NoPlace, FS_EmptySet
  <2> QED
    BY <2>2, <2>3
<1> QED
  BY <1>1, EngineInvariant, PTL

-----------------------------------------------------------------------------
(* The refinement: what a call has done in the database is what its promise   *)
(* has found or failed with.                                               *)

Effect(c, id) == [seen |-> served[c][id].seen, error |-> served[c][id].error]
Effects == [c \in Connections |-> [id \in Ids |-> Effect(c, id)]]

LEMMA EffectsSame ==
  ASSUME \A c \in Connections : \A id \in Ids : Effect(c, id)' = Effect(c, id)
  PROVE  Effects' = Effects
BY DEF Effects

LEMMA EffectsElsewhereSame ==
  ASSUME NEW c \in Connections, NEW id \in Ids,
         \A d \in Connections : \A i \in Ids : d # c \/ i # id => served'[d][i] = served[d][i]
  PROVE  Effects' = [Effects EXCEPT ![c][id] = Effect(c, id)']
<1>1. \A d \in Connections : \A i \in Ids : d # c \/ i # id => Effect(d, i)' = Effect(d, i)
  BY DEF Effect
<1> HIDE DEF Effect
<1>2. \A d \in Connections : d # c => Effects'[d] = Effects[d]
  BY <1>1 DEF Effects
<1>3. Effects'[c] = [Effects[c] EXCEPT ![id] = Effect(c, id)']
  BY <1>1 DEF Effects
<1>4. /\ Effects = [d \in Connections |-> Effects[d]]
      /\ Effects' = [d \in Connections |-> Effects'[d]]
  BY DEF Effects
<1>5. Effects' = [Effects EXCEPT ![c] = Effects'[c]]
  BY <1>2, <1>4
<1> QED
  BY <1>3, <1>5

\* The mapped steps, with the mapping written out.
LEMMA MappedCall ==
  ASSUME NEW c, NEW id, NEW body, calls[c][id] = NoCall,
         calls' = [calls EXCEPT ![c][id] = [state |-> "open", body |-> body]],
         store' = store, Effects' = Effects
  PROVE  Store!Call(c, id, body)
BY DEF Store!Call, Store!NoCall, NoCall, Effects, Effect

LEMMA MappedReturn ==
  ASSUME NEW c \in Connections, NEW id \in Ids, NEW body,
         calls[c][id] = [state |-> "open", body |-> body],
         served[c][id].error # "none" \/ Complete(body, served[c][id].seen),
         calls' = [calls EXCEPT ![c][id] =
                     [state |-> "returned", body |-> body, answer |-> Effect(c, id)]],
         store' = store, Effects' = Effects
  PROVE  Store!Return(c, id, body)
<1>1. Effects[c][id] = Effect(c, id)
  BY DEF Effects
<1>2. Store!Open(c, id, body)
  BY DEF Store!Open
<1>3. Effects[c][id].error # "none" \/ Store!Complete(body, Effects[c][id].seen)
  BY <1>1 DEF Effect, Complete, Store!Complete, Statements, Store!Statements
<1>4. calls' = [calls EXCEPT ![c][id] =
                  [state |-> "returned", body |-> body, answer |-> Effects[c][id]]]
  BY <1>1
<1> QED
  BY <1>2, <1>3, <1>4 DEF Store!Return, Effects, Effect

LEMMA MappedRefuse ==
  ASSUME NEW c \in Connections, NEW id \in Ids, NEW body, NEW error,
         calls[c][id] = [state |-> "open", body |-> body],
         Effect(c, id) = [seen |-> NothingSeen, error |-> "none"],
         \/ error = "readOnly" /\ Role[c] = "reader" /\ body.type \in WritingOps
         \/ error = "unknownChain" /\ body.chainId \in otherChainIds
         \/ error = "failed",
         Effect(c, id)' = [seen |-> NothingSeen, error |-> error],
         Effects' = [Effects EXCEPT ![c][id] = Effect(c, id)'],
         store' = store, calls' = calls
  PROVE  Store!Refuse(c, id, body, error)
<1>1. Effects[c][id] = Effect(c, id)
  BY DEF Effects
<1>2. Store!Open(c, id, body)
  BY DEF Store!Open
<1>3. Effects[c][id] = Store!Untouched
  BY <1>1 DEF Store!Untouched, NothingSeen, Store!NothingSeen
<1>4. Effects' = [Effects EXCEPT ![c][id] =
                    [seen |-> Store!NothingSeen, error |-> error]]
  BY DEF NothingSeen, Store!NothingSeen
<1>5. (CASE error = "readOnly" -> Role[c] = "reader" /\ body.type \in Store!WritingOps
         [] error = "unknownChain" -> body.chainId \in otherChainIds
         [] OTHER -> error = "failed")
  BY DEF WritingOps, Store!WritingOps
<1> QED
  BY <1>2, <1>3, <1>4, <1>5 DEF Store!Refuse, Effects, Effect

LEMMA MappedPerform ==
  ASSUME NEW c \in Connections, NEW id \in Ids, NEW body, NEW chains \in SUBSET knownChainIds,
         calls[c][id] = [state |-> "open", body |-> body],
         served[c][id].error = "none", chains \cap DOMAIN served[c][id].seen = {},
         body.type \in WritingOps => Role[c] = "writer",
         store' = IF body.type \in WritingOps
                  THEN Add(store, chains, [chainId \in chains |-> <<c, id>>]) ELSE store,
         Effect(c, id)' = [seen |-> Add(served[c][id].seen, chains, store'), error |-> "none"],
         Effects' = [Effects EXCEPT ![c][id] = Effect(c, id)'],
         calls' = calls
  PROVE  Store!Perform(c, id, body, chains)
<1>1. Effects[c][id] = Effect(c, id)
  BY DEF Effects
<1>2. Store!Open(c, id, body)
  BY DEF Store!Open
<1>3. /\ Effects[c][id].error = "none"
      /\ chains \cap DOMAIN Effects[c][id].seen = {}
  BY <1>1 DEF Effect
<1>4. \A seen, value : Store!Add(seen, chains, value) = Add(seen, chains, value)
  BY DEF Add, Store!Add
<1>5. Effects' = [Effects EXCEPT ![c][id] =
                    [seen |-> Store!Add(Effects[c][id].seen, chains, store'),
                     error |-> "none"]]
  <2>1. Effect(c, id)' = [seen |-> Store!Add(Effects[c][id].seen, chains, store'),
                          error |-> "none"]
    BY <1>1, <1>4 DEF Effect
  <2> QED
    BY <2>1
<1>6. IF body.type \in Store!WritingOps
      THEN Role[c] = "writer"
             /\ store' = Store!Add(store, chains, [chainId \in chains |-> <<c, id>>])
      ELSE store' = store
  BY <1>4 DEF WritingOps, Store!WritingOps
<1> QED
  BY <1>2, <1>3, <1>5, <1>6 DEF Store!Perform, Effects, Effect

LEMMA MappedLeaveOut ==
  ASSUME NEW c \in Connections, NEW id \in Ids, NEW body, NEW chains \in SUBSET knownChainIds,
         calls[c][id] = [state |-> "open", body |-> body],
         body.type = "getOverviewLatestBlocks",
         served[c][id].error = "none", chains \cap DOMAIN served[c][id].seen = {},
         Effect(c, id)' =
           [seen |-> Add(served[c][id].seen, chains, [chainId \in chains |-> NoRow]),
            error |-> "none"],
         Effects' = [Effects EXCEPT ![c][id] = Effect(c, id)'],
         store' = store, calls' = calls
  PROVE  Store!LeaveOut(c, id, body, chains)
<1>1. Effects[c][id] = Effect(c, id)
  BY DEF Effects
<1>2. Store!Open(c, id, body)
  BY DEF Store!Open
<1>3. /\ Effects[c][id].error = "none"
      /\ chains \cap DOMAIN Effects[c][id].seen = {}
  BY <1>1 DEF Effect
<1>4. \A seen, value : Store!Add(seen, chains, value) = Add(seen, chains, value)
  BY DEF Add, Store!Add
<1>5. Effects' = [Effects EXCEPT ![c][id] =
                    [seen |-> Store!Add(Effects[c][id].seen, chains,
                                        [chainId \in chains |-> Store!NoRow]),
                     error |-> "none"]]
  <2>1. Effect(c, id)' = [seen |-> Store!Add(Effects[c][id].seen, chains,
                                             [chainId \in chains |-> Store!NoRow]),
                          error |-> "none"]
    BY <1>1, <1>4 DEF Effect, NoRow, Store!NoRow
  <2> QED
    BY <2>1
<1> QED
  BY <1>2, <1>3, <1>5 DEF Store!LeaveOut, Effects, Effect

Mapped == Store!StoreNext \/ (store' = store /\ calls' = calls /\ Effects' = Effects)

LEMMA SameOps ==
  /\ Store!EngineRequestBody = EngineRequestBody
  /\ \A body : Store!Statements(body) = Statements(body)
BY DEF EngineRequestBody, Store!EngineRequestBody, OverviewOps, Store!OverviewOps,
       Statements, Store!Statements

LEMMA CallStep ==
  ASSUME NEW c \in Connections, NEW id \in Ids, NEW body \in EngineRequestBody,
         Store!Call(c, id, body) \/ Store!Return(c, id, body)
  PROVE  Mapped
BY SameOps DEF Mapped, Store!StoreNext

LEMMA StatementStep ==
  ASSUME NEW c \in Connections, NEW id \in Ids, NEW body \in EngineRequestBody,
         NEW chains \in Statements(body),
         Store!Perform(c, id, body, chains) \/ Store!LeaveOut(c, id, body, chains)
  PROVE  Mapped
BY SameOps DEF Mapped, Store!StoreNext

LEMMA RefuseStep ==
  ASSUME NEW c \in Connections, NEW id \in Ids, NEW body \in EngineRequestBody,
         NEW error \in {"readOnly", "unknownChain", "failed"},
         Store!Refuse(c, id, body, error)
  PROVE  Mapped
BY SameOps DEF Mapped, Store!StoreNext

LEMMA RequestMapped ==
  ASSUME EngineProtocolAssumption, EInv,
         NEW c \in Connections, NEW body \in bodies[c], request(c, body)
  PROVE  Mapped
<1> DEFINE id == nextId[c]
<1>t. TypeOK /\ IdsFresh
  BY DEF EInv
<1>1. id \in Ids /\ body \in EngineRequestBody /\ store' = store /\ served' = served
  BY <1>t, RequestEffect
<1>2. calls[c][id] = NoCall
  <2>1. id \in Nat /\ id >= nextId[c]
    BY <1>1, IdsAreNumbers
  <2> QED
    BY <1>t, <1>1, <2>1 DEF IdsFresh
<1>3. Effects' = Effects
  BY <1>1, EffectsSame DEF Effect
<1>4. calls' = [calls EXCEPT ![c][id] = [state |-> "open", body |-> body]]
  BY DEF request
<1> HIDE DEF id
<1>5. Store!Call(c, id, body)
  BY <1>1, <1>2, <1>3, <1>4, MappedCall
<1> QED
  BY <1>1, <1>5, CallStep

LEMMA ResponseMapped ==
  ASSUME EInv, NEW c \in Connections, onResponse(c)
  PROVE  Mapped
<1> DEFINE id == toClient[c][1].id
           body == calls[c][id].body
<1>t. TypeOK /\ AnswersTrue(c)
  BY DEF EInv, WireInv
<1>1. toClient[c] \in Seq(ToClient) /\ toClient[c] # <<>> /\ id \in Ids
  BY <1>t, ResponseEffect
<1>2. 1 \in DOMAIN toClient[c] /\ Head(toClient[c]) = toClient[c][1]
  BY <1>1
<1>3. AnswerTrue(c, 1, id)
  BY <1>t, <1>2 DEF AnswersTrue
<1>4. /\ calls[c][id].state = "open"
      /\ toClient[c][1].answer = Effect(c, id)
      /\ served[c][id].error # "none" \/ Complete(body, served[c][id].seen)
  BY <1>3 DEF AnswerTrue, Effect
<1>5. calls[c][id] = [state |-> "open", body |-> body] /\ body \in EngineRequestBody
  <2>1. calls[c][id] \in Calls
    BY <1>t, <1>1 DEF TypeOK
  <2>2. calls[c][id].state = "open"
    BY <1>4
  <2> HIDE DEF id
  <2> QED
    BY <2>1, <2>2 DEF Calls, NoCall
<1>6. calls' = [calls EXCEPT ![c][id] =
                  [state |-> "returned", body |-> body, answer |-> Effect(c, id)]]
  <2>1. calls \in [Connections -> [Ids -> Calls]]
    BY <1>t DEF TypeOK
  <2>2. calls' = [calls EXCEPT ![c][id] =
                    [state |-> "returned", body |-> calls[c][id].body,
                     answer |-> toClient[c][1].answer]]
    BY <1>1, <1>2, <1>4, <2>1 DEF onResponse, Pending
  <2> QED
    BY <1>4, <2>2
<1>7. store' = store /\ Effects' = Effects
  <2>1. store' = store /\ served' = served
    BY DEF onResponse, serverVars
  <2> QED
    BY <2>1, EffectsSame DEF Effect
<1> HIDE DEF id, body
<1>8. Store!Return(c, id, body)
  BY <1>1, <1>4, <1>5, <1>6, <1>7, MappedReturn
<1> QED
  BY <1>1, <1>5, <1>8, CallStep

LEMMA HandleMapped ==
  ASSUME EngineProtocolAssumption, EInv, NEW c \in Connections, handleRequest(c)
  PROVE  Mapped
<1>0. PICK id, body : id = ReadId(c) /\ body = ReadBody(c)
  OBVIOUS
<1>t. TypeOK /\ HelloFirst(c) /\ LinesOpen(c)
  BY DEF EInv, WireInv
<1>r. Received(c, "request")
  BY DEF handleRequest
<1>1. /\ calls[c][id] = [state |-> "open", body |-> body]
      /\ served[c][id] = Idle
  BY <1>0, <1>t, <1>r, FrontLine
<1>2. id \in Ids /\ body \in EngineRequestBody
  BY <1>0, <1>t, HandleEffect
<1>3. store' = store /\ calls' = calls
  BY <1>r DEF Received, clientVars
<1>e. \A d \in Connections : \A i \in Ids : d # c \/ i # id => served'[d][i] = served[d][i]
  <2>1. \A d \in Connections : \A i \in Ids :
          d # c \/ i # ReadId(c) => served'[d][i] = served[d][i]
    BY <1>t, HandleEffect
  <2> QED
    BY <1>0, <2>1
<1>4. Effects' = [Effects EXCEPT ![c][id] = Effect(c, id)']
  BY <1>2, <1>e, EffectsElsewhereSame
<1>5. Effect(c, id) = [seen |-> NothingSeen, error |-> "none"]
  BY <1>1 DEF Effect, Idle
<1>6. role[c] = Role[c] /\ Role[c] \in {"reader", "writer"}
  <2>1. 1 \in DOMAIN toServer[c] /\ toServer[c][1].type = "request"
    BY <1>t, <1>r, LinesLeft
  <2> QED
    BY <1>t, <2>1 DEF HelloFirst, EngineProtocolAssumption
<1>7. \/ /\ Refusal(c) # "none"
         /\ served'[c][id] = [Idle EXCEPT !.state = "answered", !.error = Refusal(c)]
      \/ /\ Refusal(c) = "none"
         /\ served'[c][id] = DispatchOf(body)
  BY <1>0, <1>t, HandleEffect
<1>b. Refusal(c) = RefusalOf(c, body)
  BY <1>0 DEF Refusal
<1>8. CASE Refusal(c) # "none"
  <2>1. Refusal(c) = "readOnly" /\ Role[c] = "reader" /\ body.type \in WritingOps
    BY <1>6, <1>8, <1>b DEF RefusalOf, WRITE_REQUEST_TYPES, WritingOps
  <2>2. Effect(c, id)' = [seen |-> NothingSeen, error |-> "readOnly"]
    BY <1>7, <1>8, <2>1 DEF Effect, Idle
  <2>3. Store!Refuse(c, id, body, "readOnly")
    BY <1>1, <1>2, <1>3, <1>4, <1>5, <2>1, <2>2, MappedRefuse
  <2> QED
    BY <1>2, <2>3, RefuseStep
<1>9. CASE Refusal(c) = "none" /\ body.chainId \in otherChainIds
  <2>1. Effect(c, id)' = [seen |-> NothingSeen, error |-> "unknownChain"]
    BY <1>7, <1>9 DEF Effect, DispatchOf, Idle
  <2>2. Store!Refuse(c, id, body, "unknownChain")
    BY <1>1, <1>2, <1>3, <1>4, <1>5, <1>9, <2>1, MappedRefuse
  <2> QED
    BY <1>2, <2>2, RefuseStep
<1>10. CASE Refusal(c) = "none" /\ body.chainId \notin otherChainIds
  <2>1. Effect(c, id)' = Effect(c, id)
    <3>1. Effect(c, id)' = [seen |-> NothingSeen, error |-> "none"]
      BY <1>7, <1>10 DEF Effect, DispatchOf, Idle
    <3> QED
      BY <1>5, <3>1
  <2>2. \A d \in Connections : \A i \in Ids : Effect(d, i)' = Effect(d, i)
    BY <1>e, <2>1 DEF Effect
  <2> QED
    BY <1>3, <2>2, EffectsSame DEF Mapped
<1> QED
  BY <1>8, <1>9, <1>10

LEMMA StatementMapped ==
  ASSUME EngineProtocolAssumption, EInv, NEW c \in Connections, NEW id \in Ids,
         NEW chains \in SUBSET knownChainIds,
         runStatement(c, id, chains) \/ statementFails(c, id, chains)
  PROVE  Mapped
<1>0. PICK body : body = served[c][id].body
  OBVIOUS
<1>t. TypeOK /\ WorkOpen(c)
  BY DEF EInv, WireInv
<1>s. served \in [Connections -> [Ids -> Promises]] /\ served[c][id] \in Promises
      /\ calls \in [Connections -> [Ids -> Calls]]
  BY <1>t DEF TypeOK
<1>1. /\ served[c][id].state = "running" /\ served[c][id].error = "none"
      /\ chains \in Statements(body) /\ chains \cap DOMAIN served[c][id].seen = {}
      /\ calls' = calls
  BY <1>0, <1>t, StatementEffect
<1>2. /\ calls[c][id] = [state |-> "open", body |-> body]
      /\ DOMAIN served[c][id].seen \subseteq UNION Statements(body)
      /\ body.type \in WritingOps => Role[c] = "writer"
  BY <1>0, <1>t, <1>1 DEF WorkOpen
<1>3. body \in EngineRequestBody
  <2>1. calls[c][id] \in Calls
    BY <1>s
  <2> QED
    BY <1>2, <2>1 DEF Calls, NoCall
<1>4. Effects' = [Effects EXCEPT ![c][id] = Effect(c, id)']
  <2>1. \A d \in Connections : \A i \in Ids : d # c \/ i # id => served'[d][i] = served[d][i]
    BY <1>t, StatementEffect
  <2> QED
    BY <2>1, EffectsElsewhereSame
<1>5. CASE runStatement(c, id, chains)
  <2>1. /\ store' = IF body.type \in WritingOps
                    THEN Add(store, chains, [chainId \in chains |-> <<c, id>>]) ELSE store
        /\ served' = [served EXCEPT ![c][id].seen = Add(served[c][id].seen, chains, store')]
    BY <1>0, <1>5, <1>s DEF runStatement
  <2>2. Effect(c, id)' = [seen |-> Add(served[c][id].seen, chains, store'), error |-> "none"]
    <3>1. served'[c][id] = [served[c][id] EXCEPT !.seen = Add(served[c][id].seen, chains, store')]
      BY <1>s, <2>1
    <3>2. /\ served'[c][id].seen = Add(served[c][id].seen, chains, store')
          /\ served'[c][id].error = served[c][id].error
      BY <1>s, <3>1 DEF Promises
    <3> QED
      BY <1>1, <3>2 DEF Effect
  <2>3. Store!Perform(c, id, body, chains)
    BY <1>1, <1>2, <1>4, <2>1, <2>2, MappedPerform
  <2> QED
    BY <1>1, <1>3, <2>3, StatementStep
<1>6. CASE statementFails(c, id, chains) /\ body.type = "getOverviewLatestBlocks"
  <2> DEFINE noRows == [chainId \in chains |-> NoRow]
  <2>1. /\ store' = store
        /\ served' = [served EXCEPT ![c][id].seen = Add(served[c][id].seen, chains, noRows)]
    BY <1>0, <1>6, <1>s DEF statementFails
  <2>2. Effect(c, id)' = [seen |-> Add(served[c][id].seen, chains, noRows), error |-> "none"]
    <3> HIDE DEF noRows
    <3>1. served'[c][id] = [served[c][id] EXCEPT !.seen = Add(served[c][id].seen, chains, noRows)]
      BY <1>s, <2>1
    <3>2. /\ served'[c][id].seen = Add(served[c][id].seen, chains, noRows)
          /\ served'[c][id].error = served[c][id].error
      BY <1>s, <3>1 DEF Promises
    <3> QED
      BY <1>1, <3>2 DEF Effect
  <2>3. Store!LeaveOut(c, id, body, chains)
    BY <1>1, <1>2, <1>4, <1>6, <2>1, <2>2, MappedLeaveOut
  <2> QED
    BY <1>1, <1>3, <2>3, StatementStep
<1>7. CASE statementFails(c, id, chains) /\ body.type # "getOverviewLatestBlocks"
  <2>1. /\ store' = store
        /\ served' = [served EXCEPT ![c][id].error = "failed"]
    BY <1>0, <1>7 DEF statementFails
  <2>2. served[c][id].seen = NothingSeen
    <3>1. UNION Statements(body) = chains
      BY <1>1, <1>7 DEF Statements
    <3>2. DOMAIN served[c][id].seen = {}
      BY <1>1, <1>2, <3>1
    <3>3. served[c][id].seen \in Seen
      BY <1>s DEF Promises
    <3>4. PICK covered \in SUBSET knownChainIds :
            served[c][id].seen \in [covered -> {NoRow} \cup (Connections \X Ids)]
      BY <3>3 DEF Seen
    <3>5. covered = {}
      BY <3>2, <3>4
    <3> QED
      BY <3>4, <3>5 DEF NothingSeen
  <2>3. Effect(c, id)' = [seen |-> NothingSeen, error |-> "failed"]
    <3>1. served'[c][id] = [served[c][id] EXCEPT !.error = "failed"]
      BY <1>s, <2>1
    <3>2. served'[c][id].seen = served[c][id].seen /\ served'[c][id].error = "failed"
      BY <1>s, <3>1 DEF Promises
    <3> QED
      BY <2>2, <3>2 DEF Effect
  <2>4. Effect(c, id) = [seen |-> NothingSeen, error |-> "none"]
    BY <1>1, <2>2 DEF Effect
  <2>5. Store!Refuse(c, id, body, "failed")
    BY <1>1, <1>2, <1>4, <2>1, <2>3, <2>4, MappedRefuse
  <2> QED
    BY <1>3, <2>5, RefuseStep
<1> QED
  BY <1>5, <1>6, <1>7

LEMMA OthersMapped ==
  ASSUME EInv,
         \/ EngineDies \/ startEngineServer \/ UNCHANGED vars
         \/ \E c \in Connections : connect(c) \/ ClientExits(c) \/ handleHello(c)
         \/ \E c \in Connections : \E id \in Ids : respond(c, id)
  PROVE  Mapped
<1>t. TypeOK
  BY DEF EInv
<1>1. CASE EngineDies
  <2>1. \A c \in Connections : \A id \in Ids : Effect(c, id)' = Effect(c, id)
    BY <1>1, <1>t, DeathEffect DEF Effect
  <2>2. store' = store /\ calls' = calls
    BY <1>1, <1>t, DeathEffect
  <2> QED
    BY <2>1, <2>2, EffectsSame DEF Mapped
<1>2. CASE \/ startEngineServer \/ UNCHANGED vars
           \/ \E c \in Connections : connect(c) \/ ClientExits(c) \/ handleHello(c)
  <2>1. store' = store /\ calls' = calls /\ served' = served
    BY <1>2 DEF startEngineServer, vars, connect, ClientExits, handleHello, Received,
                serverVars, clientVars
  <2> QED
    BY <2>1, EffectsSame DEF Effect, Mapped
<1>3. ASSUME NEW c \in Connections, NEW id \in Ids, respond(c, id)
      PROVE  Mapped
  <2>1. served'[c][id].seen = served[c][id].seen /\ served'[c][id].error = served[c][id].error
    BY <1>3, <1>t, RespondEffect
  <2>2. \A d \in Connections : \A i \in Ids : d # c \/ i # id => served'[d][i] = served[d][i]
    BY <1>3, <1>t, RespondEffect
  <2>3. \A d \in Connections : \A i \in Ids : Effect(d, i)' = Effect(d, i)
    BY <2>1, <2>2 DEF Effect
  <2>4. store' = store /\ calls' = calls
    BY <1>3, <1>t, RespondEffect
  <2> QED
    BY <2>3, <2>4, EffectsSame DEF Mapped
<1> QED
  BY <1>1, <1>2, <1>3

\* Whatever the connections, the requests, the deaths and the failing statements,
\* every caller deals with a database in which each statement of its calls runs at
\* one moment within the call, and readers change nothing (src/engine/server.ts:195-220).
THEOREM EngineImplementsStore == Spec => ImplementsStore
<1>1. Init => Store!StoreInit
  BY DEF Init, Store!StoreInit, Idle, Store!Untouched, NothingSeen, Store!NothingSeen,
         NoCall, Store!NoCall, NoRow, Store!NoRow
<1>2. EInv /\ [Next]_vars => [Store!StoreNext]_(Store!storeVars)
  <2> SUFFICES ASSUME EInv, [Next]_vars
               PROVE  Mapped
    BY DEF Mapped, Store!storeVars, Effects, Effect
  <2> USE EngineProtocolAssumption
  <2>1. ASSUME NEW c \in Connections, NEW body \in bodies[c], request(c, body)
        PROVE  Mapped
    BY <2>1, RequestMapped
  <2>2. ASSUME NEW c \in Connections, onResponse(c)
        PROVE  Mapped
    BY <2>2, ResponseMapped
  <2>3. ASSUME NEW c \in Connections, handleRequest(c)
        PROVE  Mapped
    BY <2>3, HandleMapped
  <2>4. ASSUME NEW c \in Connections, NEW id \in Ids, NEW chains \in SUBSET knownChainIds,
               runStatement(c, id, chains) \/ statementFails(c, id, chains)
        PROVE  Mapped
    BY <2>4, StatementMapped
  <2>5. ASSUME \/ EngineDies \/ startEngineServer \/ UNCHANGED vars
               \/ \E c \in Connections : connect(c) \/ ClientExits(c) \/ handleHello(c)
               \/ \E c \in Connections : \E id \in Ids : respond(c, id)
        PROVE  Mapped
    BY <2>5, OthersMapped
  <2> QED
    BY <2>1, <2>2, <2>3, <2>4, <2>5 DEF Next
<1> QED
  BY <1>1, <1>2, EngineInvariant, PTL DEF Spec, ImplementsStore, Store!StoreSpec
=============================================================================
