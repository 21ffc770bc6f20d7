----------------------------- MODULE QueryProofs -----------------------------
(***************************************************************************)
(* What QueryOperator guarantees for every list of endpoints, every number  *)
(* of attempts, changes and faults.                                         *)
(***************************************************************************)
EXTENDS QueryOperator, FiniteSetTheorems, TLAPS

-----------------------------------------------------------------------------
(* Operators.                                                              *)

(* A non-empty bounded set of numbers has a least element: what the inductions  *)
(* below argue with.                                                         *)
LEMMA LeastOf ==
  ASSUME NEW n \in Nat, NEW S \in SUBSET (0..n), S # {}
  PROVE  \E m \in S : \A g \in S : m <= g
<1> DEFINE Below(h) == {g \in S : g < h}
           T == {Below(h) : h \in S}
<1>1. IsFiniteSet(S)
  <2>1. S \in SUBSET Nat /\ \A s \in S : s <= n
    OBVIOUS
  <2>2. QED
    BY <2>1, FS_BoundedSetOfNaturals
<1>2. IsWellFoundedOn(StrictSubsetOrdering(S), SUBSET S)
  BY <1>1, FS_StrictSubsetOrderingWellFounded, FS_FiniteSubsetsOfFinite
<1>3. T \subseteq SUBSET S /\ T # {}
  OBVIOUS
<1>4. PICK t \in T : \A u \in T : ~(<<u, t>> \in StrictSubsetOrdering(S))
  <2> HIDE DEF T
  <2> QED BY <1>2, <1>3, WFMin
<1>5. PICK m \in S : t = Below(m)
  OBVIOUS
<1>6. ASSUME NEW g \in S PROVE m <= g
  <2>1. SUFFICES ASSUME g < m PROVE FALSE
    OBVIOUS
  <2>2. Below(g) \subseteq Below(m) /\ g \in Below(m) /\ g \notin Below(g)
    <3>1. S \subseteq Int
      OBVIOUS
    <3>2. \A h \in S : h < g => h < m
      BY <3>1, <2>1
    <3>3. ~(g < g)
      BY <3>1
    <3>4. QED
      BY <2>1, <3>2, <3>3
  <2>3. <<Below(g), t>> \in StrictSubsetOrdering(S)
    BY <2>2, <1>5 DEF StrictSubsetOrdering
  <2>4. QED
    BY <2>3, <1>4
<1>7. QED
  BY <1>6

\* The recursion of Kept, as an equation of the function it defines.
Filters(kept, list, set, n) ==
  kept = [i \in 0..n |->
            IF i = 0 THEN <<>>
            ELSE IF list[i] \in set THEN Append(kept[i - 1], list[i]) ELSE kept[i - 1]]

(* Filtering a list is well-defined: the recursion has a solution at every     *)
(* length, or there were a least one without.                                *)
LEMMA FilterExists ==
  ASSUME NEW list, NEW set, NEW n \in Nat
  PROVE  \E kept : Filters(kept, list, set, n)
<1> DEFINE S == {m \in 0..n : ~ \E kept : Filters(kept, list, set, m)}
<1>1. SUFFICES ASSUME S # {} PROVE FALSE
  OBVIOUS
<1>2. PICK m \in S : \A g \in S : m <= g
  <2> HIDE DEF S
  <2>1. S \in SUBSET (0..n)
    BY DEF S
  <2> QED BY <1>1, <2>1, LeastOf
<1>3. CASE m = 0
  <2>1. Filters([i \in 0..0 |-> <<>>], list, set, m)
    BY <1>3 DEF Filters
  <2> QED BY <2>1
<1>4. CASE m # 0
  <2>1. m - 1 \in 0..n /\ m - 1 \notin S
    BY <1>2, <1>4
  <2>2. PICK f : Filters(f, list, set, m - 1)
    BY <2>1
  <2> DEFINE new == IF list[m] \in set THEN Append(f[m - 1], list[m]) ELSE f[m - 1]
             g == [i \in 0..m |-> IF i = m THEN new ELSE f[i]]
  <2>3. \A i \in 0..m - 1 : f[i] = IF i = 0 THEN <<>>
            ELSE IF list[i] \in set THEN Append(f[i - 1], list[i]) ELSE f[i - 1]
    BY <2>2 DEF Filters
  <2>4. \A i \in 0..m : g[i] = IF i = 0 THEN <<>>
            ELSE IF list[i] \in set THEN Append(g[i - 1], list[i]) ELSE g[i - 1]
    <3>1. \A i \in 0..m - 1 : g[i] = f[i] /\ (i # 0 => g[i - 1] = f[i - 1])
      BY <1>4
    <3>2. g[m] = new /\ g[m - 1] = f[m - 1] /\ m # 0
      BY <1>4
    <3> HIDE DEF g
    <3>3. \A i \in 0..m : i = m \/ i \in 0..m - 1
      OBVIOUS
    <3>4. ASSUME NEW i \in 0..m
          PROVE  g[i] = IF i = 0 THEN <<>>
            ELSE IF list[i] \in set THEN Append(g[i - 1], list[i]) ELSE g[i - 1]
      <4>1. CASE i = m
        BY <4>1, <3>2, Zenon
      <4>2. CASE i \in 0..m - 1
        <5>1. g[i] = f[i] /\ (i # 0 => g[i - 1] = f[i - 1])
          BY <3>1, <4>2, Zenon
        <5>2. f[i] = IF i = 0 THEN <<>>
            ELSE IF list[i] \in set THEN Append(f[i - 1], list[i]) ELSE f[i - 1]
          BY <2>3, <4>2, Zenon
        <5>3. QED BY <5>1, <5>2, Zenon
      <4>3. QED BY <3>3, <4>1, <4>2
    <3>5. QED BY <3>4
  <2>5. Filters(g, list, set, m)
    <3>1. g = [i \in 0..m |-> g[i]]
      OBVIOUS
    <3> HIDE DEF g
    <3> QED BY <3>1, <2>4, Zenon DEF Filters
  <2>6. QED
    BY <2>5
<1>5. QED
  BY <1>3, <1>4

(* What Filters is solved by on the way holds at every length.               *)
LEMMA FilterKeeps ==
  ASSUME NEW X, NEW list \in Seq(X), NEW set, NEW kept,
         Filters(kept, list, set, Len(list)), NEW n \in 0..Len(list)
  PROVE  /\ kept[n] \in Seq({list[i] : i \in 1..n} \cap set)
         /\ Len(kept[n]) <= n
         /\ IsInjective(list) => IsInjective(kept[n])
<1> DEFINE Part(m) == /\ kept[m] \in Seq({list[i] : i \in 1..m} \cap set)
                      /\ Len(kept[m]) <= m
                      /\ IsInjective(list) => IsInjective(kept[m])
           S == {m \in 0..Len(list) : ~Part(m)}
<1>1. SUFFICES ASSUME S # {} PROVE FALSE
  OBVIOUS
<1>2. PICK m \in S : \A g \in S : m <= g
  <2>1. S \in SUBSET (0..Len(list)) /\ Len(list) \in Nat
    OBVIOUS
  <2> HIDE DEF S
  <2> QED BY <1>1, <2>1, LeastOf
<1>3. kept[m] = IF m = 0 THEN <<>>
            ELSE IF list[m] \in set THEN Append(kept[m - 1], list[m]) ELSE kept[m - 1]
  BY DEF Filters
<1>4. CASE m = 0
  <2>1. kept[m] = <<>>
    BY <1>3, <1>4
  <2>2. Part(m)
    BY <2>1, <1>4 DEF IsInjective
  <2> QED BY <2>2
<1>5. CASE m # 0
  <2>1. m - 1 \in 0..Len(list) /\ m - 1 \notin S
    <3>1. m \in 0..Len(list)
      BY <1>2
    <3>2. Len(list) \in Nat /\ \A g \in S : g \in 0..Len(list)
      OBVIOUS
    <3> HIDE DEF Part, S
    <3>3. QED
      BY <3>1, <3>2, <1>2, <1>5
  <2>2. Part(m - 1)
    BY <2>1
  <2> DEFINE A == {list[i] : i \in 1..m - 1} \cap set
             B == {list[i] : i \in 1..m} \cap set
             old == kept[m - 1]
  <2>3. m \in 1..Len(list) /\ A \subseteq B /\ old \in Seq(A)
    BY <2>2, <1>5
  <2>4. old \in Seq(B) /\ Len(old) \in Nat
    BY <2>3
  <2>5. CASE list[m] \in set
    <3>1. kept[m] = Append(old, list[m]) /\ list[m] \in B
      BY <1>3, <1>5, <2>3, <2>5
    <3>2. kept[m] \in Seq(B) /\ Len(kept[m]) <= m
      <4>1. Len(old) <= m - 1
        BY <2>2
      <4> HIDE DEF old, B
      <4> QED BY <3>1, <2>4, <4>1
    <3>3. ASSUME IsInjective(list) PROVE IsInjective(kept[m])
      <4>1. list[m] \notin A
        BY <3>3, <2>3 DEF IsInjective
      <4>2. \A i \in 1..Len(old) : old[i] # list[m]
        <5> HIDE DEF A, old
        <5> QED BY <4>1, <2>3
      <4>3. IsInjective(old)
        BY <2>2, <3>3
      <4> HIDE DEF old, A, B
      <4>4. DOMAIN kept[m] = 1..Len(old) + 1 /\ DOMAIN old = 1..Len(old)
        BY <3>1, <2>4
      <4>5. \A i \in 1..Len(old) + 1 : kept[m][i] = IF i = Len(old) + 1 THEN list[m] ELSE old[i]
        BY <3>1, <2>4
      <4>6. QED
        BY <4>2, <4>3, <4>4, <4>5, <2>4 DEF IsInjective
    <3>4. QED
      BY <3>2, <3>3
  <2>6. CASE list[m] \notin set
    <3>1. kept[m] = old
      BY <1>3, <1>5, <2>6
    <3>2. Part(m)
      BY <3>1, <2>2, <2>4
    <3> QED BY <3>2
  <2>7. QED
    BY <2>5, <2>6
<1>6. QED
  BY <1>4, <1>5

(* The list that a health check leaves has only endpoints of the configured     *)
(* list that pass, is no longer than it, and names none twice if that did not.  *)
LEMMA KeptIsPart ==
  ASSUME NEW X, NEW list \in Seq(X), NEW set
  PROVE  /\ Kept(list, set) \in Seq(ToSet(list) \cap set)
         /\ Len(Kept(list, set)) <= Len(list)
         /\ IsInjective(list) => IsInjective(Kept(list, set))
<1> DEFINE kept == CHOOSE f : f = [n \in 0..Len(list) |->
                     IF n = 0 THEN <<>>
                     ELSE IF list[n] \in set THEN Append(f[n - 1], list[n]) ELSE f[n - 1]]
<1>1. Kept(list, set) = kept[Len(list)]
  BY DEF Kept
<1>2. Filters(kept, list, set, Len(list))
  <2>1. Len(list) \in Nat
    OBVIOUS
  <2>2. \E f : Filters(f, list, set, Len(list))
    BY <2>1, FilterExists
  <2>3. \E f : f = [n \in 0..Len(list) |->
                     IF n = 0 THEN <<>>
                     ELSE IF list[n] \in set THEN Append(f[n - 1], list[n]) ELSE f[n - 1]]
    BY <2>2, Zenon DEF Filters
  <2>4. kept = [n \in 0..Len(list) |->
                     IF n = 0 THEN <<>>
                     ELSE IF list[n] \in set THEN Append(kept[n - 1], list[n]) ELSE kept[n - 1]]
    BY <2>3, Zenon
  <2> HIDE DEF kept
  <2> QED BY <2>4, Zenon DEF Filters
<1> HIDE DEF kept
<1>3. Len(list) \in 0..Len(list)
  OBVIOUS
<1>4. /\ kept[Len(list)] \in Seq({list[i] : i \in 1..Len(list)} \cap set)
      /\ Len(kept[Len(list)]) <= Len(list)
      /\ IsInjective(list) => IsInjective(kept[Len(list)])
  BY <1>2, <1>3, FilterKeeps
<1>5. {list[i] : i \in 1..Len(list)} = ToSet(list)
  BY DEF ToSet
<1>6. QED
  BY <1>1, <1>4, <1>5

-----------------------------------------------------------------------------
(* Counting round.                                                          *)

(* Division with rest leaves one quotient and one rest.                      *)
LEMMA OneRest ==
  ASSUME NEW n \in Nat \ {0}, NEW q \in Nat, NEW p \in Nat,
         NEW r \in 0..n - 1, NEW s \in 0..n - 1, n * q + r = n * p + s
  PROVE  r = s
<1>1. CASE q = p
  BY <1>1
<1>2. CASE q < p
  <2>1. PICK d \in Nat : p = q + 1 + d
    BY <1>2
  <2>2. n * p = n * q + n + n * d
    BY <2>1
  <2>3. n * d >= 0
    BY <2>1
  <2>4. QED
    BY <2>2, <2>3
<1>3. CASE p < q
  <2>1. PICK d \in Nat : q = p + 1 + d
    BY <1>3
  <2>2. n * q = n * p + n + n * d
    BY <2>1
  <2>3. n * d >= 0
    BY <2>1
  <2>4. QED
    BY <2>2, <2>3
<1>4. QED
  BY <1>1, <1>2, <1>3

LEMMA RestOf ==
  ASSUME NEW n \in Nat \ {0}, NEW x \in Nat
  PROVE  /\ (x % n) \in 0..n - 1
         /\ (x \div n) \in Nat
         /\ x = n * (x \div n) + (x % n)
OBVIOUS

(* The rest of a successor.                                                 *)
LEMMA RestOfNext ==
  ASSUME NEW n \in Nat \ {0}, NEW x \in Nat
  PROVE  (x + 1) % n = IF (x % n) + 1 = n THEN 0 ELSE (x % n) + 1
<1> DEFINE q == x \div n
           p == (x + 1) \div n
           r == x % n
           s == (x + 1) % n
<1>1. r \in 0..n - 1 /\ q \in Nat /\ x = n * q + r
  BY RestOf
<1>2. s \in 0..n - 1 /\ p \in Nat /\ x + 1 = n * p + s
  BY RestOf, x + 1 \in Nat
<1> HIDE DEF q, p, r, s
<1>3. CASE r + 1 = n
  <2>1. n * (q + 1) + 0 = n * p + s
    <3>1. n * (q + 1) = n * q + n
      BY <1>1
    <3>2. QED
      BY <3>1, <1>1, <1>2, <1>3
  <2>2. 0 = s
    BY <2>1, <1>1, <1>2, OneRest
  <2>3. QED
    BY <2>2, <1>3 DEF r, s
<1>4. CASE r + 1 # n
  <2>1. n * q + (r + 1) = n * p + s /\ r + 1 \in 0..n - 1
    BY <1>1, <1>2, <1>4
  <2>2. r + 1 = s
    BY <2>1, <1>1, <1>2, OneRest
  <2>3. QED
    BY <2>2, <1>4 DEF r, s
<1>5. QED
  BY <1>3, <1>4

(* The index after one request points one further in the list, round and round, *)
(* whatever multiple of the list's length it is counted modulo.                *)
LEMMA OneFurther ==
  ASSUME NEW c \in Nat \ {0}, NEW n \in Nat \ {0}, c % n = 0, NEW i \in 0..c - 1
  PROVE  /\ (i % n) + 1 = n => ((i + 1) % c) % n = 0
         /\ (i % n) + 1 # n => ((i + 1) % c) % n = (i % n) + 1
<1>1. i \in Nat /\ (i % n) \in 0..n - 1
  BY RestOf
<1>2. i % c = i
  <2>1. (i % c) \in 0..c - 1 /\ (i \div c) \in Nat /\ i = c * (i \div c) + (i % c)
    BY <1>1, RestOf
  <2>2. c * 0 + i = c * (i \div c) + (i % c)
    BY <2>1
  <2>3. QED
    BY <2>1, <2>2, OneRest
<1>3. (i + 1) % c = IF i + 1 = c THEN 0 ELSE i + 1
  <2>1. (i + 1) % c = IF (i % c) + 1 = c THEN 0 ELSE (i % c) + 1
    BY <1>1, RestOfNext
  <2>2. QED
    BY <2>1, <1>2, Zenon
<1>4. (i + 1) % n = IF (i % n) + 1 = n THEN 0 ELSE (i % n) + 1
  BY <1>1, RestOfNext
<1>5. CASE i + 1 = c
  <2>1. (i + 1) % n = 0
    BY <1>5
  <2>2. (i % n) + 1 = n
    BY <2>1, <1>4, <1>1
  <2>3. 0 % n = 0
    <3>1. (0 % n) \in 0..n - 1 /\ (0 \div n) \in Nat /\ 0 = n * (0 \div n) + (0 % n)
      BY RestOf
    <3>2. n * 0 + 0 = n * (0 \div n) + (0 % n)
      BY <3>1
    <3>3. QED
      BY <3>1, <3>2, OneRest
  <2>4. QED
    BY <1>3, <1>5, <2>2, <2>3
<1>6. CASE i + 1 # c
  BY <1>3, <1>4, <1>6
<1>7. QED
  BY <1>5, <1>6

-----------------------------------------------------------------------------
(* The invariant.                                                           *)

\* How many attempts of a request took an endpoint and are not answered.
Attempts(req) == IF req.pc \in {"sent", "failed"} THEN req.attempt ELSE req.attempt - 1

\* The positions, from 0, of the n endpoints before the one the index points at.
Before(n, at, size) == {q \in 0..size - 1 : IF q < at THEN at - q <= n ELSE at + size - q <= n}

RequestState ==
  [pc : {"ready", "waiting", "sent", "ok", "failed"}, attempt : 1..retryAttempts,
   url : Urls \cup {""}, tried : SUBSET Urls, alone : BOOLEAN]

CheckState == [answers : UNION {[S -> AnyState] : S \in SUBSET Urls}, waiting : Seq(Int)]

CallerOK ==
  /\ caller \in {"start", "valset", "idle", "tip", "status", "info", "range", "fallback"}
  /\ from \in 0..RangeLength
  /\ nodes \in [Urls -> AnyState]

PagingOK == pages \in 1..MaxPages /\ nextKey \in 0..MaxPages

ListsOK ==
  /\ healthy \in [Kind -> Seq(Urls)] /\ fresh \in [Kind -> BOOLEAN] /\ index \in [Kind -> Nat]
  /\ \A kind \in Kind :
       /\ healthy[kind] \in Seq(ToSet(urls[kind]))
       /\ Len(healthy[kind]) <= Len(urls[kind])
       /\ IsInjective(urls[kind]) => IsInjective(healthy[kind])
       /\ index[kind] \in 0..IndexCycle[kind] - 1

RequestsOK ==
  /\ DOMAIN requests \subseteq Int /\ requests \in [DOMAIN requests -> RequestState]
  /\ \A r \in DOMAIN requests : requests[r].tried \subseteq ToSet(urls[KindOf(r)])
  /\ caller = "idle" => DOMAIN requests = {}

\* A check is awaited by requests of its kind, by the one that started it too.
ChecksOK ==
  /\ DOMAIN checks \subseteq DOMAIN requests /\ checks \in [DOMAIN checks -> CheckState]
  /\ \A s \in DOMAIN checks :
       /\ DOMAIN checks[s].answers \subseteq ToSet(urls[KindOf(s)])
       /\ s \in ToSet(checks[s].waiting)
       /\ \A r \in ToSet(checks[s].waiting) :
            r \in DOMAIN requests /\ requests[r].pc = "waiting" /\ KindOf(r) = KindOf(s)

\* The checks that run are those that can be joined.
Joinable ==
  /\ inFlight \in [Kind -> SUBSET Int]
  /\ \A kind \in Kind : inFlight[kind] = {s \in DOMAIN checks : KindOf(s) = kind}
  /\ OneCheck

\* The attempts of a request that was alone met the endpoints before the index,
\* each a different one.
WentRound(r) ==
  LET req == requests[r]
      list == healthy[KindOf(r)]
  IN req.alone /\ list # <<>> =>
       /\ req.pc = "failed" => req.attempt = retryAttempts
       /\ req.pc # "ok" =>
            \A q \in Before(Attempts(req), index[KindOf(r)] % Len(list), Len(list)) :
              list[q + 1] \in req.tried

Round == \A r \in DOMAIN requests : WentRound(r)

QInv == CallerOK /\ PagingOK /\ ListsOK /\ RequestsOK /\ ChecksOK /\ Joinable /\ Round

-----------------------------------------------------------------------------
(* What the operators do.                                                   *)

LEMMA Configured ==
  ASSUME NEW kind \in Kind
  PROVE  /\ urls[kind] \in Seq(ToSet(urls[kind])) /\ ToSet(urls[kind]) \subseteq Urls
         /\ IndexCycle[kind] \in Nat \ {0}
         /\ \A n \in 1..Len(urls[kind]) : IndexCycle[kind] % n = 0
<1>1. CASE kind = "rpc"
  BY <1>1, QueryOperatorAssumption DEF urls, Urls, Kind
<1>2. CASE kind = "api"
  BY <1>2, QueryOperatorAssumption DEF urls, Urls, Kind
<1>3. QED
  BY <1>1, <1>2 DEF Kind

LEMMA KindIsKind == \A r : KindOf(r) \in Kind
BY DEF KindOf, Kind

(* The verdict of a health check is a part of the configured list.            *)
LEMMA VerdictIsPart ==
  ASSUME NEW kind \in Kind, NEW answers
  PROVE  LET list == checkHealth(kind, answers) IN
         /\ list \in Seq(ToSet(urls[kind])) /\ Len(list) <= Len(urls[kind])
         /\ IsInjective(urls[kind]) => IsInjective(list)
<1>1. \E set : checkHealth(kind, answers) = Kept(urls[kind], set)
  <2>1. CASE kind = "rpc"
    BY <2>1 DEF checkHealth, rpcCheckHealth, urls, Kind
  <2>2. CASE kind = "api"
    BY <2>2 DEF checkHealth, apiCheckHealth, urls, Kind
  <2>3. QED
    BY <2>1, <2>2 DEF Kind
<1>2. PICK set : checkHealth(kind, answers) = Kept(urls[kind], set)
  BY <1>1
<1>3. urls[kind] \in Seq(ToSet(urls[kind]))
  BY Configured
<1>4. /\ Kept(urls[kind], set) \in Seq(ToSet(urls[kind]) \cap set)
      /\ Len(Kept(urls[kind], set)) <= Len(urls[kind])
      /\ IsInjective(urls[kind]) => IsInjective(Kept(urls[kind], set))
  <2> DEFINE list == urls[kind]
             part == ToSet(urls[kind])
  <2>1. list \in Seq(part)
    BY <1>3
  <2> HIDE DEF list, part
  <2>2. /\ Kept(list, set) \in Seq(ToSet(list) \cap set)
        /\ Len(Kept(list, set)) <= Len(list)
        /\ IsInjective(list) => IsInjective(Kept(list, set))
    BY <2>1, KeptIsPart
  <2>3. QED
    BY <2>2 DEF list
<1>5. Seq(ToSet(urls[kind]) \cap set) \subseteq Seq(ToSet(urls[kind]))
  OBVIOUS
<1>6. QED
  BY <1>2, <1>4, <1>5

LEMMA FailedEffect ==
  ASSUME NEW req \in RequestState
  PROVE  LET new == AttemptFailed(req) IN
         /\ new \in RequestState
         /\ new.alone = req.alone /\ new.tried = req.tried
         /\ \/ new.pc = "ready" /\ new.attempt = req.attempt + 1
            \/ new.pc = "failed" /\ new.attempt = req.attempt /\ req.attempt = retryAttempts
<1>0. retryAttempts \in Nat /\ req.attempt \in 1..retryAttempts
  BY QueryOperatorAssumption DEF RequestState
<1>1. CASE req.attempt < retryAttempts
  <2>1. AttemptFailed(req) = [req EXCEPT !.pc = "ready", !.attempt = req.attempt + 1]
    BY <1>1 DEF AttemptFailed
  <2>2. req.attempt + 1 \in 1..retryAttempts
    BY <1>0, <1>1
  <2>3. QED
    BY <2>1, <2>2 DEF RequestState
<1>2. CASE ~(req.attempt < retryAttempts)
  <2>1. AttemptFailed(req) = [req EXCEPT !.pc = "failed"]
    BY <1>2 DEF AttemptFailed
  <2>2. req.attempt = retryAttempts
    BY <1>0, <1>2
  <2>3. QED
    BY <2>1, <2>2 DEF RequestState
<1>3. QED
  BY <1>1, <1>2

(* A request that was not woken loses nothing but its loneliness.             *)
LEMMA OthersEffect ==
  ASSUME RequestsOK, NEW kind \in Kind, NEW ids, NEW list,
         NEW r \in DOMAIN requests, r \notin ToSet(ids)
  PROVE  LET new == Picked(kind, ids, list)[r] IN
         /\ new \in RequestState
         /\ new.pc = requests[r].pc /\ new.attempt = requests[r].attempt
         /\ new.tried = requests[r].tried
         /\ new.alone => requests[r].alone /\ KindOf(r) # kind
<1> DEFINE req == requests[r]
           keeps == req.alone /\ KindOf(r) # kind
<1>1. req \in RequestState
  BY DEF RequestsOK
<1>2. keeps \in BOOLEAN
  BY Zenon
<1>3. Picked(kind, ids, list)[r] = [req EXCEPT !.alone = keeps]
  BY DEF Picked
<1>4. [req EXCEPT !.alone = keeps].alone = keeps
  <2> HIDE DEF keeps, req
  <2> QED BY <1>1 DEF RequestState
<1>5. QED
  <2>1. keeps => requests[r].alone /\ KindOf(r) # kind
    BY Zenon
  <2> HIDE DEF keeps
  <2>2. QED
    BY <1>1, <1>2, <1>3, <1>4, <2>1 DEF RequestState

(* A woken request has the endpoint that follows, or a failed attempt if there  *)
(* is none, and stays alone only if no other was woken with it and - past its   *)
(* first attempt - the list did not change.                                  *)
LEMMA WokenEffect ==
  ASSUME RequestsOK, ListsOK, NEW kind \in Kind, NEW ids \in Seq(Int),
         NEW list \in Seq(ToSet(urls[kind])),
         NEW r \in DOMAIN requests, r \in ToSet(ids)
  PROVE  LET new == Picked(kind, ids, list)[r] IN
         /\ new \in RequestState
         /\ new.tried \subseteq requests[r].tried \cup ToSet(urls[kind])
         /\ new.alone => /\ requests[r].alone /\ Len(ids) = 1
                         /\ requests[r].attempt > 1 => list = healthy[kind]
         /\ list = <<>> =>
              \/ new.pc = "ready"
              \/ new.pc = "failed" /\ new.attempt = retryAttempts
         /\ list # <<>> =>
              /\ new.pc = "sent" /\ new.attempt = requests[r].attempt
              /\ requests[r].tried \subseteq new.tried
              /\ Len(ids) = 1 => list[(index[kind] % Len(list)) + 1] \in new.tried
<1> DEFINE req == requests[r]
           same == /\ req.alone /\ Len(ids) = 1
                   /\ (req.attempt > 1 => list = healthy[kind])
           place == CHOOSE i \in 0..Len(ids) - 1 : ids[i + 1] = r
           url == list[((index[kind] + place) % Len(list)) + 1]
<1>1. req \in RequestState
  BY DEF RequestsOK
<1>2. same \in BOOLEAN
  BY Zenon
<1>3. place \in 0..Len(ids) - 1
  <2>1. \E i \in 0..Len(ids) - 1 : ids[i + 1] = r
    <3>1. PICK j \in 1..Len(ids) : ids[j] = r
      BY DEF ToSet
    <3>2. Len(ids) \in Nat /\ j - 1 \in 0..Len(ids) - 1 /\ (j - 1) + 1 = j
      BY <3>1
    <3>3. QED
      BY <3>1, <3>2, Zenon
  <2>2. QED
    BY <2>1, Zenon
<1>4. [req EXCEPT !.alone = same] \in RequestState /\ [req EXCEPT !.alone = same].alone = same
      /\ [req EXCEPT !.alone = same].tried = req.tried
  <2> HIDE DEF same, req
  <2> QED BY <1>1, <1>2 DEF RequestState
<1>5. same => requests[r].alone /\ Len(ids) = 1 /\ (requests[r].attempt > 1 => list = healthy[kind])
  BY Zenon
<1>6. CASE list = <<>>
  <2> DEFINE lonely == [req EXCEPT !.alone = same]
  <2>1. Picked(kind, ids, list)[r] = AttemptFailed(lonely)
    BY <1>6 DEF Picked
  <2> HIDE DEF same, lonely
  <2>2. lonely \in RequestState /\ lonely.alone = same /\ lonely.tried = req.tried
    BY <1>4, Zenon DEF lonely
  <2>3. /\ AttemptFailed(lonely) \in RequestState
        /\ AttemptFailed(lonely).alone = same /\ AttemptFailed(lonely).tried = req.tried
        /\ \/ AttemptFailed(lonely).pc = "ready"
           \/ AttemptFailed(lonely).pc = "failed" /\ AttemptFailed(lonely).attempt = retryAttempts
    BY <2>2, FailedEffect
  <2>4. QED
    BY <1>5, <1>6, <2>1, <2>3
<1>7. CASE list # <<>>
  <2> DEFINE new == [req EXCEPT !.pc = "sent", !.url = url, !.alone = same,
                                !.tried = req.tried \cup {url}]
  <2>1. Picked(kind, ids, list)[r] = new
    BY <1>7 DEF Picked
  <2>2. Len(list) \in Nat \ {0}
    BY <1>7
  <2>3. index[kind] \in Nat /\ index[kind] + place \in Nat
    <3> HIDE DEF place
    <3> QED BY <1>3 DEF ListsOK
  <2>4. url \in ToSet(urls[kind])
    <3> HIDE DEF place
    <3>1. ((index[kind] + place) % Len(list)) \in 0..Len(list) - 1
      BY <2>2, <2>3, RestOf
    <3>2. ((index[kind] + place) % Len(list)) + 1 \in 1..Len(list)
      BY <2>2, <3>1
    <3>3. \A j \in 1..Len(list) : list[j] \in ToSet(urls[kind])
      OBVIOUS
    <3>4. QED
      BY <3>2, <3>3, Zenon
  <2>5. Len(ids) = 1 => url = list[(index[kind] % Len(list)) + 1]
    <3>1. Len(ids) = 1 => place = 0
      <4> HIDE DEF place
      <4> QED BY <1>3
    <3>2. place = 0 => index[kind] + place = index[kind]
      <4> HIDE DEF place
      <4> QED BY <2>3
    <3>3. QED
      BY <3>1, <3>2, Zenon
  <2>6. url \in Urls
    BY <2>4, Configured
  <2> HIDE DEF same, url
  <2>7. /\ new \in RequestState /\ new.pc = "sent" /\ new.attempt = req.attempt
        /\ new.alone = same /\ new.tried = req.tried \cup {url}
    <3> HIDE DEF req
    <3> QED BY <1>1, <1>2, <2>6 DEF RequestState
  <2> HIDE DEF new
  <2>8. QED
    BY <1>5, <1>7, <2>1, <2>4, <2>5, <2>7
<1>8. QED
  BY <1>6, <1>7

(* Going round: the endpoints before the next position are the one at the      *)
(* position left and those before it.                                        *)
LEMMA BeforeNext ==
  ASSUME NEW n \in Nat \ {0}, NEW at \in 0..n - 1, NEW k \in Nat,
         NEW q \in Before(k + 1, IF at + 1 = n THEN 0 ELSE at + 1, n)
  PROVE  q = at \/ (k > 0 /\ q \in Before(k, at, n))
<1>1. CASE at + 1 = n
  BY <1>1 DEF Before
<1>2. CASE at + 1 # n
  BY <1>2 DEF Before
<1>3. QED
  BY <1>1, <1>2

-----------------------------------------------------------------------------
(* Requests take endpoints.                                                  *)

\* The requests of ids, all of one kind and none with an endpoint, go on with
\* list: what PickEndpoint and CheckEnds have in common.
Takes(kind, ids, list) ==
  /\ ids \in Seq(Int) /\ ids # <<>>
  /\ \A r \in ToSet(ids) : /\ r \in DOMAIN requests /\ KindOf(r) = kind
                           /\ requests[r].pc \in {"ready", "waiting"}
  /\ list \in Seq(ToSet(urls[kind])) /\ Len(list) <= Len(urls[kind])
  /\ IsInjective(urls[kind]) => IsInjective(list)
  /\ healthy' = [healthy EXCEPT ![kind] = list]
  /\ index' = [index EXCEPT ![kind] = Advanced(kind, Len(ids))]
  /\ requests' = Picked(kind, ids, list)
  /\ UNCHANGED caller

LEMMA TakesLists ==
  ASSUME ListsOK, NEW kind \in Kind, NEW ids, NEW list, Takes(kind, ids, list),
         fresh' \in [Kind -> BOOLEAN]
  PROVE  ListsOK'
<1>1. list \in Seq(Urls)
  BY Configured DEF Takes
<1>2. Advanced(kind, Len(ids)) \in 0..IndexCycle[kind] - 1
  <2>1. index[kind] + Len(ids) \in Nat
    BY DEF ListsOK, Takes
  <2>2. QED
    BY <2>1, Configured, RestOf DEF Advanced
<1>3. IndexCycle[kind] \in Nat
  BY Configured
<1>4. Advanced(kind, Len(ids)) \in Nat
  BY <1>2, <1>3
<1> HIDE DEF Advanced
<1>5. healthy' \in [Kind -> Seq(Urls)] /\ index' \in [Kind -> Nat]
  BY <1>1, <1>4 DEF ListsOK, Takes
<1>6. ASSUME NEW k \in Kind
      PROVE  /\ healthy'[k] \in Seq(ToSet(urls[k])) /\ Len(healthy'[k]) <= Len(urls[k])
             /\ IsInjective(urls[k]) => IsInjective(healthy'[k])
             /\ index'[k] \in 0..IndexCycle[k] - 1
  <2>1. CASE k = kind
    <3>1. healthy'[k] = list /\ index'[k] = Advanced(kind, Len(ids))
      BY <2>1 DEF Takes, ListsOK
    <3>2. QED
      BY <2>1, <3>1, <1>2 DEF Takes
  <2>2. CASE k # kind
    <3>1. healthy'[k] = healthy[k] /\ index'[k] = index[k]
      BY <2>2 DEF Takes, ListsOK
    <3>2. QED
      BY <3>1 DEF ListsOK
  <2>3. QED
    BY <2>1, <2>2
<1>7. QED
  BY <1>5, <1>6 DEF ListsOK, urls

LEMMA TakesRequests ==
  ASSUME ListsOK, RequestsOK, NEW kind \in Kind, NEW ids, NEW list, Takes(kind, ids, list)
  PROVE  /\ RequestsOK' /\ DOMAIN requests' = DOMAIN requests
         /\ \A r \in DOMAIN requests \ ToSet(ids) : requests'[r].pc = requests[r].pc
<1>1. DOMAIN requests' = DOMAIN requests
  BY DEF Takes, Picked
<1>2. ASSUME NEW r \in DOMAIN requests
      PROVE  requests'[r] \in RequestState /\ requests'[r].tried \subseteq ToSet(urls[KindOf(r)])
  <2>1. CASE r \in ToSet(ids)
    <3>1. /\ requests'[r] \in RequestState
          /\ requests'[r].tried \subseteq requests[r].tried \cup ToSet(urls[kind])
      BY <2>1, WokenEffect DEF Takes
    <3>2. requests[r].tried \subseteq ToSet(urls[kind]) /\ KindOf(r) = kind
      BY <2>1 DEF Takes, RequestsOK
    <3>3. QED
      BY <3>1, <3>2
  <2>2. CASE r \notin ToSet(ids)
    <3>1. requests'[r] \in RequestState /\ requests'[r].tried = requests[r].tried
      BY <2>2, OthersEffect DEF Takes
    <3>2. QED
      BY <3>1 DEF RequestsOK
  <2>3. QED
    BY <2>1, <2>2
<1>3. requests' \in [DOMAIN requests' -> RequestState]
  <2> DEFINE P == Picked(kind, ids, list)
  <2>1. P = [r \in DOMAIN P |-> P[r]]
    BY DEF Picked
  <2>2. requests' = P
    BY DEF Takes
  <2> HIDE DEF P
  <2>3. QED
    BY <1>1, <1>2, <2>1, <2>2
<1>4. \A r \in DOMAIN requests \ ToSet(ids) : requests'[r].pc = requests[r].pc
  BY OthersEffect DEF Takes
<1>5. QED
  <2>1. caller' = "idle" => DOMAIN requests' = {}
    BY <1>1 DEF Takes, RequestsOK
  <2>2. DOMAIN requests' \subseteq Int
    BY <1>1 DEF RequestsOK
  <2>3. \A r \in DOMAIN requests' : requests'[r].tried \subseteq ToSet(urls[KindOf(r)])
    BY <1>1, <1>2
  <2>4. QED
    BY <1>1, <1>3, <1>4, <2>1, <2>2, <2>3 DEF RequestsOK, urls

(* Whoever goes on alone has met, after this endpoint, as many endpoints before  *)
(* the index as it made attempts.                                             *)
LEMMA TakesRound ==
  ASSUME ListsOK, RequestsOK, Round, NEW kind \in Kind, NEW ids, NEW list,
         Takes(kind, ids, list)
  PROVE  Round'
<1>0. DOMAIN requests' = DOMAIN requests
  BY DEF Takes, Picked
<1>1. SUFFICES ASSUME NEW r \in DOMAIN requests,
                      requests'[r].alone, healthy'[KindOf(r)] # <<>>
               PROVE  /\ requests'[r].pc = "failed" => requests'[r].attempt = retryAttempts
                      /\ requests'[r].pc # "ok" =>
                           \A q \in Before(Attempts(requests'[r]),
                                           index'[KindOf(r)] % Len(healthy'[KindOf(r)]),
                                           Len(healthy'[KindOf(r)])) :
                             healthy'[KindOf(r)][q + 1] \in requests'[r].tried
  BY <1>0 DEF Round, WentRound
<1>2. CASE r \notin ToSet(ids)
  <2>1. /\ requests'[r].pc = requests[r].pc /\ requests'[r].attempt = requests[r].attempt
        /\ requests'[r].tried = requests[r].tried
        /\ requests'[r].alone => requests[r].alone /\ KindOf(r) # kind
    BY <1>2, OthersEffect DEF Takes
  <2>2. KindOf(r) \in Kind /\ healthy'[KindOf(r)] = healthy[KindOf(r)]
        /\ index'[KindOf(r)] = index[KindOf(r)]
    BY <1>1, <2>1, KindIsKind DEF Takes, ListsOK
  <2>3. WentRound(r) /\ requests[r].alone
    BY <1>1, <2>1 DEF Round
  <2>4. Attempts(requests'[r]) = Attempts(requests[r])
    BY <2>1 DEF Attempts
  <2>5. QED
    BY <1>1, <2>1, <2>2, <2>3, <2>4 DEF WentRound
<1>3. CASE r \in ToSet(ids)
  <2>0. KindOf(r) = kind /\ requests[r].pc \in {"ready", "waiting"}
    BY <1>3 DEF Takes
  <2>1. healthy'[kind] = list /\ index'[kind] = Advanced(kind, Len(ids)) /\ list # <<>>
    BY <1>1, <2>0 DEF Takes, ListsOK
  <2>2. /\ requests[r].alone /\ Len(ids) = 1
        /\ requests[r].attempt > 1 => list = healthy[kind]
        /\ requests'[r].pc = "sent" /\ requests'[r].attempt = requests[r].attempt
        /\ requests[r].tried \subseteq requests'[r].tried
        /\ list[(index[kind] % Len(list)) + 1] \in requests'[r].tried
    BY <1>1, <1>3, <2>1, WokenEffect DEF Takes
  <2> DEFINE size == Len(list)
             at == index[kind] % size
             k == requests[r].attempt - 1
  <2>3. /\ size \in Nat \ {0} /\ size \in 1..Len(urls[kind])
        /\ index[kind] \in 0..IndexCycle[kind] - 1 /\ index[kind] \in Nat
    BY <2>1, Configured DEF Takes, ListsOK
  <2>4. IndexCycle[kind] \in Nat \ {0} /\ IndexCycle[kind] % size = 0
    BY <2>3, Configured
  <2>5. k \in Nat /\ k + 1 = requests[r].attempt /\ requests[r].attempt \in Int
    <3>1. requests[r] \in RequestState
      BY DEF RequestsOK
    <3>2. requests[r].attempt \in 1..retryAttempts /\ retryAttempts \in Nat
      BY <3>1, QueryOperatorAssumption DEF RequestState
    <3>3. QED
      BY <3>2
  <2>6. at \in 0..size - 1
    BY <2>3, RestOf
  <2>7. index'[kind] % size = IF at + 1 = size THEN 0 ELSE at + 1
    <3>1. index'[kind] = (index[kind] + 1) % IndexCycle[kind]
      BY <2>1, <2>2 DEF Advanced
    <3> DEFINE c == IndexCycle[kind]
               i == index[kind]
    <3>2. c \in Nat \ {0} /\ c % size = 0 /\ i \in 0..c - 1
      BY <2>3, <2>4
    <3> HIDE DEF size, c, i
    <3>3. /\ (i % size) + 1 = size => ((i + 1) % c) % size = 0
          /\ (i % size) + 1 # size => ((i + 1) % c) % size = (i % size) + 1
      <4>1. size \in Nat \ {0}
        BY <2>3
      <4>2. c \in Nat \ {0}
        BY <3>2
      <4>3. c % size = 0
        BY <3>2
      <4>4. i \in 0..c - 1
        BY <3>2
      <4>5. QED
        BY <4>1, <4>2, <4>3, <4>4, OneFurther
    <3>4. QED
      BY <3>1, <3>3, Zenon DEF c, i
  <2>8. Attempts(requests'[r]) = k + 1
    BY <2>2, <2>5 DEF Attempts
  <2>9. Attempts(requests[r]) = k
    BY <2>0 DEF Attempts
  <2>10. ASSUME NEW q \in Before(k + 1, IF at + 1 = size THEN 0 ELSE at + 1, size)
         PROVE  list[q + 1] \in requests'[r].tried
    <3>1. CASE q = at
      BY <2>2, <3>1, Zenon
    <3>2. CASE k > 0 /\ q \in Before(k, at, size)
      <4>1. list = healthy[kind]
        BY <2>2, <2>5, <3>2
      <4>2. WentRound(r)
        BY DEF Round
      <4>3. \A p \in Before(k, at, size) : list[p + 1] \in requests[r].tried
        <5>1. requests[r].pc # "ok"
          BY <2>0
        <5> HIDE DEF k
        <5>2. QED
          BY <4>1, <4>2, <5>1, <2>0, <2>1, <2>2, <2>9 DEF WentRound
      <4>4. QED
        BY <3>2, <4>3, <2>2
    <3>3. QED
      <4> HIDE DEF size, at, k
      <4> QED BY <3>1, <3>2, <2>3, <2>5, <2>6, <2>10, BeforeNext
  <2>11. QED
    <3> HIDE DEF k, at
    <3> QED BY <2>0, <2>1, <2>2, <2>7, <2>8, <2>10, Zenon
<1>4. QED
  BY <1>2, <1>3

-----------------------------------------------------------------------------
(* What most steps leave alone.                                              *)

LEMMA ListsKept ==
  ASSUME ListsOK, fresh' \in [Kind -> BOOLEAN], UNCHANGED <<healthy, index>>
  PROVE  ListsOK'
BY DEF ListsOK, urls

LEMMA JoinableKept ==
  ASSUME Joinable, DOMAIN checks' = DOMAIN checks, UNCHANGED inFlight
  PROVE  Joinable'
BY DEF Joinable, OneCheck, KindOf

\* Who waits keeps waiting.
LEMMA ChecksKept ==
  ASSUME ChecksOK, UNCHANGED checks, DOMAIN requests' = DOMAIN requests,
         \A r \in DOMAIN requests : requests[r].pc = "waiting" => requests'[r].pc = "waiting"
  PROVE  ChecksOK'
BY DEF ChecksOK, urls, KindOf

\* A request whose attempts did not become more, over the same list.
LEMMA RoundKept ==
  ASSUME Round, UNCHANGED <<healthy, index>>, DOMAIN requests' = DOMAIN requests,
         \A r \in DOMAIN requests :
           \/ requests'[r] = requests[r]
           \/ requests'[r].pc = "ok"
           \/ /\ requests[r].pc # "ok"
              /\ requests'[r].alone = requests[r].alone /\ requests'[r].tried = requests[r].tried
              /\ Attempts(requests'[r]) = Attempts(requests[r])
              /\ requests'[r].pc = "failed" => requests'[r].attempt = retryAttempts
  PROVE  Round'
<1>1. SUFFICES ASSUME NEW r \in DOMAIN requests PROVE WentRound(r)'
  BY DEF Round
<1>2. WentRound(r)
  BY DEF Round
<1>3. healthy'[KindOf(r)] = healthy[KindOf(r)] /\ index'[KindOf(r)] = index[KindOf(r)]
  OBVIOUS
<1>4. CASE requests'[r] = requests[r]
  BY <1>2, <1>3, <1>4 DEF WentRound
<1>5. CASE requests'[r].pc = "ok"
  BY <1>5 DEF WentRound
<1>6. CASE /\ requests[r].pc # "ok"
           /\ requests'[r].alone = requests[r].alone /\ requests'[r].tried = requests[r].tried
           /\ Attempts(requests'[r]) = Attempts(requests[r])
           /\ requests'[r].pc = "failed" => requests'[r].attempt = retryAttempts
  BY <1>2, <1>3, <1>6 DEF WentRound
<1>7. QED
  BY <1>4, <1>5, <1>6

\* One request changes.
LEMMA RequestChanges ==
  ASSUME RequestsOK, NEW r \in DOMAIN requests, NEW req \in RequestState,
         req.tried = requests[r].tried, requests' = [requests EXCEPT ![r] = req],
         UNCHANGED caller
  PROVE  /\ RequestsOK' /\ DOMAIN requests' = DOMAIN requests
         /\ requests'[r] = req /\ \A s \in DOMAIN requests \ {r} : requests'[s] = requests[s]
<1>1. requests' \in [DOMAIN requests -> RequestState]
  BY DEF RequestsOK
<1>2. /\ DOMAIN requests' = DOMAIN requests
      /\ requests'[r] = req /\ \A s \in DOMAIN requests \ {r} : requests'[s] = requests[s]
  OBVIOUS
<1>3. ASSUME NEW s \in DOMAIN requests PROVE requests'[s].tried \subseteq ToSet(urls[KindOf(s)])
  BY <1>2 DEF RequestsOK
<1>4. QED
  BY <1>1, <1>2, <1>3 DEF RequestsOK, urls, KindOf

-----------------------------------------------------------------------------
(* The steps of a request.                                                   *)

LEMMA PickEndpointNext ==
  ASSUME QInv, NEW r \in DOMAIN requests, PickEndpoint(r)
  PROVE  QInv'
<1> DEFINE kind == KindOf(r)
           list == healthy[kind]
<1>1. kind \in Kind
  BY KindIsKind
<1>2. Takes(kind, <<r>>, list)
  <2>1. healthy' = [healthy EXCEPT ![kind] = list]
    BY <1>1 DEF PickEndpoint, QInv, ListsOK
  <2>2. <<r>> \in Seq(Int) /\ Len(<<r>>) = 1 /\ <<r>> # <<>> /\ ToSet(<<r>>) = {r}
    BY DEF QInv, RequestsOK, ToSet
  <2>3. /\ list \in Seq(ToSet(urls[kind])) /\ Len(list) <= Len(urls[kind])
        /\ IsInjective(urls[kind]) => IsInjective(list)
    BY <1>1 DEF QInv, ListsOK
  <2> HIDE DEF list
  <2>4. QED
    BY <2>1, <2>2, <2>3 DEF PickEndpoint, Takes, list
<1>3. fresh' \in [Kind -> BOOLEAN] /\ ToSet(<<r>>) = {r}
  BY DEF PickEndpoint, QInv, ListsOK, ToSet
<1> HIDE DEF kind, list
<1>4. ListsOK'
  BY <1>1, <1>2, <1>3, TakesLists DEF QInv
<1>5. /\ RequestsOK' /\ DOMAIN requests' = DOMAIN requests
      /\ \A s \in DOMAIN requests \ {r} : requests'[s].pc = requests[s].pc
  BY <1>1, <1>2, <1>3, TakesRequests DEF QInv
<1>6. Round'
  BY <1>1, <1>2, TakesRound DEF QInv
<1>7. ChecksOK'
  <2>1. requests[r].pc # "waiting" /\ UNCHANGED checks
    BY DEF PickEndpoint
  <2>2. QED
    BY <1>5, <2>1, ChecksKept DEF QInv
<1>8. Joinable'
  BY JoinableKept DEF QInv, PickEndpoint
<1>9. CallerOK' /\ PagingOK'
  BY DEF QInv, PickEndpoint, CallerOK, PagingOK
<1>10. QED
  BY <1>4, <1>5, <1>6, <1>7, <1>8, <1>9 DEF QInv

LEMMA AwaitCheckNext ==
  ASSUME QInv, NEW r \in DOMAIN requests, AwaitCheck(r)
  PROVE  QInv'
<1> DEFINE kind == KindOf(r)
           req == [requests[r] EXCEPT !.pc = "waiting"]
<1>1. kind \in Kind /\ r \in Int /\ requests[r] \in RequestState /\ requests[r].pc = "ready"
  BY KindIsKind DEF QInv, RequestsOK, AwaitCheck
<1>2. /\ req \in RequestState /\ req.tried = requests[r].tried /\ req.pc = "waiting"
      /\ req.alone = requests[r].alone /\ req.attempt = requests[r].attempt
  BY <1>1 DEF RequestState
<1>3. requests' = [requests EXCEPT ![r] = req] /\ UNCHANGED caller
  BY DEF AwaitCheck
<1> HIDE DEF req
<1>4. /\ RequestsOK' /\ DOMAIN requests' = DOMAIN requests
      /\ requests'[r] = req /\ \A s \in DOMAIN requests \ {r} : requests'[s] = requests[s]
  BY <1>2, <1>3, RequestChanges DEF QInv
<1>5. ListsOK'
  BY ListsKept DEF QInv, ListsOK, AwaitCheck
<1>6. Round'
  <2>1. Attempts(req) = Attempts(requests[r])
    BY <1>1, <1>2 DEF Attempts
  <2>2. QED
    BY <1>1, <1>2, <1>4, <2>1, RoundKept DEF QInv, AwaitCheck
<1>7. CallerOK' /\ PagingOK'
  BY DEF QInv, AwaitCheck, CallerOK, PagingOK
<1>8. CASE Joins(kind) # {}
  <2>1. UNCHANGED inFlight
        /\ checks' = [s \in DOMAIN checks |->
                          IF s \in Joins(kind)
                          THEN [checks[s] EXCEPT !.waiting = Append(@, r)]
                          ELSE checks[s]]
    BY <1>8 DEF AwaitCheck
  <2>2. Joinable'
    BY <2>1, JoinableKept DEF QInv
  <2>3. ASSUME NEW s \in DOMAIN checks
        PROVE  /\ checks'[s] \in CheckState /\ checks'[s].answers = checks[s].answers
               /\ ToSet(checks[s].waiting) \subseteq ToSet(checks'[s].waiting)
               /\ \A t \in ToSet(checks'[s].waiting) :
                    t \in ToSet(checks[s].waiting) \/ (t = r /\ KindOf(s) = kind)
    <3>1. checks[s] \in CheckState
      BY DEF QInv, ChecksOK
    <3>2. CASE s \in Joins(kind)
      <4> DEFINE old == checks[s].waiting
                 new == Append(old, r)
                 more == [checks[s] EXCEPT !.waiting = new]
      <4>1. checks'[s] = more /\ KindOf(s) = kind
        BY <2>1, <3>2, <1>1 DEF Joins, QInv, Joinable
      <4>2. old \in Seq(Int) /\ new \in Seq(Int)
        BY <3>1, <1>1 DEF CheckState
      <4>3. ToSet(old) \subseteq ToSet(new) /\ ToSet(new) \subseteq ToSet(old) \cup {r}
        <5> HIDE DEF old
        <5> QED BY <4>2 DEF ToSet
      <4>4. more \in CheckState /\ more.answers = checks[s].answers /\ more.waiting = new
        <5> HIDE DEF new
        <5> QED BY <3>1, <4>2 DEF CheckState
      <4> HIDE DEF old, new, more
      <4>5. QED
        BY <4>1, <4>3, <4>4 DEF old
    <3>3. CASE s \notin Joins(kind)
      BY <2>1, <3>1, <3>3
    <3>4. QED
      BY <3>2, <3>3
  <2>4. DOMAIN checks' = DOMAIN checks /\ checks' \in [DOMAIN checks -> CheckState]
    <3> DEFINE value(s) == IF s \in Joins(kind)
                           THEN [checks[s] EXCEPT !.waiting = Append(@, r)]
                           ELSE checks[s]
    <3>1. checks' = [s \in DOMAIN checks |-> value(s)]
      BY <2>1
    <3> HIDE DEF value
    <3>2. QED
      BY <2>3, <3>1
  <2>5. ChecksOK'
    <3>1. ASSUME NEW s \in DOMAIN checks
          PROVE  /\ DOMAIN checks'[s].answers \subseteq ToSet(urls[KindOf(s)])
                 /\ s \in ToSet(checks'[s].waiting)
                 /\ \A t \in ToSet(checks'[s].waiting) :
                      t \in DOMAIN requests' /\ requests'[t].pc = "waiting" /\ KindOf(t) = KindOf(s)
      <4>1. DOMAIN checks'[s].answers \subseteq ToSet(urls[KindOf(s)])
        BY <2>3 DEF QInv, ChecksOK
      <4>2. s \in ToSet(checks'[s].waiting)
        BY <2>3 DEF QInv, ChecksOK
      <4>3. ASSUME NEW t \in ToSet(checks'[s].waiting)
            PROVE  t \in DOMAIN requests' /\ requests'[t].pc = "waiting" /\ KindOf(t) = KindOf(s)
        <5>1. CASE t = r /\ KindOf(s) = kind
          BY <5>1, <1>2, <1>4 DEF kind
        <5>2. CASE t \in ToSet(checks[s].waiting)
          <6>1. t \in DOMAIN requests /\ requests[t].pc = "waiting" /\ KindOf(t) = KindOf(s)
            BY <5>2 DEF QInv, ChecksOK
          <6>2. QED
            BY <6>1, <1>2, <1>4
        <5>3. QED
          BY <2>3, <5>1, <5>2
      <4>4. QED
        BY <4>1, <4>2, <4>3
    <3>2. DOMAIN checks' \subseteq DOMAIN requests'
      BY <2>4, <1>4 DEF QInv, ChecksOK
    <3>3. QED
      BY <2>4, <3>1, <3>2 DEF ChecksOK, urls, KindOf
  <2>6. QED
    BY <1>4, <1>5, <1>6, <1>7, <2>2, <2>5 DEF QInv
<1>9. CASE Joins(kind) = {}
  <2> DEFINE new == [answers |-> [u \in {} |-> 0], waiting |-> <<r>>]
  <2>1. /\ inFlight' = [inFlight EXCEPT ![kind] = {r}]
        /\ checks' = [s \in DOMAIN checks \cup {r} |-> IF s = r THEN new ELSE checks[s]]
    BY <1>9 DEF AwaitCheck
  <2>2. \A s \in DOMAIN checks : KindOf(s) # kind
    BY <1>1, <1>9 DEF Joins, QInv, Joinable
  <2>3. r \notin DOMAIN checks
    BY <2>2 DEF kind
  <2>4. Joinable'
    <3>1. inFlight' \in [Kind -> SUBSET Int]
      BY <1>1, <2>1 DEF QInv, Joinable
    <3>2. ASSUME NEW k \in Kind PROVE inFlight'[k] = {s \in DOMAIN checks' : KindOf(s) = k}
      <4>1. CASE k = kind
        <5>1. inFlight'[k] = {r}
          BY <4>1, <2>1 DEF QInv, Joinable
        <5>2. QED
          BY <5>1, <4>1, <2>1, <2>2 DEF kind
      <4>2. CASE k # kind
        <5>1. inFlight'[k] = inFlight[k]
          BY <4>2, <2>1 DEF QInv, Joinable
        <5>2. QED
          BY <5>1, <4>2, <2>1 DEF QInv, Joinable, kind
      <4>3. QED
        BY <4>1, <4>2
    <3>3. OneCheck'
      <4>1. \A s, t \in DOMAIN checks \cup {r} : KindOf(s) = KindOf(t) => s = t
        BY <2>2 DEF QInv, Joinable, OneCheck, kind
      <4>2. DOMAIN checks' = DOMAIN checks \cup {r}
        BY <2>1
      <4>3. QED
        BY <4>1, <4>2 DEF OneCheck
    <3>4. QED
      BY <3>1, <3>2, <3>3 DEF Joinable, KindOf
  <2>5. new \in CheckState /\ DOMAIN new.answers = {} /\ new.waiting = <<r>>
    <3>1. [u \in {} |-> 0] \in [{} -> AnyState] /\ {} \in SUBSET Urls
      OBVIOUS
    <3>2. [u \in {} |-> 0] \in UNION {[S -> AnyState] : S \in SUBSET Urls}
      BY <3>1
    <3>3. <<r>> \in Seq(Int)
      BY <1>1
    <3>4. QED
      BY <3>2, <3>3 DEF CheckState
  <2>6. ToSet(<<r>>) = {r}
    BY DEF ToSet
  <2> HIDE DEF new
  <2>7. /\ DOMAIN checks' = DOMAIN checks \cup {r} /\ checks'[r] = new
        /\ \A s \in DOMAIN checks : checks'[s] = checks[s]
    BY <2>1, <2>3
  <2>8. checks' \in [DOMAIN checks \cup {r} -> CheckState]
    BY <2>1, <2>5 DEF QInv, ChecksOK
  <2>9. ChecksOK'
    <3>1. ASSUME NEW s \in DOMAIN checks'
          PROVE  /\ DOMAIN checks'[s].answers \subseteq ToSet(urls[KindOf(s)])
                 /\ s \in ToSet(checks'[s].waiting)
                 /\ \A t \in ToSet(checks'[s].waiting) :
                      t \in DOMAIN requests' /\ requests'[t].pc = "waiting" /\ KindOf(t) = KindOf(s)
      <4>1. CASE s = r
        BY <4>1, <2>5, <2>6, <2>7, <1>2, <1>4
      <4>2. CASE s \in DOMAIN checks
        <5>1. checks'[s] = checks[s]
          BY <4>2, <2>7
        <5>2. /\ DOMAIN checks[s].answers \subseteq ToSet(urls[KindOf(s)])
              /\ s \in ToSet(checks[s].waiting)
              /\ \A t \in ToSet(checks[s].waiting) :
                   t \in DOMAIN requests /\ requests[t].pc = "waiting" /\ KindOf(t) = KindOf(s)
          BY <4>2 DEF QInv, ChecksOK
        <5>3. QED
          BY <5>1, <5>2, <1>2, <1>4
      <4>3. QED
        BY <4>1, <4>2, <2>7
    <3>2. DOMAIN checks' \subseteq DOMAIN requests'
      BY <2>7, <1>4 DEF QInv, ChecksOK
    <3>3. QED
      BY <2>7, <2>8, <3>1, <3>2 DEF ChecksOK, urls, KindOf
  <2>10. QED
    BY <1>4, <1>5, <1>6, <1>7, <2>4, <2>9 DEF QInv
<1>10. QED
  BY <1>8, <1>9

LEMMA AnswersNext ==
  ASSUME QInv, NEW r \in DOMAIN requests, Answers(r)
  PROVE  QInv'
<1> DEFINE req == [requests[r] EXCEPT !.pc = "ok"]
<1>1. requests[r] \in RequestState /\ requests[r].pc = "sent"
  BY DEF QInv, RequestsOK, Answers
<1>2. req \in RequestState /\ req.tried = requests[r].tried /\ req.pc = "ok"
  BY <1>1 DEF RequestState
<1>3. requests' = [requests EXCEPT ![r] = req] /\ UNCHANGED caller
  BY DEF Answers
<1> HIDE DEF req
<1>4. /\ RequestsOK' /\ DOMAIN requests' = DOMAIN requests
      /\ requests'[r] = req /\ \A s \in DOMAIN requests \ {r} : requests'[s] = requests[s]
  BY <1>2, <1>3, RequestChanges DEF QInv
<1>5. ListsOK'
  BY ListsKept DEF QInv, ListsOK, Answers, lists
<1>6. Round'
  BY <1>2, <1>4, RoundKept DEF QInv, Answers, lists
<1>7. ChecksOK'
  BY <1>1, <1>4, ChecksKept DEF QInv, Answers, lists
<1>8. Joinable'
  BY JoinableKept DEF QInv, Answers, lists
<1>9. CallerOK' /\ PagingOK'
  BY DEF QInv, Answers, CallerOK, PagingOK
<1>10. QED
  BY <1>4, <1>5, <1>6, <1>7, <1>8, <1>9 DEF QInv

LEMMA AnswerFailsNext ==
  ASSUME QInv, NEW r \in DOMAIN requests, AnswerFails(r)
  PROVE  QInv'
<1> DEFINE req == AttemptFailed(requests[r])
<1>1. requests[r] \in RequestState /\ requests[r].pc = "sent"
  BY DEF QInv, RequestsOK, AnswerFails
<1>2. /\ req \in RequestState
      /\ req.alone = requests[r].alone /\ req.tried = requests[r].tried
      /\ \/ req.pc = "ready" /\ req.attempt = requests[r].attempt + 1
         \/ req.pc = "failed" /\ req.attempt = requests[r].attempt
            /\ requests[r].attempt = retryAttempts
  BY <1>1, FailedEffect
<1>3. requests' = [requests EXCEPT ![r] = req] /\ UNCHANGED caller
  BY DEF AnswerFails
<1> HIDE DEF req
<1>4. /\ RequestsOK' /\ DOMAIN requests' = DOMAIN requests
      /\ requests'[r] = req /\ \A s \in DOMAIN requests \ {r} : requests'[s] = requests[s]
  BY <1>2, <1>3, RequestChanges DEF QInv
<1>5. ListsOK'
  BY ListsKept DEF QInv, ListsOK, AnswerFails, lists
<1>6. Round'
  <2>1. Attempts(req) = Attempts(requests[r])
    <3>1. requests[r].attempt \in Int
      <4>1. requests[r].attempt \in 1..retryAttempts /\ retryAttempts \in Nat
        BY <1>1, QueryOperatorAssumption DEF RequestState
      <4>2. QED
        BY <4>1
    <3>2. QED
      BY <1>1, <1>2, <3>1 DEF Attempts
  <2>2. requests[r].pc # "ok" /\ (req.pc = "failed" => req.attempt = retryAttempts)
    BY <1>1, <1>2
  <2>3. QED
    BY <1>2, <1>4, <2>1, <2>2, RoundKept DEF QInv, AnswerFails, lists
<1>7. ChecksOK'
  BY <1>1, <1>4, ChecksKept DEF QInv, AnswerFails, lists
<1>8. Joinable'
  BY JoinableKept DEF QInv, AnswerFails, lists
<1>9. CallerOK' /\ PagingOK'
  BY DEF QInv, AnswerFails, CallerOK, PagingOK
<1>10. QED
  BY <1>4, <1>5, <1>6, <1>7, <1>8, <1>9 DEF QInv

-----------------------------------------------------------------------------
(* The steps of a check.                                                     *)

LEMMA StatusArrivesNext ==
  ASSUME QInv, NEW s \in DOMAIN checks, StatusArrives(s)
  PROVE  QInv'
<1> DEFINE kind == KindOf(s)
           old == checks[s].answers
<1>1. PICK u \in ToSet(urls[kind]) \ DOMAIN old :
        checks' = [checks EXCEPT ![s].answers =
                     [v \in DOMAIN old \cup {u} |-> IF v = u THEN nodes[u] ELSE old[v]]]
  BY DEF StatusArrives
<1> DEFINE new == [v \in DOMAIN old \cup {u} |-> IF v = u THEN nodes[u] ELSE old[v]]
           check == [checks[s] EXCEPT !.answers = new]
<1>2. checks[s] \in CheckState /\ DOMAIN old \subseteq ToSet(urls[kind])
  BY DEF QInv, ChecksOK
<1>3. new \in UNION {[S -> AnyState] : S \in SUBSET Urls} /\ DOMAIN new \subseteq ToSet(urls[kind])
  <2>1. PICK S \in SUBSET Urls : old \in [S -> AnyState]
    BY <1>2 DEF CheckState
  <2>2. u \in Urls /\ nodes[u] \in AnyState
    <3>1. u \in Urls
      BY <1>1, KindIsKind, Configured
    <3>2. QED
      BY <3>1 DEF QInv, CallerOK
  <2> HIDE DEF old
  <2>3. new \in [S \cup {u} -> AnyState] /\ S \cup {u} \in SUBSET Urls
    BY <2>1, <2>2
  <2>4. DOMAIN new \subseteq ToSet(urls[kind])
    BY <1>2, <1>1
  <2> HIDE DEF new
  <2>5. QED
    BY <2>3, <2>4
<1> HIDE DEF new
<1>4. check \in CheckState /\ check.answers = new /\ check.waiting = checks[s].waiting
  BY <1>2, <1>3 DEF CheckState
<1>5. checks' = [checks EXCEPT ![s] = check]
  BY <1>1 DEF new
<1> HIDE DEF check, old
<1>6. /\ DOMAIN checks' = DOMAIN checks /\ checks' \in [DOMAIN checks -> CheckState]
      /\ checks'[s] = check /\ \A t \in DOMAIN checks \ {s} : checks'[t] = checks[t]
  BY <1>4, <1>5 DEF QInv, ChecksOK
<1>7. ChecksOK'
  <2>1. ASSUME NEW t \in DOMAIN checks
        PROVE  /\ DOMAIN checks'[t].answers \subseteq ToSet(urls[KindOf(t)])
               /\ checks'[t].waiting = checks[t].waiting
    <3>1. CASE t = s
      BY <3>1, <1>3, <1>4, <1>6
    <3>2. CASE t # s
      BY <3>2, <1>6 DEF QInv, ChecksOK
    <3>3. QED
      BY <3>1, <3>2
  <2>2. UNCHANGED requests
    BY DEF StatusArrives
  <2>3. QED
    BY <1>6, <2>1, <2>2 DEF QInv, ChecksOK, urls, KindOf
<1>8. Joinable'
  BY <1>6, JoinableKept DEF QInv, StatusArrives
<1>9. ListsOK'
  BY ListsKept DEF QInv, ListsOK, StatusArrives
<1>10. RequestsOK'
  BY DEF QInv, RequestsOK, StatusArrives, urls, KindOf
<1>11. Round'
  BY RoundKept DEF QInv, StatusArrives
<1>12. CallerOK' /\ PagingOK'
  BY DEF QInv, StatusArrives, CallerOK, PagingOK
<1>13. QED
  BY <1>7, <1>8, <1>9, <1>10, <1>11, <1>12 DEF QInv

LEMMA CheckEndsNext ==
  ASSUME QInv, NEW s \in DOMAIN checks, CheckEnds(s)
  PROVE  QInv'
<1> DEFINE kind == KindOf(s)
           ids == checks[s].waiting
           list == checkHealth(kind, checks[s].answers)
<1>1. kind \in Kind
  BY KindIsKind
<1>2. Takes(kind, ids, list)
  <2>1. ids \in Seq(Int) /\ s \in ToSet(ids)
    BY DEF QInv, ChecksOK, CheckState
  <2>2. ids # <<>>
    <3> HIDE DEF ids
    <3> QED BY <2>1 DEF ToSet
  <2>3. \A r \in ToSet(ids) : /\ r \in DOMAIN requests /\ KindOf(r) = kind
                              /\ requests[r].pc \in {"ready", "waiting"}
    BY DEF QInv, ChecksOK
  <2>4. /\ list \in Seq(ToSet(urls[kind])) /\ Len(list) <= Len(urls[kind])
        /\ IsInjective(urls[kind]) => IsInjective(list)
    BY <1>1, VerdictIsPart
  <2>5. /\ healthy' = [healthy EXCEPT ![kind] = list]
        /\ index' = [index EXCEPT ![kind] = Advanced(kind, Len(ids))]
        /\ requests' = Picked(kind, ids, list)
        /\ UNCHANGED caller
    BY DEF CheckEnds, Woken
  <2> HIDE DEF ids, list, kind
  <2>6. QED
    BY <2>1, <2>2, <2>3, <2>4, <2>5 DEF Takes
<1>3. fresh' \in [Kind -> BOOLEAN]
  BY DEF CheckEnds, QInv, ListsOK
<1>4. /\ inFlight' = [inFlight EXCEPT ![kind] = {}]
      /\ checks' = [t \in DOMAIN checks \ {s} |-> checks[t]]
  BY DEF CheckEnds
<1>5. \A t \in DOMAIN checks \ {s} : KindOf(t) # kind
  BY DEF QInv, Joinable, OneCheck
<1> HIDE DEF list
<1>6. ListsOK'
  BY <1>1, <1>2, <1>3, TakesLists DEF QInv
<1>7. /\ RequestsOK' /\ DOMAIN requests' = DOMAIN requests
      /\ \A r \in DOMAIN requests \ ToSet(ids) : requests'[r].pc = requests[r].pc
  BY <1>1, <1>2, TakesRequests DEF QInv
<1>8. Round'
  BY <1>1, <1>2, TakesRound DEF QInv
<1>9. ChecksOK'
  <2>1. ASSUME NEW t \in DOMAIN checks \ {s}
        PROVE  /\ checks[t] \in CheckState
               /\ DOMAIN checks[t].answers \subseteq ToSet(urls[KindOf(t)])
               /\ t \in ToSet(checks[t].waiting)
               /\ \A r \in ToSet(checks[t].waiting) :
                    r \in DOMAIN requests' /\ requests'[r].pc = "waiting" /\ KindOf(r) = KindOf(t)
    <3>1. /\ checks[t] \in CheckState
          /\ DOMAIN checks[t].answers \subseteq ToSet(urls[KindOf(t)])
          /\ t \in ToSet(checks[t].waiting)
          /\ \A r \in ToSet(checks[t].waiting) :
               r \in DOMAIN requests /\ requests[r].pc = "waiting" /\ KindOf(r) = KindOf(t)
      BY DEF QInv, ChecksOK
    <3>2. \A r \in ToSet(checks[t].waiting) : r \notin ToSet(ids)
      BY <3>1, <1>2, <1>5 DEF Takes
    <3>3. QED
      BY <3>1, <3>2, <1>7
  <2>2. DOMAIN checks' = DOMAIN checks \ {s} /\ \A t \in DOMAIN checks \ {s} : checks'[t] = checks[t]
    BY <1>4
  <2>3. checks' \in [DOMAIN checks \ {s} -> CheckState]
    BY <2>1, <1>4
  <2>4. DOMAIN checks' \subseteq DOMAIN requests'
    BY <2>2, <1>7 DEF QInv, ChecksOK
  <2>5. QED
    BY <2>1, <2>2, <2>3, <2>4 DEF ChecksOK, urls, KindOf
<1>10. Joinable'
  <2>1. inFlight' \in [Kind -> SUBSET Int]
    BY <1>1, <1>4 DEF QInv, Joinable
  <2>2. ASSUME NEW k \in Kind PROVE inFlight'[k] = {t \in DOMAIN checks' : KindOf(t) = k}
    <3>1. CASE k = kind
      <4>1. inFlight'[k] = {}
        BY <3>1, <1>4 DEF QInv, Joinable
      <4>2. QED
        BY <4>1, <3>1, <1>4, <1>5
    <3>2. CASE k # kind
      <4>1. inFlight'[k] = inFlight[k]
        BY <3>2, <1>4 DEF QInv, Joinable
      <4>2. QED
        BY <4>1, <3>2, <1>4 DEF QInv, Joinable
    <3>3. QED
      BY <3>1, <3>2
  <2>3. OneCheck'
    BY <1>4 DEF QInv, Joinable, OneCheck, KindOf
  <2>4. QED
    BY <2>1, <2>2, <2>3 DEF Joinable, KindOf
<1>11. CallerOK' /\ PagingOK'
  BY DEF QInv, CheckEnds, CallerOK, PagingOK
<1>12. QED
  BY <1>6, <1>7, <1>8, <1>9, <1>10, <1>11 DEF QInv

-----------------------------------------------------------------------------
(* The methods.                                                             *)

\* A method that begins sends its requests when those before have ended: no
\* check is in flight then.
LEMMA NewRequests ==
  ASSUME QInv, NEW ids \in SUBSET Int, Sends(ids), Returned,
         caller' = "idle" => ids = {}, UNCHANGED lists
  PROVE  ListsOK' /\ RequestsOK' /\ ChecksOK' /\ Joinable' /\ Round'
<1>1. DOMAIN checks = {}
  <2>1. SUFFICES ASSUME NEW s \in DOMAIN checks PROVE FALSE
    OBVIOUS
  <2>2. s \in DOMAIN requests /\ requests[s].pc = "waiting"
    BY DEF QInv, ChecksOK
  <2>3. QED
    BY <2>2 DEF Returned, Done
<1>2. /\ NewRequest \in RequestState /\ NewRequest.tried = {} /\ NewRequest.pc = "ready"
      /\ NewRequest.attempt = 1
  <2>1. 1 \in 1..retryAttempts
    BY QueryOperatorAssumption
  <2>2. QED
    BY <2>1 DEF NewRequest, RequestState
<1>3. /\ DOMAIN requests' = ids /\ \A r \in ids : requests'[r] = NewRequest
      /\ requests' \in [ids -> RequestState]
  BY <1>2 DEF Sends
<1>4. ListsOK'
  BY ListsKept DEF QInv, ListsOK, lists
<1>5. RequestsOK'
  BY <1>2, <1>3 DEF RequestsOK
<1>6. ChecksOK'
  BY <1>1 DEF QInv, ChecksOK, lists
<1>7. Joinable'
  BY JoinableKept DEF QInv, lists
<1>8. Round'
  <2>1. SUFFICES ASSUME NEW r \in ids, healthy'[KindOf(r)] # <<>>
                 PROVE  \A q \in Before(Attempts(requests'[r]),
                                        index'[KindOf(r)] % Len(healthy'[KindOf(r)]),
                                        Len(healthy'[KindOf(r)])) :
                          healthy'[KindOf(r)][q + 1] \in requests'[r].tried
    BY <1>2, <1>3 DEF Round, WentRound
  <2> DEFINE list == healthy'[KindOf(r)]
             at == index'[KindOf(r)] % Len(list)
  <2>2. Attempts(requests'[r]) = 0
    BY <1>2, <1>3 DEF Attempts
  <2>3. Len(list) \in Nat \ {0} /\ index'[KindOf(r)] \in Nat
    BY <2>1, <1>4, KindIsKind DEF ListsOK
  <2>4. at \in 0..Len(list) - 1
    <3> HIDE DEF list
    <3> QED BY <2>3, RestOf
  <2>5. Before(0, at, Len(list)) = {}
    <3> HIDE DEF at, list
    <3> QED BY <2>3, <2>4 DEF Before
  <2>6. QED
    BY <2>2, <2>5
<1>9. QED
  BY <1>4, <1>5, <1>6, <1>7, <1>8

\* What every method does: its requests are over, others take their place, and
\* neither the lists nor the checks are touched.
GoesOn ==
  /\ Returned /\ UNCHANGED <<nodes, pages, lists>>
  /\ \E ids \in SUBSET Int : Sends(ids) /\ (caller' = "idle" => ids = {})
  /\ caller' \in {"start", "valset", "idle", "tip", "status", "info", "range", "fallback"}
  /\ from' \in 0..RangeLength /\ nextKey' \in 0..MaxPages

LEMMA MethodGoesOn ==
  ASSUME QInv, Methods
  PROVE  GoesOn
<1>0. /\ {} \in SUBSET Int /\ {Page} \in SUBSET Int
      /\ {Latest} \in SUBSET Int /\ {Lookup} \in SUBSET Int
  BY DEF Page, Latest, Lookup
<1>1. /\ from \in 0..RangeLength /\ nextKey \in 0..MaxPages /\ pages \in 1..MaxPages
      /\ rangeChunkSize \in Nat \ {0} /\ RangeLength \in Nat \ {0} /\ MaxPages \in Nat
      /\ 0 \in 0..RangeLength /\ 0 \in 0..MaxPages
  BY QueryOperatorAssumption DEF QInv, CallerOK, PagingOK
<1>2. \A i \in 0..RangeLength : Chunk(i) \in SUBSET Int
  BY <1>1 DEF Chunk
<1>3. CASE getValset
  BY <1>0, <1>1, <1>3 DEF getValset, Rest, GoesOn
<1>4. CASE NextPage
  <2>1. AccumulatedKey \in 0..MaxPages
    BY <1>1 DEF AccumulatedKey, KeyAfter
  <2>2. QED
    BY <1>0, <1>1, <1>4, <2>1 DEF NextPage, Rest, GoesOn
<1>5. CASE getLatestCommit
  <2>1. Returned
    BY <1>5 DEF getLatestCommit, QInv, RequestsOK, Returned
  <2>2. QED
    BY <1>0, <1>1, <1>5, <2>1 DEF getLatestCommit, GoesOn
<1>6. CASE getValidatorData \/ getSigningInfo
  BY <1>0, <1>1, <1>6 DEF getValidatorData, getSigningInfo, Rest, GoesOn
<1>7. CASE getRangeCommits
  <2>1. CASE from' = 0 /\ Rest
    BY <1>0, <1>1, <1>7, <2>1 DEF getRangeCommits, Rest, GoesOn
  <2>2. CASE from' = 0 /\ caller' = "range" /\ Sends(Chunk(0))
    BY <1>1, <1>2, <1>7, <2>2 DEF getRangeCommits, GoesOn
  <2>3. CASE /\ caller = "range" /\ UNCHANGED caller
             /\ from + rangeChunkSize < RangeLength /\ from' = from + rangeChunkSize
             /\ Sends(Chunk(from + rangeChunkSize))
    <3>1. from + rangeChunkSize \in 0..RangeLength
      BY <1>1, <2>3
    <3>2. QED
      BY <1>1, <1>2, <1>7, <2>3, <3>1 DEF getRangeCommits, GoesOn
  <2>4. QED
    BY <1>7, <2>1, <2>2, <2>3 DEF getRangeCommits
<1>8. CASE resolveActiveFallback
  <2>1. from + 1 < RangeLength => from + 1 \in 0..RangeLength
    BY <1>1
  <2>2. QED
    BY <1>0, <1>1, <1>8, <2>1 DEF resolveActiveFallback, Rest, GoesOn
<1>9. QED
  BY <1>3, <1>4, <1>5, <1>6, <1>7, <1>8 DEF Methods

LEMMA MethodNext ==
  ASSUME QInv, Methods
  PROVE  QInv'
<1>1. GoesOn
  BY MethodGoesOn
<1>2. PICK ids \in SUBSET Int : Sends(ids) /\ (caller' = "idle" => ids = {})
  BY <1>1 DEF GoesOn
<1>3. ListsOK' /\ RequestsOK' /\ ChecksOK' /\ Joinable' /\ Round'
  BY <1>1, <1>2, NewRequests DEF GoesOn
<1>4. CallerOK' /\ PagingOK'
  BY <1>1 DEF GoesOn, QInv, CallerOK, PagingOK
<1>5. QED
  BY <1>3, <1>4 DEF QInv

LEMMA QueryInit == Init => QInv
<1>1. SUFFICES ASSUME Init PROVE QInv
  OBVIOUS
<1>2. /\ retryAttempts \in Nat \ {0} /\ RangeLength \in Nat /\ MaxPages \in Nat
      /\ 0 \in 0..RangeLength /\ 0 \in 0..MaxPages /\ 1 \in 1..retryAttempts
  BY QueryOperatorAssumption
<1>3. CallerOK
  BY <1>1, <1>2 DEF Init, CallerOK
<1>4. PagingOK
  BY <1>1, <1>2 DEF Init, PagingOK
<1>5. ListsOK
  <2>1. ASSUME NEW kind \in Kind
        PROVE  /\ healthy[kind] = <<>> /\ <<>> \in Seq(ToSet(urls[kind])) /\ <<>> \in Seq(Urls)
               /\ Len(<<>>) <= Len(urls[kind]) /\ IsInjective(<<>>)
               /\ index[kind] = 0 /\ 0 \in 0..IndexCycle[kind] - 1
    <3>1. urls[kind] \in Seq(ToSet(urls[kind])) /\ IndexCycle[kind] \in Nat \ {0}
      BY Configured
    <3>2. Len(urls[kind]) \in Nat /\ 0 \in 0..IndexCycle[kind] - 1
      BY <3>1
    <3>3. healthy[kind] = <<>> /\ index[kind] = 0
      BY <1>1 DEF Init
    <3>4. QED
      BY <3>2, <3>3 DEF IsInjective
  <2>2. /\ healthy \in [Kind -> Seq(Urls)] /\ fresh \in [Kind -> BOOLEAN]
        /\ index \in [Kind -> Nat]
    BY <1>1 DEF Init
  <2>3. QED
    BY <2>1, <2>2 DEF ListsOK
<1>6. RequestsOK
  <2>1. NewRequest \in RequestState /\ NewRequest.tried = {}
    BY <1>2 DEF NewRequest, RequestState
  <2>2. DOMAIN requests = {Latest, Lookup} /\ \A r \in {Latest, Lookup} : requests[r] = NewRequest
    BY <1>1 DEF Init
  <2>3. requests \in [{Latest, Lookup} -> RequestState]
    BY <1>1, <2>1 DEF Init
  <2>4. {Latest, Lookup} \subseteq Int
    BY DEF Latest, Lookup
  <2>5. caller # "idle"
    BY <1>1 DEF Init
  <2>6. QED
    BY <2>1, <2>2, <2>3, <2>4, <2>5 DEF RequestsOK
<1>7. ChecksOK
  BY <1>1 DEF Init, ChecksOK
<1>8. Joinable
  BY <1>1 DEF Init, Joinable, OneCheck
<1>9. Round
  <2>1. healthy[KindOf(Latest)] = <<>> /\ healthy[KindOf(Lookup)] = <<>>
    BY <1>1, KindIsKind DEF Init
  <2>2. DOMAIN requests = {Latest, Lookup}
    BY <1>1 DEF Init
  <2>3. QED
    BY <2>1, <2>2 DEF Round, WentRound
<1>10. QED
  BY <1>3, <1>4, <1>5, <1>6, <1>7, <1>8, <1>9 DEF QInv

\* Steps of the world, and stuttering: at most nodes and fresh change.
LEMMA WorldNext ==
  ASSUME QInv, nodes' \in [Urls -> AnyState], fresh' \in [Kind -> BOOLEAN],
         UNCHANGED <<pages, healthy, index, inFlight, checks, caller, requests, from, nextKey>>
  PROVE  QInv'
<1>1. ListsOK'
  BY ListsKept DEF QInv
<1>2. CallerOK' /\ PagingOK'
  BY DEF QInv, CallerOK, PagingOK
<1>3. RequestsOK'
  BY DEF QInv, RequestsOK, urls, KindOf
<1>4. ChecksOK'
  BY ChecksKept DEF QInv
<1>5. Joinable'
  BY JoinableKept DEF QInv
<1>6. Round'
  BY RoundKept DEF QInv
<1>7. QED
  BY <1>1, <1>2, <1>3, <1>4, <1>5, <1>6 DEF QInv

LEMMA QueryNext == QInv /\ [Next]_vars => QInv'
<1>1. SUFFICES ASSUME QInv, [Next]_vars PROVE QInv'
  OBVIOUS
<1>2. ASSUME NEW r \in DOMAIN requests,
             PickEndpoint(r) \/ AwaitCheck(r) \/ Answers(r) \/ AnswerFails(r)
      PROVE  QInv'
  BY <1>1, <1>2, PickEndpointNext, AwaitCheckNext, AnswersNext, AnswerFailsNext
<1>3. ASSUME NEW s \in DOMAIN checks, StatusArrives(s) \/ CheckEnds(s)
      PROVE  QInv'
  BY <1>1, <1>3, StatusArrivesNext, CheckEndsNext
<1>4. CASE Methods
  BY <1>1, <1>4, MethodNext
<1>5. CASE NodeChanges
  <2>1. nodes' \in [Urls -> AnyState]
    <3>1. PICK u \in Urls : \E node \in NodeStates[u] : nodes' = [nodes EXCEPT ![u] = node]
      BY <1>5 DEF NodeChanges
    <3>2. NodeStates[u] \subseteq AnyState
      BY DEF AnyState
    <3>3. QED
      BY <1>1, <3>1, <3>2 DEF QInv, CallerOK
  <2>2. QED
    BY <1>1, <1>5, <2>1, WorldNext DEF NodeChanges, lists, QInv, ListsOK
<1>6. ASSUME NEW kind \in Kind, Expire(kind)
      PROVE  QInv'
  <2>1. fresh' \in [Kind -> BOOLEAN] /\ nodes' \in [Urls -> AnyState]
    BY <1>1, <1>6 DEF Expire, QInv, ListsOK, CallerOK
  <2>2. QED
    BY <1>1, <1>6, <2>1, WorldNext DEF Expire
<1>7. CASE UNCHANGED vars
  BY <1>1, <1>7, WorldNext DEF vars, lists, QInv, ListsOK, CallerOK
<1>8. QED
  BY <1>1, <1>2, <1>3, <1>4, <1>5, <1>6, <1>7 DEF Next, Steps

LEMMA QueryInvariant == Spec => []QInv
BY QueryInit, QueryNext, PTL DEF Spec

-----------------------------------------------------------------------------
(* Results.                                                                 *)

(* Every variable has its type, the lists of healthy endpoints among them:     *)
(* endpoints of the configured list, none twice as long as the configuration    *)
(* names none twice (`validateChainConfig` does not look at that).                 *)
THEOREM QueryTypeCorrect ==
  ASSUME \A kind \in Kind : IsInjective(urls[kind])
  PROVE  Spec => []TypeOK
<1>1. QInv => TypeOK
  <2>1. SUFFICES ASSUME QInv PROVE TypeOK
    OBVIOUS
  <2>2. \A kind \in Kind :
          /\ healthy[kind] \in Seq(ToSet(urls[kind])) /\ IsInjective(healthy[kind])
          /\ fresh[kind] \in BOOLEAN /\ index[kind] \in 0..IndexCycle[kind] - 1
          /\ inFlight[kind] \subseteq DOMAIN checks
    BY <2>1 DEF QInv, ListsOK, Joinable
  <2>3. ASSUME NEW s \in DOMAIN checks
        PROVE  /\ ToSet(checks[s].waiting) \subseteq
                    {r \in DOMAIN requests : requests[r].pc = "waiting"}
               /\ DOMAIN checks[s].answers \subseteq ToSet(urls[KindOf(s)])
    BY <2>1 DEF QInv, ChecksOK
  <2>4. ASSUME NEW r \in DOMAIN requests
        PROVE  /\ requests[r].pc \in {"ready", "waiting", "sent", "ok", "failed"}
               /\ requests[r].attempt \in 1..retryAttempts
               /\ requests[r].tried \subseteq ToSet(urls[KindOf(r)])
    <3>1. requests[r] \in RequestState
      BY <2>1 DEF QInv, RequestsOK
    <3>2. QED
      BY <2>1, <3>1 DEF QInv, RequestsOK, RequestState
  <2>5. DOMAIN checks \subseteq DOMAIN requests
    BY <2>1 DEF QInv, ChecksOK
  <2>6. QED
    BY <2>1, <2>2, <2>3, <2>4, <2>5 DEF QInv, CallerOK, PagingOK, TypeOK
<1>2. QED
  BY <1>1, QueryInvariant, PTL

(* Requests share their health checks, however many need one at once: of each   *)
(* kind at most one runs, and it is the one that others can join.             *)
THEOREM ChecksAreShared == Spec => []OneCheck
<1>1. QInv => OneCheck
  BY DEF QInv, Joinable
<1>2. QED
  BY <1>1, QueryInvariant, PTL

(* The round robin reaches everybody: a request that had list and index for     *)
(* itself gives up only after every endpoint of the list failed it.           *)
THEOREM EverybodyIsTried == Spec => []TriesEverybody
<1>1. QInv => TriesEverybody
  <2>1. SUFFICES ASSUME QInv, NEW r \in DOMAIN requests,
                        requests[r].pc = "failed", requests[r].alone,
                        Len(healthy[KindOf(r)]) <= retryAttempts,
                        NEW u \in ToSet(healthy[KindOf(r)])
                 PROVE  u \in requests[r].tried
    BY DEF TriesEverybody
  <2> DEFINE list == healthy[KindOf(r)]
             n == Len(list)
             at == index[KindOf(r)] % n
  <2>2. list \in Seq(Urls) /\ index[KindOf(r)] \in Nat
    BY <2>1, KindIsKind DEF QInv, ListsOK
  <2>3. PICK i \in 1..n : list[i] = u
    <3> HIDE DEF list
    <3>1. u \in ToSet(list)
      BY <2>1 DEF list
    <3>2. QED
      BY <2>2, <3>1 DEF ToSet
  <2>4. n \in Nat \ {0} /\ list # <<>>
    <3> HIDE DEF list
    <3> QED BY <2>2, <2>3
  <2>5. at \in 0..n - 1
    BY <2>2, <2>4, RestOf
  <2>6. requests[r].attempt = retryAttempts /\ Attempts(requests[r]) = retryAttempts
        /\ \A q \in Before(Attempts(requests[r]), at, n) : list[q + 1] \in requests[r].tried
    BY <2>1, <2>4 DEF QInv, Round, WentRound, Attempts
  <2>7. i - 1 \in Before(retryAttempts, at, n)
    <3>1. n <= retryAttempts /\ retryAttempts \in Nat
      BY <2>1, QueryOperatorAssumption
    <3> HIDE DEF n, at
    <3>2. QED
      BY <2>3, <2>4, <2>5, <3>1 DEF Before
  <2>8. list[(i - 1) + 1] \in requests[r].tried
    BY <2>6, <2>7
  <2>9. (i - 1) + 1 = i
    <3> HIDE DEF n
    <3> QED BY <2>3, <2>4
  <2>10. QED
    BY <2>3, <2>8, <2>9
<1>2. QED
  BY <1>1, QueryInvariant, PTL
=============================================================================
