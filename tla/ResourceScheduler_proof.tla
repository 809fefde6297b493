----------------------- MODULE ResourceScheduler_proof -----------------------
(***************************************************************************)
(* Proofs about ResourceScheduler, for every set of requests, runs, keys   *)
(* and claims: its type, that the holdings are exactly the leases' claims, *)
(* mutual exclusion, and that it implements LockTable.                     *)
(***************************************************************************)
EXTENDS ResourceScheduler, SequenceTheorems, TLAPS

(* The queue holds each waiting request once, and no lease is waited for. *)
QueueCoherent ==
    /\ \A i \in DOMAIN waiters : call[waiters[i]] = "waiting"
    /\ \A i, j \in DOMAIN waiters : waiters[i] = waiters[j] => i = j
    /\ \A q \in leases : call[q] \notin {"idle", "waiting"}

(* The inductive invariant: exclusion needs the holdings to be complete,   *)
(* and a grant from the queue needs its request to be without a lease.     *)
IInv == TypeOK /\ HoldingsMatchLeases /\ Exclusion /\ QueueCoherent

-----------------------------------------------------------------------------
(* Claims and sequences                                                    *)

(* Which claim came first does not matter to a conflict. *)
LEMMA ClaimsConflictSymmetric ==
    \A a, b : ClaimsConflict(a, b) <=> ClaimsConflict(b, a)
BY DEF ClaimsConflict

(* What a tool declares is normalised to typed claims. *)
LEMMA NormalizedIsNormal ==
    ASSUME NEW cs \in ClaimSets
    PROVE  Normalized(cs) \in SUBSET NormalClaim
<1>1. cs \subseteq Claim
  BY ResourceAssumption
<1>2. \A c \in Claim : NormalizeClaim(c) \in NormalClaim
  BY DEF NormalizeClaim, Claim, NormalClaim, Access, ClaimTypes
<1> QED
  BY <1>1, <1>2 DEF Normalized

(* A sequence without its i-th entry: the entries before i stay, the       *)
(* entries after it move up by one.                                        *)
LEMMA RemoveAtElements ==
    ASSUME NEW S, NEW s \in Seq(S), NEW i \in DOMAIN s
    PROVE  /\ RemoveAt(s, i) \in Seq(S)
           /\ Len(RemoveAt(s, i)) = Len(s) - 1
           /\ \A j \in DOMAIN RemoveAt(s, i) :
                 /\ j \in 1..(Len(s) - 1)
                 /\ RemoveAt(s, i)[j] = IF j < i THEN s[j] ELSE s[j + 1]
<1> DEFINE front == SubSeq(s, 1, i - 1)
           back == SubSeq(s, i + 1, Len(s))
<1>1. i \in 1..Len(s) /\ Len(s) \in Nat
  OBVIOUS
<1>2. /\ front \in Seq(S) /\ Len(front) = i - 1
      /\ \A j \in 1..(i - 1) : front[j] = s[j]
  BY <1>1, SubSeqProperties
<1>3. /\ back \in Seq(S) /\ Len(back) = Len(s) - i
      /\ \A j \in 1..(Len(s) - i) : back[j] = s[i + j]
  BY <1>1, SubSeqProperties
<1>4. RemoveAt(s, i) = front \o back
  BY DEF RemoveAt
<1> HIDE DEF front, back
<1>5. front \o back \in Seq(S) /\ Len(front \o back) = Len(s) - 1
  <2>1. front \o back \in Seq(S) /\ Len(front \o back) = Len(front) + Len(back)
    BY <1>2, <1>3, ConcatProperties
  <2> QED
    BY <1>1, <1>2, <1>3, <2>1
<1>6. DOMAIN RemoveAt(s, i) = 1..(Len(s) - 1)
  BY <1>4, <1>5
<1>7. ASSUME NEW j \in 1..(Len(s) - 1)
      PROVE  (front \o back)[j] = IF j < i THEN s[j] ELSE s[j + 1]
  <2>1. (front \o back)[j] = IF j <= Len(front) THEN front[j] ELSE back[j - Len(front)]
    <3>1. j \in 1..(Len(front) + Len(back))
      BY <1>1, <1>2, <1>3
    <3> QED
      BY <1>2, <1>3, <3>1, ConcatProperties
  <2>2. CASE j < i
    BY <1>1, <1>2, <2>1, <2>2
  <2>3. CASE ~ (j < i)
    <3>1. j - (i - 1) \in 1..(Len(s) - i) /\ i + (j - (i - 1)) = j + 1
      BY <1>1, <2>3
    <3>2. (front \o back)[j] = back[j - (i - 1)]
      BY <1>1, <1>2, <2>1, <2>3
    <3>3. back[j - (i - 1)] = s[i + (j - (i - 1))]
      BY <1>3, <3>1
    <3> QED
      BY <2>3, <3>1, <3>2, <3>3
  <2> QED
    BY <2>2, <2>3
<1> QED
  BY <1>4, <1>5, <1>6, <1>7

-----------------------------------------------------------------------------
(* Granting and releasing                                                  *)

(* A grant to a request without a lease, whose claims meet no conflict,    *)
(* keeps the holdings complete and the leases apart.                       *)
LEMMA InstallKeeps ==
    ASSUME TypeOK, HoldingsMatchLeases, Exclusion,
           NEW q \in Requests, NEW cs \in SUBSET NormalClaim,
           q \notin leases, NoConflicts(cs), InstallLease(q, cs),
           want' = [want EXCEPT ![q] = cs]
    PROVE  /\ leases' \subseteq Requests
           /\ want' \in [Requests -> SUBSET NormalClaim]
           /\ holdings' \in [Keys -> SUBSET Holding]
           /\ HoldingsMatchLeases'
           /\ Exclusion'
<1>1. leases' \subseteq Requests /\ want' \in [Requests -> SUBSET NormalClaim]
  BY DEF TypeOK, InstallLease
<1>2. ASSUME NEW k \in Keys
      PROVE  holdings'[k] = {h \in Holding :
                               /\ h.lease \in leases'
                               /\ [key |-> k, access |-> h.access] \in want'[h.lease]}
  <2> DEFINE new == {[lease |-> q, access |-> c.access] : c \in {d \in cs : d.key = k}}
  <2>1. holdings'[k] = holdings[k] \union new
    BY DEF InstallLease
  <2>2. new = {h \in Holding : h.lease = q /\ [key |-> k, access |-> h.access] \in cs}
    BY DEF Holding, NormalClaim
  <2>3. holdings[k] = {h \in Holding :
                          /\ h.lease \in leases
                          /\ [key |-> k, access |-> h.access] \in want[h.lease]}
    BY DEF HoldingsMatchLeases
  <2>4. \A p \in Requests : want'[p] = IF p = q THEN cs ELSE want[p]
    BY DEF TypeOK
  <2>5. \A h \in Holding : h.lease \in Requests
    BY DEF Holding
  <2>6. leases' = leases \union {q}
    BY DEF InstallLease
  <2> HIDE DEF new
  <2> QED
    BY <2>1, <2>2, <2>3, <2>4, <2>5, <2>6
<1>3. holdings' \in [Keys -> SUBSET Holding]
  <2>1. holdings' = [k \in Keys |-> holdings'[k]]
    BY DEF InstallLease
  <2> QED
    BY <1>2, <2>1
<1>4. HoldingsMatchLeases'
  BY <1>2 DEF HoldingsMatchLeases
<1>5. ASSUME NEW p \in leases, NEW c \in want[p], NEW d \in cs
      PROVE  ~ Conflicting(c, d) /\ ~ Conflicting(d, c)
  <2>1. c \in NormalClaim /\ d \in NormalClaim /\ p \in Requests
    BY DEF TypeOK
  <2>2. SUFFICES ASSUME c.key = d.key PROVE ~ ClaimsConflict(c.access, d.access)
    BY ClaimsConflictSymmetric DEF Conflicting
  <2> DEFINE h == [lease |-> p, access |-> c.access]
  <2>3. h \in Holding /\ [key |-> d.key, access |-> h.access] = c
    BY <2>1, <2>2 DEF Holding, NormalClaim
  <2>4. h \in holdings[d.key]
    BY <2>1, <2>3 DEF HoldingsMatchLeases, NormalClaim
  <2> QED
    BY <2>4 DEF NoConflicts
<1>6. Exclusion'
  <2>1. leases' = leases \union {q} /\ (\A p \in Requests :
            want'[p] = IF p = q THEN cs ELSE want[p]) /\ leases \subseteq Requests
    BY DEF InstallLease, TypeOK
  <2>2. SUFFICES ASSUME NEW p \in leases', NEW r \in leases', p # r,
                        NEW c \in want'[p], NEW d \in want'[r]
                 PROVE  ~ Conflicting(c, d)
    BY DEF Exclusion, Conflicting
  <2>3. CASE p = q
    BY <1>5, <2>1, <2>2, <2>3
  <2>4. CASE r = q
    BY <1>5, <2>1, <2>2, <2>4
  <2>5. CASE p # q /\ r # q
    BY <2>1, <2>2, <2>5 DEF Exclusion
  <2> QED
    BY <2>3, <2>4, <2>5
<1> QED
  BY <1>1, <1>3, <1>4, <1>6

(* A release takes exactly its own claims out. *)
LEMMA ReleaseKeeps ==
    ASSUME TypeOK, HoldingsMatchLeases, Exclusion,
           NEW q \in Requests, ReleaseLease(q), UNCHANGED want
    PROVE  /\ leases' \subseteq leases
           /\ holdings' \in [Keys -> SUBSET Holding]
           /\ pumping' \in BOOLEAN
           /\ HoldingsMatchLeases'
           /\ Exclusion'
<1>1. CASE q \notin leases
  BY <1>1 DEF ReleaseLease, TypeOK, HoldingsMatchLeases, Exclusion, Conflicting
<1>2. CASE q \in leases
  <2>1. leases' = leases \ {q} /\ pumping' = TRUE
    BY <1>2 DEF ReleaseLease
  <2>2. ASSUME NEW k \in Keys
        PROVE  holdings'[k] = {h \in Holding :
                  /\ h.lease \in leases'
                  /\ [key |-> k, access |-> h.access] \in want'[h.lease]}
    <3>1. holdings[k] = {h \in Holding :
                  /\ h.lease \in leases
                  /\ [key |-> k, access |-> h.access] \in want[h.lease]}
      BY DEF HoldingsMatchLeases
    <3>2. holdings'[k] = {h \in holdings[k] : h.lease # q}
      <4>1. CASE \E c \in want[q] : c.key = k
        BY <1>2, <4>1 DEF ReleaseLease
      <4>2. CASE ~ \E c \in want[q] : c.key = k
        <5>1. holdings'[k] = holdings[k]
          BY <1>2, <4>2 DEF ReleaseLease
        <5>2. \A h \in holdings[k] : h.lease # q
          BY <3>1, <4>2
        <5> QED
          BY <5>1, <5>2
      <4> QED
        BY <4>1, <4>2
    <3> QED
      BY <2>1, <3>1, <3>2
  <2>3. holdings' = [k \in Keys |-> holdings'[k]]
    BY <1>2 DEF ReleaseLease
  <2>4. holdings' \in [Keys -> SUBSET Holding]
    BY <2>2, <2>3
  <2>5. HoldingsMatchLeases'
    BY <2>2 DEF HoldingsMatchLeases
  <2>6. Exclusion'
    BY <2>1 DEF Exclusion, Conflicting
  <2> QED
    BY <2>1, <2>4, <2>5, <2>6
<1> QED
  BY <1>1, <1>2

(* A request without a lease may change its mind: no claim is held. *)
LEMMA WantKeeps ==
    ASSUME TypeOK, HoldingsMatchLeases, Exclusion,
           NEW q \in Requests, NEW cs, q \notin leases,
           UNCHANGED <<holdings, leases>>, want' = [want EXCEPT ![q] = cs]
    PROVE  HoldingsMatchLeases' /\ Exclusion'
<1>1. \A p \in leases : want'[p] = want[p]
  BY DEF TypeOK
<1> QED
  BY <1>1 DEF HoldingsMatchLeases, Exclusion, Conflicting

(* Taking an entry out keeps the queue coherent when only the request it   *)
(* names moves on.                                                         *)
LEMMA DequeueKeeps ==
    ASSUME TypeOK, QueueCoherent, NEW i \in DOMAIN waiters, NEW state,
           waiters' = RemoveAt(waiters, i),
           call' = [call EXCEPT ![waiters[i]] = state]
    PROVE  /\ waiters' \in Seq(Requests)
           /\ \A j \in DOMAIN waiters' : call'[waiters'[j]] = "waiting"
           /\ \A j, k \in DOMAIN waiters' : waiters'[j] = waiters'[k] => j = k
<1>1. /\ waiters \in Seq(Requests) /\ Len(waiters) \in Nat
      /\ i \in 1..Len(waiters) /\ DOMAIN waiters = 1..Len(waiters)
  BY DEF TypeOK
<1>2. /\ waiters' \in Seq(Requests)
      /\ \A j \in DOMAIN waiters' :
            /\ j \in 1..(Len(waiters) - 1)
            /\ waiters'[j] = IF j < i THEN waiters[j] ELSE waiters[j + 1]
  BY <1>1, RemoveAtElements
<1> DEFINE old(j) == IF j < i THEN j ELSE j + 1
<1>3. \A j \in DOMAIN waiters' :
          old(j) \in DOMAIN waiters /\ old(j) # i /\ waiters'[j] = waiters[old(j)]
  BY <1>1, <1>2
<1>4. \A j, k \in DOMAIN waiters' : old(j) = old(k) => j = k
  BY <1>1, <1>2
<1> HIDE DEF old
<1>5. \A j \in DOMAIN waiters' : waiters'[j] # waiters[i]
  BY <1>3 DEF QueueCoherent
<1>6. \A j \in DOMAIN waiters' : call'[waiters'[j]] = "waiting"
  <2>1. \A j \in DOMAIN waiters' : waiters'[j] \in Requests
    BY <1>1, <1>3
  <2> QED
    BY <1>3, <1>5, <2>1 DEF QueueCoherent, TypeOK
<1>7. \A j, k \in DOMAIN waiters' : waiters'[j] = waiters'[k] => j = k
  BY <1>3, <1>4 DEF QueueCoherent
<1> QED
  BY <1>2, <1>6, <1>7

-----------------------------------------------------------------------------
(* The invariant                                                           *)

(* The empty table satisfies the invariant. *)
LEMMA InitIInv == Init => IInv
<1> SUFFICES ASSUME Init PROVE IInv
  OBVIOUS
<1>1. holdings \in [Keys -> SUBSET Holding]
  BY DEF Init
<1>2. want \in [Requests -> SUBSET NormalClaim] /\ call \in [Requests -> CallStates]
  BY DEF Init, CallStates
<1>3. leases \subseteq Requests /\ ended \subseteq RunIds /\ agenda \subseteq Requests
  BY DEF Init
<1>4. waiters \in Seq(Requests)
  BY EmptySeq DEF Init
<1>5. pumping \in BOOLEAN /\ closing \in BOOLEAN
  BY DEF Init
<1>6. HoldingsMatchLeases /\ Exclusion /\ QueueCoherent
  BY DEF Init, HoldingsMatchLeases, Exclusion, QueueCoherent
<1> QED
  BY <1>1, <1>2, <1>3, <1>4, <1>5, <1>6 DEF IInv, TypeOK

(* acquire: a grant by the fast path, a refusal and a place in the queue. *)
LEMMA AcquireKeeps ==
    ASSUME IInv, NEW q \in Requests, Acquire(q)
    PROVE  IInv'
<1> USE DEF IInv
<1>1. PICK cs \in ClaimSets, noWait \in BOOLEAN :
          /\ want' = [want EXCEPT ![q] = Normalized(cs)]
          /\ \/ /\ NoConflicts(Normalized(cs))
                /\ InstallLease(q, Normalized(cs))
                /\ call' = [call EXCEPT ![q] = "granted"]
                /\ UNCHANGED waiters
             \/ /\ ~ NoConflicts(Normalized(cs)) /\ noWait
                /\ call' = [call EXCEPT ![q] = "settled"]
                /\ UNCHANGED <<leases, holdings, waiters>>
             \/ /\ ~ NoConflicts(Normalized(cs)) /\ ~ noWait
                /\ waiters' = Append(waiters, q)
                /\ call' = [call EXCEPT ![q] = "waiting"]
                /\ UNCHANGED <<leases, holdings>>
  BY DEF Acquire
<1>2. /\ call[q] = "idle" /\ q \notin leases
      /\ \A i \in DOMAIN waiters : waiters[i] # q
  BY DEF Acquire, QueueCoherent
<1>3. UNCHANGED <<ended, agenda, pumping, closing>>
  BY DEF Acquire
<1>4. Normalized(cs) \in SUBSET NormalClaim
  BY NormalizedIsNormal
<1>5. want' \in [Requests -> SUBSET NormalClaim]
  BY <1>1, <1>4 DEF TypeOK
<1> HIDE DEF IInv
<1>6. TypeOK /\ HoldingsMatchLeases /\ Exclusion /\ QueueCoherent
  BY DEF IInv
<1>7. CASE /\ NoConflicts(Normalized(cs)) /\ InstallLease(q, Normalized(cs))
           /\ call' = [call EXCEPT ![q] = "granted"] /\ UNCHANGED waiters
  <2>1. /\ leases' \subseteq Requests /\ holdings' \in [Keys -> SUBSET Holding]
        /\ HoldingsMatchLeases' /\ Exclusion'
    BY <1>1, <1>2, <1>4, <1>6, <1>7, InstallKeeps
  <2>2. call' \in [Requests -> CallStates]
    BY <1>6, <1>7 DEF TypeOK, CallStates
  <2>3. QueueCoherent'
    BY <1>2, <1>6, <1>7 DEF QueueCoherent, TypeOK, InstallLease
  <2>4. TypeOK'
    BY <1>3, <1>5, <1>6, <1>7, <2>1, <2>2 DEF TypeOK
  <2> QED
    BY <2>1, <2>3, <2>4 DEF IInv
<1>8. CASE /\ call' = [call EXCEPT ![q] = "settled"]
           /\ UNCHANGED <<leases, holdings, waiters>>
  <2>1. HoldingsMatchLeases' /\ Exclusion'
    BY <1>1, <1>2, <1>6, <1>8, WantKeeps
  <2>2. call' \in [Requests -> CallStates]
    BY <1>6, <1>8 DEF TypeOK, CallStates
  <2>3. QueueCoherent'
    BY <1>2, <1>6, <1>8 DEF QueueCoherent, TypeOK
  <2>4. TypeOK'
    BY <1>3, <1>5, <1>6, <1>8, <2>2 DEF TypeOK
  <2> QED
    BY <2>1, <2>3, <2>4 DEF IInv
<1>9. CASE /\ waiters' = Append(waiters, q)
           /\ call' = [call EXCEPT ![q] = "waiting"]
           /\ UNCHANGED <<leases, holdings>>
  <2>1. HoldingsMatchLeases' /\ Exclusion'
    BY <1>1, <1>2, <1>6, <1>9, WantKeeps
  <2>2. call' \in [Requests -> CallStates]
    BY <1>6, <1>9 DEF TypeOK, CallStates
  <2>3. /\ waiters \in Seq(Requests) /\ waiters' \in Seq(Requests)
        /\ Len(waiters) \in Nat /\ DOMAIN waiters = 1..Len(waiters)
        /\ DOMAIN waiters' = 1..(Len(waiters) + 1)
        /\ waiters'[Len(waiters) + 1] = q
        /\ \A i \in DOMAIN waiters : waiters'[i] = waiters[i]
    BY <1>6, <1>9, AppendProperties DEF TypeOK
  <2>4. \A i \in DOMAIN waiters' : i \in DOMAIN waiters \/ i = Len(waiters) + 1
    BY <2>3
  <2>5. \A i \in DOMAIN waiters' : call'[waiters'[i]] = "waiting"
    BY <1>6, <1>9, <2>3, <2>4 DEF QueueCoherent, TypeOK
  <2>6. \A i, j \in DOMAIN waiters' : waiters'[i] = waiters'[j] => i = j
    BY <1>2, <1>6, <2>3, <2>4 DEF QueueCoherent
  <2>7. \A p \in leases' : call'[p] \notin {"idle", "waiting"}
    BY <1>2, <1>6, <1>9 DEF QueueCoherent, TypeOK
  <2>8. TypeOK'
    BY <1>3, <1>5, <1>6, <1>9, <2>2, <2>3 DEF TypeOK
  <2> QED
    BY <2>1, <2>5, <2>6, <2>7, <2>8 DEF IInv, QueueCoherent
<1> QED
  BY <1>1, <1>7, <1>8, <1>9

(* A waiter that times out or is aborted leaves the queue coherent. *)
LEMMA GiveUpKeeps ==
    ASSUME IInv, NEW q \in Requests, GiveUp(q)
    PROVE  IInv'
<1>1. PICK i \in DOMAIN waiters : waiters[i] = q /\ waiters' = RemoveAt(waiters, i)
  BY DEF GiveUp
<1>2. call' = [call EXCEPT ![q] = "settled"]
  BY DEF GiveUp
<1>3. UNCHANGED <<holdings, leases, want, ended, agenda, pumping, closing>>
  BY DEF GiveUp
<1>4. TypeOK /\ HoldingsMatchLeases /\ Exclusion /\ QueueCoherent
  BY DEF IInv
<1>5. /\ waiters' \in Seq(Requests)
      /\ \A j \in DOMAIN waiters' : call'[waiters'[j]] = "waiting"
      /\ \A j, k \in DOMAIN waiters' : waiters'[j] = waiters'[k] => j = k
  BY <1>1, <1>2, <1>4, DequeueKeeps
<1>6. call' \in [Requests -> CallStates]
  BY <1>2, <1>4 DEF TypeOK, CallStates
<1>7. TypeOK'
  BY <1>3, <1>4, <1>5, <1>6 DEF TypeOK
<1>8. HoldingsMatchLeases' /\ Exclusion'
  BY <1>3, <1>4 DEF HoldingsMatchLeases, Exclusion, Conflicting
<1>9. QueueCoherent'
  BY <1>2, <1>3, <1>4, <1>5 DEF QueueCoherent, TypeOK
<1> QED
  BY <1>7, <1>8, <1>9 DEF IInv

(* The caller of a granted request goes on; the table is not touched. *)
LEMMA StartKeeps ==
    ASSUME IInv, NEW q \in Requests, Start(q)
    PROVE  IInv'
<1>1. TypeOK /\ HoldingsMatchLeases /\ Exclusion /\ QueueCoherent
  BY DEF IInv
<1>2. call[q] = "granted" /\ call' = [call EXCEPT ![q] = "executing"]
  BY DEF Start
<1>3. UNCHANGED <<holdings, leases, waiters, want, ended, agenda, pumping, closing>>
  BY DEF Start
<1>4. TypeOK'
  BY <1>1, <1>2, <1>3 DEF TypeOK, CallStates
<1>5. HoldingsMatchLeases' /\ Exclusion'
  BY <1>1, <1>3 DEF HoldingsMatchLeases, Exclusion, Conflicting
<1>6. QueueCoherent'
  BY <1>1, <1>2, <1>3 DEF QueueCoherent, TypeOK
<1> QED
  BY <1>4, <1>5, <1>6 DEF IInv

(* A tool's own release takes its claims out, if they are still in. *)
LEMMA FinishKeeps ==
    ASSUME IInv, NEW q \in Requests, Finish(q)
    PROVE  IInv'
<1>1. TypeOK /\ HoldingsMatchLeases /\ Exclusion /\ QueueCoherent
  BY DEF IInv
<1>2. call[q] = "executing" /\ call' = [call EXCEPT ![q] = "settled"]
  BY DEF Finish
<1>3. UNCHANGED <<waiters, want, ended, agenda, closing>>
  BY DEF Finish
<1>4. /\ leases' \subseteq leases /\ holdings' \in [Keys -> SUBSET Holding]
      /\ pumping' \in BOOLEAN /\ HoldingsMatchLeases' /\ Exclusion'
  BY <1>1, <1>3, ReleaseKeeps DEF Finish
<1>5. call' \in [Requests -> CallStates]
  BY <1>1, <1>2 DEF TypeOK, CallStates
<1>6. TypeOK'
  BY <1>1, <1>3, <1>4, <1>5 DEF TypeOK
<1>7. QueueCoherent'
  BY <1>1, <1>2, <1>3, <1>4 DEF QueueCoherent, TypeOK
<1> QED
  BY <1>4, <1>6, <1>7 DEF IInv

(* The end of a run and releaseAll only note what is to be released. *)
LEMMA AgendaKeeps ==
    ASSUME IInv, (\E r \in RunIds : RunEnds(r)) \/ ReleaseAll
    PROVE  IInv'
<1>1. TypeOK /\ HoldingsMatchLeases /\ Exclusion /\ QueueCoherent
  BY DEF IInv
<1>2. UNCHANGED <<holdings, leases, waiters, want, call, pumping>>
  BY DEF RunEnds, ReleaseAll
<1>3. ended' \subseteq RunIds /\ agenda' \subseteq Requests
  BY <1>1 DEF RunEnds, ReleaseAll, TypeOK
<1>4. closing' \in BOOLEAN
  BY <1>1 DEF RunEnds, ReleaseAll, TypeOK
<1>5. TypeOK'
  BY <1>1, <1>2, <1>3, <1>4 DEF TypeOK
<1>6. HoldingsMatchLeases' /\ Exclusion' /\ QueueCoherent'
  BY <1>1, <1>2 DEF HoldingsMatchLeases, Exclusion, Conflicting, QueueCoherent
<1> QED
  BY <1>5, <1>6 DEF IInv

(* One release of a run's end or of a shutdown. *)
LEMMA ReleaseNextKeeps ==
    ASSUME IInv, NEW q \in Requests, ReleaseNext(q)
    PROVE  IInv'
<1>1. TypeOK /\ HoldingsMatchLeases /\ Exclusion /\ QueueCoherent
  BY DEF IInv
<1>2. UNCHANGED <<waiters, want, call, ended, closing>> /\ agenda' \subseteq agenda
  BY DEF ReleaseNext
<1>3. /\ leases' \subseteq leases /\ holdings' \in [Keys -> SUBSET Holding]
      /\ pumping' \in BOOLEAN /\ HoldingsMatchLeases' /\ Exclusion'
  BY <1>1, <1>2, ReleaseKeeps DEF ReleaseNext
<1>4. TypeOK'
  BY <1>1, <1>2, <1>3 DEF TypeOK
<1>5. QueueCoherent'
  BY <1>1, <1>2, <1>3 DEF QueueCoherent
<1> QED
  BY <1>3, <1>4, <1>5 DEF IInv

(* The pump grants the first waiter that fits and takes it off the queue. *)
LEMMA PumpOneKeeps ==
    ASSUME IInv, PumpOne
    PROVE  IInv'
<1>1. TypeOK /\ HoldingsMatchLeases /\ Exclusion /\ QueueCoherent
  BY DEF IInv
<1>2. PICK i \in DOMAIN waiters :
          /\ Fits(i)
          /\ InstallLease(waiters[i], want[waiters[i]])
          /\ call' = [call EXCEPT ![waiters[i]] = "granted"]
          /\ waiters' = RemoveAt(waiters, i)
  BY DEF PumpOne
<1>3. UNCHANGED <<want, ended, agenda, pumping, closing>>
  BY DEF PumpOne
<1> DEFINE q == waiters[i]
<1>4. q \in Requests /\ call[q] = "waiting" /\ q \notin leases
  BY <1>1 DEF TypeOK, QueueCoherent
<1>5. want[q] \in SUBSET NormalClaim /\ want' = [want EXCEPT ![q] = want[q]]
  BY <1>1, <1>3, <1>4 DEF TypeOK
<1>6. /\ leases' \subseteq Requests /\ holdings' \in [Keys -> SUBSET Holding]
      /\ HoldingsMatchLeases' /\ Exclusion'
  BY <1>1, <1>2, <1>4, <1>5, InstallKeeps DEF Fits
<1>7. /\ waiters' \in Seq(Requests)
      /\ \A j \in DOMAIN waiters' : call'[waiters'[j]] = "waiting"
      /\ \A j, k \in DOMAIN waiters' : waiters'[j] = waiters'[k] => j = k
  BY <1>1, <1>2, DequeueKeeps
<1>8. call' \in [Requests -> CallStates]
  BY <1>1, <1>2 DEF TypeOK, CallStates
<1>9. TypeOK'
  BY <1>1, <1>3, <1>6, <1>7, <1>8 DEF TypeOK
<1>10. QueueCoherent'
  <2>1. \A p \in leases' : call'[p] \notin {"idle", "waiting"}
    BY <1>1, <1>2, <1>4 DEF InstallLease, QueueCoherent, TypeOK
  <2> QED
    BY <1>7, <2>1 DEF QueueCoherent
<1> QED
  BY <1>6, <1>9, <1>10 DEF IInv

(* The end of a pump changes no claim. *)
LEMMA PumpDoneKeeps ==
    ASSUME IInv, PumpDone
    PROVE  IInv'
<1>1. TypeOK /\ HoldingsMatchLeases /\ Exclusion /\ QueueCoherent
  BY DEF IInv
<1>2. UNCHANGED <<holdings, leases, waiters, want, call, ended, agenda, closing>>
  BY DEF PumpDone
<1>3. pumping' \in BOOLEAN
  BY DEF PumpDone
<1> QED
  BY <1>1, <1>2, <1>3 DEF IInv, TypeOK, HoldingsMatchLeases, Exclusion,
                          Conflicting, QueueCoherent

(* The end of a shutdown empties the queue. *)
LEMMA CloseDoneKeeps ==
    ASSUME IInv, CloseDone
    PROVE  IInv'
<1>1. TypeOK /\ HoldingsMatchLeases /\ Exclusion /\ QueueCoherent
  BY DEF IInv
<1>2. UNCHANGED <<holdings, leases, want, ended, agenda, pumping>>
  BY DEF CloseDone
<1>3. /\ call' = [q \in Requests |->
                     IF q \in Range(waiters) THEN "settled" ELSE call[q]]
      /\ waiters' = <<>> /\ closing' = FALSE
  BY DEF CloseDone
<1>4. call' \in [Requests -> CallStates]
  BY <1>1, <1>3 DEF TypeOK, CallStates
<1>5. waiters' \in Seq(Requests) /\ DOMAIN waiters' = {}
  BY <1>3, EmptySeq
<1>6. closing' \in BOOLEAN
  BY <1>3
<1>7. TypeOK'
  BY <1>1, <1>2, <1>4, <1>5, <1>6 DEF TypeOK
<1>8. HoldingsMatchLeases' /\ Exclusion'
  BY <1>1, <1>2 DEF HoldingsMatchLeases, Exclusion, Conflicting
<1>9. QueueCoherent'
  BY <1>1, <1>2, <1>3, <1>5 DEF QueueCoherent, TypeOK
<1> QED
  BY <1>7, <1>8, <1>9 DEF IInv

(* Every step of the scheduler keeps the invariant. *)
LEMMA StepKeeps == IInv /\ [Next]_vars => IInv'
<1> SUFFICES ASSUME IInv, [Next]_vars PROVE IInv'
  OBVIOUS
<1>1. ASSUME NEW q \in Requests, Acquire(q) PROVE IInv'
  BY <1>1, AcquireKeeps
<1>2. ASSUME NEW q \in Requests, GiveUp(q) PROVE IInv'
  BY <1>2, GiveUpKeeps
<1>3. ASSUME NEW q \in Requests, Start(q) PROVE IInv'
  BY <1>3, StartKeeps
<1>4. ASSUME NEW q \in Requests, Finish(q) PROVE IInv'
  BY <1>4, FinishKeeps
<1>5. ASSUME NEW q \in Requests, ReleaseNext(q) PROVE IInv'
  BY <1>5, ReleaseNextKeeps
<1>6. CASE (\E r \in RunIds : RunEnds(r)) \/ ReleaseAll
  BY <1>6, AgendaKeeps
<1>7. CASE PumpOne
  BY <1>7, PumpOneKeeps
<1>8. CASE PumpDone
  BY <1>8, PumpDoneKeeps
<1>9. CASE CloseDone
  BY <1>9, CloseDoneKeeps
<1>10. CASE UNCHANGED vars
  BY <1>10 DEF vars, IInv, TypeOK, HoldingsMatchLeases, Exclusion, Conflicting,
               QueueCoherent
<1> QED
  BY <1>1, <1>2, <1>3, <1>4, <1>5, <1>6, <1>7, <1>8, <1>9, <1>10 DEF Next

(* The invariant holds in every reachable state. *)
LEMMA InvariantHolds == Spec => []IInv
BY InitIInv, StepKeeps, PTL DEF Spec

-----------------------------------------------------------------------------
(* The results                                                             *)

(* Every variable of the scheduler keeps its type. *)
THEOREM TypeCorrect == Spec => []TypeOK
<1>1. IInv => TypeOK
  BY DEF IInv
<1> QED
  BY <1>1, InvariantHolds, PTL

(* No two leases in the table conflict: claims granted by the fast path,   *)
(* by the pump and left by a run's end or a shutdown never overlap.        *)
THEOREM ExclusionHolds == Spec => []Exclusion
<1>1. IInv => Exclusion
  BY DEF IInv
<1> QED
  BY <1>1, InvariantHolds, PTL

(* The per-key holdings that conflicts are looked up in are the claims of  *)
(* the leases in the table, no more and no fewer.                          *)
THEOREM HoldingsHold == Spec => []HoldingsMatchLeases
<1>1. IInv => HoldingsMatchLeases
  BY DEF IInv
<1> QED
  BY <1>1, InvariantHolds, PTL

-----------------------------------------------------------------------------
(* Refinement: every step grants, releases, refuses or changes nothing     *)
(* that LockTable speaks of.                                               *)

Unseen == UNCHANGED <<LeaseState, HeldClaims>>

(* A request that gets a lease is granted its claims in the lock table. *)
LEMMA InstallGrants ==
    ASSUME IInv, IInv', NEW q \in Requests, NEW cs \in SUBSET NormalClaim,
           LeaseState[q] = "none", InstallLease(q, cs),
           want' = [want EXCEPT ![q] = cs],
           \A p \in Requests \ {q} : call'[p] = call[p]
    PROVE  Table!Grant(q, cs)
<1>1. leases' = leases \union {q} /\ q \notin leases
  BY DEF InstallLease, LeaseState
<1>2. \A p \in Requests : want'[p] = IF p = q THEN cs ELSE want[p]
  BY DEF IInv, TypeOK
<1>3. LeaseState' = [LeaseState EXCEPT ![q] = "held"]
  BY <1>1 DEF LeaseState
<1>4. HeldClaims' = [HeldClaims EXCEPT ![q] = cs]
  BY <1>1, <1>2 DEF HeldClaims
<1>5. ASSUME NEW p \in Requests, LeaseState[p] = "held"
      PROVE  Table!Compatible(HeldClaims[p], cs)
  <2>1. p \in leases /\ p # q
    BY <1>1, <1>5 DEF LeaseState
  <2>2. HeldClaims[p] = want'[p] /\ cs = want'[q] /\ p \in leases' /\ q \in leases'
    BY <1>1, <1>2, <2>1 DEF HeldClaims
  <2>3. \A c \in want'[p], d \in want'[q] : ~ Conflicting(c, d)
    BY <2>1, <2>2 DEF IInv, Exclusion, Conflicting
  <2> QED
    BY <2>2, <2>3 DEF Table!Compatible
<1> QED
  BY <1>3, <1>4, <1>5 DEF Table!Grant

(* A release of a held lease is a release in the lock table; of one that   *)
(* is gone, nothing.                                                       *)
LEMMA ReleaseReleases ==
    ASSUME IInv, NEW q \in Requests, ReleaseLease(q), UNCHANGED want,
           call'[q] \notin {"idle", "waiting"},
           call[q] \notin {"idle", "waiting"},
           \A p \in Requests \ {q} : call'[p] = call[p]
    PROVE  Table!Release(q) \/ Unseen
<1>1. CASE q \in leases
  <2>1. leases' = leases \ {q}
    BY <1>1 DEF ReleaseLease
  <2>2. LeaseState' = [LeaseState EXCEPT ![q] = "over"] /\ LeaseState[q] = "held"
    BY <1>1, <2>1 DEF LeaseState
  <2>3. HeldClaims' = [HeldClaims EXCEPT ![q] = {}]
    BY <2>1 DEF HeldClaims
  <2> QED
    BY <2>2, <2>3 DEF Table!Release
<1>2. CASE q \notin leases
  BY <1>2 DEF ReleaseLease, Unseen, LeaseState, HeldClaims
<1> QED
  BY <1>1, <1>2

(* Requests that settle without a lease are refused in the lock table. *)
LEMMA SettlingRefuses ==
    ASSUME IInv, NEW Q \in SUBSET Requests, UNCHANGED leases,
           \A q \in Q : call[q] \in {"idle", "waiting"} /\ call'[q] = "settled",
           \A q \in Requests \ Q : call'[q] = call[q],
           \A q \in leases : want'[q] = want[q]
    PROVE  Table!Refuse(Q)
<1>1. \A q \in Q : q \notin leases
  BY DEF IInv, QueueCoherent
<1>2. \A q \in Q : LeaseState[q] = "none"
  BY <1>1 DEF LeaseState
<1>3. LeaseState' = [q \in Requests |-> IF q \in Q THEN "over" ELSE LeaseState[q]]
  BY <1>1 DEF LeaseState
<1>4. UNCHANGED HeldClaims
  BY DEF HeldClaims
<1> QED
  BY <1>2, <1>3, <1>4 DEF Table!Refuse

(* acquire is a grant, a refusal or nothing of the lock table. *)
LEMMA AcquireRefines ==
    ASSUME IInv, IInv', NEW q \in Requests, Acquire(q)
    PROVE  (\E cs \in SUBSET NormalClaim : Table!Grant(q, cs))
           \/ Table!Refuse({q}) \/ Unseen
<1>1. PICK cs \in ClaimSets, noWait \in BOOLEAN :
          /\ want' = [want EXCEPT ![q] = Normalized(cs)]
          /\ \/ /\ NoConflicts(Normalized(cs))
                /\ InstallLease(q, Normalized(cs))
                /\ call' = [call EXCEPT ![q] = "granted"]
                /\ UNCHANGED waiters
             \/ /\ ~ NoConflicts(Normalized(cs)) /\ noWait
                /\ call' = [call EXCEPT ![q] = "settled"]
                /\ UNCHANGED <<leases, holdings, waiters>>
             \/ /\ ~ NoConflicts(Normalized(cs)) /\ ~ noWait
                /\ waiters' = Append(waiters, q)
                /\ call' = [call EXCEPT ![q] = "waiting"]
                /\ UNCHANGED <<leases, holdings>>
  BY DEF Acquire
<1>2. call[q] = "idle" /\ q \notin leases /\ LeaseState[q] = "none"
  BY DEF Acquire, IInv, QueueCoherent, LeaseState
<1>3. Normalized(cs) \in SUBSET NormalClaim
  BY NormalizedIsNormal
<1>4. call \in [Requests -> CallStates] /\ leases \subseteq Requests
      /\ want \in [Requests -> SUBSET NormalClaim]
  BY DEF IInv, TypeOK
<1>5. \A p \in leases : want'[p] = want[p]
  BY <1>1, <1>2, <1>4
<1>6. \A p \in Requests \ {q} : call'[p] = call[p]
  BY <1>1, <1>4
<1>7. CASE InstallLease(q, Normalized(cs))
  <2>1. Table!Grant(q, Normalized(cs))
    BY <1>1, <1>2, <1>3, <1>6, <1>7, InstallGrants
  <2> QED
    BY <1>3, <2>1
<1>8. CASE call' = [call EXCEPT ![q] = "settled"] /\ UNCHANGED leases
  <2>1. call'[q] = "settled"
    BY <1>4, <1>8
  <2> QED
    BY <1>2, <1>5, <1>6, <1>8, <2>1, SettlingRefuses
<1>9. CASE call' = [call EXCEPT ![q] = "waiting"] /\ UNCHANGED leases
  <2>1. call'[q] = "waiting"
    BY <1>4, <1>9
  <2> QED
    BY <1>2, <1>5, <1>6, <1>9, <2>1 DEF Unseen, LeaseState, HeldClaims
<1> QED
  BY <1>1, <1>7, <1>8, <1>9

(* Every step of the scheduler is one of the lock table or a stutter. *)
LEMMA StepRefines == IInv /\ IInv' /\ [Next]_vars => [Table!Next]_(Table!lockVars)
<1> SUFFICES ASSUME IInv, IInv', [Next]_vars PROVE Table!Next \/ Unseen
  BY DEF Table!lockVars, Unseen
<1>0. call \in [Requests -> CallStates] /\ waiters \in Seq(Requests)
      /\ leases \subseteq Requests /\ want \in [Requests -> SUBSET NormalClaim]
  BY DEF IInv, TypeOK
<1>1. ASSUME NEW q \in Requests, Acquire(q) PROVE Table!Next \/ Unseen
  BY <1>1, AcquireRefines DEF Table!Next
<1>2. ASSUME NEW q \in Requests, GiveUp(q) PROVE Table!Next \/ Unseen
  <2>1. call[q] = "waiting" /\ call' = [call EXCEPT ![q] = "settled"]
    BY <1>2 DEF GiveUp, IInv, QueueCoherent
  <2>2. UNCHANGED <<leases, want>>
    BY <1>2 DEF GiveUp
  <2>3. Table!Refuse({q})
    BY <1>0, <2>1, <2>2, SettlingRefuses
  <2> QED
    BY <2>3 DEF Table!Next
<1>3. ASSUME NEW q \in Requests, Start(q) PROVE Table!Next \/ Unseen
  BY <1>0, <1>3 DEF Start, Unseen, LeaseState, HeldClaims
<1>4. ASSUME NEW q \in Requests, Finish(q) PROVE Table!Next \/ Unseen
  <2>1. Table!Release(q) \/ Unseen
    BY <1>0, <1>4, ReleaseReleases DEF Finish
  <2> QED
    BY <2>1 DEF Table!Next
<1>5. ASSUME NEW q \in Requests, ReleaseNext(q) PROVE Table!Next \/ Unseen
  <2>1. CASE q \in leases
    <3>1. call[q] \notin {"idle", "waiting"}
      BY <2>1 DEF IInv, QueueCoherent
    <3>2. Table!Release(q) \/ Unseen
      BY <1>5, <3>1, ReleaseReleases DEF ReleaseNext
    <3> QED
      BY <3>2 DEF Table!Next
  <2>2. CASE q \notin leases
    BY <1>5, <2>2 DEF ReleaseNext, ReleaseLease, Unseen, LeaseState, HeldClaims
  <2> QED
    BY <2>1, <2>2
<1>6. CASE (\E r \in RunIds : RunEnds(r)) \/ ReleaseAll
  BY <1>6 DEF RunEnds, ReleaseAll, Unseen, LeaseState, HeldClaims
<1>7. CASE PumpOne
  <2>1. PICK i \in DOMAIN waiters :
            /\ InstallLease(waiters[i], want[waiters[i]])
            /\ call' = [call EXCEPT ![waiters[i]] = "granted"]
    BY <1>7 DEF PumpOne
  <2> DEFINE q == waiters[i]
  <2>2. q \in Requests /\ call[q] = "waiting" /\ q \notin leases
    BY <1>0 DEF IInv, QueueCoherent
  <2>3. LeaseState[q] = "none"
    BY <2>2 DEF LeaseState
  <2>4. want[q] \in SUBSET NormalClaim /\ want' = [want EXCEPT ![q] = want[q]]
    BY <1>0, <1>7, <2>2 DEF PumpOne
  <2>5. \A p \in Requests \ {q} : call'[p] = call[p]
    BY <1>0, <2>1
  <2>6. Table!Grant(q, want[q])
    BY <2>1, <2>2, <2>3, <2>4, <2>5, InstallGrants
  <2> QED
    BY <2>2, <2>4, <2>6 DEF Table!Next
<1>8. CASE PumpDone
  BY <1>8 DEF PumpDone, Unseen, LeaseState, HeldClaims
<1>9. CASE CloseDone
  <2>1. Range(waiters) \in SUBSET Requests
    BY <1>0 DEF Range
  <2>2. \A q \in Range(waiters) : call[q] = "waiting"
    BY DEF IInv, QueueCoherent, Range
  <2>3. /\ UNCHANGED <<leases, want>>
        /\ call' = [q \in Requests |->
                       IF q \in Range(waiters) THEN "settled" ELSE call[q]]
    BY <1>9 DEF CloseDone
  <2>4. Table!Refuse(Range(waiters))
    BY <2>1, <2>2, <2>3, SettlingRefuses
  <2> QED
    BY <2>1, <2>4 DEF Table!Next
<1>10. CASE UNCHANGED vars
  BY <1>10 DEF vars, Unseen, LeaseState, HeldClaims
<1> QED
  BY <1>1, <1>2, <1>3, <1>4, <1>5, <1>6, <1>7, <1>8, <1>9, <1>10 DEF Next

(* The scheduler implements the lock table: seen through LeaseState and    *)
(* HeldClaims, its calls only grant, refuse and release whole requests.    *)
THEOREM RefinesLockTable == Spec => ImplementsLockTable
<1>1. Init => Table!Init
  BY DEF Init, Table!Init, LeaseState, HeldClaims
<1> QED
  BY <1>1, StepRefines, InvariantHolds, PTL DEF Spec, ImplementsLockTable, Table!Spec

-----------------------------------------------------------------------------
(* No lost wake-up                                                         *)

(* Unless the pump is running, no queued request's claims would fit. *)
QueueBlocked ==
    ~ pumping => \A q \in Range(waiters) : ~ NoConflicts(want[q])

(* Where nothing is released, what conflicted still does. *)
LEMMA ConflictsStay ==
    ASSUME NEW q, NEW cs, ~ NoConflicts(cs), cs \in SUBSET NormalClaim,
           \A k \in Keys : holdings[k] \subseteq holdings'[k]
    PROVE  ~ NoConflicts(cs)'
BY DEF NoConflicts, NormalClaim

(* A grant takes no holding out. *)
LEMMA InstallGrows ==
    ASSUME NEW q, NEW cs, InstallLease(q, cs)
    PROVE  \A k \in Keys : holdings[k] \subseteq holdings'[k]
BY DEF InstallLease

(* The queue after an entry is taken out holds only entries it held. *)
LEMMA DequeueShrinks ==
    ASSUME TypeOK, NEW i \in DOMAIN waiters, waiters' = RemoveAt(waiters, i)
    PROVE  Range(waiters') \subseteq Range(waiters)
<1>1. /\ waiters \in Seq(Requests) /\ Len(waiters) \in Nat
      /\ i \in 1..Len(waiters) /\ DOMAIN waiters = 1..Len(waiters)
  BY DEF TypeOK
<1>2. \A j \in DOMAIN waiters' :
          /\ j \in 1..(Len(waiters) - 1)
          /\ waiters'[j] = IF j < i THEN waiters[j] ELSE waiters[j + 1]
  BY <1>1, RemoveAtElements
<1>3. \A j \in DOMAIN waiters' : \E k \in DOMAIN waiters : waiters'[j] = waiters[k]
  BY <1>1, <1>2
<1> QED
  BY <1>3 DEF Range

(* Outside a pump, a queued request stays in conflict until a release,     *)
(* which starts the pump.                                                  *)
LEMMA StepKeepsBlocked ==
    ASSUME IInv, QueueBlocked, [Next]_vars
    PROVE  QueueBlocked'
<1>0. /\ TypeOK /\ want \in [Requests -> SUBSET NormalClaim]
      /\ waiters \in Seq(Requests) /\ Range(waiters) \subseteq Requests
  BY DEF IInv, TypeOK, Range
<1>1. ASSUME NEW q \in Requests, Acquire(q) PROVE QueueBlocked'
  <2>1. PICK cs \in ClaimSets, noWait \in BOOLEAN :
            /\ want' = [want EXCEPT ![q] = Normalized(cs)]
            /\ \/ InstallLease(q, Normalized(cs)) /\ UNCHANGED waiters
               \/ UNCHANGED <<holdings, waiters>>
               \/ /\ ~ NoConflicts(Normalized(cs))
                  /\ waiters' = Append(waiters, q) /\ UNCHANGED holdings
    BY <1>1 DEF Acquire
  <2>2. UNCHANGED pumping
    BY <1>1 DEF Acquire
  <2>3. q \notin Range(waiters)
    BY <1>1 DEF Acquire, IInv, QueueCoherent, Range
  <2>4. \A k \in Keys : holdings[k] \subseteq holdings'[k]
    BY <2>1, InstallGrows
  <2>5. \A p \in Range(waiters) : want'[p] = want[p] /\ want[p] \in SUBSET NormalClaim
    BY <1>0, <2>1, <2>3
  <2>6. ASSUME ~ pumping, NEW p \in Range(waiters) PROVE ~ NoConflicts(want[p])'
    <3>1. ~ NoConflicts(want[p])
      BY <2>6 DEF QueueBlocked
    <3> QED
      BY <2>4, <2>5, <3>1, ConflictsStay DEF NoConflicts
  <2>7. CASE UNCHANGED waiters
    BY <2>2, <2>6, <2>7 DEF QueueBlocked
  <2>8. CASE /\ ~ NoConflicts(Normalized(cs))
             /\ waiters' = Append(waiters, q) /\ UNCHANGED holdings
    <3>1. Range(waiters') = Range(waiters) \union {q}
      <4>1. /\ Len(waiters) \in Nat /\ DOMAIN waiters = 1..Len(waiters)
            /\ DOMAIN waiters' = 1..(Len(waiters) + 1)
            /\ waiters'[Len(waiters) + 1] = q
            /\ \A i \in DOMAIN waiters : waiters'[i] = waiters[i]
        BY <1>0, <2>8, AppendProperties
      <4> QED
        BY <4>1 DEF Range
    <3>2. want'[q] = Normalized(cs)
      BY <1>0, <2>1
    <3>3. ~ NoConflicts(want[q])'
      BY <2>8, <3>2 DEF NoConflicts
    <3> QED
      BY <2>2, <2>6, <3>1, <3>3 DEF QueueBlocked
  <2> QED
    BY <2>1, <2>7, <2>8
<1>2. ASSUME NEW q \in Requests, GiveUp(q) PROVE QueueBlocked'
  <2>1. PICK i \in DOMAIN waiters : waiters' = RemoveAt(waiters, i)
    BY <1>2 DEF GiveUp
  <2>2. Range(waiters') \subseteq Range(waiters)
    BY <1>0, <2>1, DequeueShrinks
  <2> QED
    BY <1>2, <2>2 DEF GiveUp, QueueBlocked, NoConflicts
<1>3. ASSUME NEW q \in Requests, Start(q) PROVE QueueBlocked'
  BY <1>3 DEF Start, QueueBlocked, NoConflicts
<1>4. ASSUME NEW q \in Requests, Finish(q) \/ ReleaseNext(q) PROVE QueueBlocked'
  <2>1. ReleaseLease(q) /\ UNCHANGED <<waiters, want>>
    BY <1>4 DEF Finish, ReleaseNext
  <2>2. pumping' \/ UNCHANGED <<holdings, pumping>>
    BY <2>1 DEF ReleaseLease
  <2> QED
    BY <2>1, <2>2 DEF QueueBlocked, NoConflicts
<1>5. CASE (\E r \in RunIds : RunEnds(r)) \/ ReleaseAll
  BY <1>5 DEF RunEnds, ReleaseAll, QueueBlocked, NoConflicts
<1>6. CASE PumpOne
  BY <1>6 DEF PumpOne, QueueBlocked
<1>7. CASE PumpDone
  BY <1>7 DEF PumpDone, QueueBlocked, NoConflicts, Fits, Range
<1>8. CASE CloseDone
  <2>1. Range(waiters') = {}
    BY <1>8 DEF CloseDone, Range
  <2> QED
    BY <2>1 DEF QueueBlocked
<1>9. CASE UNCHANGED vars
  BY <1>9 DEF vars, QueueBlocked, NoConflicts
<1> QED
  BY <1>1, <1>2, <1>3, <1>4, <1>5, <1>6, <1>7, <1>8, <1>9 DEF Next

(* No wake-up is lost: outside the calls of the scheduler each queued      *)
(* request is blocked by a lease that is still in the table.               *)
THEOREM WakeupsKept == Spec => []NoLostWakeup
<1>1. Init => QueueBlocked
  BY DEF Init, QueueBlocked, Range
<1>2. IInv /\ QueueBlocked => NoLostWakeup
  <2> SUFFICES ASSUME IInv, QueueBlocked, Idle, NEW q \in Range(waiters)
               PROVE  \E p \in leases : \E c \in want[p], d \in want[q] :
                          Conflicting(c, d)
    BY DEF NoLostWakeup
  <2>1. PICK d \in want[q] : \E h \in holdings[d.key] :
            ClaimsConflict(h.access, d.access)
    BY DEF QueueBlocked, Idle, NoConflicts
  <2>2. PICK h \in holdings[d.key] : ClaimsConflict(h.access, d.access)
    BY <2>1
  <2>3. q \in Requests /\ want[q] \subseteq NormalClaim
    BY DEF IInv, TypeOK, Range
  <2>4. d.key \in Keys
    BY <2>3 DEF NormalClaim
  <2>5. h.lease \in leases /\ [key |-> d.key, access |-> h.access] \in want[h.lease]
    BY <2>2, <2>4 DEF IInv, HoldingsMatchLeases
  <2>6. Conflicting([key |-> d.key, access |-> h.access], d)
    BY <2>2 DEF Conflicting
  <2> QED
    BY <2>5, <2>6
<1>3. IInv /\ QueueBlocked /\ [Next]_vars => QueueBlocked'
  BY StepKeepsBlocked
<1> QED
  BY <1>1, <1>2, <1>3, InvariantHolds, PTL DEF Spec

-----------------------------------------------------------------------------
(* A tool keeps its lease                                                  *)

(* Outside a shutdown, a release call works on leases of ended runs only. *)
AgendaOfEnded == closing \/ \A q \in agenda : RunOf[q] \in ended

(* The agenda is filled by the end of a run or by a shutdown, and emptied  *)
(* before the shutdown is over.                                            *)
LEMMA StepKeepsAgenda ==
    ASSUME AgendaOfEnded, [Next]_vars
    PROVE  AgendaOfEnded'
<1>1. ASSUME NEW q \in Requests,
             Acquire(q) \/ GiveUp(q) \/ Start(q) \/ Finish(q) \/ ReleaseNext(q)
      PROVE  AgendaOfEnded'
  BY <1>1 DEF Acquire, GiveUp, Start, Finish, ReleaseNext, AgendaOfEnded
<1>2. ASSUME NEW r \in RunIds, RunEnds(r)
      PROVE  AgendaOfEnded'
  BY <1>2 DEF RunEnds, AgendaOfEnded
<1>3. CASE ReleaseAll
  BY <1>3 DEF ReleaseAll, AgendaOfEnded
<1>4. CASE PumpOne \/ PumpDone
  BY <1>4 DEF PumpOne, PumpDone, AgendaOfEnded
<1>5. CASE CloseDone
  BY <1>5 DEF CloseDone, AgendaOfEnded
<1>6. CASE UNCHANGED vars
  BY <1>6 DEF vars, AgendaOfEnded
<1> QED
  BY <1>1, <1>2, <1>3, <1>4, <1>5, <1>6 DEF Next

(* One step of the claim of LeaseHeldWhileExecuting, for one request. *)
LEMMA StepKeepsLease ==
    ASSUME IInv, AgendaOfEnded, Next, NEW p \in Requests, InHand(p)',
           p \notin leases'
    PROVE  InHand(p) /\ (p \in leases => RunOf[p] \in ended \/ closing)
<1>0. /\ call \in [Requests -> CallStates] /\ leases \subseteq Requests
      /\ waiters \in Seq(Requests)
  BY DEF IInv, TypeOK
<1>1. ASSUME NEW q \in Requests, Acquire(q)
      PROVE  InHand(p) /\ p \notin leases
  <2>1. \/ leases' = leases \union {q} /\ call' = [call EXCEPT ![q] = "granted"]
        \/ leases' = leases /\ call' = [call EXCEPT ![q] = "settled"]
        \/ leases' = leases /\ call' = [call EXCEPT ![q] = "waiting"]
    BY <1>1 DEF Acquire, InstallLease
  <2> QED
    BY <1>0, <2>1 DEF InHand
<1>2. ASSUME NEW q \in Requests, GiveUp(q) \/ Start(q)
      PROVE  InHand(p) /\ p \notin leases
  BY <1>0, <1>2 DEF GiveUp, Start, InHand
<1>3. ASSUME NEW q \in Requests, Finish(q)
      PROVE  InHand(p) /\ p \notin leases
  BY <1>0, <1>3 DEF Finish, ReleaseLease, InHand
<1>4. ASSUME NEW q \in Requests, ReleaseNext(q)
      PROVE  InHand(p) /\ (p \in leases => RunOf[p] \in ended \/ closing)
  <2>1. call' = call /\ q \in agenda
    BY <1>4 DEF ReleaseNext
  <2>2. leases' = leases \/ leases' = leases \ {q}
    BY <1>4 DEF ReleaseNext, ReleaseLease
  <2> QED
    BY <2>1, <2>2 DEF AgendaOfEnded, InHand
<1>5. CASE PumpOne
  <2>1. PICK i \in DOMAIN waiters :
            /\ leases' = leases \union {waiters[i]}
            /\ call' = [call EXCEPT ![waiters[i]] = "granted"]
    BY <1>5 DEF PumpOne, InstallLease
  <2> QED
    BY <1>0, <2>1 DEF InHand
<1>6. CASE (\E r \in RunIds : RunEnds(r)) \/ ReleaseAll \/ PumpDone
  BY <1>6 DEF RunEnds, ReleaseAll, PumpDone, InHand
<1>7. CASE CloseDone
  BY <1>0, <1>7 DEF CloseDone, InHand
<1> QED
  BY <1>1, <1>2, <1>3, <1>4, <1>5, <1>6, <1>7 DEF Next

(* A tool call keeps its lease from its grant to its end, until its own    *)
(* run's terminal event or a shutdown takes it away.                       *)
THEOREM LeasesKept == Spec => LeaseHeldWhileExecuting
<1>1. Init => AgendaOfEnded
  BY DEF Init, AgendaOfEnded
<1>2. AgendaOfEnded /\ [Next]_vars => AgendaOfEnded'
  BY StepKeepsAgenda
<1>3. IInv /\ AgendaOfEnded /\ [Next]_vars =>
          [\A q \in Requests :
              InHand(q)' =>
                  \/ q \in leases'
                  \/ /\ InHand(q)
                     /\ q \in leases => RunOf[q] \in ended \/ closing]_vars
  BY StepKeepsLease
<1> QED
  BY <1>1, <1>2, <1>3, InvariantHolds, PTL DEF Spec, LeaseHeldWhileExecuting
==============================================================================
