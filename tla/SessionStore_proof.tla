------------------------- MODULE SessionStore_proof -------------------------
(***************************************************************************)
(* Proofs about SessionStore and Conversation, for any number of turns,    *)
(* failed operations, crashes and restarts, and any windows of the         *)
(* summary, the snip and the trim.                                         *)
(*                                                                         *)
(* Three arguments meet in StoreInv.  What a ledger reads as: an append to *)
(* it, whole or cut short, makes it read as more of the conversation,      *)
(* unless its last line was unterminated.  What every conversation has: a  *)
(* call is made once, and only rows stand between it and its row, so that  *)
(* a cut before a message that is no row separates none.  And where the    *)
(* process is in a save: what it knows of the two files there is what a    *)
(* load after a crash will find.                                           *)
(***************************************************************************)
EXTENDS SessionStore, SequenceTheorems, WellFoundedInduction, TLAPS

(* Induction, from the well-foundedness of < on the naturals.              *)
LEMMA Least ==
    ASSUME NEW T, T \subseteq Nat, T # {}
    PROVE  \E n \in T : \A m \in T : n <= m
<1>. DEFINE Below == {p \in Nat \X Nat : p[1] < p[2]}
<1>1. IsWellFoundedOn(Below, Nat)
  BY NatLessThanWellFounded DEF OpToRel
<1>2. \A m, n \in Nat : <<m, n>> \in Below <=> m < n
  OBVIOUS
<1>. HIDE DEF Below
<1>3. PICK n \in T : \A m \in T : ~(<<m, n>> \in Below)
  BY <1>1, WFMin
<1>4. ASSUME NEW m \in T PROVE n <= m
  <2>1. ~(m < n)
    BY <1>2, <1>3
  <2>. QED
    BY <2>1
<1>. QED
  BY <1>4

LEMMA Induction ==
    ASSUME NEW T, T \subseteq Nat, 0 \in T, \A n \in T : n + 1 \in T
    PROVE  T = Nat
<1>. SUFFICES ASSUME Nat \ T # {} PROVE FALSE
  OBVIOUS
<1>1. PICK n \in Nat \ T : \A m \in Nat \ T : n <= m
  BY Least
<1>2. n # 0 /\ n - 1 \in Nat /\ n - 1 \in T
  BY <1>1
<1>. QED
  BY <1>2

-----------------------------------------------------------------------------
(* What remains of a sequence                                              *)

(* The function Kept defines, for the first n positions. *)
KeptTo(f, h, S, n) ==
    f = [m \in 0..n |-> IF m = 0 THEN <<>>
                        ELSE IF m \in S THEN Append(f[m - 1], h[m]) ELSE f[m - 1]]

LEMMA KeptExists == ASSUME NEW h, NEW S PROVE \A n \in Nat : \E f : KeptTo(f, h, S, n)
<1>. DEFINE T == {n \in Nat : \E f : KeptTo(f, h, S, n)}
<1>1. 0 \in T
  <2>1. KeptTo([m \in 0..0 |-> <<>>], h, S, 0)
    BY DEF KeptTo
  <2>. QED
    BY <2>1
<1>2. ASSUME NEW n \in T PROVE n + 1 \in T
  <2>1. PICK f : KeptTo(f, h, S, n)
    OBVIOUS
  <2>. DEFINE last == IF n + 1 \in S THEN Append(f[n], h[n + 1]) ELSE f[n]
              g == [m \in 0..(n + 1) |-> IF m = n + 1 THEN last ELSE f[m]]
              k == [m \in 0..(n + 1) |-> IF m = 0 THEN <<>>
                        ELSE IF m \in S THEN Append(g[m - 1], h[m]) ELSE g[m - 1]]
  <2>2. \A m \in 0..n : f[m] = IF m = 0 THEN <<>>
                        ELSE IF m \in S THEN Append(f[m - 1], h[m]) ELSE f[m - 1]
    BY <2>1 DEF KeptTo
  <2>3. ASSUME NEW m \in 0..(n + 1) PROVE g[m] = k[m]
    <3>1. k[m] = IF m = 0 THEN <<>>
                 ELSE IF m \in S THEN Append(g[m - 1], h[m]) ELSE g[m - 1]
      OBVIOUS
    <3>2. \A i \in 0..n : g[i] = f[i] /\ i # n + 1
      OBVIOUS
    <3>3. g[n + 1] = last
      OBVIOUS
    <3>4. m # 0 => m - 1 \in 0..n
      OBVIOUS
    <3>. HIDE DEF g, k
    <3>5. CASE m = n + 1
      <4>1. m # 0 /\ m - 1 = n /\ n \in 0..n
        BY <3>5
      <4>. QED
        BY <3>1, <3>2, <3>3, <3>5, <4>1
    <3>6. CASE m # n + 1
      <4>1. m \in 0..n
        BY <3>6
      <4>. QED
        BY <2>2, <3>1, <3>2, <3>4, <4>1
    <3>. QED
      BY <3>5, <3>6
  <2>4. g = k
    BY <2>3
  <2>5. KeptTo(g, h, S, n + 1)
    BY <2>4 DEF KeptTo
  <2>. QED
    BY <2>5
<1>. QED
  BY <1>1, <1>2, Induction

LEMMA KeptIs ==
    ASSUME NEW h, Len(h) \in Nat, NEW S
    PROVE  \E f : KeptTo(f, h, S, Len(h)) /\ Kept(h, S) = f[Len(h)]
<1>1. Kept(h, S) = (CHOOSE f : KeptTo(f, h, S, Len(h)))[Len(h)]
  BY DEF Kept, KeptTo
<1>. QED
  BY <1>1, KeptExists

(* Two sequences that agree up to n keep the same so far. *)
LEMMA KeptAgree ==
    ASSUME NEW h, NEW S, NEW k, NEW T, NEW m \in Nat, NEW n \in Nat, n <= m,
           NEW f, KeptTo(f, h, S, n), NEW g, KeptTo(g, k, T, m),
           \A i \in 1..n : h[i] = k[i] /\ (i \in S <=> i \in T)
    PROVE  f[n] = g[n]
<1>. DEFINE U == {q \in Nat : q <= n => f[q] = g[q]}
<1>1. 0 \in U
  BY DEF KeptTo
<1>2. ASSUME NEW q \in U, q + 1 <= n PROVE f[q + 1] = g[q + 1]
  <2>1. q + 1 \in 0..n /\ q + 1 \in 0..m /\ q + 1 # 0 /\ (q + 1) - 1 = q /\ q <= n /\ q + 1 \in 1..n
    BY <1>2
  <2>2. f[q + 1] = IF q + 1 \in S THEN Append(f[q], h[q + 1]) ELSE f[q]
    BY <2>1 DEF KeptTo
  <2>3. g[q + 1] = IF q + 1 \in T THEN Append(g[q], k[q + 1]) ELSE g[q]
    BY <2>1 DEF KeptTo
  <2>4. f[q] = g[q]
    BY <2>1
  <2>. QED
    BY <2>1, <2>2, <2>3, <2>4
<1>3. \A q \in U : q + 1 \in U
  BY <1>2
<1>4. U = Nat
  BY <1>1, <1>3, Induction
<1>. QED
  BY <1>4

LEMMA KeptNothing == ASSUME NEW S PROVE Kept(<<>>, S) = <<>>
<1>1. PICK f : KeptTo(f, <<>>, S, 0) /\ Kept(<<>>, S) = f[0]
  BY KeptIs
<1>. QED
  BY <1>1 DEF KeptTo

(* One more element is kept or it is not. *)
LEMMA KeptStep ==
    ASSUME NEW h, NEW k, NEW S, NEW T, NEW n \in Nat, Len(h) = n, Len(k) = n + 1,
           \A i \in 1..n : h[i] = k[i] /\ (i \in S <=> i \in T)
    PROVE  Kept(k, T) = IF n + 1 \in T THEN Append(Kept(h, S), k[n + 1]) ELSE Kept(h, S)
<1>1. PICK f : KeptTo(f, h, S, n) /\ Kept(h, S) = f[n]
  BY KeptIs
<1>2. PICK g : KeptTo(g, k, T, n + 1) /\ Kept(k, T) = g[n + 1]
  BY KeptIs
<1>3. f[n] = g[n]
  BY <1>1, <1>2, KeptAgree
<1>4. n + 1 \in 0..(n + 1) /\ n + 1 # 0 /\ (n + 1) - 1 = n
  OBVIOUS
<1>5. g[n + 1] = IF n + 1 \in T THEN Append(g[n], k[n + 1]) ELSE g[n]
  BY <1>2, <1>4 DEF KeptTo
<1>. QED
  BY <1>1, <1>2, <1>3, <1>5

(* k is what is left of the first n elements of h, those in S: g tells at   *)
(* which position of h each element of k was.                               *)
Picked(g, h, S, n, k) ==
    /\ g \in [1..Len(k) -> 1..n]
    /\ \A i, j \in 1..Len(k) : i < j => g[i] < g[j]
    /\ \A i \in 1..Len(k) : g[i] \in S /\ k[i] = h[g[i]]
    /\ \A p \in 1..n : p \in S => \E i \in 1..Len(k) : g[i] = p

LEMMA PickedStep ==
    ASSUME NEW M, NEW h, NEW S, NEW n \in Nat, NEW k \in Seq(M), NEW g, Picked(g, h, S, n, k),
           NEW x \in M, n + 1 \in S, h[n + 1] = x
    PROVE  \E e : Picked(e, h, S, n + 1, Append(k, x))
<1>. DEFINE L == Len(k)
            e == [i \in 1..(L + 1) |-> IF i = L + 1 THEN n + 1 ELSE g[i]]
            K == Append(k, x)
<1>1. L \in Nat /\ Len(K) = L + 1 /\ K[L + 1] = x /\ \A i \in 1..L : K[i] = k[i]
  OBVIOUS
<1>2. \A i \in 1..L : g[i] \in 1..n /\ g[i] \in S /\ k[i] = h[g[i]]
  BY DEF Picked
<1>3. \A i, j \in 1..L : i < j => g[i] < g[j]
  BY DEF Picked
<1>4. \A p \in 1..n : p \in S => \E i \in 1..L : g[i] = p
  BY DEF Picked
<1>. HIDE DEF K, L
<1>5. e[L + 1] = n + 1 /\ \A i \in 1..L : e[i] = g[i]
  BY <1>1
<1>6. \A i \in 1..(L + 1) : i \in 1..L \/ i = L + 1
  BY <1>1
<1>7. e \in [1..(L + 1) -> 1..(n + 1)]
  <2>1. \A i \in 1..(L + 1) : e[i] \in 1..(n + 1)
    BY <1>2, <1>5, <1>6
  <2>. QED
    BY <2>1
<1>. HIDE DEF e
<1>8. ASSUME NEW i \in 1..(L + 1), NEW j \in 1..(L + 1), i < j PROVE e[i] < e[j]
  <2>1. i \in 1..L
    BY <1>1, <1>8
  <2>2. CASE j \in 1..L
    BY <1>3, <1>5, <1>8, <2>1, <2>2
  <2>3. CASE j = L + 1
    BY <1>2, <1>5, <2>1, <2>3
  <2>. QED
    BY <1>6, <2>2, <2>3
<1>9. \A i \in 1..(L + 1) : e[i] \in S /\ K[i] = h[e[i]]
  BY <1>1, <1>2, <1>5, <1>6
<1>10. \A p \in 1..(n + 1) : p \in S => \E i \in 1..(L + 1) : e[i] = p
  <2>. SUFFICES ASSUME NEW p \in 1..(n + 1), p \in S PROVE \E i \in 1..(L + 1) : e[i] = p
    OBVIOUS
  <2>1. CASE p = n + 1
    BY <1>1, <1>5, <2>1
  <2>2. CASE p # n + 1
    <3>1. PICK i \in 1..L : g[i] = p
      BY <1>4, <2>2
    <3>2. i \in 1..(L + 1)
      BY <1>1
    <3>. QED
      BY <1>5, <3>1, <3>2
  <2>. QED
    BY <2>1, <2>2
<1>11. Picked(e, h, S, n + 1, K)
  BY <1>1, <1>7, <1>8, <1>9, <1>10 DEF Picked
<1>. QED
  BY <1>11 DEF K

LEMMA KeptPicks ==
    ASSUME NEW M, NEW h \in Seq(M), NEW S
    PROVE  Kept(h, S) \in Seq(M) /\ \E g : Picked(g, h, S, Len(h), Kept(h, S))
<1>1. Len(h) \in Nat /\ \A i \in 1..Len(h) : h[i] \in M
  OBVIOUS
<1>2. PICK f : KeptTo(f, h, S, Len(h)) /\ Kept(h, S) = f[Len(h)]
  BY <1>1, KeptIs
<1>. DEFINE U == {n \in Nat : n <= Len(h) => f[n] \in Seq(M) /\ \E g : Picked(g, h, S, n, f[n])}
<1>3. 0 \in U
  <2>1. f[0] = <<>> /\ <<>> \in Seq(M) /\ Len(<<>>) = 0
    BY <1>1, <1>2 DEF KeptTo
  <2>2. Picked([i \in 1..0 |-> 0], h, S, 0, <<>>)
    BY <2>1 DEF Picked
  <2>. QED
    BY <2>1, <2>2
<1>4. ASSUME NEW n \in U, n + 1 <= Len(h)
      PROVE  f[n + 1] \in Seq(M) /\ \E g : Picked(g, h, S, n + 1, f[n + 1])
  <2>1. n + 1 \in 0..Len(h) /\ n + 1 \in 1..Len(h) /\ n + 1 # 0 /\ (n + 1) - 1 = n /\ n <= Len(h)
    BY <1>1, <1>4
  <2>2. f[n + 1] = IF n + 1 \in S THEN Append(f[n], h[n + 1]) ELSE f[n]
    BY <1>2, <2>1 DEF KeptTo
  <2>3. f[n] \in Seq(M)
    BY <2>1
  <2>4. PICK g : Picked(g, h, S, n, f[n])
    BY <2>1
  <2>5. CASE n + 1 \in S
    BY <1>1, <2>1, <2>2, <2>3, <2>4, <2>5, PickedStep
  <2>6. CASE n + 1 \notin S
    <3>1. \A p \in 1..(n + 1) : p \in S => p \in 1..n
      BY <2>6
    <3>2. g \in [1..Len(f[n]) -> 1..(n + 1)]
      BY <2>4 DEF Picked
    <3>3. Picked(g, h, S, n + 1, f[n])
      BY <2>4, <3>1, <3>2 DEF Picked
    <3>. QED
      BY <2>2, <2>3, <2>6, <3>3
  <2>. QED
    BY <2>5, <2>6
<1>5. \A n \in U : n + 1 \in U
  <2>. SUFFICES ASSUME NEW n \in U PROVE n + 1 \in U
    OBVIOUS
  <2>1. n + 1 \in Nat
    OBVIOUS
  <2>. QED
    BY <1>4, <2>1
<1>6. U = Nat
  BY <1>3, <1>5, Induction
<1>. QED
  BY <1>1, <1>2, <1>6

-----------------------------------------------------------------------------
(* What a ledger says                                                      *)

Ids == Nat \X Nat
Messages == [id : Ids, role : {"user", "assistant", "tool", "system"}, calls : SUBSET Ids]
Lines == Messages \union {Meta, Junk}

Reading(s) ==
    Kept(s, {i \in DOMAIN s : IsMessage(s[i]) /\ \A j \in 1..i : s[j] # Junk})
Clean(s) == \A i \in DOMAIN s : s[i] # Junk

LEMMA LineKinds ==
    /\ Meta # Junk /\ Meta \notin Messages /\ Junk \notin Messages
    /\ \A x \in Messages : IsMessage(x)
    /\ \A x \in Lines : IsMessage(x) <=> x \in Messages
    /\ ~IsMessage(Meta) /\ ~IsMessage(Junk)
  BY DEF Meta, Junk, Message, Messages, Lines, IsMessage

LEMMA ReadIsReading == \A l : Read(l) = Reading(l.lines)
  BY DEF Read, Reading

LEMMA ReadingNothing == Reading(<<>>) = <<>>
  BY KeptNothing DEF Reading

LEMMA ReadingStep ==
    ASSUME NEW s \in Seq(Lines), NEW x \in Lines
    PROVE  Reading(Append(s, x)) =
              IF IsMessage(x) /\ Clean(s) THEN Append(Reading(s), x) ELSE Reading(s)
<1>. DEFINE n == Len(s)
            t == Append(s, x)
            S == {i \in DOMAIN s : IsMessage(s[i]) /\ \A j \in 1..i : s[j] # Junk}
            T == {i \in DOMAIN t : IsMessage(t[i]) /\ \A j \in 1..i : t[j] # Junk}
<1>1. /\ n \in Nat /\ Len(t) = n + 1 /\ DOMAIN s = 1..n /\ DOMAIN t = 1..(n + 1)
      /\ t[n + 1] = x /\ \A i \in 1..n : t[i] = s[i]
  OBVIOUS
<1>. HIDE DEF n, t
<1>2. ASSUME NEW i \in 1..n PROVE s[i] = t[i] /\ (i \in S <=> i \in T)
  <2>1. i \in 1..(n + 1) /\ 1..i \subseteq 1..n
    BY <1>1
  <2>. QED
    BY <1>1, <2>1
<1>3. n + 1 \in T <=> IsMessage(x) /\ Clean(s)
  <2>1. n + 1 \in 1..(n + 1) /\ 1..n \subseteq 1..(n + 1)
    BY <1>1
  <2>2. \A j \in 1..(n + 1) : j \in 1..n \/ j = n + 1
    BY <1>1
  <2>3. n + 1 \in T <=> IsMessage(x) /\ \A j \in 1..(n + 1) : t[j] # Junk
    BY <1>1, <2>1
  <2>4. IsMessage(x) => x # Junk
    BY DEF IsMessage
  <2>5. IsMessage(x) => ((\A j \in 1..(n + 1) : t[j] # Junk) <=> \A j \in 1..n : s[j] # Junk)
    BY <1>1, <2>1, <2>2, <2>4
  <2>. QED
    BY <1>1, <2>3, <2>5 DEF Clean
<1>. HIDE DEF S, T
<1>4. Kept(t, T) = IF n + 1 \in T THEN Append(Kept(s, S), t[n + 1]) ELSE Kept(s, S)
  BY <1>1, <1>2, KeptStep DEF n
<1>5. Reading(t) = Kept(t, T) /\ Reading(s) = Kept(s, S)
  BY DEF Reading, S, T
<1>. QED
  BY <1>1, <1>3, <1>4, <1>5 DEF t

(* A sequence and the beginning of another, one element at a time. *)
LEMMA ConcatStep ==
    ASSUME NEW M, NEW a \in Seq(M), NEW b \in Seq(M), NEW n \in Nat, n + 1 <= Len(b)
    PROVE  /\ a \o Take(b, n + 1) = Append(a \o Take(b, n), b[n + 1])
           /\ a \o Take(b, n) \in Seq(M) /\ b[n + 1] \in M
<1>1. n + 1 \in 1..Len(b) /\ 1 \in 1..Len(b) /\ n + 1 \in 1..Len(b) /\ Len(b) \in Nat
  OBVIOUS
<1>2. b[n + 1] \in M
  BY <1>1
<1>3. Take(b, n + 1) = Take(b, n) \o <<b[n + 1]>>
  BY <1>1, SubSeqRecursiveSecond DEF Take
<1>4. Take(b, n) \in Seq(M)
  <2>1. \A i \in 1..n : b[i] \in M
    BY <1>1
  <2>. QED
    BY <2>1, SubSeqProperties DEF Take
<1>5. a \o Take(b, n) \in Seq(M) /\ <<b[n + 1]>> \in Seq(M)
  BY <1>2, <1>4, ConcatProperties
<1>6. a \o (Take(b, n) \o <<b[n + 1]>>) = (a \o Take(b, n)) \o <<b[n + 1]>>
  BY <1>4, <1>5, ConcatAssociative
<1>7. Append(a \o Take(b, n), b[n + 1]) = (a \o Take(b, n)) \o <<b[n + 1]>>
  BY <1>2, <1>5, AppendIsConcat
<1>. QED
  BY <1>2, <1>3, <1>5, <1>6, <1>7

LEMMA TakeNothing == ASSUME NEW b PROVE Take(b, 0) = <<>>
  BY SubSeqEmpty DEF Take

LEMMA TakeAll == ASSUME NEW M, NEW b \in Seq(M) PROVE Take(b, Len(b)) = b
  BY SubSeqFull DEF Take

LEMMA TakeType ==
    ASSUME NEW M, NEW b \in Seq(M), NEW n \in 0..Len(b)
    PROVE  /\ Take(b, n) \in Seq(M) /\ Len(Take(b, n)) = n
           /\ \A i \in 1..n : Take(b, n)[i] = b[i]
<1>1. \A i \in 1..n : b[i] \in M
  OBVIOUS
<1>2. n \in Int /\ 1 \in Int
  OBVIOUS
<1>3. /\ Take(b, n) \in Seq(M) /\ Len(Take(b, n)) = IF 1 <= n THEN n - 1 + 1 ELSE 0
      /\ \A i \in 1..(n - 1 + 1) : Take(b, n)[i] = b[1 + i - 1]
  BY <1>1, <1>2, SubSeqProperties DEF Take
<1>. QED
  BY <1>3

LEMMA CleanConcat ==
    ASSUME NEW a \in Seq(Lines), Clean(a), NEW b \in Seq(Messages)
    PROVE  a \o b \in Seq(Lines) /\ Clean(a \o b)
<1>1. b \in Seq(Lines)
  BY SeqMonotonic DEF Lines
<1>2. /\ a \o b \in Seq(Lines) /\ DOMAIN (a \o b) = 1..(Len(a) + Len(b))
      /\ \A i \in 1..(Len(a) + Len(b)) : (a \o b)[i] = IF i <= Len(a) THEN a[i] ELSE b[i - Len(a)]
  BY <1>1, ConcatProperties
<1>3. \A i \in 1..Len(b) : b[i] # Junk
  BY LineKinds
<1>4. \A i \in 1..Len(a) : a[i] # Junk
  BY DEF Clean
<1>5. \A i \in 1..(Len(a) + Len(b)) : i <= Len(a) => i \in 1..Len(a)
  OBVIOUS
<1>6. \A i \in 1..(Len(a) + Len(b)) : ~(i <= Len(a)) => i - Len(a) \in 1..Len(b)
  OBVIOUS
<1>. QED
  BY <1>2, <1>3, <1>4, <1>5, <1>6 DEF Clean

(* Messages after clean lines are read. *)
LEMMA ReadingOn ==
    ASSUME NEW a \in Seq(Lines), Clean(a), NEW b \in Seq(Messages), Reading(a) \in Seq(Messages)
    PROVE  Reading(a \o b) = Reading(a) \o b
<1>. DEFINE U == {n \in Nat : n <= Len(b) => Reading(a \o Take(b, n)) = Reading(a) \o Take(b, n)}
<1>0. b \in Seq(Lines) /\ Len(b) \in Nat
  BY SeqMonotonic DEF Lines
<1>1. 0 \in U
  <2>1. a \o <<>> = a /\ Reading(a) \o <<>> = Reading(a)
    BY ConcatEmptySeq
  <2>. QED
    BY <2>1, TakeNothing
<1>2. ASSUME NEW n \in U, n + 1 <= Len(b)
      PROVE  Reading(a \o Take(b, n + 1)) = Reading(a) \o Take(b, n + 1)
  <2>1. n \in 0..Len(b) /\ n <= Len(b)
    BY <1>0, <1>2
  <2>2. /\ a \o Take(b, n + 1) = Append(a \o Take(b, n), b[n + 1])
        /\ a \o Take(b, n) \in Seq(Lines)
    BY <1>0, <1>2, ConcatStep
  <2>3. /\ Reading(a) \o Take(b, n + 1) = Append(Reading(a) \o Take(b, n), b[n + 1])
        /\ b[n + 1] \in Messages
    BY <1>2, ConcatStep
  <2>4. Clean(a \o Take(b, n))
    <3>1. Take(b, n) \in Seq(Messages)
      BY <2>1, TakeType
    <3>. QED
      BY <3>1, CleanConcat
  <2>5. IsMessage(b[n + 1]) /\ b[n + 1] \in Lines
    BY <2>3, LineKinds DEF Lines
  <2>6. Reading(Append(a \o Take(b, n), b[n + 1])) = Append(Reading(a \o Take(b, n)), b[n + 1])
    BY <2>2, <2>4, <2>5, ReadingStep
  <2>. QED
    BY <2>1, <2>2, <2>3, <2>6
<1>3. \A n \in U : n + 1 \in U
  <2>. SUFFICES ASSUME NEW n \in U PROVE n + 1 \in U
    OBVIOUS
  <2>1. n + 1 \in Nat
    OBVIOUS
  <2>. QED
    BY <1>2, <2>1
<1>4. U = Nat
  BY <1>1, <1>3, Induction
<1>5. Reading(a \o Take(b, Len(b))) = Reading(a) \o Take(b, Len(b))
  BY <1>0, <1>4
<1>. QED
  BY <1>5, TakeAll

(* Nothing is read after junk. *)
LEMMA ReadingStops ==
    ASSUME NEW a \in Seq(Lines), ~Clean(a), NEW b \in Seq(Lines)
    PROVE  Reading(a \o b) = Reading(a)
<1>. DEFINE U == {n \in Nat : n <= Len(b) =>
                     Reading(a \o Take(b, n)) = Reading(a) /\ ~Clean(a \o Take(b, n))}
<1>0. Len(b) \in Nat
  OBVIOUS
<1>1. 0 \in U
  BY ConcatEmptySeq, TakeNothing
<1>2. ASSUME NEW n \in U, n + 1 <= Len(b)
      PROVE  Reading(a \o Take(b, n + 1)) = Reading(a) /\ ~Clean(a \o Take(b, n + 1))
  <2>1. n <= Len(b)
    BY <1>0, <1>2
  <2>2. /\ a \o Take(b, n + 1) = Append(a \o Take(b, n), b[n + 1])
        /\ a \o Take(b, n) \in Seq(Lines) /\ b[n + 1] \in Lines
    BY <1>2, ConcatStep
  <2>3. Reading(a \o Take(b, n)) = Reading(a) /\ ~Clean(a \o Take(b, n))
    BY <2>1
  <2>4. Reading(a \o Take(b, n + 1)) = Reading(a)
    BY <2>2, <2>3, ReadingStep
  <2>5. ~Clean(a \o Take(b, n + 1))
    <3>. DEFINE s == a \o Take(b, n)
    <3>1. s \in Seq(Lines) /\ ~Clean(s) /\ b[n + 1] \in Lines
      BY <2>2, <2>3
    <3>. HIDE DEF s
    <3>2. \A i \in DOMAIN s : i \in DOMAIN Append(s, b[n + 1]) /\ Append(s, b[n + 1])[i] = s[i]
      BY <3>1
    <3>3. ~Clean(Append(s, b[n + 1]))
      BY <3>1, <3>2 DEF Clean
    <3>. QED
      BY <2>2, <3>3 DEF s
  <2>. QED
    BY <2>4, <2>5
<1>3. \A n \in U : n + 1 \in U
  <2>. SUFFICES ASSUME NEW n \in U PROVE n + 1 \in U
    OBVIOUS
  <2>1. n + 1 \in Nat
    OBVIOUS
  <2>. QED
    BY <1>2, <2>1
<1>4. U = Nat
  BY <1>1, <1>3, Induction
<1>5. Reading(a \o Take(b, Len(b))) = Reading(a)
  BY <1>0, <1>4
<1>. QED
  BY <1>5, TakeAll

(* What is read are messages. *)
LEMMA ReadingType == ASSUME NEW s \in Seq(Lines) PROVE Reading(s) \in Seq(Messages)
<1>. DEFINE S == {i \in DOMAIN s : IsMessage(s[i]) /\ \A j \in 1..i : s[j] # Junk}
            k == Reading(s)
<1>1. k \in Seq(Lines) /\ \E g : Picked(g, s, S, Len(s), k)
  BY KeptPicks DEF Reading
<1>2. PICK g : Picked(g, s, S, Len(s), k)
  BY <1>1
<1>3. \A i \in 1..Len(k) : k[i] \in Lines /\ g[i] \in S /\ k[i] = s[g[i]]
  BY <1>1, <1>2 DEF Picked
<1>4. \A i \in 1..Len(k) : k[i] \in Messages
  BY <1>3, LineKinds
<1>5. Len(k) \in Nat /\ DOMAIN k = 1..Len(k) /\ k \in [1..Len(k) -> Lines]
  BY <1>1
<1>. HIDE DEF k
<1>6. k \in [1..Len(k) -> Messages]
  BY <1>4, <1>5
<1>. QED
  BY <1>5, <1>6 DEF k

-----------------------------------------------------------------------------
(* Beginnings                                                              *)

LEMMA PrefixIs ==
    ASSUME NEW M, NEW s \in Seq(M), NEW t \in Seq(M)
    PROVE  IsPrefix(s, t) <=> Len(s) <= Len(t) /\ \A i \in 1..Len(s) : s[i] = t[i]
<1>1. Len(s) \in Nat /\ Len(t) \in Nat /\ SubSeq(s, 1, Len(s)) = s
  BY SubSeqFull
<1>2. CASE Len(s) <= Len(t)
  <2>1. /\ Take(t, Len(s)) \in Seq(M) /\ Len(Take(t, Len(s))) = Len(s)
        /\ \A i \in 1..Len(s) : Take(t, Len(s))[i] = t[i]
    BY <1>1, <1>2, TakeType
  <2>2. s = Take(t, Len(s)) <=> \A i \in 1..Len(s) : s[i] = t[i]
    BY <2>1, SeqEqual
  <2>. QED
    BY <1>1, <1>2, <2>2 DEF IsPrefix, Take
<1>. QED
  BY <1>2 DEF IsPrefix

LEMMA PrefixFacts ==
    ASSUME NEW M, NEW t \in Seq(M)
    PROVE  /\ IsPrefix(t, t) /\ IsPrefix(<<>>, t)
           /\ \A s \in Seq(M), r \in Seq(M) : IsPrefix(r, s) /\ IsPrefix(s, t) => IsPrefix(r, t)
           /\ \A n \in 0..Len(t) : IsPrefix(Take(t, n), t)
<1>1. IsPrefix(t, t)
  BY PrefixIs
<1>2. IsPrefix(<<>>, t)
  <2>1. Len(<<>>) = 0 /\ Len(t) \in Nat
    OBVIOUS
  <2>2. SubSeq(<<>>, 1, 0) = <<>> /\ SubSeq(t, 1, 0) = <<>>
    BY SubSeqEmpty
  <2>. QED
    BY <2>1, <2>2 DEF IsPrefix
<1>3. ASSUME NEW s \in Seq(M), NEW r \in Seq(M), IsPrefix(r, s), IsPrefix(s, t)
      PROVE  IsPrefix(r, t)
  <2>1. Len(r) <= Len(s) /\ \A i \in 1..Len(r) : r[i] = s[i]
    BY <1>3, PrefixIs
  <2>2. Len(s) <= Len(t) /\ \A i \in 1..Len(s) : s[i] = t[i]
    BY <1>3, PrefixIs
  <2>3. Len(r) \in Nat /\ Len(s) \in Nat /\ Len(t) \in Nat
    OBVIOUS
  <2>4. Len(r) <= Len(t) /\ 1..Len(r) \subseteq 1..Len(s)
    BY <2>1, <2>2, <2>3
  <2>. QED
    BY <2>1, <2>2, <2>4, PrefixIs
<1>4. ASSUME NEW n \in 0..Len(t) PROVE IsPrefix(Take(t, n), t)
  <2>1. /\ Take(t, n) \in Seq(M) /\ Len(Take(t, n)) = n /\ n <= Len(t)
        /\ \A i \in 1..n : Take(t, n)[i] = t[i]
    BY TakeType
  <2>. QED
    BY <2>1, PrefixIs
<1>. QED
  BY <1>1, <1>2, <1>3, <1>4

(* A prefix and the rest.                                                  *)
LEMMA PrefixRest ==
    ASSUME NEW M, NEW s \in Seq(M), NEW t \in Seq(M), IsPrefix(s, t), NEW D, D = Drop(t, Len(s))
    PROVE  /\ D \in Seq(M) /\ s \o D = t
           /\ \A n \in 0..Len(D) : IsPrefix(s, s \o Take(D, n)) /\ IsPrefix(s \o Take(D, n), t)
<1>1. Len(s) \in Nat /\ Len(t) \in Nat /\ Len(s) <= Len(t) /\ \A i \in 1..Len(s) : s[i] = t[i]
  BY PrefixIs
<1>2. /\ D \in Seq(M) /\ Len(D) = Len(t) - Len(s)
      /\ \A i \in 1..(Len(t) - Len(s)) : D[i] = t[Len(s) + i]
  <2>1. \A i \in (Len(s) + 1)..Len(t) : t[i] \in M
    BY <1>1
  <2>2. /\ D \in Seq(M)
        /\ Len(D) = IF Len(s) + 1 <= Len(t) THEN Len(t) - (Len(s) + 1) + 1 ELSE 0
        /\ \A i \in 1..(Len(t) - (Len(s) + 1) + 1) : D[i] = t[Len(s) + 1 + i - 1]
    BY <1>1, <2>1, SubSeqProperties DEF Drop
  <2>. QED
    BY <1>1, <2>2
<1>3. ASSUME NEW n \in 0..Len(D)
      PROVE  /\ s \o Take(D, n) \in Seq(M) /\ Len(s \o Take(D, n)) = Len(s) + n
             /\ \A i \in 1..(Len(s) + n) : (s \o Take(D, n))[i] = t[i]
  <2>1. /\ Take(D, n) \in Seq(M) /\ Len(Take(D, n)) = n
        /\ \A i \in 1..n : Take(D, n)[i] = D[i]
    BY <1>2, TakeType
  <2>2. /\ s \o Take(D, n) \in Seq(M) /\ Len(s \o Take(D, n)) = Len(s) + n
        /\ \A i \in 1..(Len(s) + n) :
              (s \o Take(D, n))[i] = IF i <= Len(s) THEN s[i] ELSE Take(D, n)[i - Len(s)]
    <3>. DEFINE T == Take(D, n)
    <3>1. T \in Seq(M) /\ Len(T) = n
      BY <2>1
    <3>. HIDE DEF T
    <3>2. /\ s \o T \in Seq(M) /\ Len(s \o T) = Len(s) + Len(T)
          /\ \A i \in 1..(Len(s) + Len(T)) :
                (s \o T)[i] = IF i <= Len(s) THEN s[i] ELSE T[i - Len(s)]
      BY <3>1, ConcatProperties
    <3>. QED
      BY <3>1, <3>2 DEF T
  <2>3. ASSUME NEW i \in 1..(Len(s) + n) PROVE (s \o Take(D, n))[i] = t[i]
    <3>1. CASE i <= Len(s)
      BY <1>1, <2>2, <3>1
    <3>2. CASE ~(i <= Len(s))
      <4>1. i - Len(s) \in 1..n /\ i - Len(s) \in 1..(Len(t) - Len(s)) /\ Len(s) + (i - Len(s)) = i
        BY <1>1, <1>2, <3>2
      <4>2. Take(D, n)[i - Len(s)] = t[i]
        BY <1>2, <2>1, <4>1
      <4>. QED
        BY <2>2, <3>2, <4>2
    <3>. QED
      BY <3>1, <3>2
  <2>. QED
    BY <2>2, <2>3
<1>4. s \o D = t
  <2>1. Len(D) \in 0..Len(D) /\ Take(D, Len(D)) = D /\ Len(s) + Len(D) = Len(t)
    BY <1>1, <1>2, TakeAll
  <2>2. s \o D \in Seq(M) /\ Len(s \o D) = Len(t) /\ \A i \in 1..Len(t) : (s \o D)[i] = t[i]
    BY <1>3, <2>1
  <2>. QED
    BY <2>2, SeqEqual
<1>5. ASSUME NEW n \in 0..Len(D)
      PROVE  IsPrefix(s, s \o Take(D, n)) /\ IsPrefix(s \o Take(D, n), t)
  <2>. DEFINE r == s \o Take(D, n)
  <2>1. r \in Seq(M) /\ Len(r) = Len(s) + n /\ \A i \in 1..(Len(s) + n) : r[i] = t[i]
    BY <1>3
  <2>. HIDE DEF r
  <2>2. n \in Nat /\ Len(s) <= Len(r) /\ Len(r) <= Len(t) /\ 1..Len(s) \subseteq 1..(Len(s) + n)
    BY <1>1, <1>2, <2>1
  <2>3. IsPrefix(s, r)
    BY <1>1, <2>1, <2>2, PrefixIs
  <2>4. IsPrefix(r, t)
    BY <2>1, <2>2, PrefixIs
  <2>. QED
    BY <2>3, <2>4 DEF r
<1>. QED
  BY <1>2, <1>4, <1>5

-----------------------------------------------------------------------------
(* Appends                                                                 *)

Ledgers == [lines : Seq(Lines), open : BOOLEAN]

(* Only the last line of a ledger may be junk, and then it is unterminated. *)
Sane(l) == IF l.open THEN Clean(Front(l.lines)) ELSE Clean(l.lines)

(* The parts of an append that a crash may leave.                          *)
Piece(y, D) ==
    \E n \in 0..Len(D), x \in {<<>>, <<Meta>>, <<Junk>>} : y = Take(D, n) \o x

LEMMA FrontIs ==
    ASSUME NEW M, NEW s \in Seq(M), NEW x \in M
    PROVE  Front(Append(s, x)) = s
<1>1. Append(s, x) \in Seq(M) /\ Len(Append(s, x)) = Len(s) + 1
  OBVIOUS
<1>2. Front(Append(s, x)) = SubSeq(Append(s, x), 1, Len(s))
  BY <1>1 DEF Front
<1>. QED
  BY <1>2

(* An append to an unterminated line makes junk of it. *)
LEMMA GluedReads ==
    ASSUME NEW s \in Seq(Lines), s # <<>>, NEW y \in Seq(Lines), y # <<>>
    PROVE  LET t == Front(s) \o <<Junk>> \o Tail(y) IN
           t \in Seq(Lines) /\ IsPrefix(Reading(t), Reading(s))
<1>1. PICK f \in Seq(Lines), x \in Lines : s = Append(f, x)
  BY SequenceEmptyOrAppend
<1>2. Front(s) = f
  BY <1>1, FrontIs
<1>3. Junk \in Lines /\ Tail(y) \in Seq(Lines) /\ <<Junk>> \in Seq(Lines)
  BY DEF Lines
<1>. DEFINE u == Append(f, Junk)
<1>4. f \o <<Junk>> = u /\ u \in Seq(Lines)
  BY <1>3, AppendIsConcat
<1>5. ~Clean(u)
  <2>1. Len(f) + 1 \in DOMAIN u /\ u[Len(f) + 1] = Junk
    BY <1>3
  <2>. QED
    BY <2>1 DEF Clean
<1>6. Reading(u) = Reading(f)
  BY <1>3, ReadingStep, LineKinds
<1>. HIDE DEF u
<1>7. u \o Tail(y) \in Seq(Lines) /\ Reading(u \o Tail(y)) = Reading(f)
  BY <1>3, <1>4, <1>5, <1>6, ReadingStops, ConcatProperties
<1>8. Reading(s) = Reading(f) \/ (Reading(s) = Append(Reading(f), x) /\ x \in Messages)
  BY <1>1, ReadingStep, LineKinds
<1>9. IsPrefix(Reading(f), Reading(s))
  <2>1. Reading(f) \in Seq(Messages)
    BY ReadingType
  <2>2. CASE Reading(s) = Reading(f)
    BY <2>1, <2>2, PrefixFacts
  <2>3. CASE Reading(s) = Append(Reading(f), x) /\ x \in Messages
    <3>. DEFINE p == Reading(f)
                q == Append(p, x)
    <3>1. /\ p \in Seq(Messages) /\ q \in Seq(Messages) /\ Len(p) \in Nat /\ Len(q) = Len(p) + 1
          /\ \A i \in 1..Len(p) : p[i] = q[i]
      BY <2>1, <2>3, AppendProperties
    <3>. HIDE DEF p, q
    <3>2. IsPrefix(p, q)
      BY <3>1, PrefixIs
    <3>. QED
      BY <2>3, <3>2 DEF p, q
  <2>. QED
    BY <1>8, <2>2, <2>3
<1>. QED
  BY <1>2, <1>4, <1>7, <1>9

LEMMA PieceReads ==
    ASSUME NEW s \in Seq(Lines), NEW D \in Seq(Messages), NEW y, Piece(y, D)
    PROVE  /\ y \in Seq(Lines) /\ s \o y \in Seq(Lines)
           /\ ~Clean(s) => Reading(s \o y) = Reading(s)
           /\ Clean(s) => /\ \E n \in 0..Len(D) : Reading(s \o y) = Reading(s) \o Take(D, n)
                          /\ y # <<>> => Clean(Front(s \o y))
<1>1. PICK n \in 0..Len(D), x \in {<<>>, <<Meta>>, <<Junk>>} : y = Take(D, n) \o x
  BY DEF Piece
<1>. DEFINE T == Take(D, n)
<1>2. T \in Seq(Messages) /\ T \in Seq(Lines)
  <2>1. T \in Seq(Messages)
    BY TakeType
  <2>. QED
    BY <2>1, SeqMonotonic DEF Lines
<1>3. Meta \in Lines /\ Junk \in Lines /\ <<>> \in Seq(Lines) /\ <<Meta>> \in Seq(Lines) /\ <<Junk>> \in Seq(Lines)
  BY DEF Lines
<1>4. x \in Seq(Lines)
  BY <1>3
<1>. HIDE DEF T
<1>5. y = T \o x
  BY <1>1 DEF T
<1>6. y \in Seq(Lines) /\ s \o y \in Seq(Lines) /\ s \o y = (s \o T) \o x /\ s \o T \in Seq(Lines)
  <2>1. y \in Seq(Lines) /\ s \o T \in Seq(Lines)
    BY <1>2, <1>4, <1>5, ConcatProperties
  <2>2. s \o y \in Seq(Lines)
    BY <2>1, ConcatProperties
  <2>3. (s \o T) \o x = s \o (T \o x)
    BY <1>2, <1>4, ConcatAssociative
  <2>. QED
    BY <1>5, <2>1, <2>2, <2>3
<1>7. ~Clean(s) => Reading(s \o y) = Reading(s)
  BY <1>6, ReadingStops
<1>8. ASSUME Clean(s)
      PROVE  Reading(s \o y) = Reading(s) \o T /\ (y # <<>> => Clean(Front(s \o y)))
  <2>1. Reading(s \o T) = Reading(s) \o T /\ Clean(s \o T)
    BY <1>2, <1>8, ReadingOn, ReadingType, CleanConcat
  <2>2. CASE x = <<>>
    <3>1. s \o y = s \o T
      BY <1>6, <2>2, ConcatEmptySeq
    <3>2. ASSUME y # <<>> PROVE Clean(Front(s \o y))
      <4>1. s \o y # <<>>
        BY <1>6, <3>2, ConcatEqualIffEmpty
      <4>2. PICK f \in Seq(Lines), e \in Lines : s \o y = Append(f, e)
        <5>1. \A w \in Seq(Lines) : w # <<>> => \E f \in Seq(Lines), e \in Lines : w = Append(f, e)
          BY SequenceEmptyOrAppend
        <5>. QED
          BY <1>6, <4>1, <5>1
      <4>3. Front(s \o y) = f
        BY <4>2, FrontIs
      <4>4. \A i \in DOMAIN f : i \in DOMAIN Append(f, e) /\ Append(f, e)[i] = f[i]
        OBVIOUS
      <4>5. Clean(Append(f, e))
        BY <2>1, <3>1, <4>2
      <4>. QED
        BY <4>3, <4>4, <4>5 DEF Clean
    <3>. QED
      BY <2>1, <3>1, <3>2
  <2>3. CASE x \in {<<Meta>>, <<Junk>>}
    <3>1. PICK e \in {Meta, Junk} : x = <<e>>
      BY <2>3
    <3>2. s \o y = Append(s \o T, e) /\ e \in Lines
      BY <1>3, <1>6, <3>1, AppendIsConcat
    <3>3. Reading(s \o y) = Reading(s \o T)
      BY <1>6, <3>1, <3>2, ReadingStep, LineKinds
    <3>4. Front(s \o y) = s \o T
      BY <1>6, <3>2, FrontIs
    <3>. QED
      BY <2>1, <3>3, <3>4
  <2>. QED
    BY <2>2, <2>3
<1>. QED
  BY <1>6, <1>7, <1>8 DEF T


LEMMA CleanBoth ==
    ASSUME NEW a \in Seq(Lines), Clean(a), NEW b \in Seq(Lines), Clean(b)
    PROVE  a \o b \in Seq(Lines) /\ Clean(a \o b)
<1>1. /\ a \o b \in Seq(Lines) /\ DOMAIN (a \o b) = 1..(Len(a) + Len(b))
      /\ \A i \in 1..(Len(a) + Len(b)) : (a \o b)[i] = IF i <= Len(a) THEN a[i] ELSE b[i - Len(a)]
  BY ConcatProperties
<1>2. (\A i \in 1..Len(a) : a[i] # Junk) /\ \A i \in 1..Len(b) : b[i] # Junk
  BY DEF Clean
<1>3. \A i \in 1..(Len(a) + Len(b)) : i <= Len(a) => i \in 1..Len(a)
  OBVIOUS
<1>4. \A i \in 1..(Len(a) + Len(b)) : ~(i <= Len(a)) => i - Len(a) \in 1..Len(b)
  OBVIOUS
<1>. QED
  BY <1>1, <1>2, <1>3, <1>4 DEF Clean

LEMMA MessagesAreClean == ASSUME NEW b \in Seq(Messages) PROVE b \in Seq(Lines) /\ Clean(b)
<1>1. b \in Seq(Lines)
  BY SeqMonotonic DEF Lines
<1>2. \A i \in DOMAIN b : b[i] \in Messages
  OBVIOUS
<1>. QED
  BY <1>1, <1>2, LineKinds DEF Clean

LEMMA MetaIsClean == <<Meta>> \in Seq(Lines) /\ Clean(<<Meta>>) /\ Meta \in Lines /\ Junk \in Lines
<1>1. Meta \in Lines /\ Junk \in Lines
  BY DEF Lines
<1>2. Len(<<Meta>>) = 1 /\ \A i \in DOMAIN <<Meta>> : <<Meta>>[i] = Meta
  OBVIOUS
<1>. QED
  BY <1>1, <1>2, LineKinds DEF Clean

(* What a crash inside an append may have written. *)
LEMMA TornIs ==
    ASSUME NEW l \in Ledgers, NEW D \in Seq(Messages), NEW k \in PartlyAppended(l, Append(D, Meta))
    PROVE  \E y : /\ Piece(y, D) /\ y # <<>>
                  /\ k = [lines |-> Appended(l, y).lines, open |-> k.open]
                  /\ k.open \in BOOLEAN
                  /\ ~k.open => y \in Seq(Lines) /\ Clean(y)
<1>. DEFINE new == Append(D, Meta)
<1>1. /\ D \in Seq(Lines) /\ Clean(D) /\ Len(D) \in Nat /\ Meta \in Lines /\ Junk \in Lines
      /\ <<Meta>> \in Seq(Lines) /\ <<Junk>> \in Seq(Lines) /\ <<>> \in Seq(Lines)
  BY MessagesAreClean, MetaIsClean
<1>2. /\ new \in Seq(Lines) /\ Len(new) = Len(D) + 1 /\ DOMAIN new = 1..(Len(D) + 1)
      /\ new[Len(D) + 1] = Meta /\ \A i \in 1..Len(D) : new[i] = D[i]
      /\ new = D \o <<Meta>>
  BY <1>1, AppendIsConcat
<1>. HIDE DEF new
<1>3. ASSUME NEW n \in 0..Len(D) PROVE Take(new, n) = Take(D, n) /\ Take(D, n) \in Seq(Messages)
  <2>1. Take(D, n) \in Seq(Messages) /\ Len(Take(D, n)) = n /\ \A i \in 1..n : Take(D, n)[i] = D[i]
    BY TakeType
  <2>2. n \in 0..Len(new) /\ 1..n \subseteq 1..Len(D)
    BY <1>1, <1>2
  <2>3. Take(new, n) \in Seq(Lines) /\ Len(Take(new, n)) = n /\ \A i \in 1..n : Take(new, n)[i] = new[i]
    BY <1>2, <2>2, TakeType
  <2>4. Take(D, n) \in Seq(Lines)
    BY <2>1, MessagesAreClean
  <2>5. \A i \in 1..n : Take(new, n)[i] = Take(D, n)[i]
    BY <1>2, <2>1, <2>2, <2>3
  <2>. HIDE DEF new
  <2>. QED
    BY <2>1, <2>3, <2>4, <2>5, SeqEqual
<1>4. ASSUME NEW n \in 1..(Len(D) + 1)
      PROVE  /\ Piece(Take(new, n), D) /\ Take(new, n) # <<>>
             /\ Take(new, n) \in Seq(Lines) /\ Clean(Take(new, n))
  <2>1. n \in 0..Len(new) /\ n # 0
    BY <1>1, <1>2
  <2>2. Take(new, n) \in Seq(Lines) /\ Len(Take(new, n)) = n
    BY <1>2, <2>1, TakeType
  <2>3. Take(new, n) # <<>>
    BY <2>1, <2>2
  <2>4. CASE n \in 0..Len(D)
    <3>1. Take(new, n) = Take(D, n) /\ Take(D, n) \in Seq(Messages)
      BY <1>3, <2>4
    <3>2. Take(D, n) \o <<>> = Take(D, n)
      BY <3>1, ConcatEmptySeq
    <3>3. Piece(Take(new, n), D)
      BY <2>4, <3>1, <3>2 DEF Piece
    <3>. QED
      BY <2>2, <2>3, <3>1, <3>3, MessagesAreClean
  <2>5. CASE n = Len(D) + 1
    <3>1. Take(new, n) = new
      BY <1>2, <2>5, TakeAll
    <3>2. Take(D, Len(D)) = D /\ Len(D) \in 0..Len(D)
      BY <1>1, TakeAll
    <3>3. Piece(new, D)
      BY <1>2, <3>2 DEF Piece
    <3>4. Clean(new)
      BY <1>1, <1>2, MetaIsClean, CleanBoth
    <3>. QED
      BY <1>2, <2>3, <3>1, <3>3, <3>4
  <2>. QED
    BY <1>1, <2>4, <2>5
<1>5. ASSUME NEW n \in 0..Len(D)
      PROVE  Piece(Append(Take(new, n), Junk), D) /\ Append(Take(new, n), Junk) # <<>>
  <2>1. Take(new, n) = Take(D, n) /\ Take(D, n) \in Seq(Lines)
    BY <1>3, MessagesAreClean
  <2>2. Append(Take(D, n), Junk) = Take(D, n) \o <<Junk>>
    BY <1>1, <2>1, AppendIsConcat
  <2>3. Append(Take(D, n), Junk) # <<>>
    BY <2>1
  <2>. QED
    BY <2>1, <2>2, <2>3 DEF Piece
<1>6. ASSUME NEW n \in 1..(Len(D) + 1) PROVE Append(Take(new, n - 1), new[n]) = Take(new, n)
  <2>1. n - 1 \in Nat /\ (n - 1) + 1 = n /\ n <= Len(new)
    BY <1>1, <1>2
  <2>2. <<>> \o Take(new, n) = Append(<<>> \o Take(new, n - 1), new[n])
    <3>1. ASSUME NEW m \in Nat, m + 1 <= Len(new)
          PROVE  <<>> \o Take(new, m + 1) = Append(<<>> \o Take(new, m), new[m + 1])
      <4>1. <<>> \in Seq(Lines) /\ new \in Seq(Lines)
        BY <1>1, <1>2
      <4>. QED
        BY <3>1, <4>1, ConcatStep
    <3>2. (n - 1) + 1 <= Len(new)
      BY <2>1
    <3>3. <<>> \o Take(new, (n - 1) + 1) = Append(<<>> \o Take(new, n - 1), new[(n - 1) + 1])
      BY <2>1, <3>1, <3>2
    <3>. QED
      BY <2>1, <3>3
  <2>3. n \in 0..Len(new) /\ n - 1 \in 0..Len(new)
    BY <1>2, <2>1
  <2>4. Take(new, n) \in Seq(Lines) /\ Take(new, n - 1) \in Seq(Lines)
    BY <1>2, <2>3, TakeType
  <2>. QED
    BY <2>2, <2>4, ConcatEmptySeq
<1>7. ASSUME NEW y PROVE Appended(l, y) = [lines |-> Appended(l, y).lines, open |-> Appended(l, y).open]
  <2>1. l = [lines |-> l.lines, open |-> l.open]
    BY DEF Ledgers
  <2>2. CASE y = <<>>
    BY <2>1, <2>2 DEF Appended
  <2>3. CASE y # <<>>
    BY <2>3 DEF Appended
  <2>. QED
    BY <2>2, <2>3
<1>8. PICK n \in 1..(Len(D) + 1) :
         k \in {Appended(l, Take(new, n)), TornAt(l, new, n, new[n]), TornAt(l, new, n, Junk)}
  BY <1>2 DEF PartlyAppended, new
<1>9. CASE k = Appended(l, Take(new, n))
  <2>. DEFINE y == Take(new, n)
  <2>1. Piece(y, D) /\ y # <<>> /\ y \in Seq(Lines) /\ Clean(y)
    BY <1>4
  <2>. HIDE DEF y
  <2>2. k = Appended(l, y)
    BY <1>9 DEF y
  <2>3. k.open = FALSE
    BY <2>1, <2>2 DEF Appended
  <2>. QED
    BY <1>7, <2>1, <2>2, <2>3
<1>10. ASSUME NEW y, Piece(y, D), y # <<>>, k = [lines |-> Appended(l, y).lines, open |-> TRUE]
       PROVE  \E z : /\ Piece(z, D) /\ z # <<>>
                     /\ k = [lines |-> Appended(l, z).lines, open |-> k.open]
                     /\ k.open \in BOOLEAN
                     /\ ~k.open => z \in Seq(Lines) /\ Clean(z)
  <2>1. k = [lines |-> Appended(l, y).lines, open |-> TRUE]
    BY <1>10
  <2>2. k.open = TRUE
    BY <2>1
  <2>. QED
    BY <1>10, <2>1, <2>2
<1>11. CASE k = TornAt(l, new, n, new[n])
  <2>1. k = [lines |-> Appended(l, Take(new, n)).lines, open |-> TRUE]
    BY <1>6, <1>11 DEF TornAt
  <2>. QED
    BY <1>4, <1>10, <2>1
<1>12. CASE k = TornAt(l, new, n, Junk)
  <2>1. n - 1 \in 0..Len(D)
    BY <1>1
  <2>2. k = [lines |-> Appended(l, Append(Take(new, n - 1), Junk)).lines, open |-> TRUE]
    BY <1>12 DEF TornAt
  <2>. QED
    BY <1>5, <1>10, <2>1, <2>2
<1>. QED
  BY <1>8, <1>9, <1>11, <1>12

(* An append of what the ledger lacks: whole; *)
LEMMA AppendedReads ==
    ASSUME NEW l \in Ledgers, l.open => l.lines # <<>>, NEW h \in Seq(Messages),
           IsPrefix(Read(l), h),
           NEW k, k = Appended(l, Append(Drop(h, Len(Read(l))), Meta))
    PROVE  /\ k \in Ledgers /\ ~k.open
           /\ l.open => IsPrefix(Read(k), Read(l))
           /\ ~l.open /\ Clean(l.lines) => Read(k) = h /\ Clean(k.lines)
           /\ ~l.open /\ ~Clean(l.lines) => Read(k) = Read(l)
<1>. DEFINE s == l.lines
            D == Drop(h, Len(Read(l)))
            new == Append(D, Meta)
<1>1. s \in Seq(Lines) /\ l.open \in BOOLEAN /\ Read(l) = Reading(s) /\ Reading(s) \in Seq(Messages)
  BY ReadIsReading, ReadingType DEF Ledgers
<1>2. D \in Seq(Messages) /\ Reading(s) \o D = h
  <2>. DEFINE r == Reading(s)
  <2>1. r \in Seq(Messages) /\ D = Drop(h, Len(r)) /\ IsPrefix(r, h)
    BY <1>1
  <2>. HIDE DEF D, r
  <2>2. D \in Seq(Messages) /\ r \o D = h
    BY <2>1, PrefixRest
  <2>. QED
    BY <2>2 DEF r
<1>. HIDE DEF D
<1>3. /\ D \in Seq(Lines) /\ Clean(D) /\ Meta \in Lines /\ new \in Seq(Lines) /\ new # <<>>
      /\ new = D \o <<Meta>> /\ <<Meta>> \in Seq(Lines) /\ Clean(<<Meta>>)
  BY <1>2, MessagesAreClean, MetaIsClean, AppendIsConcat
<1>. HIDE DEF s, new
<1>4. /\ l.open => k = [lines |-> Front(s) \o <<Junk>> \o Tail(new), open |-> FALSE]
      /\ ~l.open => k = [lines |-> s \o new, open |-> FALSE]
  BY <1>3 DEF Appended, s, new, D
<1>5. CASE l.open
  <2>1. k.lines = Front(s) \o <<Junk>> \o Tail(new) /\ k.open = FALSE
    <3>. DEFINE x == Front(s) \o <<Junk>> \o Tail(new)
    <3>1. k = [lines |-> x, open |-> FALSE]
      BY <1>4, <1>5
    <3>. HIDE DEF x
    <3>2. k.lines = x /\ k.open = FALSE
      BY <3>1
    <3>. QED
      BY <3>2 DEF x
  <2>2. k.lines \in Seq(Lines) /\ IsPrefix(Reading(k.lines), Reading(s))
    <3>1. s # <<>>
      BY <1>5 DEF s
    <3>. QED
      BY <1>1, <1>3, <2>1, <3>1, GluedReads
  <2>3. k \in Ledgers
    BY <1>4, <1>5, <2>1, <2>2 DEF Ledgers
  <2>. QED
    BY <1>1, <1>5, <2>1, <2>2, <2>3, ReadIsReading
<1>6. CASE ~l.open
  <2>1. k.lines = s \o new /\ k.open = FALSE /\ k = [lines |-> k.lines, open |-> FALSE]
    <3>1. k = [lines |-> s \o new, open |-> FALSE]
      BY <1>4, <1>6
    <3>. QED
      BY <3>1
  <2>2. s \o new \in Seq(Lines)
    BY <1>1, <1>3, ConcatProperties
  <2>3. k \in Ledgers
    BY <2>1, <2>2 DEF Ledgers
  <2>4. ~Clean(s) => Reading(s \o new) = Reading(s)
    BY <1>1, <1>3, ReadingStops
  <2>5. ASSUME Clean(s) PROVE Reading(s \o new) = h /\ Clean(s \o new)
    <3>1. Reading(s \o D) = h /\ s \o D \in Seq(Lines)
      BY <1>1, <1>2, <1>3, <2>5, ReadingOn, ConcatProperties
    <3>2. s \o new = Append(s \o D, Meta)
      <4>1. (s \o D) \o <<Meta>> = s \o (D \o <<Meta>>)
        BY <1>1, <1>3, ConcatAssociative
      <4>. QED
        BY <1>3, <3>1, <4>1, AppendIsConcat
    <3>3. Reading(s \o new) = h
      BY <1>3, <3>1, <3>2, ReadingStep, LineKinds
    <3>4. Clean(new)
      BY <1>3, CleanBoth
    <3>. QED
      BY <1>1, <1>3, <2>5, <3>3, <3>4, CleanBoth
  <2>. QED
    BY <1>1, <1>6, <2>1, <2>3, <2>4, <2>5, ReadIsReading DEF s
<1>. QED
  BY <1>1, <1>5, <1>6

(* or cut short. *)
LEMMA TornReads ==
    ASSUME NEW l \in Ledgers, l.open => l.lines # <<>>, NEW h \in Seq(Messages),
           IsPrefix(Read(l), h),
           NEW k \in PartlyAppended(l, Append(Drop(h, Len(Read(l))), Meta))
    PROVE  /\ k \in Ledgers /\ k.lines # <<>>
           /\ l.open \/ ~Clean(l.lines) => IsPrefix(Read(k), Read(l))
           /\ ~l.open /\ Clean(l.lines) =>
                 IsPrefix(Read(l), Read(k)) /\ IsPrefix(Read(k), h) /\ Sane(k)
<1>. DEFINE s == l.lines
            D == Drop(h, Len(Read(l)))
<1>1. s \in Seq(Lines) /\ l.open \in BOOLEAN /\ Read(l) = Reading(s) /\ Reading(s) \in Seq(Messages)
  BY ReadIsReading, ReadingType DEF Ledgers
<1>2. /\ D \in Seq(Messages)
      /\ \A n \in 0..Len(D) : /\ IsPrefix(Reading(s), Reading(s) \o Take(D, n))
                              /\ IsPrefix(Reading(s) \o Take(D, n), h)
  <2>1. D = Drop(h, Len(Reading(s))) /\ IsPrefix(Reading(s), h)
    BY <1>1
  <2>. HIDE DEF D, s
  <2>. QED
    BY <1>1, <2>1, PrefixRest
<1>3. PICK y : /\ Piece(y, D) /\ y # <<>>
               /\ k = [lines |-> Appended(l, y).lines, open |-> k.open]
               /\ k.open \in BOOLEAN
               /\ ~k.open => y \in Seq(Lines) /\ Clean(y)
  BY <1>2, TornIs
<1>. HIDE DEF s, D
<1>4. /\ y \in Seq(Lines) /\ s \o y \in Seq(Lines)
      /\ ~Clean(s) => Reading(s \o y) = Reading(s)
      /\ Clean(s) => /\ \E n \in 0..Len(D) : Reading(s \o y) = Reading(s) \o Take(D, n)
                     /\ Clean(Front(s \o y))
  <2>1. s \in Seq(Lines) /\ D \in Seq(Messages) /\ Piece(y, D) /\ y # <<>>
    BY <1>1, <1>2, <1>3
  <2>. QED
    BY <2>1, PieceReads
<1>5. k.lines = IF l.open THEN Front(s) \o <<Junk>> \o Tail(y) ELSE s \o y
  <2>1. k.lines = Appended(l, y).lines
    BY <1>3
  <2>. QED
    BY <1>3, <2>1 DEF Appended, s
<1>6. IsPrefix(Reading(s), Reading(s))
  BY <1>1, PrefixFacts
<1>7. CASE l.open
  <2>1. k.lines = Front(s) \o <<Junk>> \o Tail(y)
    BY <1>5, <1>7
  <2>2. s # <<>>
    BY <1>7 DEF s
  <2>3. k.lines \in Seq(Lines) /\ IsPrefix(Reading(k.lines), Reading(s))
    BY <1>1, <1>3, <1>4, <2>1, <2>2, GluedReads
  <2>4. k \in Ledgers
    BY <1>3, <2>3 DEF Ledgers
  <2>5. k.lines # <<>>
    <3>1. PICK f \in Seq(Lines), x \in Lines : s = Append(f, x)
      BY <1>1, <2>2, SequenceEmptyOrAppend
    <3>2. Front(s) = f
      BY <3>1, FrontIs
    <3>3. Tail(y) \in Seq(Lines) /\ <<Junk>> \in Seq(Lines) /\ f \o <<Junk>> \in Seq(Lines)
      BY <1>3, <1>4, MetaIsClean, ConcatProperties
    <3>4. f \o <<Junk>> # <<>>
      BY <3>3, ConcatEqualIffEmpty
    <3>. QED
      BY <2>1, <3>2, <3>3, <3>4, ConcatEqualIffEmpty
  <2>. QED
    BY <1>1, <1>7, <2>3, <2>4, <2>5, ReadIsReading
<1>8. CASE ~l.open
  <2>1. k.lines = s \o y
    BY <1>5, <1>8
  <2>2. k \in Ledgers
    BY <1>3, <1>4, <2>1 DEF Ledgers
  <2>3. k.lines # <<>>
    BY <1>1, <1>3, <1>4, <2>1, ConcatEqualIffEmpty
  <2>4. ~Clean(s) => IsPrefix(Reading(k.lines), Reading(s))
    BY <1>4, <1>6, <2>1
  <2>5. Clean(s) => IsPrefix(Reading(s), Reading(k.lines)) /\ IsPrefix(Reading(k.lines), h)
    BY <1>2, <1>4, <2>1
  <2>6. Clean(s) => Sane(k)
    <3>1. Clean(s) /\ ~k.open => Clean(k.lines)
      BY <1>1, <1>3, <2>1, CleanBoth
    <3>. QED
      BY <1>4, <2>1, <3>1 DEF Sane
  <2>. QED
    BY <1>1, <1>8, <2>2, <2>3, <2>4, <2>5, <2>6, ReadIsReading DEF s
<1>. QED
  BY <1>1, <1>7, <1>8

(* A ledger that is written anew reads as the conversation. *)
LEMMA RewrittenReads ==
    ASSUME NEW h \in Seq(Messages)
    PROVE  /\ Rewritten(h) \in Ledgers /\ ~Rewritten(h).open
           /\ Read(Rewritten(h)) = h /\ Clean(Rewritten(h).lines)
<1>1. <<Meta>> \in Seq(Lines) /\ Clean(<<Meta>>)
  BY MetaIsClean
<1>2. Reading(<<Meta>>) = <<>>
  <2>1. Append(<<>>, Meta) = <<Meta>> /\ <<>> \in Seq(Lines) /\ Meta \in Lines
    BY MetaIsClean
  <2>. QED
    BY <2>1, ReadingStep, ReadingNothing, LineKinds
<1>3. /\ <<Meta>> \o h \in Seq(Lines) /\ Clean(<<Meta>> \o h)
  BY <1>1, CleanConcat
<1>4. Reading(<<Meta>> \o h) = h
  <2>1. <<>> \in Seq(Messages) /\ <<>> \o h = h
    BY ConcatEmptySeq
  <2>. QED
    BY <1>1, <1>2, <2>1, ReadingOn
<1>5. Rewritten(h).lines = <<Meta>> \o h /\ Rewritten(h).open = FALSE
  BY DEF Rewritten
<1>6. Rewritten(h) \in Ledgers
  BY <1>3 DEF Rewritten, Ledgers
<1>. QED
  BY <1>3, <1>4, <1>5, <1>6, ReadIsReading

-----------------------------------------------------------------------------
(* Conversations                                                           *)

(* What every conversation has: only the model calls, no call is made      *)
(* twice, its id tells the turn, and nothing but rows stands between a     *)
(* call and its row.                                                       *)
Adjacent(h) ==
    \A i, j \in 1..Len(h) : i < j /\ IsTool(h[j]) /\ h[j].id \in h[i].calls =>
        \A k \in (i + 1)..j : IsTool(h[k])
Sound(h, t) ==
    /\ h \in Seq(Messages)
    /\ \A i \in 1..Len(h) : h[i].calls # {} => h[i].role = "assistant"
    /\ \A i \in 1..Len(h) : \A c \in h[i].calls : c[1] <= t
    /\ \A i, j \in 1..Len(h) : i # j => h[i].calls \cap h[j].calls = {}
    /\ Adjacent(h)

LEMMA SoundLater == ASSUME NEW t \in Nat, NEW h, Sound(h, t) PROVE Sound(h, t + 1)
<1>1. ASSUME NEW i \in 1..Len(h), NEW c \in h[i].calls PROVE c[1] <= t + 1
  <2>1. h \in Seq(Messages) /\ c[1] <= t
    BY DEF Sound
  <2>2. h[i] \in Messages
    BY <2>1
  <2>3. c \in Nat \X Nat
    BY <2>2 DEF Messages, Ids
  <2>. QED
    BY <2>1, <2>3
<1>. QED
  BY <1>1 DEF Sound

LEMMA NothingIsSound ==
    ASSUME NEW t \in Nat
    PROVE  Sound(<<>>, t) /\ NoOrphan(<<>>) /\ NoDangling(<<>>)
<1>1. Len(<<>>) = 0 /\ DOMAIN <<>> = {} /\ <<>> \in Seq(Messages) /\ 1..0 = {}
  OBVIOUS
<1>. QED
  BY <1>1 DEF Sound, Adjacent, NoOrphan, NoDangling

(* A selection of the messages, in their order. *)
LEMMA SelectionSound ==
    ASSUME NEW t \in Nat, NEW h, Sound(h, t), NEW k \in Seq(Messages),
           NEW g \in [1..Len(k) -> 1..Len(h)],
           \A i, j \in 1..Len(k) : i < j => g[i] < g[j],
           \A i \in 1..Len(k) : k[i] = h[g[i]]
    PROVE  Sound(k, t)
<1>1. h \in Seq(Messages) /\ Len(h) \in Nat /\ Len(k) \in Nat /\ \A i \in 1..Len(k) : g[i] \in 1..Len(h)
  BY DEF Sound
<1>2. \A i, j \in 1..Len(k) : i # j => g[i] # g[j]
  <2>. SUFFICES ASSUME NEW i \in 1..Len(k), NEW j \in 1..Len(k), i # j PROVE g[i] # g[j]
    OBVIOUS
  <2>1. i < j \/ j < i
    OBVIOUS
  <2>2. g[i] < g[j] \/ g[j] < g[i]
    BY <2>1
  <2>. QED
    BY <1>1, <2>2
<1>3. ASSUME NEW i \in 1..Len(k), NEW j \in 1..Len(k), i < j, IsTool(k[j]), k[j].id \in k[i].calls,
             NEW p \in (i + 1)..j
      PROVE  IsTool(k[p])
  <2>1. p \in 1..Len(k) /\ i < p /\ (p = j \/ p < j)
    BY <1>1, <1>3
  <2>2. g[i] < g[p] /\ (p = j \/ g[p] < g[j]) /\ g[i] < g[j]
    BY <1>3, <2>1
  <2>3. g[p] \in (g[i] + 1)..g[j]
    <3>1. g[i] \in Int /\ g[p] \in Int /\ g[j] \in Int
      BY <1>1, <2>1
    <3>. QED
      BY <2>2, <3>1
  <2>4. IsTool(h[g[j]]) /\ h[g[j]].id \in h[g[i]].calls /\ k[p] = h[g[p]]
    BY <1>3, <2>1
  <2>5. \A q \in (g[i] + 1)..g[j] : IsTool(h[q])
    BY <1>1, <2>2, <2>4 DEF Sound, Adjacent
  <2>. QED
    BY <2>3, <2>4, <2>5
<1>4. Adjacent(k)
  BY <1>3 DEF Adjacent
<1>5. \A i \in 1..Len(k) : k[i].calls # {} => k[i].role = "assistant"
  BY <1>1 DEF Sound
<1>6. \A i \in 1..Len(k) : \A c \in k[i].calls : c[1] <= t
  BY <1>1 DEF Sound
<1>7. \A i, j \in 1..Len(k) : i # j => k[i].calls \cap k[j].calls = {}
  BY <1>1, <1>2 DEF Sound
<1>. QED
  BY <1>4, <1>5, <1>6, <1>7 DEF Sound

LEMMA DropType ==
    ASSUME NEW M, NEW h \in Seq(M), NEW n \in 0..Len(h)
    PROVE  /\ Drop(h, n) \in Seq(M) /\ Len(Drop(h, n)) = Len(h) - n
           /\ \A i \in 1..(Len(h) - n) : Drop(h, n)[i] = h[n + i]
<1>1. Len(h) \in Nat /\ n \in Nat /\ n <= Len(h)
  OBVIOUS
<1>2. \A i \in (n + 1)..Len(h) : h[i] \in M
  BY <1>1
<1>3. /\ Drop(h, n) \in Seq(M)
      /\ Len(Drop(h, n)) = IF n + 1 <= Len(h) THEN Len(h) - (n + 1) + 1 ELSE 0
      /\ \A i \in 1..(Len(h) - (n + 1) + 1) : Drop(h, n)[i] = h[n + 1 + i - 1]
  BY <1>1, <1>2, SubSeqProperties DEF Drop
<1>. QED
  BY <1>1, <1>3

(* Without its first n messages a conversation has no row whose call is    *)
(* missing, provided that what remains does not begin with a row.          *)
LEMMA DropSafe ==
    ASSUME NEW t \in Nat, NEW h, Sound(h, t), NEW n \in 0..Len(h)
    PROVE  /\ Sound(Drop(h, n), t)
           /\ NoDangling(h) => NoDangling(Drop(h, n))
           /\ NoOrphan(h) /\ (n = Len(h) \/ ~IsTool(h[n + 1])) => NoOrphan(Drop(h, n))
<1>. DEFINE k == Drop(h, n)
            L == Len(h)
<1>1. /\ h \in Seq(Messages) /\ L \in Nat /\ n \in Nat /\ n <= L
      /\ DOMAIN h = 1..L
  BY DEF Sound
<1>2. k \in Seq(Messages) /\ Len(k) = L - n /\ DOMAIN k = 1..(L - n) /\ \A i \in 1..(L - n) : k[i] = h[n + i]
  <2>1. k \in Seq(Messages) /\ Len(k) = L - n /\ \A i \in 1..(L - n) : k[i] = h[n + i]
    BY <1>1, DropType
  <2>. QED
    BY <2>1
<1>. HIDE DEF k
<1>3. Sound(k, t)
  <2>. DEFINE g == [i \in 1..Len(k) |-> n + i]
  <2>1. g \in [1..Len(k) -> 1..Len(h)]
    BY <1>1, <1>2
  <2>2. \A i, j \in 1..Len(k) : i < j => g[i] < g[j]
    BY <1>1, <1>2
  <2>3. \A i \in 1..Len(k) : k[i] = h[g[i]]
    BY <1>2
  <2>. HIDE DEF g
  <2>. QED
    BY <1>2, <2>1, <2>2, <2>3, SelectionSound
<1>4. ASSUME NoDangling(h) PROVE NoDangling(k)
  <2>. SUFFICES ASSUME NEW i \in 1..(L - n), NEW c \in k[i].calls
                PROVE  \E j \in (i + 1)..(L - n) : IsTool(k[j]) /\ k[j].id = c
    BY <1>2 DEF NoDangling
  <2>1. n + i \in 1..L /\ c \in h[n + i].calls
    BY <1>1, <1>2
  <2>2. PICK j \in (n + i + 1)..L : IsTool(h[j]) /\ h[j].id = c
    BY <1>1, <1>4, <2>1 DEF NoDangling
  <2>3. j - n \in (i + 1)..(L - n) /\ j - n \in 1..(L - n) /\ n + (j - n) = j
    BY <1>1, <2>2
  <2>. QED
    BY <1>2, <2>2, <2>3
<1>5. ASSUME NoOrphan(h), n = L \/ ~IsTool(h[n + 1]) PROVE NoOrphan(k)
  <2>. SUFFICES ASSUME NEW i \in 1..(L - n), IsTool(k[i])
                PROVE  \E j \in 1..(i - 1) : k[i].id \in k[j].calls
    BY <1>2 DEF NoOrphan
  <2>1. n + i \in 1..L /\ IsTool(h[n + i]) /\ k[i] = h[n + i]
    BY <1>1, <1>2
  <2>2. PICK j \in 1..(n + i - 1) : h[n + i].id \in h[j].calls
    <3>1. \A m \in 1..L : IsTool(h[m]) => \E j \in 1..(m - 1) : h[m].id \in h[j].calls
      BY <1>1, <1>5 DEF NoOrphan
    <3>. QED
      BY <2>1, <3>1
  <2>3. j > n
    <3>. SUFFICES ASSUME j <= n PROVE FALSE
      BY <1>1
    <3>1. j \in Nat /\ 1 <= j /\ j <= n + i - 1 /\ i \in Nat /\ 1 <= i /\ i <= L - n
      BY <1>1
    <3>3. j \in 1..L /\ j < n + i /\ n + 1 \in (j + 1)..(n + i) /\ n # L
      <4>. HIDE DEF L
      <4>1. j \in 1..L
        BY <1>1, <3>1
      <4>2. n + 1 \in (j + 1)..(n + i)
        BY <1>1, <3>1
      <4>. QED
        BY <1>1, <3>1, <4>1, <4>2
    <3>2. \A q \in (j + 1)..(n + i) : IsTool(h[q])
      BY <2>1, <2>2, <3>3 DEF Sound, Adjacent
    <3>. QED
      BY <1>5, <3>3, <3>2
  <2>4. j - n \in 1..(i - 1) /\ j - n \in 1..(L - n) /\ n + (j - n) = j
    BY <1>1, <2>1, <2>3
  <2>. QED
    BY <1>2, <2>1, <2>2, <2>4
<1>. QED
  BY <1>3, <1>4, <1>5 DEF k

(* A beginning is sound, and has no row whose call is missing. *)
LEMMA PrefixSafe ==
    ASSUME NEW t \in Nat, NEW h, Sound(h, t), NEW k \in Seq(Messages), IsPrefix(k, h)
    PROVE  Sound(k, t) /\ (NoOrphan(h) => NoOrphan(k))
<1>1. /\ h \in Seq(Messages) /\ Len(h) \in Nat /\ Len(k) \in Nat /\ Len(k) <= Len(h)
      /\ \A i \in 1..Len(k) : k[i] = h[i]
      /\ DOMAIN h = 1..Len(h) /\ DOMAIN k = 1..Len(k) /\ 1..Len(k) \subseteq 1..Len(h)
  BY PrefixIs DEF Sound
<1>2. Sound(k, t)
  <2>. DEFINE g == [i \in 1..Len(k) |-> i]
  <2>1. g \in [1..Len(k) -> 1..Len(h)]
    BY <1>1
  <2>2. \A i, j \in 1..Len(k) : i < j => g[i] < g[j]
    BY <1>1
  <2>3. \A i \in 1..Len(k) : k[i] = h[g[i]]
    BY <1>1
  <2>. HIDE DEF g
  <2>. QED
    BY <2>1, <2>2, <2>3, SelectionSound
<1>3. ASSUME NoOrphan(h) PROVE NoOrphan(k)
  <2>. SUFFICES ASSUME NEW i \in 1..Len(k), IsTool(k[i])
                PROVE  \E j \in 1..(i - 1) : k[i].id \in k[j].calls
    BY <1>1 DEF NoOrphan
  <2>1. PICK j \in 1..(i - 1) : h[i].id \in h[j].calls
    BY <1>1, <1>3 DEF NoOrphan
  <2>2. j \in 1..Len(k)
    BY <1>1
  <2>. QED
    BY <1>1, <2>1, <2>2
<1>. QED
  BY <1>2, <1>3

(* A message before all others that neither calls nor answers. *)
LEMMA PrependSafe ==
    ASSUME NEW t \in Nat, NEW h, Sound(h, t), NEW m \in Messages, m.calls = {}, ~IsTool(m)
    PROVE  LET r == <<m>> \o h IN
           /\ Sound(r, t)
           /\ NoOrphan(h) => NoOrphan(r)
           /\ NoDangling(h) => NoDangling(r)
<1>. DEFINE r == <<m>> \o h
            L == Len(h)
<1>1. h \in Seq(Messages) /\ L \in Nat /\ DOMAIN h = 1..L /\ <<m>> \in Seq(Messages) /\ Len(<<m>>) = 1
  BY DEF Sound
<1>2. /\ r \in Seq(Messages) /\ Len(r) = L + 1 /\ DOMAIN r = 1..(L + 1)
      /\ r[1] = m /\ \A i \in 2..(L + 1) : r[i] = h[i - 1]
  <2>. DEFINE a == <<m>>
  <2>1. a \in Seq(Messages) /\ Len(a) = 1 /\ a[1] = m
    BY <1>1
  <2>0. h \in Seq(Messages)
    BY <1>1
  <2>. HIDE DEF a, r, L
  <2>2. /\ a \o h \in Seq(Messages) /\ Len(a \o h) = Len(a) + Len(h)
        /\ \A i \in 1..(Len(a) + Len(h)) : (a \o h)[i] = IF i <= Len(a) THEN a[i] ELSE h[i - Len(a)]
    BY <2>0, <2>1, ConcatProperties
  <2>3. r = a \o h
    BY DEF a, r
  <2>4. 1 \in 1..(1 + L) /\ Len(a) + Len(h) = 1 + L /\ \A i \in 2..(L + 1) : i \in 1..(1 + L) /\ ~(i <= 1)
    BY <1>1, <2>1 DEF L
  <2>5. r[1] = m /\ \A i \in 2..(L + 1) : r[i] = h[i - 1]
    BY <2>1, <2>2, <2>3, <2>4
  <2>. QED
    BY <1>1, <2>1, <2>2, <2>3, <2>5 DEF L
<1>. HIDE DEF r, L
<1>3. ASSUME NEW i \in 1..(L + 1)
      PROVE  i = 1 \/ (i \in 2..(L + 1) /\ i - 1 \in 1..L /\ r[i] = h[i - 1])
  BY <1>1, <1>2
<1>4. \A i \in 1..L : h[i].calls # {} => h[i].role = "assistant"
  BY DEF Sound, L
<1>5. \A i \in 1..(L + 1) : r[i].calls # {} => r[i].role = "assistant"
  BY <1>2, <1>3, <1>4
<1>6. \A i \in 1..(L + 1) : \A c \in r[i].calls : c[1] <= t
  BY <1>2, <1>3 DEF Sound, L
<1>7. ASSUME NEW i \in 1..(L + 1), NEW j \in 1..(L + 1), i # j PROVE r[i].calls \cap r[j].calls = {}
  <2>1. CASE i = 1 \/ j = 1
    BY <1>2, <2>1
  <2>2. CASE i # 1 /\ j # 1
    <3>1. /\ i - 1 \in 1..L /\ r[i] = h[i - 1] /\ j - 1 \in 1..L /\ r[j] = h[j - 1]
      BY <1>3, <2>2
    <3>2. i - 1 # j - 1
      BY <1>7
    <3>. QED
      BY <3>1, <3>2 DEF Sound, L
  <2>. QED
    BY <2>1, <2>2
<1>8. ASSUME NEW i \in 1..(L + 1), NEW j \in 1..(L + 1), i < j, IsTool(r[j]), r[j].id \in r[i].calls,
             NEW k \in (i + 1)..j
      PROVE  IsTool(r[k])
  <2>1. i # 1
    BY <1>2, <1>8
  <2>2. j # 1 /\ k # 1 /\ k \in 1..(L + 1)
    BY <1>1, <1>8
  <2>3. /\ i - 1 \in 1..L /\ r[i] = h[i - 1] /\ j - 1 \in 1..L /\ r[j] = h[j - 1]
        /\ k - 1 \in 1..L /\ r[k] = h[k - 1]
    BY <1>3, <2>1, <2>2
  <2>4. i - 1 < j - 1 /\ k - 1 \in ((i - 1) + 1)..(j - 1)
    BY <1>8
  <2>. QED
    BY <1>8, <2>3, <2>4 DEF Sound, Adjacent, L
<1>9. Sound(r, t)
  <2>1. Adjacent(r)
    BY <1>2, <1>8 DEF Adjacent
  <2>. QED
    BY <1>2, <1>5, <1>6, <1>7, <2>1 DEF Sound
<1>10. ASSUME NoOrphan(h) PROVE NoOrphan(r)
  <2>. SUFFICES ASSUME NEW i \in 1..(L + 1), IsTool(r[i])
                PROVE  \E j \in 1..(i - 1) : r[i].id \in r[j].calls
    BY <1>2 DEF NoOrphan
  <2>1. i - 1 \in 1..L /\ r[i] = h[i - 1]
    BY <1>2, <1>3
  <2>2. PICK j \in 1..((i - 1) - 1) : h[i - 1].id \in h[j].calls
    BY <1>1, <1>10, <2>1 DEF NoOrphan
  <2>3. j + 1 \in 1..(i - 1) /\ j + 1 \in 2..(L + 1) /\ (j + 1) - 1 = j
    BY <1>1, <2>1, <2>2
  <2>4. r[j + 1] = h[j]
    BY <1>2, <2>3
  <2>. QED
    BY <2>1, <2>2, <2>3, <2>4
<1>11. ASSUME NoDangling(h) PROVE NoDangling(r)
  <2>. SUFFICES ASSUME NEW i \in 1..(L + 1), NEW c \in r[i].calls
                PROVE  \E j \in (i + 1)..(L + 1) : IsTool(r[j]) /\ r[j].id = c
    BY <1>2 DEF NoDangling
  <2>1. i - 1 \in 1..L /\ r[i] = h[i - 1]
    BY <1>2, <1>3
  <2>2. PICK j \in ((i - 1) + 1)..L : IsTool(h[j]) /\ h[j].id = c
    BY <1>1, <1>11, <2>1 DEF NoDangling, L
  <2>3. j + 1 \in (i + 1)..(L + 1) /\ j + 1 \in 2..(L + 1) /\ (j + 1) - 1 = j
    BY <1>1, <2>1, <2>2
  <2>4. r[j + 1] = h[j]
    BY <1>2, <2>3
  <2>. QED
    BY <2>2, <2>3, <2>4
<1>. QED
  BY <1>9, <1>10, <1>11 DEF r

(* A message and the rows of its calls, after all others. *)
LEMMA ExtensionSafe ==
    ASSUME NEW t \in Nat, NEW u \in Nat, t <= u, NEW h, Sound(h, t),
           NEW s \in Seq(Messages), Len(s) >= 1,
           ~IsTool(s[1]), s[1].calls # {} => s[1].role = "assistant",
           \A c \in s[1].calls : t < c[1] /\ c[1] <= u,
           \A i \in 2..Len(s) : IsTool(s[i]) /\ s[i].calls = {} /\ s[i].id \in s[1].calls
    PROVE  LET r == h \o s IN
           /\ Sound(r, u)
           /\ NoOrphan(h) => NoOrphan(r)
           /\ NoDangling(h) /\ (\A c \in s[1].calls : \E j \in 2..Len(s) : s[j].id = c)
                 => NoDangling(r)
<1>. DEFINE r == h \o s
            L == Len(h)
            N == Len(s)
<1>1. h \in Seq(Messages) /\ L \in Nat /\ DOMAIN h = 1..L /\ N \in Nat /\ N >= 1
  BY DEF Sound
<1>2. /\ r \in Seq(Messages) /\ Len(r) = L + N /\ DOMAIN r = 1..(L + N)
      /\ \A i \in 1..L : r[i] = h[i]
      /\ \A i \in 1..N : r[L + i] = s[i]
  <2>1. /\ r \in Seq(Messages) /\ Len(r) = L + N
        /\ \A i \in 1..(L + N) : r[i] = IF i <= L THEN h[i] ELSE s[i - L]
    BY <1>1, ConcatProperties
  <2>. HIDE DEF r, L, N
  <2>2. \A i \in 1..L : i \in 1..(L + N) /\ i <= L
    BY <1>1
  <2>3. \A i \in 1..N : L + i \in 1..(L + N) /\ ~(L + i <= L) /\ (L + i) - L = i
    BY <1>1
  <2>4. \A i \in 1..N : r[L + i] = s[i]
    BY <2>1, <2>3
  <2>. QED
    BY <2>1, <2>2, <2>4
<1>. HIDE DEF r, L, N
<1>3. ASSUME NEW i \in 1..(L + N)
      PROVE  \/ i \in 1..L /\ r[i] = h[i]
             \/ i = L + 1 /\ r[i] = s[1]
             \/ i > L + 1 /\ i - L \in 2..N /\ r[i] = s[i - L]
  <2>1. CASE i <= L
    BY <1>1, <1>2, <2>1
  <2>2. CASE i = L + 1
    BY <1>1, <1>2, <2>2
  <2>3. CASE i > L + 1
    <3>1. i - L \in 2..N /\ i - L \in 1..N /\ L + (i - L) = i
      BY <1>1, <2>3
    <3>. QED
      BY <1>2, <2>3, <3>1
  <2>. QED
    BY <1>1, <2>1, <2>2, <2>3
<1>4. \A i \in 2..N : IsTool(s[i]) /\ s[i].calls = {} /\ s[i].id \in s[1].calls
  BY DEF N
<1>5. /\ \A i \in 1..L : h[i].calls # {} => h[i].role = "assistant"
      /\ \A i \in 1..L : \A c \in h[i].calls : c[1] <= t /\ c[1] \in Nat
      /\ \A c \in s[1].calls : c[1] \in Nat
      /\ \A i, j \in 1..L : i # j => h[i].calls \cap h[j].calls = {}
  <2>1. \A i \in 1..L : h[i].calls \subseteq Nat \X Nat
    <3>. SUFFICES ASSUME NEW i \in 1..L PROVE h[i].calls \subseteq Nat \X Nat
      OBVIOUS
    <3>1. h[i] \in Messages
      BY <1>1 DEF L
    <3>. QED
      BY <3>1 DEF Messages, Ids
  <2>2. s[1].calls \subseteq Nat \X Nat
    <3>1. 1 \in 1..N /\ s \in Seq(Messages)
      BY <1>1
    <3>2. s[1] \in Messages
      BY <3>1 DEF N
    <3>. QED
      BY <3>2 DEF Messages, Ids
  <2>. QED
    BY <2>1, <2>2 DEF Sound, L
<1>6. \A i \in 1..(L + N) : r[i].calls # {} => r[i].role = "assistant"
  BY <1>3, <1>4, <1>5
<1>7. ASSUME NEW i \in 1..(L + N), NEW c \in r[i].calls PROVE c[1] <= u
  <2>1. CASE i \in 1..L /\ r[i] = h[i]
    BY <1>5, <1>7, <2>1
  <2>2. CASE r[i] = s[1]
    BY <2>2
  <2>3. CASE i - L \in 2..N /\ r[i] = s[i - L]
    BY <1>4, <2>3
  <2>. QED
    BY <1>3, <2>1, <2>2, <2>3
<1>8. ASSUME NEW i \in 1..L PROVE h[i].calls \cap s[1].calls = {}
  <2>. SUFFICES ASSUME NEW c \in h[i].calls, c \in s[1].calls PROVE FALSE
    OBVIOUS
  <2>1. c[1] <= t /\ c[1] \in Nat /\ t < c[1]
    BY <1>5
  <2>. QED
    BY <2>1
<1>9. ASSUME NEW i \in 1..(L + N), NEW j \in 1..(L + N), i # j PROVE r[i].calls \cap r[j].calls = {}
  <2>1. CASE i > L + 1 \/ j > L + 1
    <3>1. \A q \in 1..(L + N) : q > L + 1 => r[q].calls = {}
      BY <1>1, <1>3, <1>4
    <3>. QED
      BY <2>1, <3>1
  <2>2. CASE i \in 1..L /\ j \in 1..L
    BY <1>2, <1>5, <1>9, <2>2
  <2>3. CASE i = L + 1 /\ j \in 1..L
    BY <1>2, <1>3, <1>8, <2>3, <1>1
  <2>4. CASE i \in 1..L /\ j = L + 1
    BY <1>2, <1>3, <1>8, <2>4, <1>1
  <2>. QED
    BY <1>3, <1>9, <2>1, <2>2, <2>3, <2>4
<1>10. ASSUME NEW i \in 1..(L + N), NEW j \in 1..(L + N), i < j, IsTool(r[j]), r[j].id \in r[i].calls,
              NEW k \in (i + 1)..j
       PROVE  IsTool(r[k])
  <2>1. CASE j \in 1..L
    <3>1. i \in 1..L /\ k \in 1..L
      BY <1>1, <1>10, <2>1
    <3>2. Adjacent(h)
      BY DEF Sound
    <3>. QED
      BY <1>2, <1>10, <2>1, <3>1, <3>2 DEF Adjacent, L
  <2>2. CASE j = L + 1
    BY <1>1, <1>3, <1>10, <2>2
  <2>3. CASE j > L + 1
    <3>1. r[j].id \in s[1].calls
      BY <1>1, <1>3, <1>4, <2>3
    <3>2. i = L + 1
      BY <1>3, <1>4, <1>8, <1>10, <3>1
    <3>3. k \in 1..(L + N) /\ k > L + 1
      BY <1>1, <1>10, <3>2
    <3>. QED
      BY <1>1, <1>3, <1>4, <3>3
  <2>. QED
    BY <1>1, <1>3, <2>1, <2>2, <2>3
<1>11. Sound(r, u)
  <2>1. Adjacent(r)
    BY <1>2, <1>10 DEF Adjacent
  <2>. QED
    BY <1>2, <1>6, <1>7, <1>9, <2>1 DEF Sound
<1>12. ASSUME NoOrphan(h) PROVE NoOrphan(r)
  <2>. SUFFICES ASSUME NEW i \in 1..(L + N), IsTool(r[i])
                PROVE  \E j \in 1..(i - 1) : r[i].id \in r[j].calls
    BY <1>2 DEF NoOrphan
  <2>1. CASE i \in 1..L
    <3>1. PICK j \in 1..(i - 1) : h[i].id \in h[j].calls
      BY <1>1, <1>2, <1>12, <2>1 DEF NoOrphan
    <3>2. j \in 1..L
      BY <1>1, <2>1
    <3>. QED
      BY <1>2, <2>1, <3>1, <3>2
  <2>2. CASE i = L + 1
    BY <1>1, <1>3, <2>2
  <2>3. CASE i > L + 1
    <3>1. r[i].id \in s[1].calls
      BY <1>1, <1>3, <1>4, <2>3
    <3>2. r[L + 1] = s[1] /\ L + 1 \in 1..(i - 1)
      BY <1>1, <1>2, <2>3
    <3>. QED
      BY <3>1, <3>2
  <2>. QED
    BY <1>3, <2>1, <2>2, <2>3
<1>13. ASSUME NoDangling(h), \A c \in s[1].calls : \E j \in 2..N : s[j].id = c PROVE NoDangling(r)
  <2>. SUFFICES ASSUME NEW i \in 1..(L + N), NEW c \in r[i].calls
                PROVE  \E j \in (i + 1)..(L + N) : IsTool(r[j]) /\ r[j].id = c
    BY <1>2 DEF NoDangling
  <2>1. CASE i \in 1..L
    <3>1. c \in h[i].calls
      BY <1>2, <2>1
    <3>2. PICK j \in (i + 1)..L : IsTool(h[j]) /\ h[j].id = c
      BY <1>1, <1>13, <2>1, <3>1 DEF NoDangling, L
    <3>3. j \in 1..L /\ j \in (i + 1)..(L + N)
      BY <1>1, <2>1, <3>2
    <3>. QED
      BY <1>2, <3>2, <3>3
  <2>2. CASE i = L + 1
    <3>1. c \in s[1].calls
      BY <1>1, <1>3, <2>2
    <3>2. PICK j \in 2..N : s[j].id = c
      BY <1>13, <3>1
    <3>3. L + j \in (i + 1)..(L + N) /\ r[L + j] = s[j]
      BY <1>1, <1>2, <2>2, <3>2
    <3>. QED
      BY <1>4, <3>2, <3>3
  <2>3. CASE i > L + 1
    BY <1>1, <1>3, <1>4, <2>3
  <2>. QED
    BY <1>3, <2>1, <2>2, <2>3
<1>. QED
  BY <1>11, <1>12, <1>13 DEF r, N

(* What a trim keeps. *)
Recent(h) == {i \in DOMAIN h : i > Len(h) - RecentMessages}
Window(h) == {i \in Recent(h) : \E j \in Recent(h) : j <= i /\ ~IsTool(h[j])}
Users(h) == {i \in DOMAIN h : h[i].role = "user"}
Pinned(h) == {i \in Users(h) : Cardinality({j \in Users(h) : j > i}) < PinnedUsers}
InTrim(h) == Window(h) \union Pinned(h)
Final(h) == {i \in InTrim(h) : IsTool(h[i]) => h[i].id \in UNION {h[j].calls : j \in InTrim(h)}}

LEMMA TrimmedIs == \A h : Trimmed(h) = IF Len(h) <= RecentMessages THEN h ELSE Kept(h, Final(h))
  BY DEF Trimmed, Recent, Window, Users, Pinned, InTrim, Final

(* One of the last two messages is not a row. *)
Lively(h) == \E i \in 1..Len(h) : i > Len(h) - 2 /\ ~IsTool(h[i])

(* A trim keeps the rows of the calls it keeps, and no others. *)
LEMMA TrimSafe ==
    ASSUME NEW t \in Nat, NEW h, Sound(h, t)
    PROVE  /\ Sound(Trimmed(h), t)
           /\ NoOrphan(h) => NoOrphan(Trimmed(h))
           /\ NoOrphan(h) /\ NoDangling(h) => NoDangling(Trimmed(h))
           /\ Lively(h) => Trimmed(h) # <<>>
<1>. DEFINE S == Final(h)
            k == Kept(h, S)
            L == Len(h)
<1>1. h \in Seq(Messages) /\ L \in Nat /\ DOMAIN h = 1..L
  BY DEF Sound
<1>2. k \in Seq(Messages) /\ \E g : Picked(g, h, S, L, k)
  BY <1>1, KeptPicks
<1>. HIDE DEF k
<1>3. PICK g : Picked(g, h, S, L, k)
  BY <1>2
<1>. DEFINE K == Len(k)
<1>4. /\ K \in Nat /\ DOMAIN k = 1..K
      /\ g \in [1..K -> 1..L] /\ (\A i \in 1..K : g[i] \in 1..L)
      /\ \A i, j \in 1..K : i < j => g[i] < g[j]
      /\ \A i \in 1..K : g[i] \in S /\ k[i] = h[g[i]]
      /\ \A p \in 1..L : p \in S => \E i \in 1..K : g[i] = p
  <2>. HIDE DEF S, L
  <2>1. K \in Nat /\ DOMAIN k = 1..K
    BY <1>2
  <2>2. /\ g \in [1..K -> 1..L]
        /\ \A i, j \in 1..K : i < j => g[i] < g[j]
        /\ \A i \in 1..K : g[i] \in S /\ k[i] = h[g[i]]
        /\ \A p \in 1..L : p \in S => \E i \in 1..K : g[i] = p
    BY <1>3 DEF Picked
  <2>. QED
    BY <2>1, <2>2
<1>5. \A i, j \in 1..K : g[i] < g[j] => i < j
  <2>. SUFFICES ASSUME NEW i \in 1..K, NEW j \in 1..K, g[i] < g[j] PROVE i < j
    OBVIOUS
  <2>1. g[i] \in Nat /\ g[j] \in Nat
    BY <1>4
  <2>2. i = j \/ i < j \/ j < i
    OBVIOUS
  <2>3. j < i => g[j] < g[i]
    BY <1>4
  <2>. QED
    BY <2>1, <2>2, <2>3
<1>. HIDE DEF S, K, L
<1>6. /\ \A i \in 1..L : h[i].calls # {} => h[i].role = "assistant"
      /\ \A i, j \in 1..L : i # j => h[i].calls \cap h[j].calls = {}
  BY DEF Sound, L
<1>7. Sound(k, t)
  BY <1>2, <1>4, SelectionSound DEF K, L
<1>8. /\ S \subseteq InTrim(h) /\ InTrim(h) \subseteq 1..L
      /\ \A i \in InTrim(h) : ~IsTool(h[i]) => i \in S
      /\ \A i \in S : IsTool(h[i]) => \E j \in InTrim(h) : h[i].id \in h[j].calls
      /\ \A i, j \in InTrim(h) : h[i].id \in h[j].calls => i \in S
  BY <1>1 DEF S, Final, InTrim, Window, Pinned, Recent, Users
<1>9. \A i \in 1..L : h[i].calls # {} => ~IsTool(h[i])
  BY <1>6 DEF IsTool
<1>10. ASSUME NoOrphan(h) PROVE NoOrphan(k)
  <2>. SUFFICES ASSUME NEW i \in 1..K, IsTool(k[i])
                PROVE  \E j \in 1..(i - 1) : k[i].id \in k[j].calls
    BY <1>4 DEF NoOrphan
  <2>1. g[i] \in 1..L /\ g[i] \in S /\ k[i] = h[g[i]] /\ IsTool(h[g[i]])
    BY <1>4
  <2>2. PICK q \in InTrim(h) : h[g[i]].id \in h[q].calls
    BY <1>8, <2>1
  <2>3. PICK r \in 1..(g[i] - 1) : h[g[i]].id \in h[r].calls
    BY <1>1, <1>10, <2>1 DEF NoOrphan
  <2>4. r \in 1..L /\ q \in 1..L
    BY <1>1, <1>8, <2>1
  <2>5. q = r
    BY <1>6, <2>2, <2>3, <2>4
  <2>6. q \in S
    BY <1>8, <1>9, <2>2, <2>4
  <2>7. PICK j \in 1..K : g[j] = q
    BY <1>4, <2>4, <2>6
  <2>8. j < i
    BY <1>5, <2>1, <2>3, <2>5, <2>7
  <2>9. j \in 1..(i - 1) /\ k[j] = h[q]
    BY <1>4, <2>7, <2>8
  <2>. QED
    BY <2>1, <2>2, <2>9
<1>11. ASSUME NoDangling(h) PROVE NoDangling(k)
  <2>. SUFFICES ASSUME NEW i \in 1..K, NEW c \in k[i].calls
                PROVE  \E j \in (i + 1)..K : IsTool(k[j]) /\ k[j].id = c
    BY <1>4 DEF NoDangling, K
  <2>1. g[i] \in 1..L /\ g[i] \in S /\ k[i] = h[g[i]] /\ c \in h[g[i]].calls
    BY <1>4
  <2>2. PICK q \in (g[i] + 1)..L : IsTool(h[q]) /\ h[q].id = c
    BY <1>1, <1>11, <2>1 DEF NoDangling, L
  <2>3. h[g[i]].role = "assistant" /\ ~IsTool(h[g[i]])
    BY <1>6, <1>9, <2>1
  <2>4. g[i] \in Recent(h)
    <3>1. g[i] \in InTrim(h) /\ g[i] \notin Users(h)
      BY <1>8, <2>1, <2>3 DEF Users
    <3>. QED
      BY <3>1 DEF InTrim, Window, Pinned
  <2>5. q \in 1..L /\ q \in Nat /\ g[i] \in Nat /\ g[i] < q
    BY <1>1, <2>1, <2>2
  <2>6. q \in Recent(h)
    BY <1>1, <2>4, <2>5, ConversationAssumption DEF Recent, L
  <2>7. q \in Window(h)
    BY <2>3, <2>4, <2>5, <2>6 DEF Window
  <2>8. q \in InTrim(h) /\ g[i] \in InTrim(h)
    BY <1>8, <2>1, <2>7 DEF InTrim
  <2>9. q \in S
    BY <1>8, <2>1, <2>2, <2>8
  <2>10. PICK j \in 1..K : g[j] = q
    BY <1>4, <2>5, <2>9
  <2>11. i < j
    BY <1>5, <2>5, <2>10
  <2>12. j \in (i + 1)..K /\ k[j] = h[q]
    BY <1>4, <2>10, <2>11
  <2>. QED
    BY <2>2, <2>12
<1>12. ASSUME Lively(h), ~(L <= RecentMessages) PROVE k # <<>>
  <2>1. PICK i \in 1..L : i > L - 2 /\ ~IsTool(h[i])
    BY <1>12 DEF Lively, L
  <2>2. RecentMessages \in Nat /\ RecentMessages >= 2
    BY ConversationAssumption
  <2>3. i > L - RecentMessages /\ i <= i
    BY <1>1, <2>1, <2>2
  <2>4. i \in Recent(h)
    BY <1>1, <2>3 DEF Recent, L
  <2>5. i \in S
    BY <1>8, <2>1, <2>3, <2>4 DEF Window, InTrim
  <2>6. PICK j \in 1..K : g[j] = i
    BY <1>4, <2>5
  <2>7. K # 0
    BY <1>4, <2>6
  <2>. QED
    BY <2>7 DEF K
<1>13. Lively(h) => h # <<>>
  BY <1>1 DEF Lively, L
<1>14. Trimmed(h) = IF L <= RecentMessages THEN h ELSE k
  BY TrimmedIs DEF k, S, L
<1>15. CASE L <= RecentMessages
  BY <1>13, <1>14, <1>15
<1>16. CASE ~(L <= RecentMessages)
  BY <1>7, <1>10, <1>11, <1>12, <1>14, <1>16
<1>. QED
  BY <1>15, <1>16

LEMMA MinIs ==
    ASSUME NEW S, S \subseteq Nat, S # {}
    PROVE  Min(S) \in S /\ \A y \in S : Min(S) <= y
<1>1. \E x \in S : \A y \in S : x =< y
  BY Least
<1>. QED
  BY <1>1 DEF Min

LEMMA MaxOf ==
    ASSUME NEW N \in Nat, NEW S, S \subseteq 0..N, S # {}
    PROVE  Max(S) \in S /\ \A y \in S : Max(S) >= y
<1>. DEFINE T == {m \in 0..N : N - m \in S}
<1>1. T \subseteq Nat /\ T # {}
  <2>1. PICK y \in S : TRUE
    OBVIOUS
  <2>2. N - y \in 0..N /\ N - (N - y) = y
    BY <2>1
  <2>. QED
    BY <2>1, <2>2
<1>2. PICK n \in T : \A m \in T : n <= m
  BY <1>1, Least
<1>3. ASSUME NEW y \in S PROVE N - n >= y
  <2>1. y \in 0..N /\ N - y \in 0..N /\ N - (N - y) = y
    OBVIOUS
  <2>2. N - y \in T
    BY <2>1
  <2>3. n <= N - y /\ n \in 0..N
    BY <1>2, <2>2
  <2>. QED
    BY <2>1, <2>3
<1>4. \E x \in S : \A y \in S : x >= y
  BY <1>2, <1>3
<1>. QED
  BY <1>4 DEF Max

(* Where a summary cuts, the rest does not begin with a row. *)
LEMMA SplitIs ==
    ASSUME NEW h \in Seq(Messages), NEW n \in ExtendedSplits(h) \ {0}
    PROVE  n \in 0..Len(h) /\ (n = Len(h) \/ ~IsTool(h[n + 1]))
<1>. DEFINE L == Len(h)
            initial == L - KeepRecent
            forward == {m \in initial..L : SafeBoundary(h, m)}
            backward == {m \in 1..L : SafeBoundary(h, m)}
            Good(m) == m \in 0..L /\ (m = L \/ ~IsTool(h[m + 1]))
<1>1. L \in Nat /\ initial \in Int
  BY ConversationAssumption
<1>2. \A m : SafeBoundary(h, m) => Good(m)
  BY <1>1 DEF SafeBoundary
<1>3. SplitPoint(h) = 0 \/ Good(SplitPoint(h))
  <2>1. SplitPoint(h) = IF initial <= 0 THEN 0
                        ELSE IF forward # {} THEN Min(forward)
                        ELSE IF backward # {} THEN Max(backward)
                        ELSE L
    BY DEF SplitPoint
  <2>2. CASE initial <= 0
    BY <2>1, <2>2
  <2>3. CASE ~(initial <= 0) /\ forward # {}
    <3>1. forward \subseteq Nat
      BY <1>1, <2>3
    <3>2. Min(forward) \in forward
      <4>. HIDE DEF forward
      <4>. QED
        BY <2>3, <3>1, MinIs
    <3>. QED
      BY <1>2, <2>1, <2>3, <3>2
  <2>4. CASE ~(initial <= 0) /\ forward = {} /\ backward # {}
    <3>1. backward \subseteq 0..L
      BY <1>1
    <3>2. Max(backward) \in backward
      <4>. HIDE DEF backward, L
      <4>. QED
        BY <1>1, <2>4, <3>1, MaxOf
    <3>. QED
      BY <1>2, <2>1, <2>4, <3>2
  <2>5. CASE ~(initial <= 0) /\ forward = {} /\ backward = {}
    BY <1>1, <2>1, <2>5
  <2>. QED
    BY <2>2, <2>3, <2>4, <2>5
<1>4. n = SplitPoint(h) \/ SafeBoundary(h, n)
  BY DEF ExtendedSplits
<1>. QED
  BY <1>2, <1>3, <1>4

LEMMA MessageType ==
    /\ \A id \in Ids : Message(id, "system", {}) \in Messages
    /\ \A id \in Ids : Message(id, "user", {}) \in Messages
    /\ \A id \in Ids : Message(id, "tool", {}) \in Messages
    /\ \A id \in Ids, C \in SUBSET Ids : Message(id, "assistant", C) \in Messages
  BY DEF Message, Messages

LEMMA SystemSafe ==
    ASSUME NEW t \in Nat, NEW h, Sound(h, t), NEW id \in Ids
    PROVE  LET r == <<Message(id, "system", {})>> \o h IN
           /\ Sound(r, t)
           /\ NoOrphan(h) => NoOrphan(r)
           /\ NoDangling(h) => NoDangling(r)
<1>1. /\ Message(id, "system", {}) \in Messages
      /\ Message(id, "system", {}).calls = {} /\ ~IsTool(Message(id, "system", {}))
  BY MessageType DEF Message, IsTool
<1>. QED
  BY <1>1, PrependSafe

LEMMA CompactedSafe ==
    ASSUME NEW t \in Nat, NEW h, Sound(h, t), NEW id \in Ids, NEW r \in Compacted(h, id)
    PROVE  /\ Sound(r, t)
           /\ NoOrphan(h) => NoOrphan(r)
           /\ NoDangling(h) => NoDangling(r)
<1>1. PICK n \in ExtendedSplits(h) \ {0} : r = <<Message(id, "system", {})>> \o Drop(h, n)
  BY DEF Compacted
<1>2. h \in Seq(Messages)
  BY DEF Sound
<1>3. n \in 0..Len(h) /\ (n = Len(h) \/ ~IsTool(h[n + 1]))
  BY <1>2, SplitIs
<1>4. /\ Sound(Drop(h, n), t)
      /\ NoDangling(h) => NoDangling(Drop(h, n))
      /\ NoOrphan(h) => NoOrphan(Drop(h, n))
  BY <1>3, DropSafe
<1>. QED
  BY <1>1, <1>4, SystemSafe

LEMMA SnippedSafe ==
    ASSUME NEW t \in Nat, NEW h, Sound(h, t), NEW id \in Ids, NEW k \in Nat
    PROVE  /\ Sound(Snipped(h, k, id), t)
           /\ NoDangling(h) => NoDangling(Snipped(h, k, id))
<1>1. Len(h) \in Nat
  BY DEF Sound
<1>2. CASE Len(h) <= k
  BY <1>2 DEF Snipped
<1>3. CASE ~(Len(h) <= k)
  <2>. DEFINE d == IF k = 0 THEN h ELSE Drop(h, Len(h) - k)
  <2>1. Len(h) - k \in 0..Len(h)
    BY <1>1, <1>3
  <2>2. Sound(Drop(h, Len(h) - k), t) /\ (NoDangling(h) => NoDangling(Drop(h, Len(h) - k)))
    BY <2>1, DropSafe
  <2>3. Sound(d, t) /\ (NoDangling(h) => NoDangling(d))
    BY <2>2
  <2>4. Snipped(h, k, id) = <<Message(id, "system", {})>> \o d
    BY <1>3 DEF Snipped
  <2>. HIDE DEF d
  <2>. QED
    BY <2>3, <2>4, SystemSafe
<1>. QED
  BY <1>2, <1>3

LEMMA IdType == ASSUME turns \in Nat PROVE \A n \in Nat : Id(n) \in Ids /\ Id(n)[1] = turns + 1
  BY DEF Id, Ids

LEMMA ShortenedSafe ==
    ASSUME turns \in Nat, NEW t \in Nat, NEW h, Sound(h, t), NEW n \in Nat, NEW r \in Shortened(h, n)
    PROVE  /\ Sound(r, t)
           /\ NoOrphan(h) => NoOrphan(r)
           /\ NoDangling(h) => NoDangling(r)
<1>1. CASE r = h
  BY <1>1
<1>2. CASE r \in Compacted(h, Id(n))
  <2>1. Id(n) \in Ids
    BY IdType
  <2>. QED
    BY <1>2, <2>1, CompactedSafe
<1>. QED
  BY <1>1, <1>2 DEF Shortened

(* A message without calls at the end. *)
LEMMA AppendSafe ==
    ASSUME NEW t \in Nat, NEW h, Sound(h, t), NEW m \in Messages, m.calls = {}, ~IsTool(m)
    PROVE  /\ Sound(Append(h, m), t)
           /\ NoOrphan(h) => NoOrphan(Append(h, m))
           /\ NoDangling(h) => NoDangling(Append(h, m))
           /\ Lively(Append(h, m))
<1>. DEFINE s == <<m>>
<1>1. s \in Seq(Messages) /\ Len(s) = 1 /\ s[1] = m
  OBVIOUS
<1>2. h \in Seq(Messages) /\ Len(h) \in Nat
  BY DEF Sound
<1>3. Append(h, m) = h \o s
  BY <1>2, AppendIsConcat
<1>. HIDE DEF s
<1>4. 2..Len(s) = {}
  BY <1>1
<1>5. /\ Sound(h \o s, t)
      /\ NoOrphan(h) => NoOrphan(h \o s)
      /\ NoDangling(h) => NoDangling(h \o s)
  BY <1>1, <1>4, ExtensionSafe
<1>6. Lively(Append(h, m))
  <2>1. Len(Append(h, m)) = Len(h) + 1 /\ Append(h, m)[Len(h) + 1] = m
    BY <1>2
  <2>. QED
    BY <1>2, <2>1 DEF Lively
<1>. QED
  BY <1>3, <1>5, <1>6

-----------------------------------------------------------------------------
(* A turn                                                                  *)

LEMMA RoundIs ==
    ASSUME turns \in Nat, NEW c \in 1..2
    PROVE  /\ Round(c) \in Seq(Messages) /\ Len(Round(c)) = c + 1
           /\ Round(c)[1] = Message(Id(2), "assistant", {Id(k + 2) : k \in 1..c})
           /\ \A i \in 2..(c + 1) : Round(c)[i] = Message(Id(i + 1), "tool", {})
<1>. DEFINE a == <<Message(Id(2), "assistant", {Id(k + 2) : k \in 1..c})>>
            b == [k \in 1..c |-> Message(Id(k + 2), "tool", {})]
<1>1. a \in Seq(Messages) /\ Len(a) = 1 /\ a[1] = Message(Id(2), "assistant", {Id(k + 2) : k \in 1..c})
  <2>1. Id(2) \in Ids /\ {Id(k + 2) : k \in 1..c} \in SUBSET Ids
    BY IdType
  <2>2. Message(Id(2), "assistant", {Id(k + 2) : k \in 1..c}) \in Messages
    BY <2>1, MessageType
  <2>. QED
    BY <2>2
<1>2. b \in Seq(Messages) /\ Len(b) = c /\ \A k \in 1..c : b[k] = Message(Id(k + 2), "tool", {})
  <2>1. \A k \in 1..c : Message(Id(k + 2), "tool", {}) \in Messages
    <3>1. \A k \in 1..c : k + 2 \in Nat
      OBVIOUS
    <3>. QED
      BY <3>1, IdType, MessageType
  <2>2. c \in Nat /\ b \in [1..c -> Messages]
    BY <2>1
  <2>3. b \in Seq(Messages) /\ DOMAIN b = 1..c
    BY <2>2
  <2>4. Len(b) = c
    BY <2>2, <2>3
  <2>. QED
    BY <2>3, <2>4
<1>3. Round(c) = a \o b
  <2>1. c # 0
    OBVIOUS
  <2>. QED
    BY <2>1 DEF Round
<1>. HIDE DEF a, b
<1>4. /\ a \o b \in Seq(Messages) /\ Len(a \o b) = Len(a) + Len(b)
      /\ \A i \in 1..(Len(a) + Len(b)) : (a \o b)[i] = IF i <= Len(a) THEN a[i] ELSE b[i - Len(a)]
  BY <1>1, <1>2, ConcatProperties
<1>5. 1 \in 1..(1 + c) /\ \A i \in 2..(c + 1) : i \in 1..(1 + c) /\ ~(i <= 1) /\ i - 1 \in 1..c /\ (i - 1) + 2 = i + 1
  OBVIOUS
<1>6. (a \o b)[1] = a[1]
  BY <1>1, <1>2, <1>4, <1>5
<1>7. ASSUME NEW i \in 2..(c + 1) PROVE (a \o b)[i] = Message(Id(i + 1), "tool", {})
  <2>1. (a \o b)[i] = b[i - 1]
    BY <1>1, <1>2, <1>4, <1>5
  <2>2. b[i - 1] = Message(Id((i - 1) + 2), "tool", {})
    BY <1>2, <1>5
  <2>. QED
    BY <1>5, <2>1, <2>2
<1>8. 1 + c = c + 1
  OBVIOUS
<1>. QED
  BY <1>1, <1>2, <1>3, <1>4, <1>6, <1>7, <1>8

(* The first messages of a round of calls, or all of them. *)
LEMMA RoundSafe ==
    ASSUME turns \in Nat, NEW h, Sound(h, turns), NEW c \in 1..2, NEW m \in 1..(c + 1)
    PROVE  LET r == h \o Take(Round(c), m) IN
           /\ Sound(r, turns + 1)
           /\ NoOrphan(h) => NoOrphan(r)
           /\ NoDangling(h) /\ m = c + 1 => NoDangling(r)
           /\ m <= 2 => Lively(r)
<1>. DEFINE w == Round(c)
            s == Take(w, m)
            C == {Id(k + 2) : k \in 1..c}
<1>1. /\ w \in Seq(Messages) /\ Len(w) = c + 1 /\ w[1] = Message(Id(2), "assistant", C)
      /\ \A i \in 2..(c + 1) : w[i] = Message(Id(i + 1), "tool", {})
  BY RoundIs
<1>. HIDE DEF w
<1>2. s \in Seq(Messages) /\ Len(s) = m /\ \A i \in 1..m : s[i] = w[i]
  <2>1. m \in 0..Len(w)
    BY <1>1
  <2>. QED
    BY <1>1, <2>1, TakeType
<1>. HIDE DEF s, C
<1>3. m \in Nat /\ m >= 1 /\ m <= c + 1 /\ c \in Nat /\ 1 \in 1..m /\ 2..m \subseteq 1..m /\ 2..m \subseteq 2..(c + 1)
  OBVIOUS
<1>4. s[1] = Message(Id(2), "assistant", C) /\ \A i \in 2..m : s[i] = Message(Id(i + 1), "tool", {})
  BY <1>1, <1>2, <1>3
<1>5. s[1].role = "assistant" /\ ~IsTool(s[1]) /\ s[1].calls = C
  <2>1. s[1] = [id |-> Id(2), role |-> "assistant", calls |-> C]
    BY <1>4 DEF Message
  <2>2. s[1].role = "assistant" /\ s[1].calls = C
    BY <2>1
  <2>. QED
    BY <2>2 DEF IsTool
<1>6. \A i \in 2..m : IsTool(s[i]) /\ s[i].calls = {} /\ s[i].id = Id(i + 1)
  <2>. SUFFICES ASSUME NEW i \in 2..m PROVE IsTool(s[i]) /\ s[i].calls = {} /\ s[i].id = Id(i + 1)
    OBVIOUS
  <2>1. s[i] = [id |-> Id(i + 1), role |-> "tool", calls |-> {}]
    BY <1>4 DEF Message
  <2>. QED
    BY <2>1 DEF IsTool
<1>7. \A x \in C : turns < x[1] /\ x[1] <= turns + 1
  <2>1. \A k \in 1..c : Id(k + 2)[1] = turns + 1
    <3>1. \A k \in 1..c : k + 2 \in Nat
      OBVIOUS
    <3>. QED
      BY <3>1, IdType
  <2>. QED
    BY <2>1 DEF C
<1>8. \A i \in 2..m : Id(i + 1) \in C
  <2>1. \A i \in 2..m : i - 1 \in 1..c /\ (i - 1) + 2 = i + 1
    BY <1>3
  <2>. QED
    BY <2>1 DEF C
<1>9. m = c + 1 => \A x \in C : \E j \in 2..m : s[j].id = x
  <2>. SUFFICES ASSUME m = c + 1, NEW k \in 1..c PROVE \E j \in 2..m : s[j].id = Id(k + 2)
    BY DEF C
  <2>1. k + 1 \in 2..m /\ (k + 1) + 1 = k + 2
    BY <1>3
  <2>. QED
    BY <1>6, <2>1
<1>10. /\ Sound(h \o s, turns + 1)
       /\ NoOrphan(h) => NoOrphan(h \o s)
       /\ NoDangling(h) /\ (\A x \in s[1].calls : \E j \in 2..m : s[j].id = x) => NoDangling(h \o s)
  <2>1. turns + 1 \in Nat /\ turns <= turns + 1
    OBVIOUS
  <2>2. \A i \in 2..m : IsTool(s[i]) /\ s[i].calls = {} /\ s[i].id \in s[1].calls
    BY <1>5, <1>6, <1>8
  <2>. QED
    BY <1>2, <1>3, <1>5, <1>7, <2>1, <2>2, ExtensionSafe
<1>11. ASSUME m <= 2 PROVE Lively(h \o s)
  <2>1. h \in Seq(Messages) /\ Len(h) \in Nat
    BY DEF Sound
  <2>2. /\ Len(h \o s) = Len(h) + m
        /\ \A i \in 1..(Len(h) + m) : (h \o s)[i] = IF i <= Len(h) THEN h[i] ELSE s[i - Len(h)]
    BY <1>2, <2>1, ConcatProperties
  <2>3. /\ Len(h) + 1 \in 1..(Len(h) + m) /\ ~(Len(h) + 1 <= Len(h)) /\ (Len(h) + 1) - Len(h) = 1
        /\ Len(h) + 1 > Len(h) + m - 2
    BY <1>3, <1>11, <2>1
  <2>4. (h \o s)[Len(h) + 1] = s[1]
    BY <2>2, <2>3
  <2>. QED
    BY <1>5, <2>2, <2>3, <2>4 DEF Lively
<1>. QED
  BY <1>5, <1>9, <1>10, <1>11 DEF s, w

LEMMA CompletedSafe ==
    ASSUME turns \in Nat, NEW h, Sound(h, turns), NEW r \in Completed(h)
    PROVE  /\ Sound(r, turns + 1)
           /\ NoOrphan(h) => NoOrphan(r)
           /\ NoDangling(h) => NoDangling(r)
           /\ Lively(r)
<1>0. PICK after \in UNION {Shortened(h \o Round(calls), 7) : calls \in 0..2} : r = Append(after, Answer)
  BY DEF Completed
<1>1. PICK c \in 0..2 : after \in Shortened(h \o Round(c), 7)
  BY <1>0
<1>. DEFINE w == h \o Round(c)
<1>2. /\ Sound(w, turns + 1)
      /\ NoOrphan(h) => NoOrphan(w)
      /\ NoDangling(h) => NoDangling(w)
  <2>1. CASE c = 0
    <3>1. w = h
      BY <2>1, ConcatEmptySeq DEF Round, Sound
    <3>. QED
      BY <3>1, SoundLater
  <2>2. CASE c # 0
    <3>1. c \in 1..2 /\ c + 1 \in 1..(c + 1)
      BY <2>2
    <3>2. Take(Round(c), c + 1) = Round(c)
      BY <3>1, RoundIs, TakeAll
    <3>. QED
      BY <3>1, <3>2, RoundSafe
  <2>. QED
    BY <2>1, <2>2
<1>. HIDE DEF w
<1>3. /\ Sound(after, turns + 1)
      /\ NoOrphan(w) => NoOrphan(after)
      /\ NoDangling(w) => NoDangling(after)
  <2>1. turns + 1 \in Nat /\ after \in Shortened(w, 7)
    BY <1>1 DEF w
  <2>. QED
    BY <1>2, <2>1, ShortenedSafe
<1>4. Answer \in Messages /\ Answer.calls = {} /\ ~IsTool(Answer)
  <2>1. Id(5) \in Ids /\ {} \in SUBSET Ids
    BY IdType
  <2>2. Answer = Message(Id(5), "assistant", {})
    BY DEF Answer
  <2>. QED
    BY <2>1, <2>2, MessageType DEF Message, IsTool
<1>5. turns + 1 \in Nat
  OBVIOUS
<1>. QED
  BY <1>0, <1>2, <1>3, <1>4, <1>5, AppendSafe

LEMMA AbortedSafe ==
    ASSUME turns \in Nat, NEW h, Sound(h, turns), NEW r \in Aborted(h)
    PROVE  Sound(r, turns + 1) /\ (NoOrphan(h) => NoOrphan(r)) /\ Lively(r)
<1>. DEFINE A == {h \o Take(Round(calls), k) : calls \in 1..2, k \in 1..2}
            B == {h \o Round(calls) : calls \in 1..2}
<1>0. r \in A
  <2>1. Aborted(h) = A \ B
    BY DEF Aborted
  <2>. HIDE DEF A, B
  <2>. QED
    BY <2>1
<1>1. PICK c \in 1..2, k \in 1..2 : r = h \o Take(Round(c), k)
  BY <1>0
<1>2. k \in 1..(c + 1) /\ k <= 2
  OBVIOUS
<1>. QED
  BY <1>1, <1>2, RoundSafe

(* What a turn leaves. *)
LEMMA TurnSafe ==
    ASSUME turns \in Nat, Sound(history, turns),
           NEW start \in {Append(history, User)} \union
                         {Snipped(Append(history, User), k, Id(8)) : k \in SnipKeeps},
           NEW ready \in Shortened(start, 6),
           NEW h \in Completed(ready) \union Aborted(ready)
    PROVE  /\ Sound(Trimmed(h), turns + 1) /\ Trimmed(h) # <<>>
           /\ NoOrphan(start) => NoOrphan(Trimmed(h))
           /\ NoOrphan(start) /\ NoDangling(history) /\ h \notin Aborted(ready)
                 => NoDangling(Trimmed(h))
<1>1. User \in Messages /\ User.calls = {} /\ ~IsTool(User)
  <2>1. Id(1) \in Ids
    BY IdType
  <2>2. User = Message(Id(1), "user", {})
    BY DEF User
  <2>. QED
    BY <2>1, <2>2, MessageType DEF Message, IsTool
<1>2. /\ Sound(Append(history, User), turns)
      /\ NoDangling(history) => NoDangling(Append(history, User))
  BY <1>1, AppendSafe
<1>3. Sound(start, turns) /\ (NoDangling(history) => NoDangling(start))
  <2>1. CASE start = Append(history, User)
    BY <1>2, <2>1
  <2>2. CASE start \in {Snipped(Append(history, User), k, Id(8)) : k \in SnipKeeps}
    <3>1. PICK k \in SnipKeeps : start = Snipped(Append(history, User), k, Id(8))
      BY <2>2
    <3>2. k \in Nat /\ Id(8) \in Ids
      BY SessionAssumption, IdType
    <3>. QED
      BY <1>2, <3>1, <3>2, SnippedSafe
  <2>. QED
    BY <2>1, <2>2
<1>4. /\ Sound(ready, turns)
      /\ NoOrphan(start) => NoOrphan(ready)
      /\ NoDangling(start) => NoDangling(ready)
  BY <1>3, ShortenedSafe
<1>5. /\ Sound(h, turns + 1) /\ Lively(h)
      /\ NoOrphan(ready) => NoOrphan(h)
      /\ NoDangling(ready) /\ h \notin Aborted(ready) => NoDangling(h)
  BY <1>4, CompletedSafe, AbortedSafe
<1>6. turns + 1 \in Nat
  OBVIOUS
<1>. QED
  BY <1>3, <1>4, <1>5, <1>6, TrimSafe

(* A fork does not cut between a call and its row. *)
LEMMA ForkSafe ==
    ASSUME NEW t \in Nat, NEW h, Sound(h, t), NEW requested \in 0..Len(h)
    PROVE  LET cut == ForkCut(h, requested) IN
           Consistent(Take(h, cut)) /\ (Consistent(h) => cut >= requested)
<1>. DEFINE L == Len(h)
            G == {n \in requested..L : n = L \/ ~IsTool(h[n + 1])}
            grown == Min(G)
            F == {n \in 0..grown : Consistent(Take(h, n))}
<1>1. h \in Seq(Messages) /\ L \in Nat /\ DOMAIN h = 1..L /\ requested \in Nat /\ requested <= L
  BY DEF Sound
<1>0. L = Len(h)
  OBVIOUS
<1>. HIDE DEF L
<1>2. Min({requested, L}) = requested
  <2>. DEFINE S == {requested, L}
  <2>1. S \subseteq Nat /\ S # {}
    BY <1>1
  <2>2. Min(S) \in S /\ \A y \in S : Min(S) <= y
    <3>. HIDE DEF S
    <3>. QED
      BY <2>1, MinIs
  <2>3. Min(S) <= requested /\ (Min(S) = requested \/ Min(S) = L)
    BY <2>2
  <2>. HIDE DEF S
  <2>4. Min(S) = requested
    BY <1>1, <2>3
  <2>. QED
    BY <2>4 DEF S
<1>3. grown \in G /\ grown \in 0..L /\ grown >= requested
  <2>1. G \subseteq Nat /\ L \in G
    BY <1>1
  <2>2. grown \in G
    <3>. HIDE DEF G
    <3>. QED
      BY <2>1, MinIs
  <2>. HIDE DEF grown
  <2>. QED
    BY <1>1, <2>2
<1>4. ForkCut(h, requested) = Max(F)
  <2>1. ForkCut(h, requested) =
          Max({n \in 0..Min({n \in Min({requested, L})..L : n = L \/ ~IsTool(h[n + 1])}) :
                 Consistent(Take(h, n))})
    BY <1>0 DEF ForkCut
  <2>. QED
    BY <1>2, <2>1
<1>5. h[grown + 1] = h[grown + 1] /\ (grown = L \/ ~IsTool(h[grown + 1]))
  BY <1>3
<1>. HIDE DEF grown
<1>6. Max(F) \in F /\ \A y \in F : Max(F) >= y
  <2>1. F \subseteq 0..L
    BY <1>1, <1>3
  <2>2. 0 \in F
    <3>1. Take(h, 0) = <<>> /\ Consistent(<<>>)
      BY TakeNothing, NothingIsSound DEF Consistent
    <3>. QED
      BY <1>1, <1>3, <3>1
  <2>. HIDE DEF F
  <2>. QED
    BY <1>1, <2>1, <2>2, MaxOf
<1>7. ASSUME Consistent(h) PROVE grown \in F
  <2>. DEFINE k == Take(h, grown)
  <2>1. k \in Seq(Messages) /\ Len(k) = grown /\ \A i \in 1..grown : k[i] = h[i]
    BY <1>0, <1>1, <1>3, TakeType
  <2>2. DOMAIN k = 1..grown /\ grown \in Nat /\ grown <= L
    BY <1>1, <1>3, <2>1
  <2>3. IsPrefix(k, h)
    BY <1>0, <1>1, <1>3, PrefixFacts
  <2>. HIDE DEF k
  <2>4. NoOrphan(k)
    BY <1>7, <2>1, <2>3, PrefixSafe DEF Consistent
  <2>5. ASSUME NEW i \in 1..grown, NEW c \in k[i].calls
        PROVE  \E j \in (i + 1)..grown : IsTool(k[j]) /\ k[j].id = c
    <3>1. i \in 1..L /\ c \in h[i].calls
      BY <1>1, <2>1, <2>2
    <3>2. PICK j \in (i + 1)..L : IsTool(h[j]) /\ h[j].id = c
      BY <1>0, <1>1, <1>7, <3>1 DEF Consistent, NoDangling
    <3>3. j <= grown
      <4>. SUFFICES ASSUME ~(j <= grown) PROVE FALSE
        OBVIOUS
      <4>1. j \in 1..L /\ i < j /\ grown + 1 \in (i + 1)..j /\ grown # L
        BY <1>1, <2>2, <3>1, <3>2
      <4>2. \A q \in (i + 1)..j : IsTool(h[q])
        BY <3>1, <3>2, <4>1 DEF Sound, Adjacent, L
      <4>. QED
        BY <1>5, <4>1, <4>2
    <3>4. j \in (i + 1)..grown /\ j \in 1..grown
      BY <1>1, <2>2, <3>2, <3>3
    <3>. QED
      BY <2>1, <3>2, <3>4
  <2>6. NoDangling(k)
    BY <2>1, <2>2, <2>5 DEF NoDangling
  <2>7. grown \in 0..grown
    BY <2>2
  <2>. QED
    BY <2>4, <2>6, <2>7 DEF Consistent, k
<1>8. Consistent(Take(h, Max(F)))
  BY <1>6
<1>9. ASSUME Consistent(h) PROVE Max(F) >= requested
  <2>1. Max(F) >= grown
    BY <1>6, <1>7, <1>9
  <2>2. Max(F) \in 0..grown
    BY <1>6
  <2>. HIDE DEF F
  <2>. QED
    BY <1>1, <1>3, <2>1, <2>2
<1>. QED
  BY <1>4, <1>8, <1>9

-----------------------------------------------------------------------------
(* The store                                                               *)

Was(k) == \E h \in lived : IsPrefix(k, h)

StoreTypes ==
    /\ turns \in Nat
    /\ history \in Seq(Messages) /\ acked \in Seq(Messages)
    /\ envelope.messages \in Seq(Messages)
    /\ ledger \in Ledgers
    /\ pc \in {"idle", "append", "envelope", "mirror", "down"}
    /\ ledger.open => ledger.lines # <<>>

(* What a crash may cost, wherever the process is. *)
SaveInv ==
    /\ "glued" \notin spoiled => Sane(ledger)
    /\ pc \in {"idle", "append", "envelope"} => spoiled # {} \/ Load = acked
    /\ pc = "append" => IsPrefix(Read(ledger), history) /\ history # <<>>
    /\ pc = "mirror" =>
          /\ envelope.messages = history
          /\ spoiled # {} \/ Read(ledger) = <<>> \/ Read(ledger) = acked
    /\ pc = "down" => CrashLosesAtMostOneSave

(* Where what the process and its files hold comes from. *)
SourceInv ==
    /\ <<>> \in lived /\ \A h \in lived : Sound(h, turns)
    /\ Was(history) /\ Was(Read(ledger)) /\ Was(envelope.messages)
    /\ "snip" \notin broken => \A h \in lived : NoOrphan(h)

(* While nothing has split a call from its row. *)
WholeInv ==
    broken = {} =>
        /\ \A h \in lived : NoDangling(h)
        /\ history \in lived /\ Read(ledger) \in lived /\ envelope.messages \in lived
        /\ ~ledger.open /\ Clean(ledger.lines)

StoreInv == StoreTypes /\ SaveInv /\ SourceInv /\ WholeInv

LEMMA ReadType == ASSUME NEW l \in Ledgers PROVE Read(l) \in Seq(Messages)
  BY ReadIsReading, ReadingType DEF Ledgers

LEMMA LoadFacts ==
    ASSUME StoreTypes
    PROVE  /\ Load \in Seq(Messages)
           /\ Load = Read(ledger) \/ Load = envelope.messages
           /\ Read(ledger) # <<>> => Load = Read(ledger)
           /\ Read(ledger) = <<>> => Load = envelope.messages
  BY ReadType DEF StoreTypes, Load

LEMMA LoadFactsPrime ==
    ASSUME StoreTypes'
    PROVE  /\ Load' \in Seq(Messages)
           /\ Load' = Read(ledger') \/ Load' = envelope'.messages
           /\ Read(ledger') # <<>> => Load' = Read(ledger')
           /\ Read(ledger') = <<>> => Load' = envelope'.messages
  BY ReadType DEF StoreTypes, Load

LEMMA StoreInitInv == ASSUME StoreInit PROVE StoreInv
<1>. DEFINE o == OldSession
<1>1. o \in Seq(Messages) /\ Len(o) = 2 /\ \A i \in 1..2 : o[i].calls = {} /\ ~IsTool(o[i])
  <2>1. Message(<<0, 1>>, "user", {}) \in Messages /\ Message(<<0, 5>>, "assistant", {}) \in Messages
    <3>1. <<0, 1>> \in Ids /\ <<0, 5>> \in Ids /\ {} \in SUBSET Ids
      BY DEF Ids
    <3>. QED
      BY <3>1, MessageType
  <2>2. o \in Seq(Messages) /\ Len(o) = 2 /\ o[1] = Message(<<0, 1>>, "user", {})
        /\ o[2] = Message(<<0, 5>>, "assistant", {})
    BY <2>1 DEF OldSession
  <2>3. o[1].calls = {} /\ ~IsTool(o[1]) /\ o[2].calls = {} /\ ~IsTool(o[2])
    BY <2>2 DEF Message, IsTool
  <2>4. \A i \in 1..2 : i = 1 \/ i = 2
    OBVIOUS
  <2>. HIDE DEF o
  <2>. QED
    BY <2>2, <2>3, <2>4
<1>. HIDE DEF o
<1>2. Sound(o, 0) /\ NoOrphan(o) /\ NoDangling(o)
  BY <1>1 DEF Sound, Adjacent, NoOrphan, NoDangling
<1>3. Sound(<<>>, 0) /\ NoOrphan(<<>>) /\ NoDangling(<<>>)
  BY NothingIsSound
<1>4. /\ history \in {<<>>, o} /\ envelope.messages = history /\ acked = history
      /\ lived = {<<>>, history} /\ turns = 0 /\ pc = "idle" /\ spoiled = {} /\ broken = {}
      /\ ledger = [lines |-> <<>>, open |-> FALSE]
  BY DEF StoreInit, Envelope, NoEnvelope, o
<1>5. /\ ledger.open = FALSE /\ ledger.lines = <<>> /\ ledger \in Ledgers /\ Clean(ledger.lines)
      /\ Read(ledger) = <<>>
  <2>1. ledger.open = FALSE /\ ledger.lines = <<>> /\ ledger \in Ledgers
    BY <1>4 DEF Ledgers
  <2>2. Clean(<<>>)
    BY DEF Clean
  <2>. QED
    BY <2>1, <2>2, ReadIsReading, ReadingNothing
<1>6. history \in Seq(Messages) /\ <<>> \in Seq(Messages)
  <2>1. <<>> \in Seq(Messages) /\ o \in Seq(Messages) /\ (history = <<>> \/ history = o)
    BY <1>1, <1>4
  <2>. QED
    BY <2>1
<1>7. IsPrefix(history, history) /\ IsPrefix(<<>>, <<>>)
  BY <1>6, PrefixFacts
<1>8. StoreTypes
  BY <1>4, <1>5, <1>6 DEF StoreTypes
<1>9. SaveInv
  BY <1>4, <1>5, <1>8, LoadFacts DEF SaveInv, Sane
<1>10. SourceInv
  <2>1. \A h \in lived : Sound(h, turns) /\ NoOrphan(h)
    BY <1>2, <1>3, <1>4
  <2>2. <<>> \in lived /\ history \in lived
    BY <1>4
  <2>. QED
    BY <1>4, <1>5, <1>7, <2>1, <2>2 DEF SourceInv, Was
<1>11. WholeInv
  BY <1>2, <1>3, <1>4, <1>5 DEF WholeInv
<1>. QED
  BY <1>8, <1>9, <1>10, <1>11 DEF StoreInv

(* The next conversation. *)
LEMMA BecomesKeepsInv ==
    ASSUME StoreInv, NEW h, NEW causes, Becomes(h, causes), turns' = turns + 1,
           broken \subseteq causes,
           Sound(h, turns + 1),
           "snip" \notin causes => NoOrphan(h),
           causes = {} => NoDangling(h),
           pc = "idle", pc' \in {"append", "envelope"},
           pc' = "append" => IsPrefix(Read(ledger), h) /\ h # <<>>
    PROVE  StoreInv'
<1>1. /\ history' = h /\ lived' = lived \union {h} /\ broken' = causes
      /\ ledger' = ledger /\ envelope' = envelope /\ acked' = acked /\ spoiled' = spoiled
  BY DEF Becomes, disk
<1>2. StoreTypes /\ SaveInv /\ SourceInv /\ WholeInv
  BY DEF StoreInv
<1>3. h \in Seq(Messages) /\ turns \in Nat
  BY <1>2 DEF Sound, StoreTypes
<1>4. StoreTypes'
  BY <1>1, <1>2, <1>3 DEF StoreTypes
<1>5. SaveInv'
  <2>1. Load' = Load
    BY <1>1 DEF Load
  <2>. QED
    BY <1>1, <1>2, <2>1 DEF SaveInv
<1>6. SourceInv'
  <2>1. \A x \in lived' : Sound(x, turns')
    BY <1>1, <1>2, <1>3, SoundLater DEF SourceInv
  <2>2. Was(Read(ledger))' /\ Was(envelope.messages)'
    BY <1>1, <1>2 DEF SourceInv, Was
  <2>3. Was(history)'
    <3>1. IsPrefix(h, h)
      BY <1>3, PrefixFacts
    <3>. QED
      BY <1>1, <3>1 DEF Was
  <2>4. "snip" \notin broken' => \A x \in lived' : NoOrphan(x)
    BY <1>1, <1>2 DEF SourceInv
  <2>. QED
    BY <1>1, <1>2, <2>1, <2>2, <2>3, <2>4 DEF SourceInv
<1>7. WholeInv'
  BY <1>1, <1>2 DEF WholeInv
<1>. QED
  BY <1>4, <1>5, <1>6, <1>7 DEF StoreInv

LEMMA TurnKeepsInv == ASSUME StoreInv, Turn PROVE StoreInv'
<1>1. StoreTypes /\ SaveInv /\ SourceInv /\ WholeInv /\ turns \in Nat
  BY DEF StoreInv, StoreTypes
<1>2. PICK start \in {Append(history, User)} \union
                     {Snipped(Append(history, User), k, Id(8)) : k \in SnipKeeps} :
         \E ready \in Shortened(start, 6) :
         \E h \in Completed(ready) \union Aborted(ready) :
            /\ Becomes(Trimmed(h),
                  broken \union (IF NoOrphan(start) THEN {} ELSE {"snip"})
                         \union (IF h \in Aborted(ready) THEN {"abort"} ELSE {}))
            /\ pc' \in {NextSave(Trimmed(h)), "envelope"}
  BY DEF Turn
<1>12. PICK ready \in Shortened(start, 6) :
         \E h \in Completed(ready) \union Aborted(ready) :
            /\ Becomes(Trimmed(h),
                  broken \union (IF NoOrphan(start) THEN {} ELSE {"snip"})
                         \union (IF h \in Aborted(ready) THEN {"abort"} ELSE {}))
            /\ pc' \in {NextSave(Trimmed(h)), "envelope"}
  BY <1>2
<1>13. PICK h \in Completed(ready) \union Aborted(ready) :
            /\ Becomes(Trimmed(h),
                  broken \union (IF NoOrphan(start) THEN {} ELSE {"snip"})
                         \union (IF h \in Aborted(ready) THEN {"abort"} ELSE {}))
            /\ pc' \in {NextSave(Trimmed(h)), "envelope"}
  BY <1>12
<1>. DEFINE causes == broken \union (IF NoOrphan(start) THEN {} ELSE {"snip"})
                             \union (IF h \in Aborted(ready) THEN {"abort"} ELSE {})
<1>3. pc = "idle" /\ turns' = turns + 1
  BY DEF Turn, Idle
<1>4. Sound(history, turns)
  <2>1. history \in Seq(Messages) /\ Was(history) /\ \A x \in lived : Sound(x, turns)
    BY <1>1 DEF StoreTypes, SourceInv
  <2>. QED
    BY <1>1, <2>1, PrefixSafe DEF Was
<1>5. /\ Sound(Trimmed(h), turns + 1) /\ Trimmed(h) # <<>>
      /\ NoOrphan(start) => NoOrphan(Trimmed(h))
      /\ NoOrphan(start) /\ NoDangling(history) /\ h \notin Aborted(ready)
            => NoDangling(Trimmed(h))
  BY <1>1, <1>4, TurnSafe
<1>6. "snip" \notin causes => NoOrphan(start)
  OBVIOUS
<1>7. causes = {} => NoOrphan(start) /\ h \notin Aborted(ready) /\ broken = {}
  OBVIOUS
<1>8. causes = {} => NoDangling(history)
  BY <1>1, <1>7 DEF WholeInv
<1>9. NextSave(Trimmed(h)) = "envelope" \/ NextSave(Trimmed(h)) = "append"
  BY DEF NextSave
<1>10. NextSave(Trimmed(h)) = "append" => IsPrefix(Read(ledger), Trimmed(h))
  BY DEF NextSave, Extends
<1>11. broken \subseteq causes /\ Becomes(Trimmed(h), causes)
  BY <1>13
<1>. HIDE DEF causes
<1>. QED
  BY <1>13, <1>3, <1>5, <1>6, <1>7, <1>8, <1>9, <1>10, <1>11, BecomesKeepsInv

LEMMA ClearKeepsInv == ASSUME StoreInv, Clear PROVE StoreInv'
<1>1. turns \in Nat
  BY DEF StoreInv, StoreTypes
<1>2. /\ pc = "idle" /\ turns' = turns + 1 /\ Becomes(<<>>, broken) /\ pc' = "envelope"
  BY DEF Clear, Idle
<1>3. Sound(<<>>, turns + 1) /\ NoOrphan(<<>>) /\ NoDangling(<<>>)
  BY <1>1, NothingIsSound
<1>. QED
  BY <1>2, <1>3, BecomesKeepsInv

LEMMA WasBefore ==
    ASSUME StoreInv, NEW x \in Seq(Messages), NEW y \in Seq(Messages), IsPrefix(x, y), Was(y)
    PROVE  Was(x)
<1>1. PICK h \in lived : IsPrefix(y, h)
  BY DEF Was
<1>2. h \in Seq(Messages)
  BY DEF StoreInv, SourceInv, Sound
<1>. QED
  BY <1>1, <1>2, PrefixFacts DEF Was

(* An append that succeeds. *)
LEMMA AppendKeepsInv ==
    ASSUME StoreInv, IsPrefix(Read(ledger), history),
           history # <<>> \/ envelope.messages = history,
           Saved, ledger' = Appended(ledger, Delta(history)), spoiled' = SpoiledByAppend,
           UNCHANGED envelope
    PROVE  StoreInv'
<1>1. StoreTypes /\ SaveInv /\ SourceInv /\ WholeInv
  BY DEF StoreInv
<1>2. /\ history \in Seq(Messages) /\ ledger \in Ledgers /\ (ledger.open => ledger.lines # <<>>)
      /\ Read(ledger) \in Seq(Messages) /\ ledger.open \in BOOLEAN
  BY <1>1, ReadType DEF StoreTypes, Ledgers
<1>3. /\ pc' = "idle" /\ acked' = history /\ history' = history /\ turns' = turns
      /\ lived' = lived /\ broken' = broken /\ envelope' = envelope
  BY DEF Saved
<1>4. /\ ledger' \in Ledgers /\ ~ledger'.open
      /\ ledger.open => IsPrefix(Read(ledger'), Read(ledger))
      /\ ~ledger.open /\ Clean(ledger.lines) => Read(ledger') = history /\ Clean(ledger'.lines)
      /\ ~ledger.open /\ ~Clean(ledger.lines) => Read(ledger') = Read(ledger)
  BY <1>2, AppendedReads DEF Delta
<1>5. StoreTypes'
  BY <1>1, <1>2, <1>3, <1>4 DEF StoreTypes
<1>6. /\ ledger.open => "glued" \in spoiled'
      /\ ~ledger.open => ("glued" \in spoiled' <=> "glued" \in spoiled)
  BY DEF SpoiledByAppend
<1>7. ASSUME "glued" \notin spoiled'
      PROVE  ~ledger.open /\ Read(ledger') = history /\ Clean(ledger'.lines)
  <2>1. ~ledger.open /\ "glued" \notin spoiled
    BY <1>6, <1>7
  <2>2. Clean(ledger.lines)
    BY <1>1, <2>1 DEF SaveInv, Sane
  <2>. QED
    BY <1>4, <2>1, <2>2
<1>8. SaveInv'
  <2>1. "glued" \notin spoiled' => Sane(ledger')
    BY <1>4, <1>7 DEF Sane
  <2>2. ASSUME spoiled' = {} PROVE Load' = acked'
    <3>1. Read(ledger') = history
      BY <1>7, <2>2
    <3>. QED
      BY <1>3, <1>5, <3>1, LoadFactsPrime
  <2>. QED
    BY <1>3, <2>1, <2>2 DEF SaveInv
<1>9. SourceInv'
  <2>1. Was(Read(ledger'))
    <3>1. CASE ledger.open
      BY <1>1, <1>2, <1>4, <3>1, ReadType, WasBefore DEF SourceInv
    <3>2. CASE ~ledger.open
      BY <1>1, <1>4, <3>2 DEF SourceInv
    <3>. QED
      BY <3>1, <3>2
  <2>. QED
    BY <1>1, <1>3, <2>1 DEF SourceInv, Was
<1>10. WholeInv'
  BY <1>1, <1>3, <1>4 DEF WholeInv
<1>. QED
  BY <1>5, <1>8, <1>9, <1>10 DEF StoreInv

(* An operation that throws. *)
LEMMA FaultKeepsInv ==
    ASSUME StoreInv, NEW next \in {"idle", "envelope"}, Fault(next), UNCHANGED disk,
           \/ pc \in {"append", "envelope"} /\ UNCHANGED <<acked, spoiled>>
           \/ spoiled' = spoiled \union {"behind"} /\ acked' = history
    PROVE  StoreInv'
<1>1. StoreTypes /\ SaveInv /\ SourceInv /\ WholeInv
  BY DEF StoreInv
<1>2. /\ pc' = next /\ history' = history /\ turns' = turns /\ lived' = lived /\ broken' = broken
      /\ envelope' = envelope /\ ledger' = ledger
  BY DEF Fault, disk
<1>3. Load' = Load
  BY <1>2 DEF Load
<1>4. StoreTypes'
  BY <1>1, <1>2 DEF StoreTypes
<1>5. SaveInv'
  BY <1>1, <1>2, <1>3 DEF SaveInv
<1>6. SourceInv'
  BY <1>1, <1>2 DEF SourceInv, Was
<1>7. WholeInv'
  BY <1>1, <1>2 DEF WholeInv
<1>. QED
  BY <1>4, <1>5, <1>6, <1>7 DEF StoreInv

LEMMA AppendDeltaKeepsInv == ASSUME StoreInv, AppendDelta PROVE StoreInv'
<1>1. pc = "append" /\ UNCHANGED envelope
  BY DEF AppendDelta
<1>2. IsPrefix(Read(ledger), history) /\ history # <<>>
  BY <1>1 DEF StoreInv, SaveInv
<1>3. CASE Saved /\ ledger' = Appended(ledger, Delta(history)) /\ spoiled' = SpoiledByAppend
  BY <1>1, <1>2, <1>3, AppendKeepsInv
<1>4. CASE Fault("envelope") /\ UNCHANGED <<ledger, acked, spoiled>>
  BY <1>1, <1>4, FaultKeepsInv DEF disk
<1>. QED
  BY <1>3, <1>4 DEF AppendDelta

LEMMA WriteEnvelopeKeepsInv == ASSUME StoreInv, WriteEnvelope PROVE StoreInv'
<1>1. pc = "envelope" /\ UNCHANGED <<ledger, acked, spoiled>>
  BY DEF WriteEnvelope
<1>2. StoreTypes /\ SaveInv /\ SourceInv /\ WholeInv
  BY DEF StoreInv
<1>3. CASE Fault("idle") /\ UNCHANGED envelope
  BY <1>1, <1>3, FaultKeepsInv DEF disk
<1>4. CASE /\ envelope' = Envelope(history)
           /\ pc' = "mirror"
           /\ UNCHANGED <<history, turns, faults, crashes, lived, broken>>
  <2>1. /\ envelope'.messages = history /\ history' = history /\ turns' = turns /\ lived' = lived
        /\ broken' = broken /\ ledger' = ledger /\ acked' = acked /\ spoiled' = spoiled
    BY <1>1, <1>4 DEF Envelope
  <2>2. StoreTypes'
    BY <1>2, <1>4, <2>1 DEF StoreTypes
  <2>3. SaveInv'
    <3>1. spoiled # {} \/ Load = acked
      BY <1>1, <1>2 DEF SaveInv
    <3>2. Read(ledger) = <<>> \/ Load = Read(ledger)
      BY <1>2, LoadFacts
    <3>3. spoiled' # {} \/ Read(ledger)' = <<>> \/ Read(ledger)' = acked'
      BY <2>1, <3>1, <3>2
    <3>4. "glued" \notin spoiled' => Sane(ledger)'
      BY <1>2, <2>1 DEF SaveInv
    <3>. QED
      BY <1>4, <2>1, <3>3, <3>4 DEF SaveInv
  <2>4. SourceInv'
    BY <1>2, <2>1 DEF SourceInv, Was
  <2>5. WholeInv'
    BY <1>2, <2>1 DEF WholeInv
  <2>. QED
    BY <2>2, <2>3, <2>4, <2>5 DEF StoreInv
<1>. QED
  BY <1>3, <1>4 DEF WriteEnvelope

LEMMA MirrorLedgerKeepsInv == ASSUME StoreInv, MirrorLedger PROVE StoreInv'
<1>1. pc = "mirror" /\ UNCHANGED envelope
  BY DEF MirrorLedger
<1>2. StoreTypes /\ SaveInv /\ SourceInv /\ WholeInv
  BY DEF StoreInv
<1>3. envelope.messages = history /\ history \in Seq(Messages)
  BY <1>1, <1>2 DEF SaveInv, StoreTypes
<1>4. CASE Saved /\ Extends(history, Read(ledger)) /\ ledger' = Appended(ledger, Delta(history))
              /\ spoiled' = SpoiledByAppend
  BY <1>1, <1>3, <1>4, AppendKeepsInv DEF Extends
<1>5. CASE Saved /\ ledger' = Rewritten(history) /\ spoiled' = {}
  <2>1. /\ pc' = "idle" /\ acked' = history /\ history' = history /\ turns' = turns
        /\ lived' = lived /\ broken' = broken /\ envelope' = envelope
    BY <1>1, <1>5 DEF Saved
  <2>2. /\ ledger' \in Ledgers /\ ~ledger'.open /\ Read(ledger') = history /\ Clean(ledger'.lines)
    BY <1>3, <1>5, RewrittenReads
  <2>3. StoreTypes'
    BY <1>2, <2>1, <2>2 DEF StoreTypes
  <2>4. SaveInv'
    <3>1. Load' = history
      BY <1>3, <2>1, <2>2, <2>3, LoadFactsPrime
    <3>2. Sane(ledger')
      BY <2>2 DEF Sane
    <3>. QED
      BY <2>1, <3>1, <3>2 DEF SaveInv
  <2>5. SourceInv'
    BY <1>2, <2>1, <2>2 DEF SourceInv, Was
  <2>6. WholeInv'
    BY <1>2, <2>1, <2>2 DEF WholeInv
  <2>. QED
    BY <2>3, <2>4, <2>5, <2>6 DEF StoreInv
<1>6. CASE Fault("idle") /\ acked' = history /\ spoiled' = spoiled \union {"behind"} /\ UNCHANGED ledger
  BY <1>1, <1>6, FaultKeepsInv DEF disk
<1>. QED
  BY <1>4, <1>5, <1>6 DEF MirrorLedger

(* A crash inside an append. *)
LEMMA TearKeepsInv ==
    ASSUME StoreInv, pc' = "down", IsPrefix(Read(ledger), history), pc \in {"append", "mirror"},
           ledger' \in PartlyAppended(ledger, Delta(history)),
           spoiled' = spoiled \union SpoiledByTear, "crash" \in broken', broken \subseteq broken',
           UNCHANGED <<history, envelope, turns, acked, lived>>
    PROVE  StoreInv'
<1>1. StoreTypes /\ SaveInv /\ SourceInv /\ WholeInv
  BY DEF StoreInv
<1>2. /\ history \in Seq(Messages) /\ ledger \in Ledgers /\ (ledger.open => ledger.lines # <<>>)
      /\ Read(ledger) \in Seq(Messages) /\ ledger.open \in BOOLEAN
  BY <1>1, ReadType DEF StoreTypes, Ledgers
<1>3. /\ history' = history /\ turns' = turns /\ lived' = lived /\ acked' = acked /\ envelope' = envelope
  OBVIOUS
<1>4. /\ ledger' \in Ledgers /\ ledger'.lines # <<>>
      /\ ledger.open \/ ~Clean(ledger.lines) => IsPrefix(Read(ledger'), Read(ledger))
      /\ ~ledger.open /\ Clean(ledger.lines) =>
            IsPrefix(Read(ledger), Read(ledger')) /\ IsPrefix(Read(ledger'), history) /\ Sane(ledger')
  BY <1>2, TornReads DEF Delta
<1>5. Read(ledger') \in Seq(Messages)
  BY <1>4, ReadType
<1>6. StoreTypes'
  BY <1>1, <1>3, <1>4 DEF StoreTypes
<1>7. "glued" \notin spoiled' => ~ledger.open /\ "glued" \notin spoiled
  BY DEF SpoiledByTear
<1>8. ASSUME "glued" \notin spoiled'
      PROVE  IsPrefix(Read(ledger), Read(ledger')) /\ IsPrefix(Read(ledger'), history) /\ Sane(ledger')
  <2>1. ~ledger.open /\ Clean(ledger.lines)
    BY <1>1, <1>7, <1>8 DEF SaveInv, Sane
  <2>. QED
    BY <1>4, <2>1
<1>9. ASSUME spoiled' = {} PROVE CrashLosesAtMostOneSave'
  <2>1. spoiled = {} /\ ~ledger.open /\ (Read(ledger) # <<>> \/ acked = <<>>)
    BY <1>9 DEF SpoiledByTear
  <2>2. IsPrefix(Read(ledger), Read(ledger')) /\ IsPrefix(Read(ledger'), history)
    BY <1>8, <1>9
  <2>3. CASE Read(ledger) # <<>>
    <3>1. Read(ledger) = acked
      BY <1>1, <2>1, <2>3, LoadFacts DEF SaveInv
    <3>2. Read(ledger') # <<>>
      <4>. SUFFICES ASSUME Read(ledger') = <<>> PROVE FALSE
        OBVIOUS
      <4>1. Len(Read(ledger)) <= Len(Read(ledger'))
        BY <2>2 DEF IsPrefix
      <4>2. Len(Read(ledger')) = 0 /\ Len(Read(ledger)) \in Nat
        BY <1>2
      <4>3. Len(Read(ledger)) = 0
        BY <4>1, <4>2
      <4>. QED
        BY <1>2, <2>3, <4>3
    <3>3. Load' = Read(ledger')
      BY <1>6, <3>2, LoadFactsPrime
    <3>. QED
      BY <1>3, <2>2, <3>1, <3>3 DEF CrashLosesAtMostOneSave
  <2>4. CASE Read(ledger) = <<>> /\ acked = <<>>
    <3>1. CASE Read(ledger') # <<>>
      <4>1. Load' = Read(ledger') /\ IsPrefix(<<>>, Read(ledger'))
        BY <1>5, <1>6, <3>1, LoadFactsPrime, PrefixFacts
      <4>. QED
        BY <1>3, <2>2, <2>4, <4>1 DEF CrashLosesAtMostOneSave
    <3>2. CASE Read(ledger') = <<>>
      <4>1. Load' = envelope.messages
        BY <1>3, <1>6, <3>2, LoadFactsPrime
      <4>2. CASE pc = "append"
        <5>1. Load = envelope.messages /\ Load = acked
          BY <1>1, <2>1, <2>4, <4>2, LoadFacts DEF SaveInv
        <5>. QED
          BY <1>3, <4>1, <5>1 DEF CrashLosesAtMostOneSave
      <4>3. CASE pc = "mirror"
        <5>1. envelope.messages = history
          BY <1>1, <4>3 DEF SaveInv
        <5>. QED
          BY <1>3, <4>1, <5>1 DEF CrashLosesAtMostOneSave
      <4>. QED
        BY <4>2, <4>3
    <3>. QED
      BY <3>1, <3>2
  <2>. QED
    BY <2>1, <2>3, <2>4
<1>10. CrashLosesAtMostOneSave'
  <2>1. spoiled' # {} => CrashLosesAtMostOneSave'
    BY DEF CrashLosesAtMostOneSave
  <2>. QED
    BY <1>9, <2>1
<1>11. SaveInv'
  BY <1>8, <1>10 DEF SaveInv
<1>12. SourceInv'
  <2>1. Was(Read(ledger'))
    <3>1. CASE ledger.open \/ ~Clean(ledger.lines)
      BY <1>1, <1>2, <1>4, <1>5, <3>1, WasBefore DEF SourceInv
    <3>2. CASE ~ledger.open /\ Clean(ledger.lines)
      BY <1>1, <1>2, <1>4, <1>5, <3>2, WasBefore DEF SourceInv
    <3>. QED
      BY <3>1, <3>2
  <2>. QED
    BY <1>1, <1>3, <2>1 DEF SourceInv, Was
<1>13. WholeInv'
  BY DEF WholeInv
<1>. QED
  BY <1>6, <1>11, <1>12, <1>13 DEF StoreInv

LEMMA CrashKeepsInv == ASSUME StoreInv, Crash PROVE StoreInv'
<1>1. /\ pc # "down" /\ pc' = "down" /\ UNCHANGED <<history, envelope, turns, acked, lived>>
  BY DEF Crash
<1>2. StoreTypes /\ SaveInv /\ SourceInv /\ WholeInv
  BY DEF StoreInv
<1>3. CASE UNCHANGED <<ledger, spoiled, broken>>
  <2>1. /\ history' = history /\ turns' = turns /\ lived' = lived /\ broken' = broken
        /\ envelope' = envelope /\ ledger' = ledger /\ acked' = acked /\ spoiled' = spoiled
    BY <1>1, <1>3
  <2>2. Load' = Load
    BY <2>1 DEF Load
  <2>3. StoreTypes'
    BY <1>1, <1>2, <2>1 DEF StoreTypes
  <2>4. spoiled # {} \/ Load = acked \/ Load = history
    <3>1. CASE pc = "mirror"
      BY <1>2, <3>1, LoadFacts DEF SaveInv
    <3>2. CASE pc # "mirror"
      <4>1. pc \in {"idle", "append", "envelope"}
        BY <1>1, <1>2, <3>2 DEF StoreTypes
      <4>. QED
        BY <1>2, <4>1 DEF SaveInv
    <3>. QED
      BY <3>1, <3>2
  <2>5. CrashLosesAtMostOneSave'
    BY <1>1, <2>1, <2>2, <2>4 DEF CrashLosesAtMostOneSave
  <2>6. SaveInv'
    BY <1>1, <1>2, <2>1, <2>5 DEF SaveInv
  <2>7. SourceInv' /\ WholeInv'
    BY <1>2, <2>1 DEF SourceInv, Was, WholeInv
  <2>. QED
    BY <2>3, <2>6, <2>7 DEF StoreInv
<1>4. CASE /\ \/ pc = "append"
              \/ pc = "mirror" /\ Extends(history, Read(ledger))
           /\ ledger' \in PartlyAppended(ledger, Delta(history))
           /\ spoiled' = spoiled \union SpoiledByTear
           /\ broken' = broken \union {"crash"}
  <2>1. IsPrefix(Read(ledger), history) /\ pc \in {"append", "mirror"}
    BY <1>2, <1>4 DEF SaveInv, Extends
  <2>. QED
    BY <1>1, <1>4, <2>1, TearKeepsInv
<1>. QED
  BY <1>3, <1>4 DEF Crash

LEMMA RestartKeepsInv == ASSUME StoreInv, Restart PROVE StoreInv'
<1>1. /\ pc' = "idle" /\ history' = Load /\ acked' = Load /\ spoiled' = spoiled \ {"first"}
      /\ ledger' = ledger /\ envelope' = envelope /\ turns' = turns /\ lived' = lived
      /\ broken' = broken
  BY DEF Restart, disk
<1>2. StoreTypes /\ SaveInv /\ SourceInv /\ WholeInv
  BY DEF StoreInv
<1>3. Load \in Seq(Messages) /\ (Load = Read(ledger) \/ Load = envelope.messages)
  BY <1>2, LoadFacts
<1>4. Load' = Load
  BY <1>1 DEF Load
<1>5. StoreTypes'
  BY <1>1, <1>2, <1>3 DEF StoreTypes
<1>6. SaveInv'
  BY <1>1, <1>2, <1>4 DEF SaveInv
<1>7. SourceInv'
  BY <1>1, <1>2, <1>3 DEF SourceInv, Was
<1>8. WholeInv'
  BY <1>1, <1>2, <1>3 DEF WholeInv
<1>. QED
  BY <1>5, <1>6, <1>7, <1>8 DEF StoreInv

(* The inductive invariant. *)
THEOREM StoreInvCorrect == StoreSpec => []StoreInv
<1>1. StoreInv /\ [StoreNext]_storeVars => StoreInv'
  <2>. SUFFICES ASSUME StoreInv, [StoreNext]_storeVars PROVE StoreInv'
    OBVIOUS
  <2>1. CASE UNCHANGED storeVars
    <3>1. /\ history' = history /\ envelope' = envelope /\ ledger' = ledger /\ pc' = pc
          /\ turns' = turns /\ acked' = acked /\ lived' = lived /\ spoiled' = spoiled /\ broken' = broken
      BY <2>1 DEF storeVars
    <3>2. Load' = Load
      BY <3>1 DEF Load
    <3>3. StoreTypes' /\ SourceInv' /\ WholeInv'
      BY <3>1 DEF StoreInv, StoreTypes, SourceInv, Was, WholeInv
    <3>4. CrashLosesAtMostOneSave' <=> CrashLosesAtMostOneSave
      BY <3>1, <3>2 DEF CrashLosesAtMostOneSave
    <3>5. SaveInv'
      BY <3>1, <3>2, <3>4 DEF StoreInv, SaveInv
    <3>. QED
      BY <3>3, <3>5 DEF StoreInv
  <2>. QED
    BY <2>1, TurnKeepsInv, ClearKeepsInv, AppendDeltaKeepsInv, WriteEnvelopeKeepsInv,
       MirrorLedgerKeepsInv, CrashKeepsInv, RestartKeepsInv DEF StoreNext
<1>. QED
  BY <1>1, StoreInitInv, PTL DEF StoreSpec

-----------------------------------------------------------------------------
(* A crash costs at most the save under way, with the three exceptions the *)
(* property names.                                                         *)
THEOREM CrashesCostOneSave == StoreSpec => []CrashLosesAtMostOneSave
<1>1. StoreInv => CrashLosesAtMostOneSave
  <2>. SUFFICES ASSUME StoreInv PROVE CrashLosesAtMostOneSave
    OBVIOUS
  <2>1. StoreTypes /\ SaveInv
    BY DEF StoreInv
  <2>2. CASE pc = "mirror"
    BY <2>1, <2>2, LoadFacts DEF SaveInv, CrashLosesAtMostOneSave
  <2>3. CASE pc # "mirror"
    BY <2>1, <2>3 DEF SaveInv, StoreTypes, CrashLosesAtMostOneSave
  <2>. QED
    BY <2>2, <2>3
<1>. QED
  BY <1>1, StoreInvCorrect, PTL

(* What a load returns is the beginning of a conversation there has been,  *)
(* whatever was torn, glued or left behind.                                *)
THEOREM LoadsAreReal == StoreSpec => []LoadsWhatWas
<1>1. StoreInv => LoadsWhatWas
  BY LoadFacts DEF StoreInv, SourceInv, Was, LoadsWhatWas
<1>. QED
  BY <1>1, StoreInvCorrect, PTL

(* Summaries and trims keep calls and rows together, over any number of    *)
(* turns, crashes and restarts.                                            *)
THEOREM CallsStayWithTheirRows == StoreSpec => []ShorteningIsSafe
<1>1. StoreInv => ShorteningIsSafe
  <2>. SUFFICES ASSUME StoreInv PROVE ShorteningIsSafe
    OBVIOUS
  <2>1. "snip" \notin broken => NoOrphan(history)
    <3>. SUFFICES ASSUME "snip" \notin broken PROVE NoOrphan(history)
      OBVIOUS
    <3>1. PICK h \in lived : IsPrefix(history, h)
      BY DEF StoreInv, SourceInv, Was
    <3>2. Sound(h, turns) /\ NoOrphan(h) /\ turns \in Nat /\ history \in Seq(Messages)
      BY DEF StoreInv, SourceInv, StoreTypes
    <3>. QED
      BY <3>1, <3>2, PrefixSafe
  <2>2. broken = {} => NoDangling(history)
    BY DEF StoreInv, WholeInv
  <2>. QED
    BY <2>1, <2>2 DEF ShorteningIsSafe
<1>. QED
  BY <1>1, StoreInvCorrect, PTL

(* A fork of what a load returns is consistent, and of a consistent one it *)
(* keeps all that was asked for.                                           *)
THEOREM ForksAreWhole == StoreSpec => []ForkKeepsWhatIsAsked
<1>1. StoreInv => ForkKeepsWhatIsAsked
  <2>. SUFFICES ASSUME StoreInv, NEW requested \in 0..Len(Load)
                PROVE  LET cut == ForkCut(Load, requested) IN
                          /\ Consistent(Take(Load, cut))
                          /\ Consistent(Load) => cut >= requested
    BY DEF ForkKeepsWhatIsAsked
  <2>1. PICK h \in lived : IsPrefix(Load, h)
    BY LoadFacts DEF StoreInv, SourceInv, Was
  <2>2. Sound(h, turns) /\ turns \in Nat /\ Load \in Seq(Messages)
    BY LoadFacts DEF StoreInv, SourceInv, StoreTypes
  <2>3. Sound(Load, turns)
    BY <2>1, <2>2, PrefixSafe
  <2>. QED
    BY <2>2, <2>3, ForkSafe
<1>. QED
  BY <1>1, StoreInvCorrect, PTL
=============================================================================
