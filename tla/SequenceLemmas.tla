---------------------------- MODULE SequenceLemmas ----------------------------
(***************************************************************************)
(* Facts that the proofs about queues, streams and documents share: a      *)
(* sequence that is cut in two, one that counts 1, 2, ..., and induction   *)
(* and recursion over the natural numbers.                                 *)
(***************************************************************************)
EXTENDS Integers, Sequences, SequenceTheorems, WellFoundedInduction, TLAPS

\* The two parts of a sequence: their types, lengths and items.
LEMMA SubSeqType ==
  ASSUME NEW S, NEW s \in Seq(S), NEW n \in 0..Len(s)
  PROVE  /\ SubSeq(s, 1, n) \in Seq(S) /\ Len(SubSeq(s, 1, n)) = n
         /\ SubSeq(s, n + 1, Len(s)) \in Seq(S)
         /\ Len(SubSeq(s, n + 1, Len(s))) = Len(s) - n
         /\ \A i \in 1..n : SubSeq(s, 1, n)[i] = s[i]
         /\ \A i \in 1..Len(s) - n : SubSeq(s, n + 1, Len(s))[i] = s[n + i]
<1>1. Len(s) \in Nat /\ \A i \in 1..Len(s) : s[i] \in S
  BY LenProperties, ElementOfSeq
<1>2. \A i \in 1..n : s[i] \in S
  BY <1>1
<1>3. \A i \in n + 1..Len(s) : s[i] \in S
  BY <1>1
<1>4. /\ SubSeq(s, 1, n) \in Seq(S) /\ Len(SubSeq(s, 1, n)) = IF 1 <= n THEN n - 1 + 1 ELSE 0
      /\ \A i \in 1..n - 1 + 1 : SubSeq(s, 1, n)[i] = s[1 + i - 1]
  BY <1>1, <1>2, SubSeqProperties
<1>5. /\ SubSeq(s, n + 1, Len(s)) \in Seq(S)
      /\ Len(SubSeq(s, n + 1, Len(s))) =
           IF n + 1 <= Len(s) THEN Len(s) - (n + 1) + 1 ELSE 0
      /\ \A i \in 1..Len(s) - (n + 1) + 1 : SubSeq(s, n + 1, Len(s))[i] = s[n + 1 + i - 1]
  BY <1>1, <1>3, SubSeqProperties
<1>6. \A i \in 1..n : SubSeq(s, 1, n)[i] = s[i]
  BY <1>1, <1>4
<1>7. \A i \in 1..Len(s) - n : SubSeq(s, n + 1, Len(s))[i] = s[n + i]
  BY <1>1, <1>5
<1>. QED  BY <1>1, <1>4, <1>5, <1>6, <1>7

\* A sequence is its two parts, put together again.
LEMMA SplitAt ==
  ASSUME NEW S, NEW s \in Seq(S), NEW n \in 0..Len(s)
  PROVE  s = SubSeq(s, 1, n) \o SubSeq(s, n + 1, Len(s))
<1>1. Len(s) \in Nat
  BY LenProperties
<1>2. 1 \in 1..Len(s) + 1 /\ n \in 1 - 1..Len(s) /\ Len(s) \in n..Len(s)
  BY <1>1
<1>3. SubSeq(s, 1, n) \o SubSeq(s, n + 1, Len(s)) = SubSeq(s, 1, Len(s))
  BY <1>2, ConcatAdjacentSubSeq
<1>. QED  BY <1>3, SubSeqFull

\* What is left when an appended batch is cut off again.
LEMMA UndoConcat ==
  ASSUME NEW S, NEW a \in Seq(S), NEW b \in Seq(S)
  PROVE  SubSeq(a \o b, 1, Len(a \o b) - Len(b)) = a
BY SubSeqOfConcat1, SubSeqFull, ConcatProperties, LenProperties

\* The two parts of what was put together.
LEMMA PartsOfConcat ==
  ASSUME NEW S, NEW a \in Seq(S), NEW b \in Seq(S)
  PROVE  /\ SubSeq(a \o b, 1, Len(a)) = a
         /\ SubSeq(a \o b, Len(a) + 1, Len(a \o b)) = b
<1>. DEFINE s == a \o b
            p == SubSeq(s, 1, Len(a))
            q == SubSeq(s, Len(a) + 1, Len(s))
<1>1. /\ s \in Seq(S) /\ Len(s) = Len(a) + Len(b) /\ Len(a) \in Nat /\ Len(b) \in Nat
      /\ \A i \in 1..Len(a) + Len(b) : s[i] = IF i <= Len(a) THEN a[i] ELSE b[i - Len(a)]
  BY ConcatProperties, LenProperties
<1>. HIDE DEF s
<1>2. Len(a) \in 0..Len(s)
  BY <1>1
<1>3. /\ p \in Seq(S) /\ Len(p) = Len(a) /\ q \in Seq(S) /\ Len(q) = Len(s) - Len(a)
      /\ \A i \in 1..Len(a) : p[i] = s[i]
      /\ \A i \in 1..Len(s) - Len(a) : q[i] = s[Len(a) + i]
  BY <1>1, <1>2, SubSeqType
<1>. HIDE DEF p, q
<1>4. p = a
  <2>1. \A i \in 1..Len(p) : p[i] = a[i]
    BY <1>1, <1>3
  <2>. QED  BY <1>3, <2>1, SeqEqual
<1>5. q = b
  <2>1. Len(q) = Len(b)
    BY <1>1, <1>3
  <2>2. \A i \in 1..Len(q) : q[i] = b[i]
    <3>1. TAKE i \in 1..Len(q)
    <3>2. i \in 1..Len(s) - Len(a) /\ Len(a) + i \in 1..Len(a) + Len(b)
          /\ ~(Len(a) + i <= Len(a)) /\ (Len(a) + i) - Len(a) = i
      BY <1>1, <2>1, <3>1
    <3>. QED  BY <1>1, <1>3, <3>2
  <2>. QED  BY <1>3, <2>1, <2>2, SeqEqual
<1>. QED  BY <1>4, <1>5 DEF p, q, s

-----------------------------------------------------------------------------
\* Two sequences that, one behind the other, are 1, 2, ..., m.
Counts(r, c, m) ==
  /\ Len(r) + Len(c) = m
  /\ \A i \in 1..Len(r) : r[i] = i
  /\ \A i \in 1..Len(c) : c[i] = Len(r) + i

LEMMA CountsConcat ==
  ASSUME NEW r \in Seq(Nat), NEW c \in Seq(Nat), NEW m, Counts(r, c, m)
  PROVE  r \o c = [i \in 1..m |-> i]
<1>1. Len(r) \in Nat /\ Len(c) \in Nat /\ m = Len(r) + Len(c)
  BY LenProperties DEF Counts
<1>2. /\ r \o c \in Seq(Nat) /\ Len(r \o c) = m
      /\ \A i \in 1..m : (r \o c)[i] = IF i <= Len(r) THEN r[i] ELSE c[i - Len(r)]
  BY <1>1, ConcatProperties
<1>3. \A i \in 1..m : (r \o c)[i] = i
  BY <1>1, <1>2 DEF Counts
<1>4. r \o c \in [1..m -> Nat]
  BY <1>2, LenProperties
<1>. QED  BY <1>3, <1>4

\* The beginning of the second may go over to the first.
LEMMA CountsMove ==
  ASSUME NEW r \in Seq(Nat), NEW c \in Seq(Nat), NEW m, NEW n \in 0..Len(c), Counts(r, c, m)
  PROVE  /\ r \o SubSeq(c, 1, n) \in Seq(Nat) /\ SubSeq(c, n + 1, Len(c)) \in Seq(Nat)
         /\ Len(r \o SubSeq(c, 1, n)) = Len(r) + n /\ Len(SubSeq(c, n + 1, Len(c))) = Len(c) - n
         /\ Counts(r \o SubSeq(c, 1, n), SubSeq(c, n + 1, Len(c)), m)
<1>. DEFINE p == SubSeq(c, 1, n)
            q == SubSeq(c, n + 1, Len(c))
<1>1. Len(r) \in Nat /\ Len(c) \in Nat /\ m = Len(r) + Len(c) /\ n \in Nat
  BY LenProperties DEF Counts
<1>2. p \in Seq(Nat) /\ Len(p) = n /\ q \in Seq(Nat) /\ Len(q) = Len(c) - n
  BY SubSeqType
<1>3. (\A i \in 1..n : p[i] = c[i]) /\ (\A i \in 1..Len(c) - n : q[i] = c[n + i])
  BY <1>1, SubSeqType
<1>4. /\ r \o p \in Seq(Nat) /\ Len(r \o p) = Len(r) + n
      /\ \A i \in 1..Len(r) + n : (r \o p)[i] = IF i <= Len(r) THEN r[i] ELSE p[i - Len(r)]
  <2>. HIDE DEF p
  <2>. QED  BY <1>2, ConcatProperties
<1>. HIDE DEF p, q
<1>5. \A i \in 1..Len(r \o p) : (r \o p)[i] = i
  <2>1. TAKE i \in 1..Len(r \o p)
  <2>2. CASE i <= Len(r)
    BY <1>1, <1>4, <2>2 DEF Counts
  <2>3. CASE i > Len(r)
    <3>1. i - Len(r) \in 1..n /\ (r \o p)[i] = p[i - Len(r)]
      BY <1>1, <1>4, <2>3
    <3>2. p[i - Len(r)] = c[i - Len(r)] /\ c[i - Len(r)] = Len(r) + (i - Len(r))
      BY <1>1, <1>3, <3>1 DEF Counts
    <3>. QED  BY <1>1, <1>4, <3>1, <3>2
  <2>. QED  BY <1>1, <1>4, <2>2, <2>3
<1>6. \A i \in 1..Len(q) : q[i] = Len(r \o p) + i
  BY <1>1, <1>2, <1>3, <1>4 DEF Counts
<1>7. Counts(r \o p, q, m)
  BY <1>1, <1>2, <1>4, <1>5, <1>6 DEF Counts
<1>. QED  BY <1>2, <1>4, <1>7 DEF p, q

\* The next n numbers may be appended to the second.
LEMMA CountsGrow ==
  ASSUME NEW r \in Seq(Nat), NEW c \in Seq(Nat), NEW m \in Nat, NEW n \in Nat, Counts(r, c, m)
  PROVE  /\ c \o [i \in 1..n |-> m + i] \in Seq(Nat)
         /\ Counts(r, c \o [i \in 1..n |-> m + i], m + n)
<1>. DEFINE d == [i \in 1..n |-> m + i]
<1>1. d \in Seq(Nat) /\ Len(d) = n /\ \A i \in 1..n : d[i] = m + i
  OBVIOUS
<1>. HIDE DEF d
<1>2. Len(r) \in Nat /\ Len(c) \in Nat /\ m = Len(r) + Len(c)
  BY LenProperties DEF Counts
<1>3. /\ c \o d \in Seq(Nat) /\ Len(c \o d) = Len(c) + n
      /\ \A i \in 1..Len(c) + n : (c \o d)[i] = IF i <= Len(c) THEN c[i] ELSE d[i - Len(c)]
  BY <1>1, ConcatProperties
<1>4. \A i \in 1..Len(c \o d) : (c \o d)[i] = Len(r) + i
  BY <1>1, <1>2, <1>3 DEF Counts
<1>5. Counts(r, c \o d, m + n)
  BY <1>2, <1>3, <1>4 DEF Counts
<1>. QED  BY <1>3, <1>5 DEF d

-----------------------------------------------------------------------------
\* The order of the natural numbers is well-founded: each set of them that is not
\* empty has a least element.
LEMMA LessIsWellFounded == IsWellFoundedOn({ss \in Nat \X Nat : ss[1] < ss[2]}, Nat)
BY NatLessThanWellFounded DEF OpToRel

LEMMA Least ==
  ASSUME NEW S \in SUBSET Nat, S # {}
  PROVE  \E n \in S : \A k \in S : n <= k
<1>1. PICK n \in S : \A k \in S : <<k, n>> \notin {ss \in Nat \X Nat : ss[1] < ss[2]}
  BY LessIsWellFounded, WFMin
<1>2. \A k \in S : n <= k
  <2>. TAKE k \in S
  <2>1. k \in Nat /\ n \in Nat
    OBVIOUS
  <2>2. <<k, n>> \in {ss \in Nat \X Nat : ss[1] < ss[2]} <=> k < n
    BY <2>1
  <2>. QED  BY <1>1, <2>1, <2>2
<1>. QED  BY <1>2

\* Induction, for the numbers with a property as a set.
LEMMA Induct ==
  ASSUME NEW S, 0 \in S, \A n \in Nat : n \in S => n + 1 \in S
  PROVE  Nat \subseteq S
<1>. SUFFICES ASSUME Nat \ S # {} PROVE FALSE
  OBVIOUS
<1>1. PICK n \in Nat \ S : \A k \in Nat \ S : n <= k
  <2>. Nat \ S \in SUBSET Nat
    OBVIOUS
  <2>. QED  BY Least
<1>2. n - 1 \in Nat /\ n - 1 \in S
  BY <1>1
<1>. QED  BY <1>1, <1>2

\* The greatest element of a set that is bounded.
LEMMA Greatest ==
  ASSUME NEW S \in SUBSET Nat, S # {}, NEW b \in Nat, \A k \in S : k <= b
  PROVE  \E n \in S : \A k \in S : k <= n
<1>. DEFINE U == {u \in Nat : \A k \in S : k <= u}
<1>1. PICK u \in U : \A k \in U : u <= k
  <2>. U \in SUBSET Nat /\ b \in U
    OBVIOUS
  <2>. QED  BY Least
<1>2. CASE u \in S
  BY <1>1, <1>2
<1>3. CASE u \notin S
  <2>1. u # 0
    <3>1. PICK k \in S : TRUE
      OBVIOUS
    <3>. QED  BY <1>1, <1>3, <3>1
  <2>2. u - 1 \in U
    BY <1>1, <1>3, <2>1
  <2>. QED  BY <1>1, <2>2
<1>. QED  BY <1>2, <1>3

\* A function can be defined by its first value and a step from each to the next.
Recursive(g, D, a, s) == g \in [Nat -> D] /\ g[0] = a /\ \A i \in Nat : g[i + 1] = s[<<i, g[i]>>]

LEMMA Recursion ==
  ASSUME NEW D, NEW a \in D, NEW s \in [Nat \X D -> D]
  PROVE  \E g : Recursive(g, D, a, s)
<1>. DEFINE Upto(k) == {g \in [0..k -> D] : g[0] = a /\ \A i \in 0..k - 1 : g[i + 1] = s[<<i, g[i]>>]}
            K == {k \in Nat : \E g \in Upto(k) : TRUE}
            at == [k \in Nat |-> CHOOSE g \in Upto(k) : TRUE]
            f == [k \in Nat |-> at[k][k]]
<1>1. Nat \subseteq K
  <2>1. 0 \in K
    <3>1. [i \in 0..0 |-> a] \in Upto(0)
      OBVIOUS
    <3>. QED  BY <3>1
  <2>2. ASSUME NEW k \in Nat, k \in K PROVE k + 1 \in K
    <3>1. PICK g \in Upto(k) : TRUE
      BY <2>2
    <3>. DEFINE h == [i \in 0..k + 1 |-> IF i = k + 1 THEN s[<<k, g[k]>>] ELSE g[i]]
    <3>2. g[k] \in D /\ <<k, g[k]>> \in Nat \X D
      BY <3>1
    <3>3. h \in [0..k + 1 -> D]
      BY <3>1, <3>2
    <3>4. h[0] = a
      BY <3>1
    <3>5. ASSUME NEW i \in 0..k PROVE h[i + 1] = s[<<i, h[i]>>]
      <4>1. CASE i = k
        <5>1. h[k + 1] = s[<<k, g[k]>>] /\ h[k] = g[k]
          OBVIOUS
        <5>. QED  BY <5>1, <4>1
      <4>2. CASE i # k
        <5>1. i \in 0..k - 1 /\ i + 1 \in 0..k /\ i + 1 # k + 1 /\ i # k + 1
          BY <4>2
        <5>2. g[i + 1] = s[<<i, g[i]>>]
          BY <5>1, <3>1
        <5>3. h[i + 1] = g[i + 1] /\ h[i] = g[i]
          BY <5>1
        <5>. QED  BY <5>2, <5>3
      <4>. QED  BY <4>1, <4>2
    <3>6. k + 1 - 1 = k
      OBVIOUS
    <3>7. h \in Upto(k + 1)
      <4>. HIDE DEF h
      <4>1. \A i \in 0..k + 1 - 1 : h[i + 1] = s[<<i, h[i]>>]
        BY <3>5, <3>6
      <4>. QED  BY <3>3, <3>4, <4>1
    <3>. HIDE DEF h, Upto
    <3>. QED  BY <3>7
  <2>. HIDE DEF K
  <2>. QED  BY <2>1, <2>2, Induct
<1>2. ASSUME NEW k \in Nat PROVE at[k] \in Upto(k)
  <2>. k \in K
    BY <1>1
  <2>. QED  OBVIOUS
<1>3. ASSUME NEW k \in Nat, NEW l \in Nat, k <= l, NEW g \in Upto(k), NEW h \in Upto(l)
      PROVE  \A i \in 0..k : g[i] = h[i]
  <2>. DEFINE I == {i \in Nat : i <= k => g[i] = h[i]}
  <2>1. 0 \in I
    BY <1>3
  <2>2. ASSUME NEW i \in Nat, i \in I PROVE i + 1 \in I
    <3>. SUFFICES ASSUME i + 1 <= k PROVE g[i + 1] = h[i + 1]
      OBVIOUS
    <3>1. i \in 0..k - 1 /\ i \in 0..l - 1 /\ g[i] = h[i]
      BY <1>3, <2>2
    <3>. QED  BY <3>1
  <2>3. Nat \subseteq I
    <3>. HIDE DEF I
    <3>. QED  BY <2>1, <2>2, Induct
  <2>. QED  BY <2>3
<1>4. f \in [Nat -> D]
  BY <1>2
<1>5. f[0] = a
  BY <1>2
<1>6. ASSUME NEW i \in Nat PROVE f[i + 1] = s[<<i, f[i]>>]
  <2>1. at[i] \in Upto(i) /\ at[i + 1] \in Upto(i + 1)
    <3>. HIDE DEF at, Upto
    <3>. i + 1 \in Nat
      OBVIOUS
    <3>. QED  BY <1>2
  <2>2. at[i][i] = at[i + 1][i]
    <3>. HIDE DEF at, Upto
    <3>. QED  BY <1>3, <2>1
  <2>3. at[i + 1][i + 1] = s[<<i, at[i + 1][i]>>]
    <3>. HIDE DEF at
    <3>. i \in 0..i + 1 - 1
      OBVIOUS
    <3>. QED  BY <2>1
  <2>4. f[i] = at[i][i] /\ f[i + 1] = at[i + 1][i + 1]
    <3>. HIDE DEF at
    <3>. i + 1 \in Nat
      OBVIOUS
    <3>. QED  OBVIOUS
  <2>. HIDE DEF at, f
  <2>. QED  BY <2>2, <2>3, <2>4
<1>. HIDE DEF f
<1>7. Recursive(f, D, a, s)
  BY <1>4, <1>5, <1>6 DEF Recursive
<1>. QED  BY <1>7

=============================================================================
