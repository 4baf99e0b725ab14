----------------------------- MODULE ListLemmas -----------------------------
(***************************************************************************)
(* Facts about Loop and Without (Lists) and about sequences into which an   *)
(* element is put or from which one is taken.                               *)
(*                                                                          *)
(* A Loop is a recursive function in a LET, which the provers know only by  *)
(* its equation: FoldExists shows that a function with such an equation     *)
(* exists, for steps that stay inside given sets D[n], and Carried that     *)
(* every state of a loop has the invariant of the loop.                     *)
(***************************************************************************)
EXTENDS Lists, SequencesExt, FiniteSets, SequenceTheorems, FiniteSetTheorems,
        WellFoundedInduction, TLAPS

\* A set of natural numbers with a member has a smallest one.
LEMMA Least == ASSUME NEW B \in SUBSET Nat, B # {} PROVE \E n \in B : \A m \in B : n <= m
<1>1. PICK n \in B : \A m \in B : ~(<<m, n>> \in OpToRel(<, Nat))
  BY WFMin, NatLessThanWellFounded
<1>2. ASSUME NEW m \in B, m < n PROVE FALSE
  <2>1. <<m, n>> \in {ss \in Nat \X Nat : ss[1] < ss[2]}
    BY <1>2
  <2>2. <<m, n>> \in OpToRel(<, Nat)
    BY <2>1, Zenon DEF OpToRel
  <2> QED BY <1>1, <2>2
<1> QED BY <1>2

\* The invariant of a loop holds after each turn: induction over its turns.
LEMMA Carried ==
  ASSUME NEW f, NEW L \in Nat, NEW D, f[0] \in D[0],
         \A n \in 1 .. L : f[n - 1] \in D[n - 1] => f[n] \in D[n]
  PROVE  \A n \in 0 .. L : f[n] \in D[n]
<1> SUFFICES ASSUME NEW k \in 0 .. L, f[k] \notin D[k] PROVE FALSE
  OBVIOUS
<1> DEFINE B == {n \in 0 .. L : f[n] \notin D[n]}
<1>1. PICK n \in B : \A m \in B : n <= m
  <2>1. B \in SUBSET Nat /\ B # {}
    OBVIOUS
  <2> HIDE DEF B
  <2> QED BY <2>1, Least
<1>2. n # 0 /\ n \in 1 .. L /\ n - 1 \in 0 .. L /\ n - 1 \notin B
  BY <1>1
<1> QED
  BY <1>1, <1>2

\* The steps of a loop of L turns stay inside D[0], ..., D[L], all within R.
LoopSteps(L, R, D, base, h) ==
  /\ L \in Nat
  /\ \A n \in 0 .. L : D[n] \subseteq R
  /\ base \in D[0]
  /\ \A n \in 1 .. L : \A x \in D[n - 1] : h[<<n, x>>] \in D[n]

\* There is a function that records the states of a loop.
LEMMA FoldExists ==
  ASSUME NEW L, NEW R, NEW D, NEW base, NEW h, LoopSteps(L, R, D, base, h)
  PROVE  \E f \in [0 .. L -> R] :
            /\ f[0] = base /\ \A n \in 1 .. L : f[n] = h[<<n, f[n - 1]>>]
            /\ \A n \in 0 .. L : f[n] \in D[n]
<1> USE DEF LoopSteps
<1> DEFINE Good(f, k) == /\ f \in [0 .. k -> R]
                         /\ f[0] = base /\ \A n \in 1 .. k : f[n] = h[<<n, f[n - 1]>>]
                         /\ \A n \in 0 .. k : f[n] \in D[n]
           B == {k \in 0 .. L : ~\E f : Good(f, k)}
<1>1. B = {}
  <2> SUFFICES ASSUME B # {} PROVE FALSE
    OBVIOUS
  <2>0. PICK n \in B : \A m \in B : n <= m
    <3>1. B \in SUBSET Nat
      OBVIOUS
    <3> HIDE DEF B
    <3> QED BY <3>1, Least
  <2>1. CASE n = 0
    <3> DEFINE f == [i \in 0 .. 0 |-> base]
    <3>0. base \in R
      OBVIOUS
    <3>1. Good(f, 0)
      BY <3>0
    <3> QED BY <2>0, <2>1, <3>1
  <2>2. CASE n # 0
    <3>1. n \in 1 .. L /\ n - 1 \in 0 .. L /\ n - 1 \notin B
      BY <2>0, <2>2
    <3>2. PICK f : Good(f, n - 1)
      BY <3>1
    <3> DEFINE g == [i \in 0 .. n |-> IF i = n THEN h[<<n, f[n - 1]>>] ELSE f[i]]
    <3>3. /\ g[n] = h[<<n, f[n - 1]>>]
          /\ \A i \in 0 .. n - 1 : g[i] = f[i] /\ i \in 0 .. n
      BY <3>1
    <3>4. f[n - 1] \in D[n - 1] /\ n \in Nat /\ 0 \in 0 .. n - 1 /\ n - 1 \in 0 .. n - 1
      BY <3>1, <3>2
    <3> HIDE DEF g
    <3>5. g[0] = base /\ g[n - 1] = f[n - 1]
      BY <3>2, <3>3, <3>4
    <3>6. ASSUME NEW i \in 1 .. n PROVE g[i] = h[<<i, g[i - 1]>>]
      <4>1. CASE i = n
        BY <4>1, <3>3, <3>5
      <4>2. CASE i # n
        <5>1. i \in 1 .. n - 1 /\ i \in 0 .. n - 1 /\ i - 1 \in 0 .. n - 1
          BY <4>2, <3>1
        <5> QED BY <5>1, <3>2, <3>3
      <4> QED BY <4>1, <4>2
    <3>7. ASSUME NEW i \in 0 .. n PROVE g[i] \in D[i]
      <4>1. CASE i = n
        BY <4>1, <3>1, <3>3, <3>4
      <4>2. CASE i # n
        <5>1. i \in 0 .. n - 1
          BY <4>2, <3>1
        <5> QED BY <5>1, <3>2, <3>3
      <4> QED BY <4>1, <4>2
    <3>8. Good(g, n)
      <4>1. g = [i \in 0 .. n |-> g[i]] /\ \A i \in 0 .. n : i \in 0 .. L
        BY <3>1 DEF g
      <4>2. \A i \in 0 .. n : g[i] \in R
        BY <3>7, <4>1
      <4>3. g \in [0 .. n -> R]
        BY <4>1, <4>2
      <4> QED BY <4>3, <3>5, <3>6, <3>7
    <3> QED BY <2>0, <3>8
  <2> QED BY <2>1, <2>2
<1>2. PICK f : Good(f, L)
  BY <1>1
<1> QED BY <1>2

\* w is what is left of the first n elements of seq, m the places they were at.
Leaves(w, m, seq, gone, n) ==
  /\ m \in [1 .. Len(w) -> 1 .. n]
  /\ \A i, j \in 1 .. Len(w) : i < j => m[i] < m[j]
  /\ \A i \in 1 .. Len(w) : w[i] = seq[m[i]] /\ w[i] \notin gone
  /\ \A k \in 1 .. n : seq[k] \notin gone => \E i \in 1 .. Len(w) : m[i] = k

\* One more turn of the loop of Without.
LEMMA LeavesMore ==
  ASSUME NEW E, NEW seq \in Seq(E), NEW gone, NEW n \in 1 .. Len(seq), NEW w \in Seq(E), NEW m,
         Leaves(w, m, seq, gone, n - 1)
  PROVE  LET v == IF seq[n] \in gone THEN w ELSE Append(w, seq[n])
         IN  v \in Seq(E) /\ \E k : Leaves(v, k, seq, gone, n)
<1>1. seq[n] \in E /\ n \in Nat /\ Len(w) \in Nat /\ n - 1 \in Nat
  OBVIOUS
<1>2. CASE seq[n] \in gone
  <2>1. m \in [1 .. Len(w) -> 1 .. n]
    BY <1>1 DEF Leaves
  <2>2. \A k \in 1 .. n : k = n \/ k \in 1 .. n - 1
    BY <1>1
  <2>3. Leaves(w, m, seq, gone, n)
    BY <1>2, <2>1, <2>2 DEF Leaves
  <2> QED BY <1>2, <2>3
<1>3. CASE seq[n] \notin gone
  <2> DEFINE v == Append(w, seq[n])
             L == Len(w)
             k == [i \in 1 .. L + 1 |-> IF i = L + 1 THEN n ELSE m[i]]
  <2>1. v \in Seq(E) /\ Len(v) = L + 1 /\ v[L + 1] = seq[n] /\ \A i \in 1 .. L : v[i] = w[i]
    BY <1>1, AppendProperties
  <2>a. L \in Nat /\ \A i \in 1 .. L : m[i] \in 1 .. n - 1
    BY <1>1 DEF Leaves
  <2> HIDE DEF L
  <2>2. L \in Nat /\ k[L + 1] = n /\ \A i \in 1 .. L : k[i] = m[i] /\ m[i] \in 1 .. n - 1
    BY <2>a
  <2>3. k \in [1 .. L + 1 -> 1 .. n]
    <3>1. \A i \in 1 .. L + 1 : i = L + 1 \/ i \in 1 .. L
      BY <2>a
    <3>2. \A i \in 1 .. L + 1 : (IF i = L + 1 THEN n ELSE m[i]) \in 1 .. n
      BY <1>1, <2>a, <3>1
    <3> QED BY <3>2
  <2> HIDE DEF v, k
  <2>5. ASSUME NEW i \in 1 .. L + 1, NEW j \in 1 .. L + 1, i < j PROVE k[i] < k[j]
    <3>1. i \in 1 .. L
      BY <2>2, <2>5
    <3>2. CASE j = L + 1
      BY <3>1, <3>2, <2>2, <1>1
    <3>3. CASE j # L + 1
      <4>1. j \in 1 .. L
        BY <3>3, <2>2
      <4> QED BY <3>1, <4>1, <2>2, <2>5 DEF Leaves, L
    <3> QED BY <3>2, <3>3
  <2>6. ASSUME NEW i \in 1 .. L + 1 PROVE v[i] = seq[k[i]] /\ v[i] \notin gone
    <3>1. CASE i = L + 1
      BY <3>1, <2>1, <2>2, <1>3
    <3>2. CASE i # L + 1
      <4>1. i \in 1 .. L
        BY <3>2, <2>2
      <4> QED BY <4>1, <2>1, <2>2 DEF Leaves, L
    <3> QED BY <3>1, <3>2
  <2>7. ASSUME NEW j \in 1 .. n, seq[j] \notin gone PROVE \E i \in 1 .. L + 1 : k[i] = j
    <3>1. CASE j = n
      BY <3>1, <2>2
    <3>2. CASE j # n
      <4>1. j \in 1 .. n - 1
        BY <3>2, <1>1
      <4>2. PICK i \in 1 .. L : m[i] = j
        BY <4>1, <2>7 DEF Leaves, L
      <4> QED BY <4>2, <2>2
    <3> QED BY <3>1, <3>2
  <2>8. Leaves(v, k, seq, gone, n)
    BY <2>1, <2>3, <2>5, <2>6, <2>7 DEF Leaves
  <2> QED BY <1>3, <2>1, <2>8 DEF v
<1> QED BY <1>2, <1>3

\* What Without leaves is a subsequence, with everything that is to stay.
LEMMA WithoutLeaves ==
  ASSUME NEW E, NEW seq \in Seq(E), NEW gone
  PROVE  /\ Without(seq, gone) \in Seq(E)
         /\ \E m : Leaves(Without(seq, gone), m, seq, gone, Len(seq))
<1> DEFINE L == Len(seq)
           Kept(w, n) == IF seq[n] \in gone THEN w ELSE Append(w, seq[n])
           DD == [n \in 0 .. L |-> {w \in Seq(E) : \E m : Leaves(w, m, seq, gone, n)}]
           h == [a \in (1 .. L) \X Seq(E) |-> Kept(a[2], a[1])]
           f[n \in 0 .. L] == IF n = 0 THEN <<>> ELSE Kept(f[n - 1], n)
<1>1. L \in Nat
  OBVIOUS
<1>2. <<>> \in DD[0]
  <2>1. Leaves(<<>>, <<>>, seq, gone, 0)
    BY EmptySeq DEF Leaves
  <2>2. <<>> \in Seq(E) /\ 0 \in 0 .. L
    BY <1>1
  <2> QED BY <2>1, <2>2
<1>3. ASSUME NEW n \in 1 .. L, NEW w \in DD[n - 1]
      PROVE  h[<<n, w>>] = Kept(w, n) /\ Kept(w, n) \in DD[n]
  <2>1. n - 1 \in 0 .. L /\ n \in 0 .. L
    BY <1>1
  <2>2. w \in Seq(E) /\ \E m : Leaves(w, m, seq, gone, n - 1)
    BY <2>1
  <2>3. Kept(w, n) \in Seq(E) /\ \E m : Leaves(Kept(w, n), m, seq, gone, n)
    BY <2>2, LeavesMore
  <2> QED BY <2>1, <2>2, <2>3
<1>4. PICK g \in [0 .. L -> Seq(E)] :
          /\ g[0] = <<>> /\ \A n \in 1 .. L : g[n] = h[<<n, g[n - 1]>>]
          /\ \A n \in 0 .. L : g[n] \in DD[n]
  <2>1. \A n \in 0 .. L : DD[n] \subseteq Seq(E)
    OBVIOUS
  <2> HIDE DEF L, DD, h, Kept, f
  <2>2. \A n \in 1 .. L : \A w \in DD[n - 1] : h[<<n, w>>] \in DD[n]
    BY <1>3
  <2>3. LoopSteps(L, Seq(E), DD, <<>>, h)
    BY <1>1, <1>2, <2>1, <2>2 DEF LoopSteps
  <2> QED BY <2>3, FoldExists
<1>5. g = [n \in 0 .. L |-> IF n = 0 THEN <<>> ELSE Kept(g[n - 1], n)]
  <2> HIDE DEF L, DD, h, Kept, f
  <2>1. ASSUME NEW n \in 1 .. L PROVE g[n] = Kept(g[n - 1], n)
    <3>1. n - 1 \in 0 .. L
      BY <1>1
    <3>2. g[n - 1] \in DD[n - 1] /\ g[n] = h[<<n, g[n - 1]>>]
      BY <3>1, <1>4
    <3> QED BY <3>2, <1>3
  <2>2. \A n \in 0 .. L : g[n] = IF n = 0 THEN <<>> ELSE Kept(g[n - 1], n)
    BY <1>1, <1>4, <2>1
  <2> QED BY <2>2
<1>6. f = [n \in 0 .. L |-> IF n = 0 THEN <<>> ELSE Kept(f[n - 1], n)]
  BY <1>5
<1>7. Without(seq, gone) = f[L]
  BY DEF Without, Loop
<1> HIDE DEF f
<1>8. f[0] \in DD[0] /\ \A n \in 1 .. L : f[n - 1] \in DD[n - 1] => f[n] \in DD[n]
  <2>1. f[0] = <<>> /\ \A n \in 1 .. L : f[n] = Kept(f[n - 1], n)
    <3> HIDE DEF Kept, L
    <3> QED BY <1>1, <1>6
  <2> HIDE DEF Kept, DD
  <2> QED BY <1>2, <1>3, <2>1
<1>9. f[L] \in DD[L]
  <2> HIDE DEF DD, L
  <2>1. \A n \in 0 .. L : f[n] \in DD[n]
    BY <1>1, <1>8, Carried
  <2> QED BY <1>1, <2>1
<1> QED BY <1>1, <1>7, <1>9

\* Without leaves what is not in gone.
LEMMA WithoutElements ==
  ASSUME NEW E, NEW seq \in Seq(E), NEW gone
  PROVE  /\ Without(seq, gone) \in Seq(E)
         /\ ToSet(Without(seq, gone)) = ToSet(seq) \ gone
<1> DEFINE w == Without(seq, gone)
<1>1. PICK m : w \in Seq(E) /\ Leaves(w, m, seq, gone, Len(seq))
  BY WithoutLeaves
<1>2. DOMAIN w = 1 .. Len(w) /\ DOMAIN seq = 1 .. Len(seq)
  BY <1>1, LenProperties
<1> HIDE DEF w
<1>3. ASSUME NEW x \in ToSet(w) PROVE x \in ToSet(seq) \ gone
  <2>1. PICK i \in 1 .. Len(w) : x = w[i]
    BY <1>2 DEF ToSet
  <2>2. m[i] \in 1 .. Len(seq) /\ w[i] = seq[m[i]] /\ w[i] \notin gone
    BY <1>1 DEF Leaves
  <2> QED BY <1>2, <2>1, <2>2 DEF ToSet
<1>4. ASSUME NEW x \in ToSet(seq), x \notin gone PROVE x \in ToSet(w)
  <2>1. PICK k \in 1 .. Len(seq) : x = seq[k]
    BY <1>2 DEF ToSet
  <2>2. PICK i \in 1 .. Len(w) : m[i] = k
    BY <1>1, <1>4, <2>1 DEF Leaves
  <2>3. w[i] = x
    BY <1>1, <2>1, <2>2 DEF Leaves
  <2> QED BY <1>2, <2>3 DEF ToSet
<1> QED BY <1>1, <1>3, <1>4 DEF w

\* It leaves no element twice that was there once.
LEMMA WithoutInjective ==
  ASSUME NEW E, NEW seq \in Seq(E), NEW gone, IsInjective(seq)
  PROVE  IsInjective(Without(seq, gone))
<1> DEFINE w == Without(seq, gone)
<1>1. PICK m : w \in Seq(E) /\ Leaves(w, m, seq, gone, Len(seq))
  BY WithoutLeaves
<1>2. DOMAIN w = 1 .. Len(w) /\ DOMAIN seq = 1 .. Len(seq) /\ Len(w) \in Nat
  BY <1>1, LenProperties
<1> HIDE DEF w
<1>3. SUFFICES ASSUME NEW a \in 1 .. Len(w), NEW b \in 1 .. Len(w), w[a] = w[b] PROVE a = b
  BY <1>2 DEF IsInjective, w
<1>4. /\ m[a] \in 1 .. Len(seq) /\ m[b] \in 1 .. Len(seq)
      /\ w[a] = seq[m[a]] /\ w[b] = seq[m[b]]
  BY <1>1 DEF Leaves
<1>5. m[a] = m[b]
  BY <1>2, <1>3, <1>4 DEF IsInjective
<1> QED BY <1>1, <1>2, <1>4, <1>5 DEF Leaves

\* An initial segment of indices is as long as it has members.
LEMMA PrefixCount ==
  ASSUME NEW N \in Nat, NEW P \in SUBSET (1 .. N), \A i \in P : \A j \in 1 .. i : j \in P
  PROVE  Cardinality(P) \in 0 .. N /\ P = 1 .. Cardinality(P)
<1> DEFINE B == {n \in 1 .. N + 1 : n \notin P}
<1>1. N + 1 \in B /\ B \in SUBSET Nat
  OBVIOUS
<1>2. PICK n \in B : \A m \in B : n <= m
  <2> HIDE DEF B
  <2> QED BY <1>1, Least
<1>3. n \in 1 .. N + 1 /\ n \notin P /\ \A m \in 1 .. N + 1 : m \notin P => n <= m
  BY <1>2
<1>4. P = 1 .. n - 1
  <2>1. ASSUME NEW i \in P PROVE i \in 1 .. n - 1
    <3>1. i \in 1 .. N /\ (n \in 1 .. i => n \in P)
      OBVIOUS
    <3> QED BY <3>1, <1>3
  <2>2. ASSUME NEW i \in 1 .. n - 1 PROVE i \in P
    BY <1>3
  <2> QED BY <2>1, <2>2
<1>5. Cardinality(1 .. n - 1) = n - 1
  BY <1>3, FS_Interval
<1> QED BY <1>3, <1>4, <1>5

\* p comes before q in seq.
Precedes(seq, p, q) == \E j, i \in 1 .. Len(seq) : j < i /\ seq[j] = p /\ seq[i] = q

\* What stays, stays in the same order.
LEMMA WithoutOrder ==
  ASSUME NEW E, NEW seq \in Seq(E), NEW gone, NEW p, NEW q,
         Precedes(Without(seq, gone), p, q)
  PROVE  Precedes(seq, p, q)
<1> DEFINE w == Without(seq, gone)
<1>1. PICK m : w \in Seq(E) /\ Leaves(w, m, seq, gone, Len(seq))
  BY WithoutLeaves
<1>2. PICK j \in 1 .. Len(w), i \in 1 .. Len(w) : j < i /\ w[j] = p /\ w[i] = q
  BY DEF Precedes
<1> HIDE DEF w
<1>3. /\ m[j] \in 1 .. Len(seq) /\ m[i] \in 1 .. Len(seq) /\ m[j] < m[i]
      /\ w[j] = seq[m[j]] /\ w[i] = seq[m[i]]
  BY <1>1, <1>2 DEF Leaves
<1> QED BY <1>2, <1>3 DEF Precedes

\* w is seq with e put in at place i.
WithElement(w, seq, i, e) ==
  /\ Len(w) = Len(seq) + 1
  /\ \A j \in 1 .. Len(seq) + 1 :
        w[j] = IF j < i THEN seq[j] ELSE IF j = i THEN e ELSE seq[j - 1]

\* InsertAt moves the elements behind the new one.
LEMMA Inserted ==
  ASSUME NEW E, NEW seq \in Seq(E), NEW i \in 1 .. Len(seq) + 1, NEW e \in E
  PROVE  /\ InsertAt(seq, i, e) \in Seq(E)
         /\ WithElement(InsertAt(seq, i, e), seq, i, e)
<1> DEFINE L == Len(seq)
           a == SubSeq(seq, 1, i - 1)
           b == SubSeq(seq, i, L)
           ae == a \o <<e>>
<1>1. L \in Nat /\ i \in Int /\ \A j \in 1 .. L : seq[j] \in E
  OBVIOUS
<1>2. a \in Seq(E) /\ Len(a) = i - 1 /\ \A j \in 1 .. i - 1 : a[j] = seq[j]
  BY <1>1, SubSeqProperties
<1>3. b \in Seq(E) /\ Len(b) = L - i + 1 /\ \A j \in 1 .. L - i + 1 : b[j] = seq[i + j - 1]
  BY <1>1, SubSeqProperties
<1>4. <<e>> \in Seq(E) /\ Len(<<e>>) = 1 /\ <<e>>[1] = e
  OBVIOUS
<1> HIDE DEF a, b, L
<1>5. ae \in Seq(E) /\ Len(ae) = i /\ \A j \in 1 .. i : ae[j] = IF j < i THEN seq[j] ELSE e
  <2>1. /\ ae \in Seq(E) /\ Len(ae) = Len(a) + Len(<<e>>)
        /\ \A j \in 1 .. Len(a) + Len(<<e>>) :
              ae[j] = IF j <= Len(a) THEN a[j] ELSE <<e>>[j - Len(a)]
    BY <1>2, <1>4, ConcatProperties
  <2> QED BY <1>1, <1>2, <1>4, <2>1
<1> HIDE DEF ae
<1>6. /\ ae \o b \in Seq(E) /\ Len(ae \o b) = Len(ae) + Len(b)
      /\ \A j \in 1 .. Len(ae) + Len(b) :
            (ae \o b)[j] = IF j <= Len(ae) THEN ae[j] ELSE b[j - Len(ae)]
  BY <1>3, <1>5, ConcatProperties
<1>7. InsertAt(seq, i, e) = ae \o b
  BY DEF InsertAt, ae, a, b, L
<1>8. ASSUME NEW j \in 1 .. L + 1
      PROVE  (ae \o b)[j] = IF j < i THEN seq[j] ELSE IF j = i THEN e ELSE seq[j - 1]
  <2>1. CASE j <= i
    BY <1>1, <1>3, <1>5, <1>6, <2>1
  <2>2. CASE ~(j <= i)
    <3>a. j \in 1 .. Len(ae) + Len(b) /\ ~(j <= Len(ae)) /\ j - i \in 1 .. L - i + 1
      BY <1>1, <1>3, <1>5, <2>2
    <3>1. (ae \o b)[j] = b[j - i] /\ j - i \in 1 .. L - i + 1
      BY <1>5, <1>6, <3>a
    <3>2. b[j - i] = seq[i + (j - i) - 1] /\ i + (j - i) - 1 = j - 1
      BY <1>1, <1>3, <3>1
    <3> QED BY <1>1, <2>2, <3>1, <3>2
  <2> QED BY <2>1, <2>2
<1> QED BY <1>1, <1>3, <1>5, <1>6, <1>7, <1>8 DEF L, WithElement

\* w is seq with the element at place i taken out.
WithoutElement(w, seq, i) ==
  /\ Len(w) = Len(seq) - 1
  /\ \A j \in 1 .. Len(seq) - 1 : w[j] = IF j < i THEN seq[j] ELSE seq[j + 1]

\* RemoveAt moves the elements behind the old one.
LEMMA Removed ==
  ASSUME NEW E, NEW seq \in Seq(E), NEW i \in 1 .. Len(seq)
  PROVE  RemoveAt(seq, i) \in Seq(E) /\ WithoutElement(RemoveAt(seq, i), seq, i)
<1> DEFINE L == Len(seq)
           a == SubSeq(seq, 1, i - 1)
           b == SubSeq(seq, i + 1, L)
<1>1. L \in Nat /\ i \in Int /\ \A j \in 1 .. L : seq[j] \in E
  OBVIOUS
<1>2. a \in Seq(E) /\ Len(a) = i - 1 /\ \A j \in 1 .. i - 1 : a[j] = seq[j]
  BY <1>1, SubSeqProperties
<1>3. b \in Seq(E) /\ Len(b) = L - i /\ \A j \in 1 .. L - i : b[j] = seq[i + j]
  <2>1. /\ b \in Seq(E) /\ Len(b) = IF i + 1 <= L THEN L - (i + 1) + 1 ELSE 0
        /\ \A j \in 1 .. L - (i + 1) + 1 : b[j] = seq[(i + 1) + j - 1]
    BY <1>1, SubSeqProperties
  <2> HIDE DEF b, L
  <2>2. i \in 1 .. L
    BY DEF L
  <2>3. \A j \in 1 .. L - i : b[j] = seq[i + j]
    <3> SUFFICES ASSUME NEW j \in 1 .. L - i PROVE b[j] = seq[i + j]
      OBVIOUS
    <3>1. j \in 1 .. L - (i + 1) + 1 /\ (i + 1) + j - 1 = i + j
      BY <1>1
    <3> QED BY <2>1, <3>1
  <2> QED BY <1>1, <2>1, <2>2, <2>3
<1> HIDE DEF a, b, L
<1>4. /\ a \o b \in Seq(E) /\ Len(a \o b) = Len(a) + Len(b)
      /\ \A j \in 1 .. Len(a) + Len(b) : (a \o b)[j] = IF j <= Len(a) THEN a[j] ELSE b[j - Len(a)]
  BY <1>2, <1>3, ConcatProperties
<1>5. RemoveAt(seq, i) = a \o b
  BY DEF RemoveAt, a, b, L
<1>6. ASSUME NEW j \in 1 .. L - 1 PROVE (a \o b)[j] = IF j < i THEN seq[j] ELSE seq[j + 1]
  <2>1. CASE j < i
    BY <1>1, <1>2, <1>3, <1>4, <2>1
  <2>2. CASE ~(j < i)
    <3>1. (a \o b)[j] = b[j - (i - 1)] /\ j - (i - 1) \in 1 .. L - i
      BY <1>1, <1>2, <1>3, <1>4, <2>2
    <3>2. b[j - (i - 1)] = seq[i + (j - (i - 1))] /\ i + (j - (i - 1)) = j + 1
      BY <1>1, <1>3, <3>1
    <3> QED BY <2>2, <3>1, <3>2
  <2> QED BY <2>1, <2>2
<1> QED BY <1>1, <1>2, <1>3, <1>4, <1>5, <1>6 DEF L, WithoutElement

-----------------------------------------------------------------------------
(* Recursive functions and lists in general.                               *)

\* The value at n, of V, follows from the values before n.
Course(N, V, h) ==
  /\ N \in Nat /\ V # {}
  /\ \A n \in 1 .. N : \A f \in [1 .. N -> V] : h[<<n, f>>] \in V
  /\ \A n \in 1 .. N : \A f, g \in [1 .. N -> V] :
        (\A i \in 1 .. n - 1 : f[i] = g[i]) => h[<<n, f>>] = h[<<n, g>>]

\* A function that is defined by its own values at smaller arguments exists.
LEMMA CourseExists ==
  ASSUME NEW N, NEW V, NEW h, Course(N, V, h)
  PROVE  \E f \in [1 .. N -> V] : \A n \in 1 .. N : f[n] = h[<<n, f>>]
<1> USE DEF Course
<1> DEFINE D(k) == {f \in [1 .. N -> V] : \A i \in 1 .. k : f[i] = h[<<i, f>>]}
           B == {k \in 0 .. N : D(k) = {}}
<1>1. B = {}
  <2> SUFFICES ASSUME B # {} PROVE FALSE
    OBVIOUS
  <2>0. PICK n \in B : \A m \in B : n <= m
    <3>1. B \in SUBSET Nat
      OBVIOUS
    <3> HIDE DEF B
    <3> QED BY <3>1, Least
  <2>1. CASE n = 0
    <3>1. PICK v : v \in V
      OBVIOUS
    <3>2. [i \in 1 .. N |-> v] \in D(0)
      BY <3>1
    <3> QED BY <2>0, <2>1, <3>2
  <2>2. CASE n # 0
    <3>1. n \in 1 .. N /\ n - 1 \in 0 .. N /\ n - 1 \notin B
      BY <2>0, <2>2
    <3>2. PICK f : f \in D(n - 1)
      BY <3>1
    <3> DEFINE g == [f EXCEPT ![n] = h[<<n, f>>]]
    <3>3. g \in [1 .. N -> V] /\ g[n] = h[<<n, f>>] /\ \A i \in 1 .. n - 1 : g[i] = f[i]
      BY <3>1, <3>2
    <3> HIDE DEF g
    <3>4. ASSUME NEW i \in 1 .. n PROVE g[i] = h[<<i, g>>]
      <4>1. i \in 1 .. N /\ \A j \in 1 .. i - 1 : f[j] = g[j]
        BY <3>1, <3>3
      <4>2. h[<<i, f>>] = h[<<i, g>>]
        BY <3>2, <3>3, <4>1
      <4>3. CASE i = n
        BY <4>2, <4>3, <3>3
      <4>4. CASE i # n
        <5>1. i \in 1 .. n - 1
          BY <4>4, <3>1
        <5> QED BY <5>1, <4>2, <3>2, <3>3
      <4> QED BY <4>3, <4>4
    <3>5. g \in D(n)
      BY <3>3, <3>4
    <3> QED BY <2>0, <3>5
  <2> QED BY <2>1, <2>2
<1>2. N \in 0 .. N /\ N \notin B
  <2> HIDE DEF B
  <2> QED BY <1>1
<1> QED BY <1>2

\* A sequence, of whatever it consists.
IsList(s) == s \in Seq(ToSet(s))

\* What a list is.
LEMMA Listed ==
  ASSUME NEW s, IsList(s)
  PROVE  /\ Len(s) \in Nat /\ DOMAIN s = 1 .. Len(s) /\ s = [i \in 1 .. Len(s) |-> s[i]]
         /\ \A i \in 1 .. Len(s) : s[i] \in ToSet(s)
<1>1. Len(s) \in Nat /\ DOMAIN s = 1 .. Len(s) /\ s = [i \in 1 .. Len(s) |-> s[i]]
  BY LenProperties DEF IsList
<1> QED BY <1>1 DEF ToSet

\* A sequence of elements of a set is a list.
LEMMA ListOf ==
  ASSUME NEW E, NEW s \in Seq(E)
  PROVE  IsList(s)
<1>1. Len(s) \in Nat /\ DOMAIN s = 1 .. Len(s) /\ s \in [1 .. Len(s) -> E]
  BY LenProperties
<1>2. \A i \in 1 .. Len(s) : s[i] \in ToSet(s)
  BY <1>1 DEF ToSet
<1>3. s \in [1 .. Len(s) -> ToSet(s)]
  BY <1>1, <1>2
<1> QED BY <1>1, <1>3, SeqDef DEF IsList

\* A function on 1 .. n is a list of length n.
LEMMA ListFrom ==
  ASSUME NEW n \in Nat, NEW s, s = [i \in 1 .. n |-> s[i]]
  PROVE  IsList(s) /\ Len(s) = n
<1>1. DOMAIN s = 1 .. n
  OBVIOUS
<1>2. \A i \in 1 .. n : s[i] \in ToSet(s)
  BY <1>1 DEF ToSet
<1>3. s \in [1 .. n -> ToSet(s)]
  BY <1>2
<1>4. s \in Seq(ToSet(s))
  BY <1>3, SeqDef
<1> QED BY <1>1, <1>4, LenProperties DEF IsList

\* Two lists of the same elements are the same.
LEMMA SameList ==
  ASSUME NEW s, NEW t, IsList(s), IsList(t), Len(s) = Len(t),
         \A i \in 1 .. Len(s) : s[i] = t[i]
  PROVE  s = t
BY Listed

\* An element is put behind a list.
LEMMA ListAppended ==
  ASSUME NEW s, NEW e, IsList(s)
  PROVE  LET t == Append(s, e)
         IN  /\ IsList(t) /\ Len(t) = Len(s) + 1 /\ t[Len(s) + 1] = e
             /\ \A i \in 1 .. Len(s) : t[i] = s[i]
<1> DEFINE E == ToSet(s) \cup {e}
<1>1. s \in Seq(E)
  <2>1. Len(s) \in Nat /\ s \in [1 .. Len(s) -> E]
    BY Listed
  <2> QED BY <2>1, SeqDef
<1> HIDE DEF E
<1>2. e \in E
  BY DEF E
<1>3. Append(s, e) \in Seq(E) /\ Len(Append(s, e)) = Len(s) + 1 /\ Append(s, e)[Len(s) + 1] = e
      /\ \A i \in 1 .. Len(s) : Append(s, e)[i] = s[i]
  BY <1>1, <1>2, AppendProperties
<1> QED BY <1>3, ListOf

\* u is s with t behind it.
IsJoin(s, t, u) == IsList(s) /\ IsList(t) /\ u = s \o t

\* A list is put behind another.
LEMMA ListJoined ==
  ASSUME NEW s, NEW t, NEW u, IsJoin(s, t, u)
  PROVE  /\ IsList(u) /\ Len(u) = Len(s) + Len(t)
         /\ \A i \in 1 .. Len(s) : u[i] = s[i]
         /\ \A i \in 1 .. Len(t) : u[Len(s) + i] = t[i]
<1> USE DEF IsJoin
<1> DEFINE E == ToSet(s) \cup ToSet(t)
<1>1. s \in Seq(E) /\ t \in Seq(E)
  <2>1. Len(s) \in Nat /\ s \in [1 .. Len(s) -> E] /\ Len(t) \in Nat /\ t \in [1 .. Len(t) -> E]
    BY Listed
  <2> QED BY <2>1, SeqDef
<1> HIDE DEF E
<1>2. /\ s \o t \in Seq(E) /\ Len(s \o t) = Len(s) + Len(t)
      /\ \A i \in 1 .. Len(s) + Len(t) : (s \o t)[i] = IF i <= Len(s) THEN s[i] ELSE t[i - Len(s)]
  BY <1>1, ConcatProperties
<1>3. Len(s) \in Nat /\ Len(t) \in Nat
  BY Listed
<1>4. \A i \in 1 .. Len(s) : (s \o t)[i] = s[i]
  BY <1>2, <1>3
<1>5. ASSUME NEW i \in 1 .. Len(t) PROVE (s \o t)[Len(s) + i] = t[i]
  <2>1. Len(s) + i \in 1 .. Len(s) + Len(t) /\ ~(Len(s) + i <= Len(s)) /\ (Len(s) + i) - Len(s) = i
    BY <1>3
  <2> QED BY <2>1, <1>2
<1> QED BY <1>2, <1>4, <1>5, ListOf

\* A part of a list.
LEMMA PartOf ==
  ASSUME NEW s, IsList(s), NEW m \in 1 .. Len(s) + 1, NEW n \in m - 1 .. Len(s)
  PROVE  LET u == SubSeq(s, m, n)
         IN  /\ IsList(u) /\ Len(u) = n - m + 1
             /\ \A i \in 1 .. n - m + 1 : u[i] = s[m + i - 1]
<1>1. Len(s) \in Nat
  BY Listed
<1>2. m \in Int /\ n \in Int /\ n - m + 1 \in Nat
  BY <1>1
<1> DEFINE u == SubSeq(s, m, n)
<1>3. u = [i \in 1 .. 1 + n - m |-> s[i + m - 1]]
  BY <1>1, <1>2
<1>4. u = [i \in 1 .. n - m + 1 |-> s[m + i - 1]]
  BY <1>2, <1>3
<1> HIDE DEF u
<1>5. u = [i \in 1 .. n - m + 1 |-> u[i]] /\ \A i \in 1 .. n - m + 1 : u[i] = s[m + i - 1]
  BY <1>4
<1>6. IsList(u) /\ Len(u) = n - m + 1
  BY <1>2, <1>5, ListFrom
<1> QED BY <1>5, <1>6 DEF u
=============================================================================
