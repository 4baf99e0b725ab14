--------------------------- MODULE MdnsQueryProofs ---------------------------
(***************************************************************************)
(* Every packet is read back as it was written (ReadBack), and OwnData and  *)
(* ChangesReported hold: for any lengths of labels and items, any searches, *)
(* any browse, any instances of our own, any links and any packets of well  *)
(* formed and true records, as long as what a cut off record seems to say   *)
(* is true, too (QueryAssumption).                                          *)
(*                                                                          *)
(* The first half is about a packet, bottom up: where a name stops and what *)
(* it reads as (NameAtIs), which stays so whatever is written behind it     *)
(* (NameStable); what writing a name adds (NameAdded), data and a whole     *)
(* record (RecordAppended). A packet then is a chain of records, of which   *)
(* each begins where the one before it says it ends, and behind them one of *)
(* three kinds of rest at which no record is read (LaidOut); reading        *)
(* follows the chain (PacketRead).                                          *)
(*                                                                          *)
(* The second half, again bottom up: what a record adds to a search (Frame, *)
(* Good, OwnSearch) and to the browse (Beside, Browsable, AllTold); then    *)
(* one lemma per type of record, over what parsing carries from record to   *)
(* record (Going), which RecordsGo takes through the loop over the records  *)
(* of a packet. QueryInv is what remains of it between two packets.         *)
(*                                                                          *)
(* Things and Result only name the values that can occur, so that a list of *)
(* results is a sequence of a set.                                          *)
(***************************************************************************)
EXTENDS MdnsQuery, ListLemmas, TLAPS

-----------------------------------------------------------------------------
(* Reading names.                                                           *)

\* Cells that writing records can leave: a name points to what lies before, and behind
\* the domain, with which every name ends, there is the end of the name.
Sound(c) ==
  /\ IsList(c)
  /\ \A j \in 1 .. Len(c) : c[j].k = "ptr" => c[j].v \in 1 .. j - 1
  /\ \A j \in 1 .. Len(c) : c[j].k = "label" /\ c[j].v = Domain
                             => j + 1 \in 1 .. Len(c) /\ c[j + 1].k = "end"

\* Where the labels from cell i on stop.
LEMMA StopIs ==
  ASSUME NEW c, IsList(c), NEW i \in 1 .. Len(c) + 1
  PROVE  /\ Stop(c, i) \in i .. Len(c) + 1
         /\ \A j \in i .. Stop(c, i) - 1 : j \in 1 .. Len(c) /\ c[j].k = "label"
         /\ Stop(c, i) \in 1 .. Len(c) => c[Stop(c, i)].k # "label"
<1> DEFINE L == Len(c)
           A == {j \in i .. L : c[j].k # "label"} \cup {L + 1}
<1>1. L \in Nat /\ A \in SUBSET Nat /\ L + 1 \in A
  BY Listed
<1>2. PICK n \in A : \A m \in A : n <= m
  <2> HIDE DEF A
  <2> QED BY <1>1, Least
<1>3. Stop(c, i) = Min(A)
  BY DEF Stop
<1>4. Min(A) \in A /\ \A m \in A : Min(A) <= m
  <2> HIDE DEF A
  <2> QED BY <1>2 DEF Min
<1> DEFINE s == Min(A)
<1>5. s \in i .. L + 1 /\ (s \in 1 .. L => c[s].k # "label")
  <2> HIDE DEF s
  <2> QED BY <1>1, <1>4 DEF s
<1>6. ASSUME NEW j \in i .. s - 1 PROVE j \in 1 .. L /\ c[j].k = "label"
  <2>1. j \in i .. L /\ ~(s <= j)
    <3> HIDE DEF s
    <3> QED BY <1>5, <1>1
  <2>2. j \notin A
    <3> HIDE DEF A
    <3> QED BY <2>1, <1>4
  <2> QED BY <2>1, <2>2, <1>1
<1> HIDE DEF A, s
<1> QED BY <1>3, <1>5, <1>6 DEF s

\* The stop is the first cell that is no label.
LEMMA StopAt ==
  ASSUME NEW c, IsList(c), NEW i \in 1 .. Len(c) + 1, NEW s \in i .. Len(c) + 1,
         \A j \in i .. s - 1 : c[j].k = "label",
         s \in 1 .. Len(c) => c[s].k # "label"
  PROVE  Stop(c, i) = s
<1> DEFINE p == Stop(c, i)
<1>1. /\ p \in i .. Len(c) + 1 /\ \A j \in i .. p - 1 : c[j].k = "label"
      /\ p \in 1 .. Len(c) => c[p].k # "label"
  BY StopIs
<1>2. Len(c) \in Nat
  BY Listed
<1> HIDE DEF p
<1>3. CASE p < s
  <2>1. p \in i .. s - 1 /\ p \in 1 .. Len(c)
    BY <1>1, <1>2, <1>3
  <2> QED BY <2>1, <1>1
<1>4. CASE s < p
  <2>1. s \in i .. p - 1 /\ s \in 1 .. Len(c)
    BY <1>1, <1>2, <1>4
  <2> QED BY <2>1, <1>1
<1> QED BY <1>1, <1>2, <1>3, <1>4 DEF p

\* The labels from one cell to the next one that is none.
Labels(c, i) == [j \in 1 .. Stop(c, i) - i |-> c[i + j - 1].v]

\* What a name read can be.
Names(c) == [labels : Seq({c[j].v : j \in 1 .. Len(c)}), next : Nat, ok : BOOLEAN]

LEMMA LabelsAre ==
  ASSUME NEW c, IsList(c), NEW i \in 1 .. Len(c) + 1
  PROVE  Labels(c, i) \in Seq({c[j].v : j \in 1 .. Len(c)}) /\ Len(Labels(c, i)) = Stop(c, i) - i
<1> DEFINE n == Stop(c, i) - i
           E == {c[j].v : j \in 1 .. Len(c)}
<1>1. n \in Nat /\ \A j \in 1 .. n : i + j - 1 \in 1 .. Len(c)
  BY StopIs, Listed
<1>2. Labels(c, i) = [j \in 1 .. n |-> c[i + j - 1].v]
  BY DEF Labels
<1>3. Labels(c, i) \in [1 .. n -> E]
  <2> HIDE DEF n
  <2> QED BY <1>1, <1>2
<1>4. Labels(c, i) \in Seq(E) /\ Len(Labels(c, i)) = n
  <2> HIDE DEF n, E
  <2>1. Labels(c, i) \in Seq(E)
    BY <1>1, <1>3, SeqDef
  <2>2. DOMAIN Labels(c, i) = 1 .. n
    BY <1>3
  <2> QED BY <1>1, <2>1, <2>2, LenProperties
<1> QED BY <1>4

\* The name at cell i, spelt out.
LEMMA NameAtIs ==
  ASSUME NEW c, Sound(c), NEW i \in 1 .. Len(c) + 1, NEW R
  PROVE  LET s == Stop(c, i)
         IN  /\ s = Len(c) + 1 => NameAt(c, R, i) = [labels |-> Labels(c, i), next |-> s, ok |-> TRUE]
             /\ s \in 1 .. Len(c) /\ c[s].k = "end" =>
                  NameAt(c, R, i) = [labels |-> Labels(c, i), next |-> s + 1, ok |-> TRUE]
             /\ s \in 1 .. Len(c) /\ c[s].k = "ptr" /\ c[s].v < i =>
                  NameAt(c, R, i) = [labels |-> Labels(c, i) \o R[c[s].v].labels, next |-> s + 1,
                                     ok |-> R[c[s].v].ok]
             /\ s \in 1 .. Len(c) /\ c[s].k # "end" /\ ~(c[s].k = "ptr" /\ c[s].v < i) =>
                  NameAt(c, R, i) = [labels |-> Labels(c, i), next |-> s, ok |-> FALSE]
<1> DEFINE s == Stop(c, i)
<1>1. s \in i .. Len(c) + 1 /\ Len(c) \in Nat
  BY StopIs, Listed DEF Sound
<1>2. s = Len(c) + 1 => s > Len(c)
  BY <1>1
<1>3. s \in 1 .. Len(c) => ~(s > Len(c)) /\ s <= Len(c)
  BY <1>1
<1> HIDE DEF s
<1> QED BY ZenonT(30), <1>2, <1>3 DEF NameAt, Labels, s

\* A name is a name, if those before it are, and depends on those only.
LEMMA NameAtFits ==
  ASSUME NEW c, Sound(c), NEW i \in 1 .. Len(c) + 1, NEW f \in [1 .. Len(c) + 1 -> Names(c)]
  PROVE  /\ NameAt(c, f, i) \in Names(c)
         /\ \A g : (\A j \in 1 .. i - 1 : f[j] = g[j]) => NameAt(c, f, i) = NameAt(c, g, i)
<1> DEFINE p == Stop(c, i)
           b == c[p].v
<1>1. /\ p \in i .. Len(c) + 1 /\ Len(c) \in Nat /\ p \in Nat /\ p + 1 \in Nat /\ i \in Nat
      /\ p = Len(c) + 1 \/ p \in 1 .. Len(c)
  BY StopIs, Listed DEF Sound
<1>2. Labels(c, i) \in Seq({c[j].v : j \in 1 .. Len(c)})
  BY LabelsAre DEF Sound
<1>3. p \in 1 .. Len(c) /\ c[p].k = "ptr" /\ b < i => b \in 1 .. i - 1 /\ f[b] \in Names(c)
  <2>1. p \in 1 .. Len(c) /\ c[p].k = "ptr" => b \in 1 .. p - 1
    BY DEF Sound
  <2>2. b \in 1 .. p - 1 /\ b < i => b \in 1 .. i - 1 /\ b \in 1 .. Len(c) + 1
    <3> HIDE DEF p, b
    <3> QED BY <1>1
  <2> QED BY <2>1, <2>2
<1>4. p \in 1 .. Len(c) /\ c[p].k = "ptr" /\ b < i =>
        Labels(c, i) \o f[b].labels \in Seq({c[j].v : j \in 1 .. Len(c)}) /\ f[b].ok \in BOOLEAN
  <2> DEFINE E == {c[j].v : j \in 1 .. Len(c)}
  <2>1. f[b] \in Names(c) => f[b].labels \in Seq(E) /\ f[b].ok \in BOOLEAN
    BY DEF Names
  <2> HIDE DEF E, b, p
  <2>2. \A u, v \in Seq(E) : u \o v \in Seq(E)
    BY ConcatProperties
  <2> QED BY <1>2, <1>3, <2>1, <2>2 DEF E
<1> HIDE DEF p
<1>5. NameAt(c, f, i) \in Names(c)
  <2>0. ASSUME NEW n \in Nat, NEW ok \in BOOLEAN
        PROVE  [labels |-> Labels(c, i), next |-> n, ok |-> ok] \in Names(c)
    BY <1>2 DEF Names
  <2>1. CASE p = Len(c) + 1
    <3>1. NameAt(c, f, i) = [labels |-> Labels(c, i), next |-> p, ok |-> TRUE]
      BY <2>1, NameAtIs DEF p
    <3> QED BY <3>1, <2>0, <1>1
  <2>2. CASE p \in 1 .. Len(c) /\ c[p].k = "end"
    <3>1. NameAt(c, f, i) = [labels |-> Labels(c, i), next |-> p + 1, ok |-> TRUE]
      BY <2>2, NameAtIs DEF p
    <3> QED BY <3>1, <2>0, <1>1
  <2>3. CASE p \in 1 .. Len(c) /\ c[p].k = "ptr" /\ b < i
    <3>1. NameAt(c, f, i) = [labels |-> Labels(c, i) \o f[b].labels, next |-> p + 1, ok |-> f[b].ok]
      BY <2>3, NameAtIs DEF p
    <3> QED BY <3>1, <2>3, <1>1, <1>4 DEF Names
  <2>4. CASE p \in 1 .. Len(c) /\ c[p].k # "end" /\ ~(c[p].k = "ptr" /\ b < i)
    <3>1. NameAt(c, f, i) = [labels |-> Labels(c, i), next |-> p, ok |-> FALSE]
      BY <2>4, NameAtIs DEF p
    <3> QED BY <3>1, <2>0, <1>1
  <2> QED BY <1>1, <2>1, <2>2, <2>3, <2>4
<1>6. ASSUME NEW g, \A j \in 1 .. i - 1 : f[j] = g[j]
      PROVE  NameAt(c, f, i) = NameAt(c, g, i)
  <2>1. CASE p = Len(c) + 1
    BY <2>1, NameAtIs DEF p
  <2>2. CASE p \in 1 .. Len(c) /\ c[p].k = "end"
    BY <2>2, NameAtIs DEF p
  <2>3. CASE p \in 1 .. Len(c) /\ c[p].k = "ptr" /\ b < i
    <3>1. f[b] = g[b]
      BY <2>3, <1>3, <1>6
    <3>2. \A R : NameAt(c, R, i) = [labels |-> Labels(c, i) \o R[b].labels, next |-> p + 1, ok |-> R[b].ok]
      BY <2>3, NameAtIs DEF p
    <3> QED BY <3>1, <3>2
  <2>4. CASE p \in 1 .. Len(c) /\ c[p].k # "end" /\ ~(c[p].k = "ptr" /\ b < i)
    BY <2>4, NameAtIs DEF p
  <2> QED BY <1>1, <2>1, <2>2, <2>3, <2>4
<1> QED BY <1>5, <1>6

\* The names of the cells are what ReadName says of each.
LEMMA ReadNameIs ==
  ASSUME NEW c, Sound(c)
  PROVE  /\ ReadName(c) \in [1 .. Len(c) + 1 -> Names(c)]
         /\ \A i \in 1 .. Len(c) + 1 : ReadName(c)[i] = NameAt(c, ReadName(c), i)
<1> DEFINE N == Len(c) + 1
           F == [1 .. N -> Names(c)]
           h == [a \in (1 .. N) \X F |-> NameAt(c, a[2], a[1])]
           R[i \in 1 .. N] == NameAt(c, R, i)
<1>1. N \in Nat
  BY Listed DEF Sound
<1>2. \A n \in 1 .. N : \A f \in F : h[<<n, f>>] = NameAt(c, f, n)
  OBVIOUS
<1>3. \A n \in 1 .. N : \A f \in F : h[<<n, f>>] \in Names(c)
  BY <1>2, NameAtFits
<1>4. \A n \in 1 .. N : \A f, g \in F : (\A i \in 1 .. n - 1 : f[i] = g[i]) => h[<<n, f>>] = h[<<n, g>>]
  <2> HIDE DEF h
  <2> QED BY <1>2, NameAtFits
<1>5. Names(c) # {}
  <2>1. <<>> \in Seq({c[j].v : j \in 1 .. Len(c)}) /\ 0 \in Nat /\ TRUE \in BOOLEAN
    OBVIOUS
  <2>2. [labels |-> <<>>, next |-> 0, ok |-> TRUE] \in Names(c)
    BY <2>1 DEF Names
  <2> QED BY <2>2
<1>6. PICK f \in F : \A n \in 1 .. N : f[n] = h[<<n, f>>]
  <2> DEFINE V == Names(c)
  <2>1. Course(N, V, h)
    <3> HIDE DEF h
    <3> QED BY <1>1, <1>3, <1>4, <1>5 DEF Course
  <2>2. F = [1 .. N -> V]
    OBVIOUS
  <2> HIDE DEF N, h, F, V
  <2>3. \E f \in [1 .. N -> V] : \A n \in 1 .. N : f[n] = h[<<n, f>>]
    BY <2>1, CourseExists
  <2> QED BY <2>2, <2>3
<1>7. f = [n \in 1 .. N |-> NameAt(c, f, n)]
  <2> HIDE DEF N, h
  <2> QED BY <1>2, <1>6
<1>8. R = [n \in 1 .. N |-> NameAt(c, R, n)]
  BY <1>7
<1>9. ReadName(c) = R
  BY DEF ReadName
<1> HIDE DEF R
<1>10. \A n \in 1 .. N : R[n] = NameAt(c, R, n)
  BY <1>8
<1>11. ASSUME NEW m \in 1 .. N, R[m] \notin Names(c) PROVE FALSE
  <2> DEFINE B == {n \in 1 .. N : R[n] \notin Names(c)}
  <2>1. B \in SUBSET Nat /\ B # {}
    BY <1>11
  <2>2. PICK n \in B : \A k \in B : n <= k
    <3> HIDE DEF B
    <3> QED BY <2>1, Least
  <2>3. n \in 1 .. N /\ \A j \in 1 .. n - 1 : R[j] \in Names(c) /\ j \in 1 .. N
    BY <2>2, <1>1
  <2> DEFINE g == [j \in 1 .. N |-> IF j \in 1 .. n - 1 THEN R[j] ELSE f[j]]
  <2>4. g \in F
    BY <2>3, <1>6
  <2>5. \A j \in 1 .. n - 1 : g[j] = R[j]
    BY <2>3
  <2> HIDE DEF g
  <2>6. NameAt(c, g, n) \in Names(c) /\ NameAt(c, g, n) = NameAt(c, R, n)
    BY <2>3, <2>4, <2>5, NameAtFits
  <2> QED BY <2>2, <2>3, <2>6, <1>10
<1>12. R \in F
  BY <1>8, <1>11
<1> QED BY <1>9, <1>10, <1>12

\* d is c with more behind it, or with the length of the data filled in.
SameNames(c, d) ==
  /\ Len(c) <= Len(d)
  /\ \A j \in 1 .. Len(c) : d[j].k = c[j].k /\ (c[j].k \in {"label", "ptr"} => d[j].v = c[j].v)

\* What is written behind a name does not change how it is read.
LEMMA NameStable ==
  ASSUME NEW c, NEW d, Sound(c), Sound(d), SameNames(c, d),
         NEW i \in 1 .. Len(c), Stop(c, i) <= Len(c)
  PROVE  i \in 1 .. Len(d) /\ Stop(d, i) = Stop(c, i) /\ ReadName(d)[i] = ReadName(c)[i]
<1> DEFINE Same(n) == ReadName(d)[n] = ReadName(c)[n]
           B == {n \in 1 .. Len(c) : Stop(c, n) <= Len(c) /\ ~(Stop(d, n) = Stop(c, n) /\ Same(n))}
<1>1. Len(c) \in Nat /\ Len(d) \in Nat /\ Len(c) <= Len(d)
  BY Listed DEF Sound, SameNames
<1>2. ASSUME NEW n \in 1 .. Len(c), Stop(c, n) <= Len(c) PROVE Stop(d, n) = Stop(c, n) /\ Labels(d, n) = Labels(c, n)
  <2> DEFINE s == Stop(c, n)
  <2>1. /\ s \in n .. Len(c) /\ s \in 1 .. Len(c) /\ c[s].k # "label"
        /\ \A j \in n .. s - 1 : j \in 1 .. Len(c) /\ c[j].k = "label"
    BY StopIs, <1>1, <1>2 DEF Sound
  <2> HIDE DEF s
  <2>2. /\ s \in n .. Len(d) + 1 /\ s \in 1 .. Len(d) /\ n \in 1 .. Len(d) + 1
        /\ \A j \in n .. s - 1 : d[j].k = "label" /\ d[j].v = c[j].v
        /\ d[s].k # "label"
    <3>1. s \in n .. Len(d) + 1 /\ s \in 1 .. Len(d) /\ n \in 1 .. Len(d) + 1
      BY <1>1, <2>1
    <3>2. \A j \in n .. s - 1 : d[j].k = "label" /\ d[j].v = c[j].v
      BY <2>1 DEF SameNames
    <3>3. d[s].k # "label"
      BY <2>1 DEF SameNames
    <3> QED BY <3>1, <3>2, <3>3
  <2>3. Stop(d, n) = s
    BY <2>2, StopAt DEF Sound
  <2>4. \A j \in 1 .. s - n : n + j - 1 \in n .. s - 1
    BY <2>1
  <2>5. [j \in 1 .. s - n |-> c[n + j - 1].v] = [j \in 1 .. s - n |-> d[n + j - 1].v]
    BY <2>2, <2>4
  <2> QED BY <2>3, <2>5 DEF s, Labels
<1>3. B = {}
  <2> SUFFICES ASSUME B # {} PROVE FALSE
    OBVIOUS
  <2>1. PICK n \in B : \A m \in B : n <= m
    <3>1. B \in SUBSET Nat
      OBVIOUS
    <3> HIDE DEF B
    <3> QED BY <3>1, Least
  <2>2. n \in 1 .. Len(c) /\ Stop(c, n) <= Len(c) /\ ~Same(n)
    BY <2>1, <1>2
  <2> DEFINE s == Stop(c, n)
             b == c[s].v
  <2>3. s \in n .. Len(c) /\ s \in 1 .. Len(c) /\ s \in 1 .. Len(d) /\ Stop(d, n) = s /\ Labels(d, n) = Labels(c, n)
    BY <1>1, <1>2, <2>2, StopIs DEF Sound
  <2>4. d[s].k = c[s].k /\ (c[s].k = "ptr" => d[s].v = b)
    BY <2>3 DEF SameNames
  <2>5. /\ ReadName(c)[n] = NameAt(c, ReadName(c), n) /\ ReadName(d)[n] = NameAt(d, ReadName(d), n)
        /\ n \in 1 .. Len(c) + 1 /\ n \in 1 .. Len(d) + 1
    <3>1. n \in 1 .. Len(c) + 1 /\ n \in 1 .. Len(d) + 1
      BY <1>1, <2>2
    <3> QED BY <3>1, ReadNameIs
  <2> HIDE DEF s, b, B
  <2>6. CASE c[s].k = "end"
    <3>1. ReadName(c)[n] = [labels |-> Labels(c, n), next |-> s + 1, ok |-> TRUE]
      BY <2>3, <2>5, <2>6, NameAtIs DEF s
    <3>2. ReadName(d)[n] = [labels |-> Labels(d, n), next |-> s + 1, ok |-> TRUE]
      BY <2>3, <2>4, <2>5, <2>6, NameAtIs
    <3> QED BY <2>2, <2>3, <3>1, <3>2
  <2>7. CASE c[s].k = "ptr" /\ b < n
    <3>1. b \in 1 .. n - 1 /\ b \in 1 .. Len(c) /\ b <= s
      <4>1. b \in 1 .. s - 1
        BY <2>3, <2>7 DEF Sound, b
      <4> QED BY <4>1, <2>2, <2>3, <2>7, <1>1
    <3>2. Stop(c, b) <= Len(c)
      <4>1. Stop(c, b) \in b .. Len(c) + 1 /\ \A j \in b .. Stop(c, b) - 1 : c[j].k = "label"
        BY <3>1, <1>1, StopIs DEF Sound
      <4>2. ~(s \in b .. Stop(c, b) - 1)
        BY <4>1, <2>7
      <4> QED BY <4>1, <4>2, <3>1, <2>3, <1>1
    <3>3. b \notin B
      BY <2>1, <3>1, <2>2
    <3>4. ReadName(d)[b] = ReadName(c)[b]
      BY <3>1, <3>2, <3>3 DEF B
    <3>5. ReadName(c)[n] = [labels |-> Labels(c, n) \o ReadName(c)[b].labels, next |-> s + 1, ok |-> ReadName(c)[b].ok]
      BY <2>2, <2>3, <2>5, <2>7, NameAtIs DEF s, b
    <3>6. ReadName(d)[n] = [labels |-> Labels(d, n) \o ReadName(d)[b].labels, next |-> s + 1, ok |-> ReadName(d)[b].ok]
      <4>1. d[s].k = "ptr" /\ d[s].v = b
        BY <2>4, <2>7
      <4> QED BY <2>3, <2>5, <2>7, <4>1, NameAtIs
    <3> QED BY <2>2, <2>3, <3>4, <3>5, <3>6
  <2>8. CASE c[s].k # "end" /\ ~(c[s].k = "ptr" /\ b < n)
    <3>1. ReadName(c)[n] = [labels |-> Labels(c, n), next |-> s, ok |-> FALSE]
      BY <2>3, <2>5, <2>8, NameAtIs DEF s, b
    <3>2. ReadName(d)[n] = [labels |-> Labels(d, n), next |-> s, ok |-> FALSE]
      BY <2>3, <2>4, <2>5, <2>8, NameAtIs DEF s, b
    <3> QED BY <2>2, <2>3, <3>1, <3>2
  <2> QED BY <2>6, <2>7, <2>8
<1>4. i \notin B /\ i \in 1 .. Len(d)
  <2> HIDE DEF B
  <2> QED BY <1>1, <1>3
<1> QED BY <1>4

-----------------------------------------------------------------------------
(* Writing names.                                                           *)

CellKinds == {"label", "ptr", "end", "fields", "data"}

\* Packets of cells with contents in V.
PacketOf(V) == [cells : Seq([k : CellKinds, v : V]), len : Nat]

\* d begins with c.
More(c, d) == Len(c) <= Len(d) /\ \A j \in 1 .. Len(c) : d[j] = c[j]

\* ... and e with d.
LEMMA MoreYet ==
  ASSUME NEW c, NEW d, NEW e, Len(c) \in Nat, Len(d) \in Nat, Len(e) \in Nat, More(c, d), More(d, e)
  PROVE  More(c, e)
<1>1. Len(c) <= Len(d) /\ Len(d) <= Len(e)
  BY DEF More
<1>2. \A j \in 1 .. Len(c) : j \in 1 .. Len(d)
  BY <1>1
<1>3. \A j \in 1 .. Len(c) : e[j] = c[j]
  BY <1>2 DEF More
<1> QED BY <1>1, <1>3 DEF More

\* One cell more.
LEMMA WriteIs ==
  ASSUME NEW V, NEW P \in PacketOf(V), NEW kind \in CellKinds, NEW v \in V, NEW n \in Nat
  PROVE  LET W == Write(P, kind, v, n)
         IN  /\ W \in PacketOf(V) /\ W.len = P.len + n
             /\ Len(W.cells) = Len(P.cells) + 1 /\ More(P.cells, W.cells)
             /\ W.cells[Len(P.cells) + 1] = [k |-> kind, v |-> v]
<1> DEFINE C == [k : CellKinds, v : V]
           e == [k |-> kind, v |-> v]
           W == Write(P, kind, v, n)
<1>1. P.cells \in Seq(C) /\ P.len \in Nat /\ e \in C
  BY DEF PacketOf
<1>2. W = [cells |-> Append(P.cells, e), len |-> P.len + n]
  BY DEF Write
<1> HIDE DEF C, e, W
<1>3. /\ Append(P.cells, e) \in Seq(C) /\ Len(Append(P.cells, e)) = Len(P.cells) + 1
      /\ \A i \in 1 .. Len(P.cells) : Append(P.cells, e)[i] = P.cells[i]
      /\ Append(P.cells, e)[Len(P.cells) + 1] = e
  BY <1>1, AppendProperties
<1>4. Len(P.cells) \in Nat /\ P.len + n \in Nat
  BY <1>1, LenProperties
<1>5. W \in PacketOf(V)
  BY <1>1, <1>2, <1>3, <1>4 DEF PacketOf, C
<1> QED BY <1>2, <1>3, <1>4, <1>5 DEF More, W, e

\* What a label, a pointer and the end of a name are.
Label(v) == [k |-> "label", v |-> v]

Pointer(i) == [k |-> "ptr", v |-> i]

End == [k |-> "end", v |-> ""]

\* Q is P with the first m labels behind it.
LabelsOn(P, labels, Q, m) ==
  /\ m \in 0 .. Len(labels)
  /\ Len(Q.cells) = Len(P.cells) + m /\ More(P.cells, Q.cells)
  /\ \A j \in 1 .. m : Q.cells[Len(P.cells) + j] = Label(labels[j])
  /\ m = 0 => Q = P
  /\ m # 0 => P.len < Q.len /\ Q.len < MaxPacket

\* One label more.
LEMMA OneLabelOn ==
  ASSUME NEW V, STRING \subseteq V, NEW P \in PacketOf(V), NEW labels \in Seq(STRING), NEW Q \in PacketOf(V),
         NEW m \in 1 .. Len(labels), LabelsOn(P, labels, Q, m - 1), Size(labels[m]) \in Nat,
         FitsBelow(Q, Size(labels[m]) + 1)
  PROVE  LET W == Write(Q, "label", labels[m], Size(labels[m]) + 1)
         IN  W \in PacketOf(V) /\ LabelsOn(P, labels, W, m)
<1> DEFINE n == Size(labels[m]) + 1
           W == Write(Q, "label", labels[m], n)
<1>1. /\ n \in Nat /\ n > 0 /\ labels[m] \in V /\ Len(labels) \in Nat /\ "label" \in CellKinds
      /\ P.len \in Nat /\ Q.len \in Nat /\ Len(P.cells) \in Nat /\ Len(Q.cells) \in Nat
      /\ m \in Nat /\ m - 1 \in Nat
  <2>1. Len(labels) \in Nat /\ labels[m] \in STRING /\ m \in Nat /\ m - 1 \in Nat
    OBVIOUS
  <2>2. P.cells \in Seq([k : CellKinds, v : V]) /\ Q.cells \in Seq([k : CellKinds, v : V]) /\ P.len \in Nat /\ Q.len \in Nat
    BY DEF PacketOf
  <2>3. Len(P.cells) \in Nat /\ Len(Q.cells) \in Nat
    BY <2>2, LenProperties
  <2>4. n \in Nat /\ n > 0
    OBVIOUS
  <2>5. labels[m] \in V
    BY <2>1, Zenon
  <2> HIDE DEF n
  <2>6. "label" \in CellKinds
    BY DEF CellKinds
  <2> QED BY <2>1, <2>2, <2>3, <2>4, <2>5, <2>6
<1> HIDE DEF n
<1>2. /\ W \in PacketOf(V) /\ W.len = Q.len + n
      /\ Len(W.cells) = Len(Q.cells) + 1 /\ More(Q.cells, W.cells)
      /\ W.cells[Len(Q.cells) + 1] = Label(labels[m])
  <2> DEFINE kind == "label"
             v == labels[m]
  <2>1. n \in Nat /\ v \in V /\ kind \in CellKinds /\ W = Write(Q, kind, v, n)
    BY <1>1
  <2>2. [k |-> kind, v |-> v] = Label(labels[m])
    BY DEF Label
  <2> HIDE DEF W, v, kind
  <2> QED BY <2>1, <2>2, WriteIs
<1>3. Q.len + n < MaxPacket
  BY DEF FitsBelow, n
<1> HIDE DEF W
<1>4. /\ Len(Q.cells) = Len(P.cells) + (m - 1) /\ More(P.cells, Q.cells)
      /\ \A j \in 1 .. m - 1 : Q.cells[Len(P.cells) + j] = Label(labels[j])
      /\ P.len <= Q.len
  BY <1>1 DEF LabelsOn
<1>5. Len(W.cells) = Len(P.cells) + m /\ Len(Q.cells) + 1 = Len(P.cells) + m
  BY <1>1, <1>2, <1>4
<1>6. More(P.cells, W.cells)
  BY <1>1, <1>2, <1>4 DEF More
<1>7. ASSUME NEW j \in 1 .. m PROVE W.cells[Len(P.cells) + j] = Label(labels[j])
  <2>1. CASE j = m
    BY <2>1, <1>2, <1>5
  <2>2. CASE j # m
    <3>1. j \in 1 .. m - 1 /\ Len(P.cells) + j \in 1 .. Len(Q.cells)
      <4>1. j \in 1 .. m - 1
        BY <2>2, <1>1
      <4>2. Len(Q.cells) = Len(P.cells) + (m - 1)
        BY <1>4
      <4> QED BY <4>1, <4>2, <1>1
    <3> QED BY <3>1, <1>2, <1>4 DEF More
  <2> QED BY <2>1, <2>2
<1>8. P.len < W.len /\ W.len < MaxPacket /\ m # 0
  <2>1. W.len = Q.len + n
    BY <1>2
  <2>2. P.len <= Q.len
    BY <1>4
  <2> QED BY <1>1, <1>3, <2>1, <2>2
<1>9. m \in 0 .. Len(labels)
  BY <1>1
<1> QED BY <1>2, <1>5, <1>6, <1>7, <1>8, <1>9 DEF LabelsOn, W, n

\* A run of labels is written up to the first that does not fit.
LEMMA LabelsWritten ==
  ASSUME NEW V, STRING \subseteq V, NEW P \in PacketOf(V), NEW labels \in Seq(STRING),
         \A i \in 1 .. Len(labels) : Size(labels[i]) \in Nat
  PROVE  LET a == AppendLabels(P, labels)
         IN  /\ a \in [p : PacketOf(V), whole : BOOLEAN]
             /\ \E m : LabelsOn(P, labels, a.p, m) /\ (a.whole <=> m = Len(labels))
<1> DEFINE L == Len(labels)
           R == [p : PacketOf(V), whole : BOOLEAN]
           base == [p |-> P, whole |-> TRUE]
           Op(a, s) == IF a.whole /\ FitsBelow(a.p, Size(s) + 1)
                       THEN [a EXCEPT !.p = Write(@, "label", s, Size(s) + 1)]
                       ELSE [a EXCEPT !.whole = FALSE]
           DD == [n \in 0 .. L |-> {a \in R : \E m : LabelsOn(P, labels, a.p, m) /\ m <= n /\ (a.whole <=> m = n)}]
           h == [x \in (1 .. L) \X R |-> Op(x[2], labels[x[1]])]
           f[n \in 0 .. L] == IF n = 0 THEN base ELSE Op(f[n - 1], labels[n])
<1>1. L \in Nat
  OBVIOUS
<1>2. base \in DD[0]
  <2>1. P.cells \in Seq([k : CellKinds, v : V])
    BY DEF PacketOf
  <2>2. Len(P.cells) \in Nat
    BY <2>1, LenProperties
  <2>3. LabelsOn(P, labels, P, 0)
    BY <1>1, <2>2 DEF LabelsOn, More
  <2>4. base \in R /\ 0 \in 0 .. L
    BY <1>1
  <2> QED BY <2>3, <2>4
<1>3. ASSUME NEW n \in 1 .. L, NEW a \in DD[n - 1]
      PROVE  h[<<n, a>>] = Op(a, labels[n]) /\ Op(a, labels[n]) \in DD[n]
  <2>1. n - 1 \in 0 .. L /\ n \in 0 .. L /\ n \in Nat
    BY <1>1
  <2>2. PICK m : a \in R /\ LabelsOn(P, labels, a.p, m) /\ m <= n - 1 /\ (a.whole <=> m = n - 1)
    BY <2>1
  <2>3. m \in Nat /\ a = [p |-> a.p, whole |-> a.whole] /\ a.p \in PacketOf(V)
    BY <2>2 DEF LabelsOn
  <2>4. CASE a.whole /\ FitsBelow(a.p, Size(labels[n]) + 1)
    <3> DEFINE W == Write(a.p, "label", labels[n], Size(labels[n]) + 1)
    <3>1. W \in PacketOf(V) /\ LabelsOn(P, labels, W, n)
      BY <2>2, <2>3, <2>4, OneLabelOn
    <3>2. Op(a, labels[n]) = [p |-> W, whole |-> a.whole]
      BY <2>3, <2>4
    <3> HIDE DEF W, Op
    <3>3. Op(a, labels[n]) \in DD[n]
      BY <2>1, <2>4, <3>1, <3>2
    <3> QED BY <3>3, <2>2 DEF Op
  <2>5. CASE ~(a.whole /\ FitsBelow(a.p, Size(labels[n]) + 1))
    <3>1. Op(a, labels[n]) = [p |-> a.p, whole |-> FALSE]
      BY <2>3, <2>5
    <3> HIDE DEF Op
    <3>2. m <= n /\ m # n
      BY <2>1, <2>2, <2>3
    <3>3. Op(a, labels[n]) \in DD[n]
      BY <2>1, <2>2, <2>3, <3>1, <3>2
    <3> QED BY <3>3, <2>2 DEF Op
  <2> QED BY <2>4, <2>5
<1>4. PICK g \in [0 .. L -> R] :
          /\ g[0] = base /\ \A n \in 1 .. L : g[n] = h[<<n, g[n - 1]>>]
          /\ \A n \in 0 .. L : g[n] \in DD[n]
  <2>1. \A n \in 0 .. L : DD[n] \subseteq R
    OBVIOUS
  <2> HIDE DEF L, DD, h, R, Op, f, base
  <2>2. \A n \in 1 .. L : \A w \in DD[n - 1] : h[<<n, w>>] \in DD[n]
    BY <1>3
  <2>3. LoopSteps(L, R, DD, base, h)
    BY <1>1, <1>2, <2>1, <2>2 DEF LoopSteps
  <2> QED BY <2>3, FoldExists
<1>5. g = [n \in 0 .. L |-> IF n = 0 THEN base ELSE Op(g[n - 1], labels[n])]
  <2> HIDE DEF L, DD, h, Op, f, R, base
  <2>1. ASSUME NEW n \in 1 .. L PROVE g[n] = Op(g[n - 1], labels[n])
    <3>1. n - 1 \in 0 .. L
      BY <1>1
    <3>2. g[n - 1] \in DD[n - 1] /\ g[n] = h[<<n, g[n - 1]>>]
      BY <3>1, <1>4
    <3> QED BY <3>2, <1>3
  <2>2. \A n \in 0 .. L : g[n] = IF n = 0 THEN base ELSE Op(g[n - 1], labels[n])
    BY <1>1, <1>4, <2>1
  <2> QED BY <2>2
<1>6. f = [n \in 0 .. L |-> IF n = 0 THEN base ELSE Op(f[n - 1], labels[n])]
  BY <1>5
<1>7. AppendLabels(P, labels) = f[L]
  BY DEF AppendLabels, Loop
<1> HIDE DEF f
<1>8. f[0] \in DD[0] /\ \A n \in 1 .. L : f[n - 1] \in DD[n - 1] => f[n] \in DD[n]
  <2> HIDE DEF Op, L, base, DD
  <2>1. f[0] = base /\ \A n \in 1 .. L : f[n] = Op(f[n - 1], labels[n])
    BY <1>1, <1>6
  <2> QED BY <1>2, <1>3, <2>1
<1>9. f[L] \in DD[L]
  <2> HIDE DEF DD, L
  <2>1. \A n \in 0 .. L : f[n] \in DD[n]
    BY <1>1, <1>8, Carried
  <2> QED BY <1>1, <2>1
<1>10. L \in 0 .. L
  BY <1>1
<1> QED BY <1>7, <1>9, <1>10

\* Adding cells that are sound themselves.
LEMMA SoundMore ==
  ASSUME NEW c, NEW d, Sound(c), IsList(d), More(c, d),
         \A j \in Len(c) + 1 .. Len(d) :
            /\ d[j].k = "ptr" => d[j].v \in 1 .. j - 1
            /\ d[j].k = "label" /\ d[j].v = Domain => j + 1 \in 1 .. Len(d) /\ d[j + 1].k = "end"
  PROVE  Sound(d)
<1>1. Len(c) \in Nat /\ Len(d) \in Nat /\ Len(c) <= Len(d)
  BY Listed DEF Sound, More
<1>2. ASSUME NEW j \in 1 .. Len(d)
      PROVE  /\ d[j].k = "ptr" => d[j].v \in 1 .. j - 1
             /\ d[j].k = "label" /\ d[j].v = Domain => j + 1 \in 1 .. Len(d) /\ d[j + 1].k = "end"
  <2>1. CASE j \in 1 .. Len(c)
    <3>1. d[j] = c[j]
      BY <2>1 DEF More
    <3>2. c[j].k = "ptr" => c[j].v \in 1 .. j - 1
      BY <2>1 DEF Sound
    <3>3. c[j].k = "label" /\ c[j].v = Domain => j + 1 \in 1 .. Len(c) /\ c[j + 1].k = "end"
      BY <2>1 DEF Sound
    <3>4. j + 1 \in 1 .. Len(c) => j + 1 \in 1 .. Len(d) /\ d[j + 1] = c[j + 1]
      BY <1>1 DEF More
    <3> QED BY <3>1, <3>2, <3>3, <3>4
  <2>2. CASE j \notin 1 .. Len(c)
    <3>1. j \in Len(c) + 1 .. Len(d)
      BY <1>1, <2>2
    <3> QED BY <3>1
  <2> QED BY <2>1, <2>2
<1> QED BY <1>2 DEF Sound

\* What follows a packet does not change its names.
LEMMA MoreSame ==
  ASSUME NEW c, NEW d, More(c, d)
  PROVE  SameNames(c, d)
BY DEF More, SameNames

\* Where a name is found, it is.
LEMMA FoundIs ==
  ASSUME NEW P, Sound(P.cells), NEW n, Found(P, n) # 0
  PROVE  /\ Found(P, n) \in 1 .. Len(P.cells) /\ n # <<>>
         /\ ReadName(P.cells)[Found(P, n)].ok /\ ReadName(P.cells)[Found(P, n)].labels = n
<1> DEFINE A == Places(P, n)
<1>1. DOMAIN P.cells = 1 .. Len(P.cells) /\ Len(P.cells) \in Nat
  BY Listed DEF Sound
<1>2. /\ A \in SUBSET Nat /\ A \subseteq 1 .. Len(P.cells)
      /\ \A i \in A : n # <<>> /\ ReadName(P.cells)[i].ok /\ ReadName(P.cells)[i].labels = n
  BY <1>1 DEF Places
<1> HIDE DEF A
<1>3. A # {} /\ Found(P, n) = Min(A)
  BY DEF Found, A
<1>4. PICK m \in A : \A k \in A : m <= k
  BY <1>2, <1>3, Least
<1>5. Min(A) \in A
  BY <1>4 DEF Min
<1> QED BY <1>2, <1>3, <1>5

\* ... up to a cell of the packet that ends it, if it ends with the domain.
LEMMA FoundFirm ==
  ASSUME NEW P, Sound(P.cells), NEW n, IsList(n), n # <<>> => n[Len(n)] = Domain, Found(P, n) # 0
  PROVE  Stop(P.cells, Found(P, n)) <= Len(P.cells)
<1> DEFINE c == P.cells
           i == Found(P, n)
           L == Len(c)
<1>1. /\ i \in 1 .. L /\ n # <<>> /\ ReadName(c)[i].labels = n /\ L \in Nat /\ i \in 1 .. L + 1
      /\ Sound(c) /\ IsList(c)
  BY FoundIs, Listed DEF Sound
<1> HIDE DEF i, c
<1>2. /\ Stop(c, i) \in i .. L + 1
      /\ \A j \in i .. Stop(c, i) - 1 : j \in 1 .. L /\ c[j].k = "label"
  BY <1>1, StopIs
<1>3. ASSUME Stop(c, i) = L + 1 PROVE FALSE
  <2>1. ReadName(c)[i] = NameAt(c, ReadName(c), i)
    BY <1>1, ReadNameIs
  <2>2. ReadName(c)[i] = [labels |-> Labels(c, i), next |-> L + 1, ok |-> TRUE]
    <3>1. L + 1 = Len(c) + 1
      OBVIOUS
    <3> HIDE DEF L
    <3> QED BY <1>1, <1>3, <2>1, <3>1, NameAtIs
  <2>3. n = Labels(c, i) /\ Len(n) = L + 1 - i
    <3>1. Len(Labels(c, i)) = Stop(c, i) - i
      BY <1>1, LabelsAre
    <3> QED BY <1>1, <1>3, <2>2, <3>1
  <2>4. Len(n) \in 1 .. L + 1 - i /\ i + Len(n) - 1 = L
    BY <1>1, <2>3
  <2>5. n[Len(n)] = c[L].v
    <3>1. \A j \in 1 .. L + 1 - i : n[j] = c[i + j - 1].v
      <4> DEFINE m == Stop(c, i) - i
      <4>1. n = [j \in 1 .. m |-> c[i + j - 1].v]
        BY <2>3 DEF Labels
      <4>2. m = L + 1 - i
        BY <1>1, <1>2, <1>3
      <4> HIDE DEF m
      <4>3. \A j \in 1 .. m : n[j] = c[i + j - 1].v
        BY <4>1
      <4> QED BY <4>2, <4>3
    <3> QED BY <2>4, <3>1
  <2>6. L \in 1 .. L /\ c[L].k = "label"
    BY <1>1, <1>2, <1>3
  <2>7. ~(L + 1 \in 1 .. L)
    BY <1>1
  <2>8. c[L].v # Domain
    BY <1>1, <2>6, <2>7 DEF Sound
  <2> QED BY <1>1, <2>5, <2>8
<1> QED BY <1>1, <1>2, <1>3 DEF i, c

\* The first part of a name that can be a pointer, or none.
LEMMA PointerAtIs ==
  ASSUME NEW P, NEW name, IsName(name)
  PROVE  LET k == PointerAt(P, name)
         IN  k \in 1 .. Len(name) + 1 /\ (k <= Len(name) => Found(P, Part(name, k)) # 0)
<1> DEFINE L == Len(name)
           Ok(k) == /\ k <= L => Found(P, Part(name, k)) # 0
                    /\ \A j \in 1 .. k - 1 : Found(P, Part(name, j)) = 0
           A == {k \in 1 .. L : Found(P, Part(name, k)) # 0} \cup {L + 1}
<1>1. L \in Nat /\ A \in SUBSET Nat /\ L + 1 \in A /\ A \subseteq 1 .. L + 1
  BY LenProperties DEF IsName
<1>2. PICK k \in A : \A m \in A : k <= m
  <2> HIDE DEF A
  <2> QED BY <1>1, Least
<1>3. k \in 1 .. L + 1 /\ (k <= L => Found(P, Part(name, k)) # 0)
  BY <1>1, <1>2
<1>4. ASSUME NEW j \in 1 .. k - 1 PROVE Found(P, Part(name, j)) = 0
  <2>1. j \in 1 .. L /\ ~(k <= j)
    BY <1>1, <1>3
  <2>2. j \notin A
    <3> HIDE DEF A
    <3> QED BY <1>2, <2>1
  <2> QED BY <2>1, <2>2
<1>5. Ok(k)
  BY <1>3, <1>4
<1>6. PointerAt(P, name) = CHOOSE x \in 1 .. L + 1 : Ok(x)
  BY DEF PointerAt
<1> HIDE DEF Ok
<1>7. PointerAt(P, name) \in 1 .. L + 1 /\ Ok(PointerAt(P, name))
  BY <1>3, <1>5, <1>6
<1> QED BY <1>7 DEF Ok

\* The parts before and behind a label.
LEMMA PartsOfName ==
  ASSUME NEW name, IsName(name), NEW k \in 1 .. Len(name) + 1
  PROVE  LET a == SubSeq(name, 1, k - 1)
             b == Part(name, k)
         IN  /\ a \in Seq(STRING) /\ Len(a) = k - 1 /\ (\A i \in 1 .. k - 1 : a[i] = name[i])
             /\ IsList(b) /\ (b # <<>> => b[Len(b)] = Domain) /\ (k = Len(name) + 1 => b = <<>>)
             /\ a \o b = name
<1> DEFINE L == Len(name)
           a == SubSeq(name, 1, k - 1)
           b == Part(name, k)
<1>1. /\ L \in Nat /\ IsList(name) /\ 1 \in 1 .. L + 1 /\ k - 1 \in 1 - 1 .. L /\ L \in k - 1 .. L
      /\ \A i \in 1 .. L : name[i] \in STRING /\ (name[i] = Domain <=> i = L)
  BY LenProperties, ListOf DEF IsName
<1>2. IsList(a) /\ Len(a) = k - 1 /\ \A i \in 1 .. k - 1 : a[i] = name[i]
  <2>1. (k - 1) - 1 + 1 = k - 1 /\ \A i \in 1 .. k - 1 : 1 + i - 1 = i
    BY <1>1
  <2> HIDE DEF a, L
  <2>2. IsList(a) /\ Len(a) = (k - 1) - 1 + 1 /\ \A i \in 1 .. (k - 1) - 1 + 1 : a[i] = name[1 + i - 1]
    BY <1>1, PartOf DEF a, L
  <2> QED BY <2>1, <2>2
<1>3. IsList(b) /\ Len(b) = L - k + 1 /\ \A i \in 1 .. L - k + 1 : b[i] = name[k + i - 1]
  <2> HIDE DEF b
  <2> QED BY <1>1, PartOf DEF b, Part, L
<1>4. a \in Seq(STRING)
  <2>1. \A i \in 1 .. k - 1 : a[i] \in STRING
    BY <1>1, <1>2
  <2>2. a = [i \in 1 .. k - 1 |-> a[i]] /\ k - 1 \in Nat
    BY <1>1, <1>2, Listed
  <2> HIDE DEF a
  <2>3. a \in [1 .. k - 1 -> STRING]
    BY <2>1, <2>2
  <2> QED BY <2>2, <2>3, SeqDef
<1>5. b # <<>> => b[Len(b)] = Domain
  <2> HIDE DEF b, L
  <2>1. ASSUME Len(b) = 0 PROVE b = <<>>
    BY <1>3, <2>1, EmptySeq, Listed
  <2>2. ASSUME Len(b) # 0 PROVE b[Len(b)] = Domain
    <3>1. L - k + 1 \in 1 .. L - k + 1 /\ k + (L - k + 1) - 1 = L /\ L \in 1 .. L
      BY <1>1, <1>3, <2>2
    <3> QED BY <3>1, <1>1, <1>3
  <2> QED BY <2>1, <2>2
<1>6. k = L + 1 => b = <<>>
  <2> HIDE DEF b, L
  <2>1. ASSUME k = L + 1 PROVE b = <<>>
    <3>1. Len(b) = 0
      BY <1>1, <1>3, <2>1
    <3> QED BY <3>1, <1>3, EmptySeq, Listed
  <2> QED BY <2>1
<1>7. a \o b = name
  <2> DEFINE u == a \o b
  <2>0. u = a \o b
    OBVIOUS
  <2> HIDE DEF a, b, L, u
  <2>1. /\ IsList(u) /\ Len(u) = Len(a) + Len(b)
        /\ \A i \in 1 .. Len(a) : u[i] = a[i]
        /\ \A i \in 1 .. Len(b) : u[Len(a) + i] = b[i]
    <3>1. IsJoin(a, b, u)
      BY <1>2, <1>3, <2>0 DEF IsJoin
    <3> QED BY <3>1, ListJoined
  <2>2. Len(u) = L
    BY <1>1, <1>2, <1>3, <2>1
  <2>3. ASSUME NEW i \in 1 .. L PROVE u[i] = name[i]
    <3>1. CASE i <= k - 1
      <4>1. i \in 1 .. k - 1
        BY <3>1, <1>1
      <4> QED BY <4>1, <1>2, <2>1
    <3>2. CASE ~(i <= k - 1)
      <4>1. i - (k - 1) \in 1 .. L - k + 1 /\ Len(a) + (i - (k - 1)) = i /\ k + (i - (k - 1)) - 1 = i
        BY <3>2, <1>1, <1>2
      <4> QED BY <4>1, <1>3, <2>1
    <3> QED BY <3>1, <3>2
  <2> QED BY <2>0, <2>1, <2>2, <2>3, <1>1, SameList DEF L
<1> QED BY <1>2, <1>3, <1>4, <1>5, <1>6, <1>7

\* The name at cell i is this name, whatever follows, and cell n is behind it.
NamedAt(c, i, name, n) ==
  /\ i \in 1 .. Len(c) /\ Stop(c, i) <= Len(c)
  /\ ReadName(c)[i] = [labels |-> name, next |-> n, ok |-> TRUE]

\* A name stays what it is.
LEMMA NamedStays ==
  ASSUME NEW c, NEW d, Sound(c), Sound(d), SameNames(c, d), NEW i, NEW name, NEW n, NamedAt(c, i, name, n)
  PROVE  NamedAt(d, i, name, n)
<1>1. i \in 1 .. Len(c) /\ Stop(c, i) <= Len(c) /\ Len(c) <= Len(d)
  BY DEF NamedAt, SameNames
<1>2. i \in 1 .. Len(d) /\ Stop(d, i) = Stop(c, i) /\ ReadName(d)[i] = ReadName(c)[i]
  BY <1>1, NameStable
<1>3. Stop(c, i) \in Nat /\ Len(c) \in Nat /\ Len(d) \in Nat
  <2>1. Len(c) \in Nat /\ Len(d) \in Nat /\ IsList(c)
    BY Listed DEF Sound
  <2>2. i \in 1 .. Len(c) + 1
    BY <1>1, <2>1
  <2> QED BY <2>1, <2>2, StopIs
<1>4. Stop(d, i) <= Len(d)
  BY <1>1, <1>2, <1>3
<1> QED BY <1>2, <1>4 DEF NamedAt

\* Nothing was found of an empty name.
LEMMA NoneFound ==
  ASSUME NEW P
  PROVE  Found(P, <<>>) = 0
BY DEF Found, Places

\* The cells of a packet.
LEMMA CellsOf ==
  ASSUME NEW V, NEW P \in PacketOf(V)
  PROVE  /\ IsList(P.cells) /\ Len(P.cells) \in Nat /\ P.len \in Nat
         /\ \A i \in 1 .. Len(P.cells) : P.cells[i] \in [k : CellKinds, v : V]
<1>1. P.cells \in Seq([k : CellKinds, v : V]) /\ P.len \in Nat
  BY DEF PacketOf
<1> QED BY <1>1, ListOf, LenProperties

\* Q is P with the labels, and with a cell behind them that is no label.
EndedOn(P, labels, Q, e) ==
  /\ Len(Q.cells) = Len(P.cells) + Len(labels) + 1 /\ More(P.cells, Q.cells)
  /\ \A j \in 1 .. Len(labels) : Q.cells[Len(P.cells) + j] = Label(labels[j])
  /\ Q.cells[Len(P.cells) + Len(labels) + 1] = e

\* Where labels that were written stop.
LEMMA EndedStop ==
  ASSUME NEW P, NEW labels, NEW Q, NEW e, EndedOn(P, labels, Q, e), IsList(Q.cells), IsList(labels),
         Len(P.cells) \in Nat, e.k # "label"
  PROVE  LET i == Len(P.cells) + 1
         IN  Stop(Q.cells, i) = Len(Q.cells) /\ Labels(Q.cells, i) = labels
<1> DEFINE i == Len(P.cells) + 1
           d == Q.cells
           L == Len(labels)
<1>1. L \in Nat /\ i \in Nat /\ Len(d) = Len(P.cells) + L + 1 /\ Len(d) = i + L
  BY Listed DEF EndedOn
<1>2. \A j \in 1 .. L : d[Len(P.cells) + j].k = "label" /\ d[Len(P.cells) + j].v = labels[j]
  <2>1. \A j \in 1 .. L : d[Len(P.cells) + j] = Label(labels[j])
    BY DEF EndedOn
  <2>2. \A v : Label(v).k = "label" /\ Label(v).v = v
    BY DEF Label
  <2> QED BY <2>1, <2>2
<1>3. d[Len(d)] = e
  BY <1>1 DEF EndedOn
<1>4. Len(P.cells) \in Nat
  OBVIOUS
<1>5. \A j \in i .. Len(d) - 1 : j - Len(P.cells) \in 1 .. L /\ Len(P.cells) + (j - Len(P.cells)) = j
  BY <1>1, <1>4
<1>6. \A j \in i .. Len(d) - 1 : d[j].k = "label"
  BY <1>2, <1>5
<1>7. Stop(d, i) = Len(d)
  <2>1. i \in 1 .. Len(d) + 1 /\ Len(d) \in i .. Len(d) + 1 /\ IsList(d) /\ d[Len(d)].k # "label"
    BY <1>1, <1>3
  <2> HIDE DEF d, i
  <2> QED BY <1>6, <2>1, StopAt
<1>8. Labels(d, i) = labels
  <2> DEFINE m == Stop(d, i) - i
  <2>1. m = L
    BY <1>1, <1>7
  <2>2. Labels(d, i) = [j \in 1 .. m |-> d[i + j - 1].v]
    BY DEF Labels
  <2>3. labels = [j \in 1 .. L |-> labels[j]]
    BY Listed
  <2>4. \A j \in 1 .. L : i + j - 1 = Len(P.cells) + j
    BY <1>4
  <2> HIDE DEF m, d, i, L
  <2>5. \A j \in 1 .. L : d[i + j - 1].v = labels[j]
    BY <1>2, <2>4
  <2> QED BY <2>1, <2>2, <2>3, <2>5
<1> QED BY <1>7, <1>8

\* A name that ends with its last label.
LEMMA EndRead ==
  ASSUME NEW P, NEW labels, NEW Q, EndedOn(P, labels, Q, End), Sound(P.cells), Sound(Q.cells), IsList(labels)
  PROVE  NamedAt(Q.cells, Len(P.cells) + 1, labels, Len(Q.cells) + 1)
<1> DEFINE i == Len(P.cells) + 1
           d == Q.cells
<1>1. Len(P.cells) \in Nat /\ Len(d) \in Nat /\ IsList(d) /\ Len(labels) \in Nat /\ End.k # "label"
  BY Listed DEF Sound, End
<1>2. Stop(d, i) = Len(d) /\ Labels(d, i) = labels
  BY <1>1, EndedStop
<1>3. Len(d) = Len(P.cells) + Len(labels) + 1 /\ d[Len(d)] = End
  BY <1>1 DEF EndedOn
<1>4. i \in 1 .. Len(d) /\ i \in 1 .. Len(d) + 1 /\ Len(d) \in 1 .. Len(d)
  BY <1>1, <1>3
<1>5. ReadName(d)[i] = NameAt(d, ReadName(d), i)
  BY <1>4, ReadNameIs
<1>6. d[Len(d)].k = "end"
  <2>1. End.k = "end"
    BY DEF End
  <2> QED BY <1>3, <2>1
<1> HIDE DEF i, d
<1>7. Sound(d)
  BY DEF d
<1>8. ReadName(d)[i] = [labels |-> labels, next |-> Len(d) + 1, ok |-> TRUE]
  BY <1>2, <1>4, <1>5, <1>6, <1>7, NameAtIs
<1>9. Stop(d, i) <= Len(d)
  BY <1>1, <1>2 DEF d
<1>10. NamedAt(d, i, labels, Len(d) + 1)
  BY <1>4, <1>8, <1>9 DEF NamedAt
<1> QED BY <1>10 DEF d, i

\* A name that ends with a pointer to a name.
LEMMA PointerRead ==
  ASSUME NEW P, NEW labels, NEW Q, NEW place, NEW rest, NEW n, NEW name, EndedOn(P, labels, Q, Pointer(place)),
         Sound(P.cells), Sound(Q.cells), IsList(labels), NamedAt(P.cells, place, rest, n), name = labels \o rest
  PROVE  NamedAt(Q.cells, Len(P.cells) + 1, name, Len(Q.cells) + 1)
<1> DEFINE i == Len(P.cells) + 1
           d == Q.cells
<1>1. Len(P.cells) \in Nat /\ Len(d) \in Nat /\ IsList(d) /\ Len(labels) \in Nat /\ Pointer(place).k # "label"
  BY Listed DEF Sound, Pointer
<1>2. Stop(d, i) = Len(d) /\ Labels(d, i) = labels
  BY <1>1, EndedStop
<1>3. Len(d) = Len(P.cells) + Len(labels) + 1 /\ d[Len(d)] = Pointer(place)
  BY <1>1 DEF EndedOn
<1>4. i \in 1 .. Len(d) /\ i \in 1 .. Len(d) + 1 /\ Len(d) \in 1 .. Len(d)
  BY <1>1, <1>3
<1>5. ReadName(d)[i] = NameAt(d, ReadName(d), i)
  BY <1>4, ReadNameIs
<1>6. d[Len(d)].k = "ptr" /\ d[Len(d)].v = place /\ d[Len(d)].k # "end"
  BY <1>3 DEF Pointer
<1>7. place < i
  BY <1>1 DEF NamedAt
<1>8. ReadName(d)[place].labels = rest /\ ReadName(d)[place].ok = TRUE
  <2>1. SameNames(P.cells, d)
    BY MoreSame DEF EndedOn
  <2>2. NamedAt(d, place, rest, n)
    BY <2>1, NamedStays
  <2> QED BY <2>2 DEF NamedAt
<1> HIDE DEF i, d
<1>9. Sound(d)
  BY DEF d
<1>10. ReadName(d)[i] = [labels |-> labels \o ReadName(d)[place].labels, next |-> Len(d) + 1, ok |-> ReadName(d)[place].ok]
  BY <1>2, <1>4, <1>5, <1>6, <1>7, <1>9, NameAtIs
<1>11. Stop(d, i) <= Len(d)
  BY <1>1, <1>2 DEF d
<1>12. ReadName(d)[i] = [labels |-> name, next |-> Len(d) + 1, ok |-> TRUE]
  BY <1>8, <1>10
<1>13. NamedAt(d, i, name, Len(d) + 1)
  BY <1>4, <1>11, <1>12 DEF NamedAt
<1> QED BY <1>13 DEF d, i

\* The new cells of a name.
NameCells(c, d) ==
  More(c, d) /\ \A j \in Len(c) + 1 .. Len(d) : d[j].k \in {"label", "ptr", "end"}

\* The new cells of a name that was cut off.
LabelCells(c, d) ==
  More(c, d) /\ \A j \in Len(c) + 1 .. Len(d) : d[j].k = "label"

\* Labels before the last one are sound.
LEMMA LabelsSound ==
  ASSUME NEW V, NEW P \in PacketOf(V), Sound(P.cells), NEW Q \in PacketOf(V), NEW labels, NEW m,
         LabelsOn(P, labels, Q, m), IsList(labels), \A j \in 1 .. m : labels[j] # Domain
  PROVE  Sound(Q.cells) /\ LabelCells(P.cells, Q.cells)
<1>1. /\ IsList(Q.cells) /\ Len(P.cells) \in Nat /\ Len(labels) \in Nat /\ m \in Nat
      /\ Len(Q.cells) = Len(P.cells) + m /\ More(P.cells, Q.cells)
  BY CellsOf, Listed DEF LabelsOn
<1>2. \A v : Label(v).k = "label" /\ Label(v).k # "ptr" /\ Label(v).v = v
  BY DEF Label
<1>3. ASSUME NEW j \in Len(P.cells) + 1 .. Len(Q.cells)
      PROVE  Q.cells[j].k = "label" /\ Q.cells[j].k # "ptr" /\ Q.cells[j].v # Domain
  <2>1. j - Len(P.cells) \in 1 .. m /\ Len(P.cells) + (j - Len(P.cells)) = j
    BY <1>1
  <2>2. Q.cells[j] = Label(labels[j - Len(P.cells)])
    BY <2>1 DEF LabelsOn
  <2> QED BY <1>2, <2>1, <2>2
<1>4. Sound(Q.cells)
  BY <1>1, <1>3, SoundMore
<1> QED BY <1>1, <1>3, <1>4 DEF LabelCells

\* Labels with the end of the name behind them.
LEMMA EndSound ==
  ASSUME NEW V, NEW P \in PacketOf(V), Sound(P.cells), NEW Q \in PacketOf(V), NEW labels,
         EndedOn(P, labels, Q, End), IsList(labels), \A j \in 1 .. Len(labels) : labels[j] = Domain => j = Len(labels)
  PROVE  Sound(Q.cells) /\ NameCells(P.cells, Q.cells)
<1> DEFINE c == P.cells
           d == Q.cells
           L == Len(labels)
<1>1. /\ IsList(d) /\ Len(c) \in Nat /\ L \in Nat
      /\ Len(d) = Len(c) + L + 1 /\ More(c, d)
  BY CellsOf, Listed DEF EndedOn
<1>2. \A v : Label(v).k = "label" /\ Label(v).k # "ptr" /\ Label(v).v = v
  BY DEF Label
<1>3. End.k = "end" /\ End.k # "label" /\ End.k # "ptr"
  BY DEF End
<1>4. \A j \in 1 .. L : d[Len(c) + j] = Label(labels[j])
  BY DEF EndedOn
<1>5. d[Len(c) + L + 1] = End
  BY DEF EndedOn
<1>6. Sound(c)
  OBVIOUS
<1>7. \A j \in 1 .. L : labels[j] = Domain => j = L
  OBVIOUS
<1> HIDE DEF c, d, L
<1>8. ASSUME NEW j \in Len(c) + 1 .. Len(d)
      PROVE  /\ d[j].k # "ptr" /\ d[j].k \in {"label", "ptr", "end"}
             /\ d[j].k = "label" /\ d[j].v = Domain => j + 1 \in 1 .. Len(d) /\ d[j + 1].k = "end"
  <2>1. CASE j = Len(d)
    BY <1>1, <1>3, <1>5, <2>1
  <2>2. CASE j # Len(d)
    <3>1. j - Len(c) \in 1 .. L /\ Len(c) + (j - Len(c)) = j
      BY <1>1, <2>2
    <3>2. d[j] = Label(labels[j - Len(c)])
      BY <1>4, <3>1
    <3>3. d[j].v = Domain => j + 1 = Len(c) + L + 1 /\ j + 1 \in 1 .. Len(d)
      <4>1. d[j].v = Domain => j - Len(c) = L
        BY <1>2, <1>7, <3>1, <3>2
      <4> QED BY <1>1, <3>1, <4>1
    <3> QED BY <1>2, <1>3, <1>5, <3>2, <3>3
  <2> QED BY <2>1, <2>2
<1>9. Sound(d)
  BY <1>1, <1>6, <1>8, SoundMore
<1> QED BY <1>1, <1>8, <1>9 DEF NameCells, c, d

\* Labels with a pointer behind them.
LEMMA PointerSound ==
  ASSUME NEW V, NEW P \in PacketOf(V), Sound(P.cells), NEW Q \in PacketOf(V), NEW labels, NEW place,
         EndedOn(P, labels, Q, Pointer(place)), IsList(labels), \A j \in 1 .. Len(labels) : labels[j] # Domain,
         place \in 1 .. Len(P.cells)
  PROVE  Sound(Q.cells) /\ NameCells(P.cells, Q.cells)
<1> DEFINE c == P.cells
           d == Q.cells
           L == Len(labels)
<1>1. /\ IsList(d) /\ Len(c) \in Nat /\ L \in Nat
      /\ Len(d) = Len(c) + L + 1 /\ More(c, d)
  BY CellsOf, Listed DEF EndedOn
<1>2. \A v : Label(v).k = "label" /\ Label(v).k # "ptr" /\ Label(v).v = v
  BY DEF Label
<1>3. Pointer(place).k = "ptr" /\ Pointer(place).k # "label" /\ Pointer(place).v = place
  BY DEF Pointer
<1>4. \A j \in 1 .. L : d[Len(c) + j] = Label(labels[j])
  BY DEF EndedOn
<1>5. d[Len(c) + L + 1] = Pointer(place)
  BY DEF EndedOn
<1>6. Sound(c) /\ place \in 1 .. Len(c)
  OBVIOUS
<1>7. \A j \in 1 .. L : labels[j] # Domain
  OBVIOUS
<1> HIDE DEF c, d, L
<1>8. ASSUME NEW j \in Len(c) + 1 .. Len(d)
      PROVE  /\ d[j].k = "ptr" => d[j].v \in 1 .. j - 1
             /\ d[j].k \in {"label", "ptr", "end"}
             /\ ~(d[j].k = "label" /\ d[j].v = Domain)
  <2>1. CASE j = Len(d)
    <3>1. d[j] = Pointer(place) /\ place \in 1 .. j - 1
      BY <1>1, <1>5, <1>6, <2>1
    <3> QED BY <1>3, <3>1
  <2>2. CASE j # Len(d)
    <3>1. j - Len(c) \in 1 .. L /\ Len(c) + (j - Len(c)) = j
      BY <1>1, <2>2
    <3>2. d[j] = Label(labels[j - Len(c)])
      BY <1>4, <3>1
    <3> QED BY <1>2, <1>7, <3>1, <3>2
  <2> QED BY <2>1, <2>2
<1>9. Sound(d)
  BY <1>1, <1>6, <1>8, SoundMore
<1> QED BY <1>1, <1>8, <1>9 DEF NameCells, c, d

\* The cell that ends a name.
LEMMA EndWritten ==
  ASSUME NEW V, NEW P \in PacketOf(V), NEW Q \in PacketOf(V), NEW labels, IsList(labels),
         LabelsOn(P, labels, Q, Len(labels)), NEW kind \in CellKinds, NEW v \in V, NEW n \in Nat \ {0}
  PROVE  LET W == Write(Q, kind, v, n)
         IN  W \in PacketOf(V) /\ EndedOn(P, labels, W, [k |-> kind, v |-> v]) /\ P.len < W.len
<1> DEFINE L == Len(labels)
           W == Write(Q, kind, v, n)
<1>1. /\ Len(P.cells) \in Nat /\ L \in Nat /\ P.len \in Nat /\ Q.len \in Nat /\ P.len <= Q.len
      /\ Len(Q.cells) = Len(P.cells) + L /\ More(P.cells, Q.cells)
  BY CellsOf, Listed DEF LabelsOn
<1>2. /\ W \in PacketOf(V) /\ W.len = Q.len + n
      /\ Len(W.cells) = Len(Q.cells) + 1 /\ More(Q.cells, W.cells)
      /\ W.cells[Len(Q.cells) + 1] = [k |-> kind, v |-> v]
  BY WriteIs
<1>3. \A j \in 1 .. L : Q.cells[Len(P.cells) + j] = Label(labels[j])
  BY DEF LabelsOn
<1> HIDE DEF W, L
<1>4. \A j \in 1 .. L : W.cells[Len(P.cells) + j] = Label(labels[j])
  <2>1. \A j \in 1 .. L : Len(P.cells) + j \in 1 .. Len(Q.cells)
    BY <1>1
  <2> QED BY <1>2, <1>3, <2>1 DEF More
<1>5. More(P.cells, W.cells) /\ Len(W.cells) = Len(P.cells) + L + 1
  <2>1. Len(W.cells) = Len(P.cells) + L + 1
    BY <1>1, <1>2
  <2>2. Len(W.cells) \in Nat /\ Len(Q.cells) \in Nat
    BY <1>1, <2>1
  <2> QED BY <1>1, <1>2, <2>1, <2>2, MoreYet
<1>6. P.len < W.len
  BY <1>1, <1>2
<1>7. W.cells[Len(P.cells) + L + 1] = [k |-> kind, v |-> v]
  BY <1>1, <1>2
<1> QED BY <1>2, <1>4, <1>5, <1>6, <1>7 DEF EndedOn, W, L

\* What adding a name to a packet leaves.
NameAdded(V, P, name, a) ==
  /\ a = [p |-> a.p, whole |-> a.whole, ok |-> a.ok] /\ a.p \in PacketOf(V) /\ a.whole \in BOOLEAN /\ a.ok \in BOOLEAN
  /\ Sound(a.p.cells) /\ NameCells(P.cells, a.p.cells) /\ P.len <= a.p.len
  /\ a.ok <=> Len(P.cells) < Len(a.p.cells)
  /\ ~a.ok => a.p = P
  /\ a.whole => a.ok /\ NamedAt(a.p.cells, Len(P.cells) + 1, name, Len(a.p.cells) + 1)
  /\ ~a.whole => LabelCells(P.cells, a.p.cells)

\* What the cells of a name hold.
NameContents(V) == STRING \subseteq V /\ Nat \subseteq V /\ "" \in V

\* A name is there as it was written, or it was cut off.
LEMMA AppendNameIs ==
  ASSUME NEW V, NameContents(V), NEW P \in PacketOf(V), Sound(P.cells), NEW name, IsName(name)
  PROVE  NameAdded(V, P, name, AppendName(P, name))
<1> DEFINE N == Len(name)
           k == PointerAt(P, name)
           labels == SubSeq(name, 1, k - 1)
           part == Part(name, k)
           place == Found(P, part)
           b == AppendLabels(P, labels)
           e == EndName(b, place)
           a == AppendName(P, name)
<1>1. N \in Nat /\ N > 0 /\ name \in Seq(STRING) /\ \A i \in 1 .. N : Size(name[i]) \in Nat /\ (name[i] = Domain <=> i = N)
  <2>1. name \in Seq(STRING) /\ name # <<>> /\ \A i \in 1 .. N : Size(name[i]) \in Nat /\ (name[i] = Domain <=> i = N)
    BY DEF IsName
  <2>2. N \in Nat /\ (N = 0 => name = <<>>)
    BY <2>1, LenProperties, EmptySeq
  <2> QED BY <2>1, <2>2
<1>2. k \in 1 .. N + 1 /\ (k <= N => place # 0)
  BY PointerAtIs
<1>3. /\ labels \in Seq(STRING) /\ Len(labels) = k - 1 /\ (\A i \in 1 .. k - 1 : labels[i] = name[i])
      /\ IsList(part) /\ (part # <<>> => part[Len(part)] = Domain) /\ (k = N + 1 => part = <<>>)
      /\ labels \o part = name
  BY <1>2, PartsOfName
<1>4. k = N + 1 => place = 0 /\ labels = name
  <2>1. k = N + 1 => labels = name
    <3>1. IsList(labels) /\ IsList(name)
      BY <1>1, <1>3, ListOf
    <3>2. k = N + 1 => Len(labels) = N
      BY <1>1, <1>2, <1>3
    <3> HIDE DEF labels, N
    <3> QED BY <1>1, <1>3, <3>1, <3>2, SameList DEF N
  <2> QED BY <1>3, <2>1, NoneFound
<1>5. PICK m : LabelsOn(P, labels, b.p, m) /\ (b.whole <=> m = k - 1) /\ b \in [p : PacketOf(V), whole : BOOLEAN]
  <2>1. \A i \in 1 .. Len(labels) : Size(labels[i]) \in Nat
    BY <1>1, <1>2, <1>3
  <2> HIDE DEF labels, k
  <2> QED BY <1>3, <2>1, LabelsWritten DEF NameContents
<1>6. b = [p |-> b.p, whole |-> b.whole] /\ b.p \in PacketOf(V) /\ b.p.len \in Nat /\ P.len \in Nat /\ m \in 0 .. k - 1
  BY <1>3, <1>5, CellsOf DEF LabelsOn
<1>7. a = Written(P, e)
  BY DEF AppendName, AppendUpTo
<1>8. a = [p |-> e.p, whole |-> e.whole, ok |-> e.p.len > P.len]
  <2> HIDE DEF a, e
  <2> QED BY <1>7 DEF Written
<1> HIDE DEF N, k, labels, part, place, b, e, a
<1>9. IsList(labels) /\ \A j \in 1 .. k - 1 : labels[j] = Domain => j = N
  <2>1. \A j \in 1 .. k - 1 : j \in 1 .. N
    BY <1>1, <1>2
  <2> QED BY <1>1, <1>3, <2>1, ListOf
<1>10. CASE b.whole /\ place # 0 /\ Fits(b.p, 2)
  <2> DEFINE W == Write(b.p, "ptr", place, 2)
  <2>1. e = [p |-> W, whole |-> TRUE]
    BY <1>6, <1>10 DEF e, EndName
  <2>2. k <= N
    BY <1>1, <1>2, <1>4, <1>10
  <2>3. /\ place \in 1 .. Len(P.cells) /\ place \in V
        /\ NamedAt(P.cells, place, part, ReadName(P.cells)[place].next)
    <3>1. place \in 1 .. Len(P.cells) /\ ReadName(P.cells)[place].ok /\ ReadName(P.cells)[place].labels = part
      BY <1>10, FoundIs DEF place
    <3>2. Stop(P.cells, place) <= Len(P.cells)
      BY <1>3, <1>10, FoundFirm DEF place
    <3>3. ReadName(P.cells)[place] = [labels |-> part, next |-> ReadName(P.cells)[place].next, ok |-> TRUE]
      <4>1. Len(P.cells) \in Nat
        BY CellsOf
      <4>2. ReadName(P.cells)[place] \in Names(P.cells)
        BY <3>1, <4>1, ReadNameIs
      <4> QED BY <3>1, <4>2 DEF Names
    <3>4. place \in V
      <4>1. place \in Nat
        BY <3>1, CellsOf
      <4> QED BY <4>1 DEF NameContents
    <3> QED BY <3>1, <3>2, <3>3, <3>4 DEF NamedAt
  <2>4. W \in PacketOf(V) /\ EndedOn(P, labels, W, Pointer(place)) /\ P.len < W.len
    <3> DEFINE kind == "ptr"
               n == 2
    <3>1. kind \in CellKinds /\ n \in Nat \ {0} /\ W = Write(b.p, kind, place, n) /\ Pointer(place) = [k |-> kind, v |-> place]
      BY DEF CellKinds, Pointer
    <3>2. LabelsOn(P, labels, b.p, Len(labels))
      BY <1>3, <1>5, <1>10
    <3> HIDE DEF W, kind, n
    <3> QED BY <1>6, <1>9, <2>3, <3>1, <3>2, EndWritten
  <2> HIDE DEF W
  <2>5. a = [p |-> W, whole |-> TRUE, ok |-> TRUE]
    BY <1>8, <2>1, <2>4
  <2>6. \A j \in 1 .. Len(labels) : labels[j] # Domain
    BY <1>1, <1>2, <1>3, <1>9, <2>2
  <2>7. Sound(W.cells) /\ NameCells(P.cells, W.cells)
    BY <1>9, <2>3, <2>4, <2>6, PointerSound
  <2>8. NamedAt(W.cells, Len(P.cells) + 1, name, Len(W.cells) + 1)
    BY <1>3, <1>9, <2>3, <2>4, <2>7, PointerRead
  <2>9. Len(P.cells) < Len(W.cells) /\ P.len <= W.len
    <3>1. Len(W.cells) = Len(P.cells) + Len(labels) + 1 /\ Len(labels) \in Nat /\ Len(P.cells) \in Nat /\ W.len \in Nat
      BY <1>9, <2>4, Listed, CellsOf DEF EndedOn
    <3> QED BY <1>6, <2>4, <3>1
  <2> QED BY <2>4, <2>5, <2>7, <2>8, <2>9 DEF NameAdded, a
<1>11. CASE b.whole /\ place = 0 /\ Fits(b.p, 1)
  <2> DEFINE W == Write(b.p, "end", "", 1)
  <2>1. e = [p |-> W, whole |-> TRUE]
    BY <1>6, <1>11 DEF e, EndName
  <2>2. k = N + 1 /\ labels = name
    BY <1>1, <1>2, <1>4, <1>11
  <2>4. W \in PacketOf(V) /\ EndedOn(P, labels, W, End) /\ P.len < W.len
    <3> DEFINE kind == "end"
               n == 1
               v == ""
    <3>1. kind \in CellKinds /\ n \in Nat \ {0} /\ W = Write(b.p, kind, v, n) /\ End = [k |-> kind, v |-> v]
      BY DEF CellKinds, End
    <3>2. v \in V
      BY DEF NameContents
    <3>3. LabelsOn(P, labels, b.p, Len(labels))
      BY <1>3, <1>5, <1>11
    <3> HIDE DEF W, kind, n, v
    <3> QED BY <1>6, <1>9, <3>1, <3>2, <3>3, EndWritten
  <2> HIDE DEF W
  <2>5. a = [p |-> W, whole |-> TRUE, ok |-> TRUE]
    BY <1>8, <2>1, <2>4
  <2>6. \A j \in 1 .. Len(labels) : labels[j] = Domain => j = Len(labels)
    BY <1>1, <1>3, <1>9, <2>2
  <2>7. Sound(W.cells) /\ NameCells(P.cells, W.cells)
    BY <1>9, <2>4, <2>6, EndSound
  <2>8. NamedAt(W.cells, Len(P.cells) + 1, name, Len(W.cells) + 1)
    BY <1>9, <2>2, <2>4, <2>7, EndRead
  <2>9. Len(P.cells) < Len(W.cells) /\ P.len <= W.len
    <3>1. Len(W.cells) = Len(P.cells) + Len(labels) + 1 /\ Len(labels) \in Nat /\ Len(P.cells) \in Nat /\ W.len \in Nat
      BY <1>9, <2>4, Listed, CellsOf DEF EndedOn
    <3> QED BY <1>6, <2>4, <3>1
  <2> QED BY <2>4, <2>5, <2>7, <2>8, <2>9 DEF NameAdded, a
<1>12. CASE ~(b.whole /\ place # 0 /\ Fits(b.p, 2)) /\ ~(b.whole /\ place = 0 /\ Fits(b.p, 1))
  <2>1. e = [p |-> b.p, whole |-> FALSE]
    BY <1>6, <1>12 DEF e, EndName
  <2>2. m < N
    <3>1. CASE ~b.whole
      BY <1>1, <1>2, <1>5, <1>6, <3>1
    <3>2. CASE b.whole /\ place # 0
      <4>1. k <= N
        BY <1>1, <1>2, <1>4, <3>2
      <4> QED BY <1>1, <1>2, <1>6, <4>1
    <3>3. CASE b.whole /\ place = 0
      <4>1. m = N /\ m # 0
        BY <1>1, <1>2, <1>5, <3>3
      <4>2. b.p.len < MaxPacket
        BY <1>5, <4>1 DEF LabelsOn
      <4>3. Fits(b.p, 1)
        BY <1>6, <4>2, PacketAssumption DEF Fits
      <4> QED BY <1>12, <3>3, <4>3
    <3> QED BY <3>1, <3>2, <3>3
  <2>3. \A j \in 1 .. m : labels[j] # Domain
    BY <1>1, <1>2, <1>6, <1>9, <2>2
  <2>4. Sound(b.p.cells) /\ LabelCells(P.cells, b.p.cells)
    BY <1>5, <1>6, <1>9, <2>3, LabelsSound
  <2>5. NameCells(P.cells, b.p.cells)
    BY <2>4 DEF NameCells, LabelCells
  <2>6. a = [p |-> b.p, whole |-> FALSE, ok |-> b.p.len > P.len]
    BY <1>8, <2>1
  <2>7. m = 0 => b.p = P
    BY <1>5 DEF LabelsOn
  <2>8. m # 0 => P.len < b.p.len
    BY <1>5 DEF LabelsOn
  <2>9. Len(b.p.cells) = Len(P.cells) + m /\ Len(P.cells) \in Nat
    BY <1>5, CellsOf DEF LabelsOn
  <2>10. /\ b.p.len > P.len <=> Len(P.cells) < Len(b.p.cells)
         /\ ~(b.p.len > P.len) => b.p = P
         /\ P.len <= b.p.len
    BY <1>6, <2>7, <2>8, <2>9
  <2>11. a.p = b.p /\ a.whole = FALSE /\ a.ok = (b.p.len > P.len) /\ a.ok \in BOOLEAN
    BY <2>6
  <2>12. a = [p |-> a.p, whole |-> a.whole, ok |-> a.ok]
    BY <2>6
  <2>13. NameAdded(V, P, name, a)
    BY <1>6, <2>4, <2>5, <2>10, <2>11, <2>12 DEF NameAdded
  <2> QED BY <2>13 DEF a
<1> QED BY <1>10, <1>11, <1>12
-----------------------------------------------------------------------------
(* Writing records.                                                         *)

\* A cell that is not of a name.
LEMMA CellSound ==
  ASSUME NEW V, NEW P \in PacketOf(V), Sound(P.cells), NEW kind \in CellKinds \ {"label", "ptr"}, NEW v \in V, NEW n \in Nat
  PROVE  LET W == Write(P, kind, v, n)
         IN  /\ W \in PacketOf(V) /\ Sound(W.cells) /\ More(P.cells, W.cells) /\ P.len <= W.len
             /\ Len(W.cells) = Len(P.cells) + 1 /\ W.cells[Len(P.cells) + 1] = [k |-> kind, v |-> v]
             /\ Len(P.cells) \in Nat /\ W.len \in Nat /\ P.len \in Nat
<1> DEFINE W == Write(P, kind, v, n)
           e == [k |-> kind, v |-> v]
<1>1. /\ W \in PacketOf(V) /\ W.len = P.len + n
      /\ Len(W.cells) = Len(P.cells) + 1 /\ More(P.cells, W.cells)
      /\ W.cells[Len(P.cells) + 1] = e
  <2> HIDE DEF W, e
  <2> QED BY WriteIs DEF W, e
<1>2. e.k # "label" /\ e.k # "ptr"
  OBVIOUS
<1>3. Len(P.cells) \in Nat /\ P.len \in Nat
  BY CellsOf
<1> HIDE DEF W, e
<1>4. IsList(W.cells) /\ W.len \in Nat
  BY <1>1, CellsOf
<1>5. \A j \in Len(P.cells) + 1 .. Len(W.cells) : W.cells[j] = e
  BY <1>1, <1>3
<1>6. Sound(W.cells)
  BY <1>1, <1>2, <1>4, <1>5, SoundMore
<1> QED BY <1>1, <1>3, <1>4, <1>6 DEF W, e

\* The data of r are at cell i, whatever follows.
DataAt(c, i, r) ==
  /\ i \in 1 .. Len(c)
  /\ r.type = "PTR" => NamedAt(c, i, r.data, ReadName(c)[i].next)
  /\ r.type = "SRV" => c[i].v = r.data[1] /\ NamedAt(c, i + 1, r.data[2], ReadName(c)[i + 1].next)
  /\ r.type \in {"TXT", "A"} => c[i].v = r.data

\* What adding the data of a record to a packet leaves.
DataAdded(V, P, r, w) ==
  /\ w = [p |-> w.p, whole |-> w.whole, ok |-> w.ok] /\ w.p \in PacketOf(V) /\ w.whole \in BOOLEAN /\ w.ok \in BOOLEAN
  /\ Sound(w.p.cells) /\ More(P.cells, w.p.cells) /\ P.len <= w.p.len
  /\ w.ok => Len(P.cells) < Len(w.p.cells)
  /\ w.whole => w.ok /\ DataAt(w.p.cells, Len(P.cells) + 1, r)

FieldsOf(r, n) == [type |-> r.type, ttl |-> r.ttl, len |-> n]

\* What the cells of a record hold.
Contents(V, r) ==
  /\ NameContents(V) /\ r.data \in V
  /\ r.type = "SRV" => r.data[1] \in V
  /\ \A n \in Nat : FieldsOf(r, n) \in V

\* The items of TXT data are left out, or counted in the length.
LEMMA ItemsAppended ==
  ASSUME NEW V, NEW P \in PacketOf(V), Sound(P.cells), NEW r, r.type = "TXT", r.data \in V,
         NEW E, r.data \in Seq(E), \A i \in DOMAIN r.data : ItemSize(r.data[i]) \in Nat
  PROVE  DataAdded(V, P, r, AppendItems(P, r.data))
<1> DEFINE items == r.data
           L == Len(items)
           R == [p : PacketOf(V), ok : BOOLEAN, whole : BOOLEAN]
           n0 == IF items = <<>> THEN 1 ELSE 0
           kind == "data"
           W == Write(P, kind, items, n0)
           base == [p |-> W, ok |-> TRUE, whole |-> TRUE]
           Op(a, t) == IF a.ok /\ FitsBelow(a.p, ItemSize(t) + 1)
                       THEN [a EXCEPT !.p.len = @ + ItemSize(t) + 1]
                       ELSE [a EXCEPT !.ok = FALSE, !.whole = FALSE]
           D == {a \in R : a.p.cells = W.cells /\ W.len <= a.p.len /\ a.ok = a.whole}
           DD == [n \in 0 .. L |-> D]
           h == [x \in (1 .. L) \X R |-> Op(x[2], items[x[1]])]
           f[n \in 0 .. L] == IF n = 0 THEN base ELSE Op(f[n - 1], items[n])
<1>1. L \in Nat /\ DOMAIN items = 1 .. L
  BY LenProperties
<1>2. /\ W \in PacketOf(V) /\ Sound(W.cells) /\ More(P.cells, W.cells) /\ P.len <= W.len
      /\ Len(W.cells) = Len(P.cells) + 1 /\ W.cells[Len(P.cells) + 1] = [k |-> kind, v |-> items]
      /\ Len(P.cells) \in Nat /\ W.len \in Nat /\ P.len \in Nat
  <2>1. kind \in CellKinds \ {"label", "ptr"} /\ n0 \in Nat /\ items \in V
    BY DEF CellKinds
  <2> HIDE DEF kind, n0, items
  <2> QED BY <2>1, CellSound
<1>3. W.cells \in Seq([k : CellKinds, v : V])
  BY <1>2 DEF PacketOf
<1> HIDE DEF W
<1>4. base \in D
  <2>1. base \in R
    BY <1>2
  <2>2. base.p = W /\ base.ok = base.whole /\ W.len <= W.len
    BY <1>2
  <2> HIDE DEF base, R
  <2> QED BY <2>1, <2>2
<1>5. ASSUME NEW n \in 1 .. L, NEW a \in D PROVE h[<<n, a>>] = Op(a, items[n]) /\ Op(a, items[n]) \in D
  <2> DEFINE s == ItemSize(items[n]) + 1
  <2>1. a = [p |-> a.p, ok |-> a.ok, whole |-> a.whole] /\ a.p = [cells |-> W.cells, len |-> a.p.len] /\ a.p.len \in Nat
        /\ a.ok \in BOOLEAN /\ a.whole \in BOOLEAN /\ a \in R /\ a.p \in PacketOf(V) /\ W.len <= a.p.len /\ a.ok = a.whole
    BY DEF PacketOf
  <2>2. s \in Nat
    BY <1>1
  <2>3. CASE a.ok /\ FitsBelow(a.p, s)
    <3> DEFINE Q == [cells |-> W.cells, len |-> a.p.len + s]
    <3>1. a.p.len + ItemSize(items[n]) + 1 = a.p.len + s
      BY <1>1, <2>1
    <3>2. Op(a, items[n]) = [p |-> Q, ok |-> a.ok, whole |-> a.whole]
      BY <2>1, <2>3, <3>1
    <3>3. Q \in PacketOf(V) /\ W.len <= Q.len
      BY <1>2, <1>3, <2>1, <2>2 DEF PacketOf
    <3>4. Op(a, items[n]) \in D
      BY <2>1, <3>2, <3>3
    <3> QED BY <2>1, <3>4
  <2>4. CASE ~(a.ok /\ FitsBelow(a.p, s))
    <3>1. Op(a, items[n]) = [p |-> a.p, ok |-> FALSE, whole |-> FALSE]
      BY <2>1, <2>4
    <3>2. Op(a, items[n]) \in D
      BY <2>1, <3>1
    <3> QED BY <2>1, <3>2
  <2> QED BY <2>3, <2>4
<1>6. PICK g \in [0 .. L -> R] :
          /\ g[0] = base /\ \A n \in 1 .. L : g[n] = h[<<n, g[n - 1]>>]
          /\ \A n \in 0 .. L : g[n] \in DD[n]
  <2>1. \A n \in 0 .. L : DD[n] \subseteq R /\ DD[n] = D
    OBVIOUS
  <2>2. 0 \in 0 .. L /\ \A n \in 1 .. L : n \in 0 .. L /\ n - 1 \in 0 .. L
    BY <1>1
  <2> HIDE DEF L, DD, D, h, R, Op, f, base
  <2>3. \A n \in 1 .. L : \A w \in DD[n - 1] : h[<<n, w>>] \in DD[n]
    BY <1>5, <2>1, <2>2
  <2>4. LoopSteps(L, R, DD, base, h)
    BY <1>1, <1>4, <2>1, <2>2, <2>3 DEF LoopSteps
  <2> QED BY <2>4, FoldExists
<1>7. g = [n \in 0 .. L |-> IF n = 0 THEN base ELSE Op(g[n - 1], items[n])]
  <2>1. \A n \in 0 .. L : DD[n] = D
    OBVIOUS
  <2> HIDE DEF L, DD, D, h, Op, f, R, base
  <2>2. ASSUME NEW n \in 1 .. L PROVE g[n] = Op(g[n - 1], items[n])
    <3>1. n - 1 \in 0 .. L
      BY <1>1
    <3>2. g[n - 1] \in D /\ g[n] = h[<<n, g[n - 1]>>]
      BY <3>1, <1>6, <2>1
    <3> QED BY <3>2, <1>5
  <2>3. \A n \in 0 .. L : g[n] = IF n = 0 THEN base ELSE Op(g[n - 1], items[n])
    BY <1>1, <1>6, <2>2
  <2> QED BY <2>3
<1>8. f = [n \in 0 .. L |-> IF n = 0 THEN base ELSE Op(f[n - 1], items[n])]
  BY <1>7
<1>9. AppendItems(P, items) = f[L]
  BY DEF AppendItems, Loop, W
<1> HIDE DEF f
<1>10. f[0] \in DD[0] /\ \A n \in 1 .. L : f[n - 1] \in DD[n - 1] => f[n] \in DD[n]
  <2>1. \A n \in 0 .. L : DD[n] = D
    OBVIOUS
  <2>2. 0 \in 0 .. L /\ \A n \in 1 .. L : n \in 0 .. L /\ n - 1 \in 0 .. L
    BY <1>1
  <2> HIDE DEF Op, L, base, DD, D
  <2>3. f[0] = base /\ \A n \in 1 .. L : f[n] = Op(f[n - 1], items[n])
    BY <1>1, <1>8
  <2>4. \A n \in 1 .. L : f[n - 1] \in D => f[n] \in D
    BY <1>5, <2>3
  <2> QED BY <1>4, <2>1, <2>2, <2>3, <2>4
<1>11. f[L] \in D
  <2>1. \A n \in 0 .. L : DD[n] = D
    OBVIOUS
  <2> HIDE DEF DD, D, L
  <2>2. \A n \in 0 .. L : f[n] \in DD[n]
    BY <1>1, <1>10, Carried
  <2> QED BY <1>1, <2>1, <2>2
<1> DEFINE w == f[L]
<1> HIDE DEF w
<1>12. /\ w = [p |-> w.p, whole |-> w.whole, ok |-> w.ok] /\ w.p \in PacketOf(V) /\ w.whole \in BOOLEAN
       /\ w.ok \in BOOLEAN /\ w.p.cells = W.cells /\ W.len <= w.p.len /\ w.ok = w.whole
  BY <1>11 DEF w
<1>13. P.len <= w.p.len /\ Len(P.cells) < Len(W.cells) /\ Len(P.cells) + 1 \in 1 .. Len(W.cells)
  <2>1. w.p.len \in Nat
    BY <1>12, CellsOf
  <2> QED BY <1>2, <1>12, <2>1
<1>14. DataAt(W.cells, Len(P.cells) + 1, r)
  <2>1. W.cells[Len(P.cells) + 1].v = r.data
    BY <1>2
  <2>2. r.type # "PTR" /\ r.type # "SRV"
    OBVIOUS
  <2> QED BY <1>13, <2>1, <2>2 DEF DataAt
<1>15. DataAdded(V, P, r, w)
  BY <1>2, <1>12, <1>13, <1>14 DEF DataAdded
<1> QED BY <1>9, <1>15 DEF w

\* The data of a record are there as they were written, or are not there as a whole.
LEMMA DataAppended ==
  ASSUME NEW V, NEW P \in PacketOf(V), Sound(P.cells), NEW r, IsRecord(r), Contents(V, r)
  PROVE  DataAdded(V, P, r, AppendData(P, r))
<1>0. NameContents(V) /\ r.data \in V /\ Len(P.cells) \in Nat /\ P.len \in Nat
  BY CellsOf DEF Contents
<1>a. ASSUME NEW c, NEW d, NameCells(c, d) PROVE More(c, d)
  BY <1>a DEF NameCells
<1>b. ASSUME NEW c, NEW i, NEW name, NEW n, NamedAt(c, i, name, n)
      PROVE  NamedAt(c, i, name, ReadName(c)[i].next) /\ i \in 1 .. Len(c)
  BY <1>b DEF NamedAt
<1>1. CASE r.type = "PTR" /\ IsName(r.data)
  <2> DEFINE w == AppendName(P, r.data)
  <2>1. NameAdded(V, P, r.data, w)
    BY <1>0, <1>1, AppendNameIs
  <2>2. AppendData(P, r) = w
    BY <1>1 DEF AppendData, AppendPtr
  <2> HIDE DEF w
  <2>3. w = [p |-> w.p, whole |-> w.whole, ok |-> w.ok] /\ w.p \in PacketOf(V) /\ w.whole \in BOOLEAN /\ w.ok \in BOOLEAN
        /\ Sound(w.p.cells) /\ More(P.cells, w.p.cells) /\ P.len <= w.p.len
        /\ (w.ok => Len(P.cells) < Len(w.p.cells))
    BY <2>1, <1>a DEF NameAdded
  <2>4. w.whole => w.ok /\ NamedAt(w.p.cells, Len(P.cells) + 1, r.data, Len(w.p.cells) + 1)
    BY <2>1 DEF NameAdded
  <2>5. w.whole => DataAt(w.p.cells, Len(P.cells) + 1, r)
    <3>1. r.type # "SRV" /\ r.type \notin {"TXT", "A"}
      BY <1>1
    <3>2. w.whole => NamedAt(w.p.cells, Len(P.cells) + 1, r.data, ReadName(w.p.cells)[Len(P.cells) + 1].next)
                     /\ Len(P.cells) + 1 \in 1 .. Len(w.p.cells)
      BY <2>4, <1>b
    <3> QED BY <3>1, <3>2 DEF DataAt
  <2> QED BY <2>2, <2>3, <2>4, <2>5 DEF DataAdded
<1>2. CASE r.type = "SRV" /\ IsName(r.data[2]) /\ Fits(P, 6)
  <2> DEFINE kind == "data"
             port == r.data[1]
             six == 6
             W == Write(P, kind, port, six)
             w == AppendName(W, r.data[2])
  <2>1. AppendData(P, r) = w
    BY <1>2 DEF AppendData, AppendSrv
  <2>2. /\ W \in PacketOf(V) /\ Sound(W.cells) /\ More(P.cells, W.cells) /\ P.len <= W.len
        /\ Len(W.cells) = Len(P.cells) + 1 /\ W.cells[Len(P.cells) + 1] = [k |-> kind, v |-> port]
        /\ Len(P.cells) \in Nat /\ W.len \in Nat /\ P.len \in Nat
    <3>1. kind \in CellKinds \ {"label", "ptr"} /\ port \in V /\ six \in Nat
      BY <1>2 DEF CellKinds, Contents
    <3> HIDE DEF kind, port, six
    <3> QED BY <3>1, CellSound
  <2> HIDE DEF W
  <2>3. NameAdded(V, W, r.data[2], w)
    BY <1>0, <1>2, <2>2, AppendNameIs
  <2> HIDE DEF w, kind
  <2> DEFINE d == w.p.cells
             i == Len(P.cells) + 1
  <2>4. w = [p |-> w.p, whole |-> w.whole, ok |-> w.ok] /\ w.p \in PacketOf(V) /\ w.whole \in BOOLEAN /\ w.ok \in BOOLEAN
        /\ Sound(d) /\ More(W.cells, d) /\ W.len <= w.p.len
    BY <2>3, <1>a DEF NameAdded
  <2>5. Len(d) \in Nat /\ w.p.len \in Nat /\ i \in 1 .. Len(W.cells) /\ i + 1 = Len(W.cells) + 1 /\ Len(W.cells) <= Len(d)
    BY <2>2, <2>4, CellsOf DEF More
  <2>6. More(P.cells, d) /\ P.len <= w.p.len /\ Len(P.cells) < Len(d)
    BY <2>2, <2>4, <2>5, MoreYet
  <2>7. w.whole => w.ok /\ NamedAt(d, i + 1, r.data[2], Len(d) + 1)
    BY <2>3, <2>5 DEF NameAdded
  <2>8. d[i].v = port /\ i \in 1 .. Len(d)
    <3>1. d[i] = W.cells[i]
      BY <2>4, <2>5 DEF More
    <3> QED BY <2>2, <2>5, <3>1
  <2>9. w.whole => DataAt(d, i, r)
    <3>1. r.type # "PTR" /\ r.type \notin {"TXT", "A"}
      BY <1>2
    <3>2. w.whole => NamedAt(d, i + 1, r.data[2], ReadName(d)[i + 1].next)
      BY <2>7, <1>b
    <3> QED BY <2>8, <3>1, <3>2 DEF DataAt
  <2> QED BY <2>1, <2>4, <2>6, <2>7, <2>9 DEF DataAdded
<1>3. CASE r.type = "TXT" /\ r.data \in Seq([key : STRING, value : STRING])
                          /\ \A i \in DOMAIN r.data : ItemSize(r.data[i]) \in Nat
  <2>1. DataAdded(V, P, r, AppendItems(P, r.data))
    BY <1>0, <1>3, ItemsAppended
  <2> QED BY <1>3, <2>1 DEF AppendData
<1>4. CASE r.type = "A" /\ Fits(P, 4)
  <2> DEFINE kind == "data"
             four == 4
             W == Write(P, kind, r.data, four)
             w == [p |-> W, ok |-> TRUE, whole |-> TRUE]
  <2>1. AppendData(P, r) = w
    BY <1>4 DEF AppendData, AppendIp
  <2>2. /\ W \in PacketOf(V) /\ Sound(W.cells) /\ More(P.cells, W.cells) /\ P.len <= W.len
        /\ Len(W.cells) = Len(P.cells) + 1 /\ W.cells[Len(P.cells) + 1] = [k |-> kind, v |-> r.data]
        /\ Len(P.cells) \in Nat /\ W.len \in Nat /\ P.len \in Nat
    <3>1. kind \in CellKinds \ {"label", "ptr"} /\ four \in Nat
      BY DEF CellKinds
    <3> HIDE DEF kind, four
    <3> QED BY <1>0, <3>1, CellSound
  <2> HIDE DEF W, kind
  <2>3. DataAt(W.cells, Len(P.cells) + 1, r)
    <3>1. r.type # "PTR" /\ r.type # "SRV" /\ Len(P.cells) + 1 \in 1 .. Len(W.cells) /\ W.cells[Len(P.cells) + 1].v = r.data
      BY <1>4, <2>2
    <3> QED BY <3>1 DEF DataAt
  <2>4. w = [p |-> w.p, whole |-> w.whole, ok |-> w.ok] /\ w.p = W /\ w.ok = TRUE /\ w.whole = TRUE
    OBVIOUS
  <2>5. Len(P.cells) < Len(W.cells)
    BY <2>2
  <2> HIDE DEF w
  <2> QED BY <2>1, <2>2, <2>3, <2>4, <2>5 DEF DataAdded
<1>5. CASE (r.type = "SRV" \/ r.type = "A") /\ AppendData(P, r) = Refused(P)
  <2> DEFINE w == Refused(P)
  <2>1. w = [p |-> w.p, whole |-> w.whole, ok |-> w.ok] /\ w.p = P /\ w.ok = FALSE /\ w.whole = FALSE
    BY DEF Refused
  <2>2. More(P.cells, P.cells) /\ P.len <= P.len
    BY <1>0 DEF More
  <2> HIDE DEF w
  <2> QED BY <1>5, <2>1, <2>2 DEF w, DataAdded
<1>6. r.type = "SRV" /\ ~Fits(P, 6) => AppendData(P, r) = Refused(P)
  BY DEF AppendData, AppendSrv
<1>7. r.type = "A" /\ ~Fits(P, 4) => AppendData(P, r) = Refused(P)
  BY DEF AppendData, AppendIp
<1> QED BY <1>1, <1>2, <1>3, <1>4, <1>5, <1>6, <1>7 DEF IsRecord

\* The fields of r, with so many cells of data.
FieldsCell(r, n) == [k |-> "fields", v |-> FieldsOf(r, n)]

\* The length of the data is set.
LEMMA LengthSet ==
  ASSUME NEW V, NEW P \in PacketOf(V), Sound(P.cells), NEW r, Contents(V, r),
         NEW i \in 1 .. Len(P.cells), P.cells[i] = FieldsCell(r, 0), NEW c, More(c, P.cells), i = Len(c) + 1
  PROVE  LET Q == SetLength(P, i)
         IN  /\ Q \in PacketOf(V) /\ Q.len = P.len /\ Len(Q.cells) = Len(P.cells)
             /\ Q.cells[i] = FieldsCell(r, Len(P.cells) - i)
             /\ \A j \in 1 .. Len(P.cells) : j # i => Q.cells[j] = P.cells[j]
             /\ Sound(Q.cells) /\ SameNames(P.cells, Q.cells) /\ More(c, Q.cells)
<1> DEFINE C == [k : CellKinds, v : V]
           L == Len(P.cells)
           n == L - i
           e == FieldsCell(r, n)
           Q == SetLength(P, i)
<1>1. P.cells \in Seq(C) /\ P.len \in Nat /\ P = [cells |-> P.cells, len |-> P.len] /\ L \in Nat /\ n \in Nat
      /\ IsList(P.cells) /\ P.cells \in [1 .. L -> C]
  <2>1. P.cells \in Seq(C) /\ P.len \in Nat /\ P = [cells |-> P.cells, len |-> P.len]
    BY DEF PacketOf
  <2> HIDE DEF C
  <2> QED BY <2>1, CellsOf, LenProperties
<1>2. e \in C
  <2>1. FieldsOf(r, n) \in V
    BY <1>1 DEF Contents
  <2> DEFINE kind == "fields"
  <2>2. kind \in CellKinds /\ e = [k |-> kind, v |-> FieldsOf(r, n)]
    BY DEF CellKinds, FieldsCell
  <2> HIDE DEF kind, e
  <2> QED BY <2>1, <2>2
<1>3. [P.cells[i] EXCEPT !.v.len = n] = e
  <2> DEFINE kind == "fields"
  <2>1. P.cells[i] = [k |-> kind, v |-> FieldsOf(r, 0)] /\ e = [k |-> kind, v |-> FieldsOf(r, n)]
    BY DEF FieldsCell
  <2>2. [FieldsOf(r, 0) EXCEPT !.len = n] = FieldsOf(r, n)
    BY DEF FieldsOf
  <2> HIDE DEF kind, e, n
  <2>3. [P.cells[i] EXCEPT !.v.len = n] = [k |-> kind, v |-> [FieldsOf(r, 0) EXCEPT !.len = n]]
    BY <2>1
  <2> QED BY <2>1, <2>2, <2>3
<1>4. Q = [cells |-> [P.cells EXCEPT ![i] = e], len |-> P.len]
  <2>1. Q = [P EXCEPT !.cells = [P.cells EXCEPT ![i] = [P.cells[i] EXCEPT !.v.len = n]]]
    BY DEF SetLength
  <2> HIDE DEF e, n, Q
  <2> QED BY <1>1, <1>3, <2>1
<1> HIDE DEF C, n, e, Q
<1>5. Q.cells = [P.cells EXCEPT ![i] = e] /\ Q.len = P.len
  BY <1>4
<1>6. Q.cells \in [1 .. L -> C] /\ Q.cells[i] = e /\ \A j \in 1 .. L : j # i => Q.cells[j] = P.cells[j]
  BY <1>1, <1>2, <1>5
<1>7. Q.cells \in Seq(C) /\ Len(Q.cells) = L
  <2>1. Q.cells \in Seq(C)
    BY <1>1, <1>6, SeqDef
  <2>2. DOMAIN Q.cells = 1 .. L
    BY <1>6
  <2> QED BY <1>1, <2>1, <2>2, LenProperties
<1>8. Q \in PacketOf(V)
  BY <1>1, <1>4, <1>5, <1>7 DEF PacketOf, C
<1>9. e.k = "fields" /\ P.cells[i].k = "fields"
  BY DEF e, FieldsCell
<1>10. \A j \in 1 .. L : Q.cells[j].k = P.cells[j].k /\ (P.cells[j].k \in {"label", "ptr"} => Q.cells[j].v = P.cells[j].v)
  BY <1>6, <1>9
<1>11. SameNames(P.cells, Q.cells)
  BY <1>1, <1>7, <1>10 DEF SameNames
<1>12. Sound(Q.cells)
  <2>1. IsList(Q.cells)
    BY <1>7, ListOf
  <2>2. \A j \in 1 .. L : P.cells[j].k = "ptr" => P.cells[j].v \in 1 .. j - 1
    BY DEF Sound
  <2>3. \A j \in 1 .. L : P.cells[j].k = "label" /\ P.cells[j].v = Domain => j + 1 \in 1 .. L /\ P.cells[j + 1].k = "end"
    BY DEF Sound
  <2> HIDE DEF L
  <2> QED BY <1>7, <1>10, <2>1, <2>2, <2>3 DEF Sound
<1>13. More(c, Q.cells)
  <2>1. Len(c) <= L /\ \A j \in 1 .. Len(c) : P.cells[j] = c[j]
    BY DEF More
  <2>2. \A j \in 1 .. Len(c) : j \in 1 .. L /\ j # i
    BY <1>1
  <2> QED BY <1>6, <1>7, <2>1, <2>2 DEF More
<1> QED BY <1>5, <1>6, <1>7, <1>8, <1>11, <1>12, <1>13 DEF e, n, Q

\* Data that are at a place stay there when a length before them is set.
LEMMA DataStays ==
  ASSUME NEW c, NEW d, Sound(c), Sound(d), SameNames(c, d), NEW r, NEW i, DataAt(c, i, r), d[i] = c[i]
  PROVE  DataAt(d, i, r)
<1>1. i \in 1 .. Len(d)
  <2>1. Len(c) \in Nat /\ Len(d) \in Nat
    BY Listed DEF Sound
  <2> QED BY <2>1 DEF DataAt, SameNames
<1>2. ASSUME NEW j, NEW name, NamedAt(c, j, name, ReadName(c)[j].next) PROVE NamedAt(d, j, name, ReadName(d)[j].next)
  <2>1. NamedAt(d, j, name, ReadName(c)[j].next)
    BY <1>2, NamedStays
  <2> QED BY <2>1 DEF NamedAt
<1> QED BY <1>1, <1>2 DEF DataAt

\* The record r is at cell i, as a whole if "whole", and the next one is at cell n.
RecordAt(c, i, r, whole, n) ==
  LET f == ReadName(c)[i].next
  IN  /\ NamedAt(c, i, r.name, f) /\ f \in 1 .. Len(c)
      /\ \E m \in Nat \ {0} : c[f] = FieldsCell(r, m) /\ n = f + 1 + m
      /\ n \in i + 1 .. Len(c) + 1
      /\ whole => DataAt(c, f + 1, r)

\* Nobody can read what is at cell i: the name was cut off, or the length was never set.
DeadAt(c, i) ==
  LET name == ReadName(c)[i]
  IN  /\ i \in 1 .. Len(c) /\ Stop(c, i) <= Len(c)
      /\ name.ok => name.next \in 1 .. Len(c) /\ \E r : c[name.next] = FieldsCell(r, 0)

\* What adding a record to a packet leaves.
RecordAdded(V, P, r, w) ==
  LET c == P.cells
      d == w.p.cells
      i == Len(c) + 1
  IN  /\ w = [p |-> w.p, ok |-> w.ok, whole |-> w.whole] /\ w.p \in PacketOf(V) /\ w.whole \in BOOLEAN /\ w.ok \in BOOLEAN
      /\ Sound(d) /\ More(c, d) /\ P.len <= w.p.len
      /\ w.whole => w.ok
      /\ \/ w.p = P /\ ~w.ok
         \/ w.ok /\ RecordAt(d, i, r, w.whole, Len(d) + 1)
         \/ ~w.whole /\ DeadAt(d, i)
         \/ ~w.ok /\ NameCells(c, d) /\ w.p.len + 10 >= MaxPacket
      /\ P.len + 10 >= MaxPacket => ~w.ok /\ NameCells(c, d)

\* Behind a name that was cut off.
LEMMA CutDead ==
  ASSUME NEW c, NEW b, NEW d, Len(c) \in Nat, Len(b) \in Nat, LabelCells(c, b), More(b, d), Sound(d),
         NEW r, NEW n, Len(b) + 1 \in 1 .. Len(d), d[Len(b) + 1] = FieldsCell(r, n)
  PROVE  DeadAt(d, Len(c) + 1)
<1> DEFINE i == Len(c) + 1
           f == Len(b) + 1
<1>1. Len(d) \in Nat /\ IsList(d) /\ Len(c) <= Len(b)
  BY Listed DEF Sound, LabelCells, More
<1>2. d[f].k # "label" /\ d[f].k # "end" /\ d[f].k # "ptr"
  BY DEF FieldsCell
<1>3. \A j \in i .. f - 1 : d[j].k = "label"
  <2>1. \A j \in i .. f - 1 : j \in Len(c) + 1 .. Len(b) /\ j \in 1 .. Len(b)
    BY <1>1
  <2> QED BY <2>1 DEF LabelCells, More
<1>4. i \in 1 .. Len(d) /\ i \in 1 .. Len(d) + 1 /\ f \in i .. Len(d) + 1 /\ f \in 1 .. Len(d)
  BY <1>1
<1> HIDE DEF i, f
<1>5. Stop(d, i) = f
  BY <1>1, <1>2, <1>3, <1>4, StopAt
<1>6. ReadName(d)[i] = NameAt(d, ReadName(d), i)
  BY <1>4, ReadNameIs
<1>7. ReadName(d)[i] = [labels |-> Labels(d, i), next |-> f, ok |-> FALSE]
  BY <1>2, <1>4, <1>5, <1>6, NameAtIs
<1>8. Stop(d, i) <= Len(d)
  BY <1>1, <1>4, <1>5
<1>9. ~ReadName(d)[i].ok
  BY <1>7
<1>10. DeadAt(d, i)
  BY <1>4, <1>8, <1>9 DEF DeadAt
<1> QED BY <1>10 DEF i

\* A record is there as it was written, or cut off in its data, or nobody can read it, or
\* it is left with a part of its name.
LEMMA RecordAppended ==
  ASSUME NEW V, NEW P \in PacketOf(V), Sound(P.cells), NEW r, IsRecord(r), Contents(V, r)
  PROVE  RecordAdded(V, P, r, AppendRecord(P, r))
<1> DEFINE a == AppendName(P, r.name)
           w == AppendRecord(P, r)
           c == P.cells
           i == Len(c) + 1
<1>0. NameContents(V) /\ IsName(r.name) /\ Len(c) \in Nat /\ P.len \in Nat /\ i \in Nat
  BY CellsOf DEF Contents, IsRecord
<1>1. NameAdded(V, P, r.name, a)
  BY <1>0, AppendNameIs
<1>2. w = AppendBehind(a, r)
  BY DEF AppendRecord
<1> HIDE DEF a, w
<1>3. /\ a.p \in PacketOf(V) /\ Sound(a.p.cells) /\ NameCells(c, a.p.cells) /\ More(c, a.p.cells) /\ P.len <= a.p.len
      /\ ~a.ok => a.p = P
      /\ a.whole => NamedAt(a.p.cells, i, r.name, Len(a.p.cells) + 1)
      /\ ~a.whole => LabelCells(c, a.p.cells)
      /\ a.whole \in BOOLEAN
  BY <1>1 DEF NameAdded, NameCells
<1>4. a.p.len \in Nat /\ Len(a.p.cells) \in Nat
  BY <1>3, CellsOf
<1>5. CASE ~((a.ok \/ r.name = Discovery) /\ FitsBelow(a.p, 10))
  <2>1. w = Refused(a.p)
    BY <1>2, <1>5 DEF AppendBehind
  <2>2. w = [p |-> a.p, ok |-> FALSE, whole |-> FALSE]
    BY <2>1 DEF Refused
  <2>3. w.p = a.p /\ w.ok = FALSE /\ w.whole = FALSE /\ w = [p |-> w.p, ok |-> w.ok, whole |-> w.whole]
    BY <2>2
  <2>4. w.p = P \/ w.p.len + 10 >= MaxPacket
    <3>1. CASE ~a.ok
      BY <1>3, <2>3, <3>1
    <3>2. CASE a.ok
      BY <1>4, <1>5, <2>3, <3>2, PacketAssumption DEF FitsBelow
    <3> QED BY <3>1, <3>2
  <2> HIDE DEF c, i
  <2>5. RecordAdded(V, P, r, w)
    BY <1>3, <2>3, <2>4 DEF RecordAdded, c
  <2> QED BY <2>5 DEF w
<1>6. CASE (a.ok \/ r.name = Discovery) /\ FitsBelow(a.p, 10)
  <2> DEFINE F == Fields(a.p, r)
             b == AppendData(F, r)
             f == Len(a.p.cells) + 1
             e == b.p.cells
  <2>1. w = Finish(a, b)
    BY <1>2, <1>6 DEF AppendBehind
  <2>2. /\ F \in PacketOf(V) /\ Sound(F.cells) /\ More(a.p.cells, F.cells) /\ a.p.len <= F.len
        /\ Len(F.cells) = f /\ F.cells[f] = FieldsCell(r, 0) /\ F.len \in Nat
    <3> DEFINE kind == "fields"
               n == 10
               v == FieldsOf(r, 0)
               W == Write(a.p, kind, v, n)
    <3>1. kind \in CellKinds \ {"label", "ptr"} /\ n \in Nat /\ v \in V
      BY DEF CellKinds, Contents
    <3>2. F = W /\ FieldsCell(r, 0) = [k |-> kind, v |-> v]
      BY DEF Fields, FieldsOf, FieldsCell
    <3> HIDE DEF kind, n, v, W
    <3>3. /\ W \in PacketOf(V) /\ Sound(W.cells) /\ More(a.p.cells, W.cells) /\ a.p.len <= W.len
          /\ Len(W.cells) = f /\ W.cells[f] = [k |-> kind, v |-> v] /\ W.len \in Nat
      BY <1>3, <3>1, CellSound DEF W
    <3> HIDE DEF F, f
    <3> QED BY <3>2, <3>3
  <2> HIDE DEF F
  <2>3. DataAdded(V, F, r, b)
    BY <2>2, DataAppended
  <2> HIDE DEF b
  <2>4. /\ b.p \in PacketOf(V) /\ b.ok \in BOOLEAN /\ b.whole \in BOOLEAN
        /\ Sound(e) /\ More(F.cells, e) /\ F.len <= b.p.len
        /\ b.ok => f < Len(e)
        /\ b.whole => b.ok /\ DataAt(e, f + 1, r)
    BY <2>2, <2>3 DEF DataAdded
  <2>5. Len(e) \in Nat /\ b.p.len \in Nat /\ f \in Nat /\ f \in 1 .. Len(e) /\ e[f] = FieldsCell(r, 0) /\ More(a.p.cells, e)
    <3>1. Len(e) \in Nat /\ b.p.len \in Nat
      BY <2>4, CellsOf
    <3>2. f \in Nat /\ f \in 1 .. Len(F.cells) /\ Len(F.cells) <= Len(e) /\ Len(F.cells) \in Nat
      BY <1>4, <2>2, <2>4 DEF More
    <3>3. e[f] = FieldsCell(r, 0)
      BY <2>2, <2>4, <3>2 DEF More
    <3>4. More(a.p.cells, e)
      BY <1>4, <2>2, <2>4, <3>1, <3>2, MoreYet
    <3> QED BY <3>1, <3>2, <3>3, <3>4
  <2>6. P.len <= b.p.len /\ ~(P.len + 10 >= MaxPacket)
    BY <1>0, <1>3, <1>4, <1>6, <2>2, <2>4, <2>5, PacketAssumption DEF FitsBelow
  <2>7. CASE ~b.ok
    <3>1. w = [p |-> b.p, ok |-> FALSE, whole |-> FALSE]
      BY <2>1, <2>4, <2>7 DEF Finish
    <3>2. DeadAt(e, i)
      <4>1. CASE a.whole
        <5>1. NamedAt(e, i, r.name, f)
          <6>1. NamedAt(a.p.cells, i, r.name, f) /\ SameNames(a.p.cells, e)
            BY <1>3, <2>5, <4>1, MoreSame
          <6> HIDE DEF i, f, e
          <6> QED BY <1>3, <2>4, <6>1, NamedStays
        <5> HIDE DEF e, i, f
        <5> QED BY <2>5, <5>1 DEF NamedAt, DeadAt
      <4>2. CASE ~a.whole
        BY <1>0, <1>3, <1>4, <2>4, <2>5, <4>2, CutDead
      <4> QED BY <1>3, <4>1, <4>2
    <3>3. More(c, e)
      BY <1>0, <1>3, <1>4, <2>5, MoreYet
    <3>4. w.p = b.p /\ w.ok = FALSE /\ w.whole = FALSE /\ w = [p |-> w.p, ok |-> w.ok, whole |-> w.whole]
      BY <3>1
    <3> HIDE DEF c, i
    <3>5. RecordAdded(V, P, r, w)
      BY <2>4, <2>6, <3>2, <3>3, <3>4 DEF RecordAdded, c, i
    <3> QED BY <3>5 DEF w
  <2>8. CASE b.ok
    <3> DEFINE Q == SetLength(b.p, f)
               d == Q.cells
               m == Len(e) - f
    <3>1. w = [p |-> Q, ok |-> TRUE, whole |-> a.whole /\ b.whole]
      BY <2>1, <2>4, <2>8 DEF Finish
    <3>2. /\ Q \in PacketOf(V) /\ Q.len = b.p.len /\ Len(d) = Len(e) /\ d[f] = FieldsCell(r, m)
          /\ \A j \in 1 .. Len(e) : j # f => d[j] = e[j]
          /\ Sound(d) /\ SameNames(e, d) /\ More(a.p.cells, d)
      <4> DEFINE p == b.p
                 u == a.p.cells
      <4>1. p \in PacketOf(V) /\ Sound(p.cells) /\ f \in 1 .. Len(p.cells) /\ p.cells[f] = FieldsCell(r, 0)
            /\ More(u, p.cells) /\ f = Len(u) + 1 /\ Q = SetLength(p, f)
        BY <2>4, <2>5
      <4> HIDE DEF f, Q, p, u
      <4>2. /\ Q \in PacketOf(V) /\ Q.len = p.len /\ Len(Q.cells) = Len(p.cells)
            /\ Q.cells[f] = FieldsCell(r, Len(p.cells) - f)
            /\ \A j \in 1 .. Len(p.cells) : j # f => Q.cells[j] = p.cells[j]
            /\ Sound(Q.cells) /\ SameNames(p.cells, Q.cells) /\ More(u, Q.cells)
        BY <4>1, LengthSet
      <4> QED BY <4>2 DEF p, u
    <3> HIDE DEF Q
    <3>3. m \in Nat \ {0} /\ Len(d) + 1 = f + 1 + m /\ f \in 1 .. Len(d) /\ f + 1 # f
      <4>1. f < Len(e) /\ Len(e) \in Nat /\ f \in Nat /\ f \in 1 .. Len(e)
        BY <2>4, <2>5, <2>8
      <4>2. Len(d) = Len(e)
        BY <3>2
      <4> HIDE DEF e, f, d
      <4> QED BY <4>1, <4>2
    <3>4. More(c, d) /\ Len(d) \in Nat /\ Len(c) <= Len(a.p.cells)
      BY <1>0, <1>3, <1>4, <2>5, <3>2, MoreYet DEF More
    <3>5. a.whole => RecordAt(d, i, r, a.whole /\ b.whole, Len(d) + 1)
      <4> DEFINE both == a.whole /\ b.whole
      <4> SUFFICES ASSUME a.whole PROVE RecordAt(d, i, r, both, Len(d) + 1)
        OBVIOUS
      <4>0. both => b.whole
        OBVIOUS
      <4>1. NamedAt(d, i, r.name, f)
        <5>1. NamedAt(a.p.cells, i, r.name, f) /\ SameNames(a.p.cells, d)
          BY <1>3, <3>2, MoreSame
        <5> HIDE DEF i, f, d
        <5> QED BY <1>3, <3>2, <5>1, NamedStays
      <4>2. ReadName(d)[i].next = f
        BY <4>1 DEF NamedAt
      <4>3. Len(d) + 1 \in i + 1 .. Len(d) + 1
        BY <1>0, <1>4, <3>3, <3>4
      <4>4. b.whole => DataAt(d, f + 1, r)
        <5> HIDE DEF e, f, d, m
        <5>1. b.whole => d[f + 1] = e[f + 1]
          <6>1. b.whole => f + 1 \in 1 .. Len(e)
            BY <2>4 DEF DataAt
          <6> QED BY <3>2, <3>3, <6>1
        <5> QED BY <2>4, <3>2, <5>1, DataStays
      <4> HIDE DEF d, m, f, i, e, both
      <4>5. \E q \in Nat \ {0} : d[f] = FieldsCell(r, q) /\ Len(d) + 1 = f + 1 + q
        BY <3>2, <3>3
      <4> QED BY <3>3, <4>0, <4>1, <4>2, <4>3, <4>4, <4>5 DEF RecordAt
    <3>6. ~a.whole => DeadAt(d, i)
      BY <1>0, <1>3, <1>4, <3>2, <3>3, CutDead
    <3>7. w.p = Q /\ w.ok = TRUE /\ w.whole = (a.whole /\ b.whole) /\ w = [p |-> w.p, ok |-> w.ok, whole |-> w.whole]
          /\ w.whole \in BOOLEAN
      BY <3>1
    <3>8. P.len <= Q.len
      BY <2>6, <3>2
    <3>9. RecordAt(d, i, r, w.whole, Len(d) + 1) \/ (~w.whole /\ DeadAt(d, i))
      <4> HIDE DEF d, i
      <4> QED BY <1>3, <2>4, <3>5, <3>6, <3>7
    <3> HIDE DEF c, i, m, f
    <3>10. RecordAdded(V, P, r, w)
      BY <2>6, <3>2, <3>4, <3>7, <3>8, <3>9 DEF RecordAdded, c, i
    <3> QED BY <3>10 DEF w
  <2> QED BY <2>4, <2>7, <2>8
<1> QED BY <1>5, <1>6
-----------------------------------------------------------------------------
(* Packets of records.                                                      *)

\* A record stays what it is, whatever follows it.
LEMMA RecordStays ==
  ASSUME NEW c, NEW d, Sound(c), Sound(d), More(c, d), NEW r, NEW i, NEW whole, NEW n, RecordAt(c, i, r, whole, n)
  PROVE  RecordAt(d, i, r, whole, n)
<1> DEFINE f == ReadName(c)[i].next
<1>1. /\ NamedAt(c, i, r.name, f) /\ f \in 1 .. Len(c)
      /\ \E m \in Nat \ {0} : c[f] = FieldsCell(r, m) /\ n = f + 1 + m
      /\ n \in i + 1 .. Len(c) + 1
      /\ whole => DataAt(c, f + 1, r)
  BY DEF RecordAt
<1>2. SameNames(c, d) /\ Len(c) \in Nat /\ Len(d) \in Nat /\ Len(c) <= Len(d)
  BY MoreSame, Listed DEF Sound, More
<1> HIDE DEF f
<1>3. NamedAt(d, i, r.name, f)
  BY <1>1, <1>2, NamedStays
<1>4. ReadName(d)[i].next = f
  BY <1>3 DEF NamedAt
<1>5. d[f] = c[f] /\ f \in 1 .. Len(d) /\ n \in i + 1 .. Len(d) + 1
  <2>1. i \in 1 .. Len(c)
    BY <1>1 DEF NamedAt
  <2> QED BY <1>1, <1>2, <2>1 DEF More
<1>6. whole => DataAt(d, f + 1, r)
  <2>1. whole => d[f + 1] = c[f + 1]
    <3>1. whole => f + 1 \in 1 .. Len(c)
      BY <1>1 DEF DataAt
    <3> QED BY <3>1 DEF More
  <2> QED BY <1>1, <1>2, <2>1, DataStays
<1> QED BY <1>1, <1>3, <1>4, <1>5, <1>6 DEF RecordAt

\* So does what nobody can read.
LEMMA DeadStays ==
  ASSUME NEW c, NEW d, Sound(c), Sound(d), More(c, d), NEW i, DeadAt(c, i)
  PROVE  DeadAt(d, i)
<1>1. i \in 1 .. Len(c) /\ Stop(c, i) <= Len(c)
  BY DEF DeadAt
<1>2. SameNames(c, d) /\ Len(c) \in Nat /\ Len(d) \in Nat /\ Len(c) <= Len(d) /\ IsList(c)
  BY MoreSame, Listed DEF Sound, More
<1>3. i \in 1 .. Len(d) /\ Stop(d, i) = Stop(c, i) /\ ReadName(d)[i] = ReadName(c)[i]
  BY <1>1, <1>2, NameStable
<1>4. Stop(c, i) \in Nat
  <2>1. i \in 1 .. Len(c) + 1
    BY <1>1, <1>2
  <2> QED BY <1>2, <2>1, StopIs
<1>5. Stop(d, i) <= Len(d)
  BY <1>1, <1>2, <1>3, <1>4
<1> DEFINE m == ReadName(c)[i].next
<1>6. ReadName(c)[i].ok => m \in 1 .. Len(c) /\ \E r : c[m] = FieldsCell(r, 0)
  BY DEF DeadAt
<1>7. m \in 1 .. Len(c) => m \in 1 .. Len(d) /\ d[m] = c[m]
  BY <1>2 DEF More
<1> HIDE DEF m
<1>8. ReadName(d)[i].ok => m \in 1 .. Len(d) /\ \E r : d[m] = FieldsCell(r, 0)
  BY <1>3, <1>6, <1>7
<1> QED BY <1>3, <1>5, <1>8 DEF DeadAt, m

\* The first m of the counted records, one behind the other.
Chain(c, counted, pos, m) ==
  /\ m \in 0 .. Len(counted) /\ pos[1] = 1 /\ pos[m + 1] \in 1 .. Len(c) + 1
  /\ \A i \in 1 .. m : RecordAt(c, pos[i], counted[i].record, counted[i].whole, pos[i + 1])

\* What is behind them: nothing; something that nobody can read; names in a packet that
\* has no room for another record.
AtEnd(P, counted, at, m) == at = Len(P.cells) + 1 /\ m = Len(counted)

NamesOnly(P, at) ==
  /\ P.len + 10 >= MaxPacket
  /\ \A j \in at .. Len(P.cells) : P.cells[j].k \in {"label", "ptr", "end"}

\* How the counted records lie in a packet.
LaidOut(a, pos, m) ==
  /\ Chain(a.p.cells, a.counted, pos, m)
  /\ AtEnd(a.p, a.counted, pos[m + 1], m) \/ DeadAt(a.p.cells, pos[m + 1]) \/ NamesOnly(a.p, pos[m + 1])
  /\ a.intact \in 0 .. m
  /\ a.whole => AtEnd(a.p, a.counted, pos[m + 1], m) /\ a.intact = m

\* Packets with their counted records.
Dispatches(V, E) == [p : PacketOf(V), counted : Seq([record : E, whole : BOOLEAN]), intact : Nat, whole : BOOLEAN]

\* What was laid out stays, when something that cannot be read is put behind it.
LEMMA ChainStays ==
  ASSUME NEW c, NEW d, Sound(c), Sound(d), More(c, d), NEW counted, NEW more, Len(counted) \in Nat, More(counted, more),
         Len(more) \in Nat, NEW pos, NEW m, Chain(c, counted, pos, m)
  PROVE  Chain(d, more, pos, m)
<1>1. Len(c) \in Nat /\ Len(d) \in Nat /\ Len(c) <= Len(d)
  BY Listed DEF Sound, More
<1>2. m \in 0 .. Len(more) /\ \A i \in 1 .. m : more[i] = counted[i]
  <2>1. m \in 0 .. Len(counted) /\ Len(counted) <= Len(more)
    BY DEF Chain, More
  <2>2. \A i \in 1 .. m : i \in 1 .. Len(counted)
    BY <2>1
  <2> QED BY <2>1, <2>2 DEF More
<1>3. \A i \in 1 .. m : RecordAt(d, pos[i], more[i].record, more[i].whole, pos[i + 1])
  <2>1. \A i \in 1 .. m : RecordAt(c, pos[i], counted[i].record, counted[i].whole, pos[i + 1])
    BY DEF Chain
  <2>2. \A i \in 1 .. m : RecordAt(d, pos[i], counted[i].record, counted[i].whole, pos[i + 1])
    BY <2>1, RecordStays
  <2> QED BY <1>2, <2>2
<1>4. pos[1] = 1 /\ pos[m + 1] \in 1 .. Len(d) + 1
  BY <1>1 DEF Chain
<1> QED BY <1>2, <1>3, <1>4 DEF Chain

\* ... and one record more.
LEMMA LaidNext ==
  ASSUME NEW V, NEW E, NEW a \in Dispatches(V, E), Sound(a.p.cells), NEW pos, NEW m, LaidOut(a, pos, m),
         NEW r \in E, NEW w, RecordAdded(V, a.p, r, w)
  PROVE  LET b == Count(a, r, w)
         IN  b \in Dispatches(V, E) /\ Sound(b.p.cells) /\ \E q, k : LaidOut(b, q, k)
<1> DEFINE b == Count(a, r, w)
           c == a.p.cells
           d == w.p.cells
           e == [record |-> r, whole |-> w.whole]
           L == Len(a.counted)
           at == pos[m + 1]
<1>1. /\ a = [p |-> a.p, counted |-> a.counted, intact |-> a.intact, whole |-> a.whole] /\ a.p \in PacketOf(V)
      /\ a.counted \in Seq([record : E, whole : BOOLEAN]) /\ a.intact \in Nat /\ a.whole \in BOOLEAN
  BY DEF Dispatches
<1>2. /\ w.p \in PacketOf(V) /\ w.whole \in BOOLEAN /\ w.ok \in BOOLEAN
      /\ Sound(d) /\ More(c, d) /\ a.p.len <= w.p.len
      /\ w.whole => w.ok
      /\ \/ w.p = a.p /\ ~w.ok
         \/ w.ok /\ RecordAt(d, Len(c) + 1, r, w.whole, Len(d) + 1)
         \/ ~w.whole /\ DeadAt(d, Len(c) + 1)
         \/ ~w.ok /\ NameCells(c, d) /\ w.p.len + 10 >= MaxPacket
      /\ a.p.len + 10 >= MaxPacket => ~w.ok /\ NameCells(c, d)
  BY DEF RecordAdded
<1>3. /\ L \in Nat /\ Len(c) \in Nat /\ Len(d) \in Nat /\ a.p.len \in Nat /\ w.p.len \in Nat /\ Len(c) <= Len(d)
      /\ IsList(a.counted)
  <2>1. L \in Nat /\ IsList(a.counted)
    BY <1>1, LenProperties, ListOf
  <2>2. Len(c) \in Nat /\ a.p.len \in Nat
    BY <1>1, CellsOf
  <2>3. Len(d) \in Nat /\ w.p.len \in Nat
    BY <1>2, CellsOf
  <2>4. Len(c) <= Len(d)
    BY <1>2 DEF More
  <2> QED BY <2>1, <2>2, <2>3, <2>4
<1> DEFINE more == IF w.ok THEN Append(a.counted, e) ELSE a.counted
           in == a.intact + (IF w.whole /\ a.whole THEN 1 ELSE 0)
           all == a.whole /\ w.whole
<1>4. b = [p |-> w.p, counted |-> more, intact |-> in, whole |-> all]
  BY DEF Count
<1>5. /\ more \in Seq([record : E, whole : BOOLEAN]) /\ Len(more) = (IF w.ok THEN L + 1 ELSE L) /\ More(a.counted, more)
      /\ Len(more) \in Nat
      /\ w.ok => more[L + 1] = e
  <2> DEFINE X == [record : E, whole : BOOLEAN]
  <2>1. e \in X /\ a.counted \in Seq(X)
    BY <1>1, <1>2
  <2> HIDE DEF e, X
  <2>2. Append(a.counted, e) \in Seq(X) /\ Len(Append(a.counted, e)) = L + 1 /\ Append(a.counted, e)[L + 1] = e
        /\ \A i \in 1 .. L : Append(a.counted, e)[i] = a.counted[i]
    BY <2>1, AppendProperties
  <2>3. CASE w.ok
    <3>1. more = Append(a.counted, e)
      BY <2>3
    <3> HIDE DEF more
    <3> QED BY <1>3, <2>2, <2>3, <3>1 DEF More, X
  <2>4. CASE ~w.ok
    <3>1. more = a.counted
      BY <2>4
    <3> HIDE DEF more
    <3> QED BY <1>3, <2>1, <2>4, <3>1 DEF More, X
  <2> QED BY <2>3, <2>4
<1>6. b.p = w.p /\ b.counted = more /\ b.intact = in /\ b.whole = all
  BY <1>4
<1>7. in \in Nat /\ all \in BOOLEAN
  BY <1>1, <1>2
<1>8. b \in Dispatches(V, E)
  <2> HIDE DEF b, in, all, more
  <2> QED BY <1>2, <1>4, <1>5, <1>7 DEF Dispatches
<1> HIDE DEF b, e, more
<1>9. /\ Chain(c, a.counted, pos, m) /\ a.intact \in 0 .. m /\ m \in 0 .. L /\ at \in 1 .. Len(c) + 1 /\ m \in Nat
      /\ AtEnd(a.p, a.counted, at, m) \/ DeadAt(c, at) \/ NamesOnly(a.p, at)
      /\ a.whole => AtEnd(a.p, a.counted, at, m) /\ a.intact = m
  <2>1. Chain(c, a.counted, pos, m) /\ a.intact \in 0 .. m
        /\ (AtEnd(a.p, a.counted, at, m) \/ DeadAt(c, at) \/ NamesOnly(a.p, at))
        /\ (a.whole => AtEnd(a.p, a.counted, at, m) /\ a.intact = m)
    BY DEF LaidOut
  <2>2. m \in 0 .. L /\ at \in 1 .. Len(c) + 1
    BY <2>1 DEF Chain
  <2> HIDE DEF at, c
  <2> QED BY <1>3, <2>1, <2>2
<1> HIDE DEF c, d, at, L
<1>10. Chain(d, more, pos, m)
  <2>1. Chain(c, a.counted, pos, m) /\ More(a.counted, more) /\ Len(a.counted) \in Nat /\ Len(more) \in Nat /\ Sound(c)
    BY <1>3, <1>5, <1>9 DEF L, c
  <2> QED BY <1>2, <2>1, ChainStays
<1>11. ASSUME ~(a.whole /\ w.whole),
              AtEnd(w.p, more, at, m) \/ DeadAt(d, at) \/ NamesOnly(w.p, at)
       PROVE  LaidOut(b, pos, m)
  <2>1. in \in 0 .. m /\ all = FALSE
    BY <1>1, <1>9, <1>11
  <2> HIDE DEF in, all
  <2> QED BY <1>6, <1>10, <1>11, <2>1 DEF LaidOut, d, at
<1> SUFFICES \E q, k : LaidOut(b, q, k)
  BY <1>2, <1>6, <1>8 DEF b, d
<1>12. CASE DeadAt(c, at)
  <2>1. DeadAt(d, at)
    BY <1>2, <1>12, DeadStays DEF c
  <2>2. ~a.whole
    <3>1. at \in 1 .. Len(c)
      BY <1>12 DEF DeadAt
    <3> QED BY <1>3, <1>9, <3>1 DEF AtEnd, c
  <2> QED BY <1>11, <2>1, <2>2
<1>13. CASE NamesOnly(a.p, at)
  <2>1. ~w.ok /\ NameCells(c, d) /\ w.p.len + 10 >= MaxPacket
    <3>1. a.p.len + 10 >= MaxPacket
      BY <1>13 DEF NamesOnly
    <3> QED BY <1>2, <1>3, <3>1, PacketAssumption
  <2>2. \A j \in at .. Len(d) : d[j].k \in {"label", "ptr", "end"}
    <3>1. ASSUME NEW j \in at .. Len(d) PROVE d[j].k \in {"label", "ptr", "end"}
      <4>1. CASE j \in 1 .. Len(c)
        <5>1. d[j] = c[j]
          BY <1>2, <4>1 DEF More
        <5>2. j \in at .. Len(c)
          BY <1>3, <1>9, <4>1
        <5> QED BY <1>13, <5>1, <5>2 DEF NamesOnly, c
      <4>2. CASE j \notin 1 .. Len(c)
        <5>1. j \in Len(c) + 1 .. Len(d)
          BY <1>3, <1>9, <4>2
        <5> QED BY <2>1, <5>1 DEF NameCells
      <4> QED BY <4>1, <4>2
    <3> QED BY <3>1
  <2>3. NamesOnly(w.p, at) /\ ~w.whole
    BY <1>2, <2>1, <2>2 DEF NamesOnly, d
  <2> QED BY <1>11, <2>3
<1>14. CASE AtEnd(a.p, a.counted, at, m) /\ w.p = a.p /\ ~w.ok
  <2>1. AtEnd(w.p, more, at, m) /\ ~w.whole
    BY <1>2, <1>14 DEF AtEnd, more
  <2> QED BY <1>11, <2>1
<1>15. CASE AtEnd(a.p, a.counted, at, m) /\ ~w.whole /\ DeadAt(d, Len(c) + 1)
  <2>1. at = Len(c) + 1
    BY <1>15 DEF AtEnd, c
  <2> QED BY <1>11, <1>15, <2>1
<1>16. CASE AtEnd(a.p, a.counted, at, m) /\ ~w.ok /\ NameCells(c, d) /\ w.p.len + 10 >= MaxPacket
  <2>1. at = Len(c) + 1
    BY <1>16 DEF AtEnd, c
  <2>2. NamesOnly(w.p, at) /\ ~w.whole
    BY <1>2, <1>16, <2>1 DEF NamesOnly, NameCells, d
  <2> QED BY <1>11, <2>2
<1>17. CASE AtEnd(a.p, a.counted, at, m) /\ w.ok /\ RecordAt(d, Len(c) + 1, r, w.whole, Len(d) + 1)
  <2> DEFINE k == m + 1
             q == [i \in 1 .. k + 1 |-> IF i = k + 1 THEN Len(d) + 1 ELSE pos[i]]
  <2>1. at = Len(c) + 1 /\ m = L /\ k \in Nat /\ Len(more) = k
    BY <1>3, <1>5, <1>9, <1>17 DEF AtEnd, c, L
  <2>2. q[k + 1] = Len(d) + 1 /\ q[k] = at /\ \A i \in 1 .. k : q[i] = pos[i]
    <3>1. \A i \in 1 .. k : i \in 1 .. k + 1 /\ i # k + 1
      BY <2>1
    <3>2. k \in 1 .. k /\ k + 1 \in 1 .. k + 1 /\ k = m + 1
      BY <1>9
    <3> HIDE DEF k
    <3>3. q[k + 1] = Len(d) + 1 /\ \A i \in 1 .. k : q[i] = pos[i]
      BY <3>1, <3>2
    <3> HIDE DEF q
    <3> QED BY <3>2, <3>3 DEF at
  <2> HIDE DEF q
  <2>3. q[1] = 1 /\ q[k + 1] \in 1 .. Len(d) + 1
    <3>1. 1 \in 1 .. k /\ pos[1] = 1
      BY <1>9 DEF Chain
    <3> QED BY <1>3, <2>2, <3>1
  <2>4. ASSUME NEW i \in 1 .. k PROVE RecordAt(d, q[i], more[i].record, more[i].whole, q[i + 1])
    <3>1. CASE i = k
      <4>1. more[k].record = r /\ more[k].whole = w.whole
        <5>1. more[k] = e
          BY <1>5, <1>17, <2>1
        <5> QED BY <5>1 DEF e
      <4> QED BY <1>17, <2>1, <2>2, <3>1, <4>1
    <3>2. CASE i # k
      <4>1. i \in 1 .. m /\ i + 1 \in 1 .. k
        BY <1>9, <3>2
      <4>2. q[i] = pos[i] /\ q[i + 1] = pos[i + 1]
        BY <2>2, <4>1
      <4> QED BY <1>10, <4>1, <4>2 DEF Chain
    <3> QED BY <3>1, <3>2
  <2>5. Chain(d, more, q, k) /\ AtEnd(w.p, more, q[k + 1], k)
    <3>1. k \in 0 .. Len(more)
      BY <2>1
    <3> QED BY <2>1, <2>2, <2>3, <2>4, <3>1 DEF Chain, AtEnd, d
  <2>6. in \in 0 .. k /\ (all => in = k)
    BY <1>1, <1>2, <1>9
  <2> HIDE DEF k, in, all
  <2>7. LaidOut(b, q, k)
    BY <1>6, <2>5, <2>6 DEF LaidOut, d
  <2> QED BY <2>7
<1> QED BY <1>2, <1>9, <1>12, <1>13, <1>14, <1>15, <1>16, <1>17

\* Values that the cells of the records of E hold.
Values(E) ==
  STRING \cup Nat \cup {""} \cup {r.data : r \in E} \cup {r.data[1] : r \in E}
  \cup {FieldsOf(x[1], x[2]) : x \in E \X Nat}

LEMMA ValuesAre ==
  ASSUME NEW E, NEW r \in E
  PROVE  Contents(Values(E), r)
<1>1. NameContents(Values(E))
  BY DEF Values, NameContents
<1>2. r.data \in Values(E) /\ r.data[1] \in Values(E)
  BY DEF Values
<1>3. ASSUME NEW n \in Nat PROVE FieldsOf(r, n) \in Values(E)
  <2> DEFINE x == <<r, n>>
  <2>1. x \in E \X Nat /\ FieldsOf(r, n) = FieldsOf(x[1], x[2])
    OBVIOUS
  <2> HIDE DEF x
  <2> QED BY <2>1 DEF Values
<1> QED BY <1>1, <1>2, <1>3 DEF Contents

\* An empty packet.
LEMMA NothingLaid ==
  ASSUME NEW V, NEW E, NEW n \in Nat
  PROVE  LET a == [p |-> [cells |-> <<>>, len |-> n], counted |-> <<>>, intact |-> 0, whole |-> TRUE]
         IN  a \in Dispatches(V, E) /\ Sound(a.p.cells) /\ \E q, k : LaidOut(a, q, k)
<1> DEFINE P == [cells |-> <<>>, len |-> n]
           a == [p |-> P, counted |-> <<>>, intact |-> 0, whole |-> TRUE]
           pos == [i \in 1 .. 1 |-> 1]
<1>1. Len(<<>>) = 0
  OBVIOUS
<1>2. P \in PacketOf(V) /\ P.cells = <<>>
  BY DEF PacketOf
<1>3. a \in Dispatches(V, E) /\ a.p = P /\ a.counted = <<>> /\ a.intact = 0 /\ a.whole = TRUE
  <2>1. <<>> \in Seq([record : E, whole : BOOLEAN])
    OBVIOUS
  <2> HIDE DEF P
  <2> QED BY <1>2, <2>1 DEF Dispatches
<1>4. Sound(<<>>)
  <2>1. <<>> \in Seq({})
    OBVIOUS
  <2>2. IsList(<<>>)
    BY <2>1, ListOf
  <2> QED BY <1>1, <2>2 DEF Sound
<1>5. pos[1] = 1
  OBVIOUS
<1> HIDE DEF P, a, pos
<1>6. pos[0 + 1] = 1 /\ Len(P.cells) = 0 /\ Len(a.counted) = 0
  BY <1>1, <1>2, <1>3, <1>5
<1>7. Chain(a.p.cells, a.counted, pos, 0) /\ AtEnd(a.p, a.counted, pos[0 + 1], 0)
  BY <1>3, <1>5, <1>6 DEF Chain, AtEnd
<1>8. LaidOut(a, pos, 0)
  BY <1>3, <1>7 DEF LaidOut
<1>9. a.p.cells = <<>>
  BY <1>2, <1>3
<1>10. a \in Dispatches(V, E) /\ Sound(a.p.cells) /\ \E q, k : LaidOut(a, q, k)
  BY <1>3, <1>4, <1>8, <1>9
<1> QED BY <1>10 DEF a, P

\* How records lie in the packet they are dispatched in.
LEMMA DispatchLaid ==
  ASSUME NEW E, \A r \in E : IsRecord(r), NEW rs \in Seq(E), NEW room \in Nat
  PROVE  LET a == Dispatch([cells |-> <<>>, len |-> room], rs)
         IN  a \in Dispatches(Values(E), E) /\ Sound(a.p.cells) /\ \E q, k : LaidOut(a, q, k)
<1> DEFINE V == Values(E)
           L == Len(rs)
           R == Dispatches(V, E)
           base == [p |-> [cells |-> <<>>, len |-> room], counted |-> <<>>, intact |-> 0, whole |-> TRUE]
           Op(a, r) == Count(a, r, AppendRecord(a.p, r))
           D == {a \in R : Sound(a.p.cells) /\ \E q, k : LaidOut(a, q, k)}
           DD == [n \in 0 .. L |-> D]
           h == [x \in (1 .. L) \X R |-> Op(x[2], rs[x[1]])]
           f[n \in 0 .. L] == IF n = 0 THEN base ELSE Op(f[n - 1], rs[n])
<1>1. L \in Nat
  OBVIOUS
<1>2. base \in D
  BY NothingLaid
<1>3. ASSUME NEW n \in 1 .. L, NEW a \in D PROVE h[<<n, a>>] = Op(a, rs[n]) /\ Op(a, rs[n]) \in D
  <2>1. rs[n] \in E /\ a \in R /\ Sound(a.p.cells)
    OBVIOUS
  <2>2. PICK q, k : LaidOut(a, q, k)
    OBVIOUS
  <2>3. a.p \in PacketOf(V)
    BY <2>1 DEF Dispatches
  <2> DEFINE r == rs[n]
             w == AppendRecord(a.p, r)
  <2>4. RecordAdded(V, a.p, r, w)
    <3>1. IsRecord(r) /\ Contents(V, r)
      BY <2>1, ValuesAre
    <3> HIDE DEF r, V
    <3> QED BY <2>1, <2>3, <3>1, RecordAppended
  <2> HIDE DEF w, r, V
  <2>5. r \in E
    BY <2>1 DEF r
  <2>6. Count(a, r, w) \in D
    BY <2>1, <2>2, <2>4, <2>5, LaidNext
  <2>7. h[<<n, a>>] = Op(a, rs[n])
    OBVIOUS
  <2> QED BY <2>6, <2>7 DEF w, r
<1>4. PICK g \in [0 .. L -> R] :
          /\ g[0] = base /\ \A n \in 1 .. L : g[n] = h[<<n, g[n - 1]>>]
          /\ \A n \in 0 .. L : g[n] \in DD[n]
  <2>1. \A n \in 0 .. L : DD[n] \subseteq R /\ DD[n] = D
    OBVIOUS
  <2>2. 0 \in 0 .. L /\ \A n \in 1 .. L : n \in 0 .. L /\ n - 1 \in 0 .. L
    BY <1>1
  <2> HIDE DEF L, DD, D, h, R, Op, f, base
  <2>3. \A n \in 1 .. L : \A w \in DD[n - 1] : h[<<n, w>>] \in DD[n]
    BY <1>3, <2>1, <2>2
  <2>4. LoopSteps(L, R, DD, base, h)
    BY <1>1, <1>2, <2>1, <2>2, <2>3 DEF LoopSteps
  <2> QED BY <2>4, FoldExists
<1>5. g = [n \in 0 .. L |-> IF n = 0 THEN base ELSE Op(g[n - 1], rs[n])]
  <2>1. \A n \in 0 .. L : DD[n] = D
    OBVIOUS
  <2> HIDE DEF L, DD, D, h, Op, f, R, base
  <2>2. ASSUME NEW n \in 1 .. L PROVE g[n] = Op(g[n - 1], rs[n])
    <3>1. n - 1 \in 0 .. L
      BY <1>1
    <3>2. g[n - 1] \in D /\ g[n] = h[<<n, g[n - 1]>>]
      BY <3>1, <1>4, <2>1
    <3> QED BY <3>2, <1>3
  <2>3. \A n \in 0 .. L : g[n] = IF n = 0 THEN base ELSE Op(g[n - 1], rs[n])
    BY <1>1, <1>4, <2>2
  <2> QED BY <2>3
<1>6. f = [n \in 0 .. L |-> IF n = 0 THEN base ELSE Op(f[n - 1], rs[n])]
  BY <1>5
<1>7. Dispatch([cells |-> <<>>, len |-> room], rs) = f[L]
  BY DEF Dispatch, Loop
<1> HIDE DEF f
<1>8. f[0] \in DD[0] /\ \A n \in 1 .. L : f[n - 1] \in DD[n - 1] => f[n] \in DD[n]
  <2>1. \A n \in 0 .. L : DD[n] = D
    OBVIOUS
  <2>2. 0 \in 0 .. L /\ \A n \in 1 .. L : n \in 0 .. L /\ n - 1 \in 0 .. L
    BY <1>1
  <2> HIDE DEF Op, L, base, DD, D
  <2>3. f[0] = base /\ \A n \in 1 .. L : f[n] = Op(f[n - 1], rs[n])
    BY <1>1, <1>6
  <2>4. \A n \in 1 .. L : f[n - 1] \in D => f[n] \in D
    BY <1>3, <2>3
  <2> QED BY <1>2, <2>1, <2>2, <2>3, <2>4
<1>9. f[L] \in D
  <2>1. \A n \in 0 .. L : DD[n] = D
    OBVIOUS
  <2> HIDE DEF DD, D, L
  <2>2. \A n \in 0 .. L : f[n] \in DD[n]
    BY <1>1, <1>8, Carried
  <2> QED BY <1>1, <2>1, <2>2
<1> QED BY <1>7, <1>9
-----------------------------------------------------------------------------
(* Reading records.                                                         *)

\* What follows a name lies behind its first cell.
LEMMA NextBehind ==
  ASSUME NEW c, Sound(c), NEW i \in 1 .. Len(c)
  PROVE  ReadName(c)[i].next \in i .. Len(c) + 1
<1> DEFINE s == Stop(c, i)
<1>1. Len(c) \in Nat /\ IsList(c) /\ i \in 1 .. Len(c) + 1
  BY Listed DEF Sound
<1>2. s \in i .. Len(c) + 1
  BY <1>1, StopIs
<1>3. ReadName(c)[i] = NameAt(c, ReadName(c), i)
  BY <1>1, ReadNameIs
<1>4. s = Len(c) + 1 => ReadName(c)[i].next = s
  BY <1>1, <1>3, NameAtIs
<1>5. s \in 1 .. Len(c) /\ c[s].k = "end" => ReadName(c)[i].next = s + 1
  BY <1>1, <1>3, NameAtIs
<1>6. s \in 1 .. Len(c) /\ c[s].k = "ptr" /\ c[s].v < i => ReadName(c)[i].next = s + 1
  BY <1>1, <1>3, NameAtIs
<1>7. s \in 1 .. Len(c) /\ c[s].k # "end" /\ ~(c[s].k = "ptr" /\ c[s].v < i) => ReadName(c)[i].next = s
  BY <1>1, <1>3, NameAtIs
<1> HIDE DEF s
<1> QED BY <1>1, <1>2, <1>4, <1>5, <1>6, <1>7

\* A record of the kinds that are written is at cell i.
RecordHere(c, i, r, whole, n) == Sound(c) /\ IsRecord(r) /\ RecordAt(c, i, r, whole, n)

\* What was read for a record (AsWritten).
ReadAs(read, r, whole) ==
  /\ <<read.name, read.type, read.ttl>> = <<r.name, r.type, r.ttl>>
  /\ whole => read = r \/ (r.type = "TXT" /\ Misread(r.data) /\ read.data = <<>>)

\* The reading goes on behind it.
Passed(b, n, read) == [b EXCEPT !.at = n, !.records = Append(@, read)]

\* What is read where a record is.
LEMMA RecordRead ==
  ASSUME NEW c, NEW r, NEW i, NEW whole, NEW n, RecordHere(c, i, r, whole, n)
  PROVE  /\ ReadAs(RecordOf(c, ReadName(c)[i]), r, whole)
         /\ \A b : b.at = i => ReadNext(c, b) = Passed(b, n, RecordOf(c, ReadName(c)[i]))
<1> USE DEF RecordHere
<1> DEFINE name == ReadName(c)[i]
           f == name.next
           read == RecordOf(c, name)
<1>1. /\ NamedAt(c, i, r.name, f) /\ f \in 1 .. Len(c)
      /\ n \in i + 1 .. Len(c) + 1
      /\ whole => DataAt(c, f + 1, r)
  BY DEF RecordAt
<1>2. PICK m \in Nat \ {0} : c[f] = FieldsCell(r, m) /\ n = f + 1 + m
  BY DEF RecordAt
<1>3. name = [labels |-> r.name, next |-> f, ok |-> TRUE] /\ i \in 1 .. Len(c) /\ Len(c) \in Nat
  BY <1>1, Listed DEF NamedAt, Sound
<1>4. c[f].k = "fields" /\ c[f].v = FieldsOf(r, m)
  BY <1>2 DEF FieldsCell
<1>5. c[f].v.type = r.type /\ c[f].v.ttl = r.ttl /\ c[f].v.len = m
  BY <1>4 DEF FieldsOf
<1> HIDE DEF name
<1>6. read = [name |-> r.name, type |-> r.type, ttl |-> r.ttl, data |-> ReadData(c, f + 1, r.type)]
  BY <1>3, <1>5 DEF RecordOf
<1> HIDE DEF read
<1>7. whole => \/ ReadData(c, f + 1, r.type) = r.data
               \/ r.type = "TXT" /\ Misread(r.data) /\ ReadData(c, f + 1, r.type) = <<>>
  <2> HIDE DEF f
  <2>1. CASE r.type = "PTR"
    <3>1. whole => ReadName(c)[f + 1].labels = r.data
      BY <1>1, <2>1 DEF DataAt, NamedAt
    <3> QED BY <2>1, <3>1 DEF ReadData
  <2>2. CASE r.type = "SRV" /\ r.data = <<r.data[1], r.data[2]>>
    <3>1. whole => ReadName(c)[f + 1 + 1].labels = r.data[2] /\ c[f + 1].v = r.data[1]
      BY <1>1, <2>2 DEF DataAt, NamedAt
    <3>2. ReadData(c, f + 1, r.type) = <<c[f + 1].v, ReadName(c)[f + 1 + 1].labels>>
      BY <2>2 DEF ReadData
    <3> QED BY <2>2, <3>1, <3>2
  <2>3. CASE r.type = "TXT"
    <3>1. whole => c[f + 1].v = r.data
      BY <1>1, <2>3 DEF DataAt
    <3>2. ReadData(c, f + 1, r.type) = ReadItems(c[f + 1].v)
      BY <2>3 DEF ReadData
    <3>3. ReadItems(r.data) = r.data \/ (Misread(r.data) /\ ReadItems(r.data) = <<>>)
      BY DEF ReadItems
    <3> QED BY <2>3, <3>1, <3>2, <3>3
  <2>4. CASE r.type = "A"
    <3>1. whole => c[f + 1].v = r.data
      BY <1>1, <2>4 DEF DataAt
    <3> QED BY <2>4, <3>1 DEF ReadData
  <2> QED BY <2>1, <2>2, <2>3, <2>4 DEF IsRecord
<1>8. <<read.name, read.type, read.ttl>> = <<r.name, r.type, r.ttl>>
  BY <1>6
<1>9. whole => read = r \/ (r.type = "TXT" /\ Misread(r.data) /\ read.data = <<>>)
  <2>1. r = [name |-> r.name, type |-> r.type, ttl |-> r.ttl, data |-> r.data]
    BY DEF IsRecord
  <2> QED BY <1>6, <1>7, <2>1
<1>10. ASSUME NEW b, b.at = i PROVE ReadNext(c, b) = Passed(b, n, read)
  <2>1. ~(b.at > Len(c)) /\ name = ReadName(c)[b.at]
    BY <1>3, <1>10 DEF name
  <2>2. name.ok /\ name.next <= Len(c) /\ c[name.next].k = "fields" /\ c[name.next].v.len # 0
    BY <1>1, <1>2, <1>3, <1>4, <1>5
  <2>3. name.next + 1 + c[name.next].v.len = n
    BY <1>2, <1>5
  <2>4. ReadNext(c, b) = [b EXCEPT !.at = name.next + 1 + c[name.next].v.len,
                                   !.records = Append(@, RecordOf(c, name))]
    BY <2>1, <2>2 DEF ReadNext
  <2> QED BY <2>3, <2>4 DEF read, Passed
<1>11. ReadAs(read, r, whole)
  BY <1>8, <1>9 DEF ReadAs
<1> QED BY <1>10, <1>11 DEF read, name

\* What is read where no record can be read: nothing more.
LEMMA EndIsRead ==
  ASSUME NEW P, Sound(P.cells), NEW i \in 1 .. Len(P.cells) + 1,
         i = Len(P.cells) + 1 \/ DeadAt(P.cells, i) \/ NamesOnly(P, i),
         NEW b, b.at = i
  PROVE  ReadNext(P.cells, b) = b \/ ReadNext(P.cells, b) = [b EXCEPT !.at = Len(P.cells) + 1, !.clean = FALSE]
<1> DEFINE c == P.cells
           name == ReadName(c)[i]
<1>1. Len(c) \in Nat
  BY Listed DEF Sound
<1>2. CASE i = Len(c) + 1
  <2>1. b.at > Len(c)
    BY <1>1, <1>2
  <2> QED BY <2>1 DEF ReadNext
<1>3. CASE i \in 1 .. Len(c)
  <2>1. ~(name.ok /\ name.next <= Len(c) /\ c[name.next].k = "fields" /\ c[name.next].v.len # 0)
    <3>1. CASE DeadAt(c, i)
      <4>1. \A r : FieldsCell(r, 0).v.len = 0
        BY DEF FieldsCell, FieldsOf
      <4>2. name.ok => \E r : c[name.next] = FieldsCell(r, 0)
        BY <3>1 DEF DeadAt
      <4> QED BY <4>1, <4>2
    <3>2. CASE NamesOnly(P, i)
      <4>1. name.next \in i .. Len(c) + 1
        BY <1>3, NextBehind
      <4>2. name.next <= Len(c) => name.next \in i .. Len(c)
        BY <4>1, <1>1
      <4>3. name.next <= Len(c) => c[name.next].k \in {"label", "ptr", "end"}
        BY <3>2, <4>2 DEF NamesOnly
      <4>4. "fields" \notin {"label", "ptr", "end"}
        OBVIOUS
      <4> QED BY <4>3, <4>4
    <3>3. i # Len(c) + 1
      BY <1>1, <1>3
    <3> QED BY <3>1, <3>2, <3>3
  <2>2. ~(b.at > Len(c))
    BY <1>1, <1>3
  <2>3. ReadNext(c, b) = [b EXCEPT !.at = Len(c) + 1, !.clean = FALSE]
    BY <2>1, <2>2 DEF ReadNext
  <2> QED BY <2>3
<1> QED BY <1>1, <1>2, <1>3

\* A chain of records is not longer than its cells.
LEMMA ChainFits ==
  ASSUME NEW c, Len(c) \in Nat, NEW counted, Len(counted) \in Nat, NEW pos, NEW m, Chain(c, counted, pos, m)
  PROVE  m \in Nat /\ m <= Len(c) /\ \A i \in 1 .. m + 1 : pos[i] \in 1 .. Len(c) + 1
<1> DEFINE f == [n \in 0 .. m |-> pos[n + 1]]
           D == [n \in 0 .. m |-> n + 1 .. Len(c) + 1]
<1>1. m \in Nat /\ pos[1] = 1 /\ \A i \in 1 .. m : pos[i + 1] \in pos[i] + 1 .. Len(c) + 1
  <2>1. m \in Nat /\ pos[1] = 1
    BY DEF Chain
  <2>2. \A i \in 1 .. m : RecordAt(c, pos[i], counted[i].record, counted[i].whole, pos[i + 1])
    BY DEF Chain
  <2>3. \A i, r, whole, n : RecordAt(c, i, r, whole, n) => n \in i + 1 .. Len(c) + 1
    BY DEF RecordAt
  <2> QED BY <2>1, <2>2, <2>3
<1>2. f[0] \in D[0]
  BY <1>1
<1>3. ASSUME NEW n \in 1 .. m, f[n - 1] \in D[n - 1] PROVE f[n] \in D[n]
  <2>1. n - 1 \in 0 .. m /\ n \in 0 .. m /\ (n - 1) + 1 = n
    BY <1>1
  <2>2. f[n - 1] = pos[n] /\ f[n] = pos[n + 1] /\ D[n - 1] = n .. Len(c) + 1 /\ D[n] = n + 1 .. Len(c) + 1
    BY <2>1
  <2> HIDE DEF f, D
  <2>3. pos[n + 1] \in pos[n] + 1 .. Len(c) + 1 /\ pos[n] \in n .. Len(c) + 1
    BY <1>1, <1>3, <2>2
  <2> QED BY <2>1, <2>2, <2>3
<1>4. \A n \in 0 .. m : pos[n + 1] \in n + 1 .. Len(c) + 1
  <2>1. \A n \in 0 .. m : f[n] \in D[n]
    <3> HIDE DEF f, D
    <3> QED BY <1>1, <1>2, <1>3, Carried
  <2> QED BY <2>1
<1>5. m <= Len(c)
  <2>1. pos[m + 1] \in m + 1 .. Len(c) + 1
    BY <1>1, <1>4
  <2> QED BY <1>1, <2>1
<1>6. ASSUME NEW i \in 1 .. m + 1 PROVE pos[i] \in 1 .. Len(c) + 1
  <2>1. i - 1 \in 0 .. m /\ (i - 1) + 1 = i
    BY <1>1
  <2>2. pos[i] \in i .. Len(c) + 1
    BY <1>4, <2>1
  <2> QED BY <1>1, <2>2
<1> QED BY <1>1, <1>5, <1>6

\* What has been read after n cells, when m records lie one behind the other.
Reading(c, pos, m, n, b) ==
  LET k == Len(b.records)
  IN  /\ k \in 0 .. m
      /\ \A i \in 1 .. k : b.records[i] = RecordOf(c, ReadName(c)[pos[i]])
      /\ b.at = pos[k + 1] \/ (k = m /\ b.at = Len(c) + 1)
      /\ k < m => n <= k

\* One turn of the loop.
LEMMA ReadingOn ==
  ASSUME NEW a, Sound(a.p.cells), NEW pos, NEW m, LaidOut(a, pos, m), Len(a.counted) \in Nat,
         \A i \in 1 .. Len(a.counted) : IsRecord(a.counted[i].record),
         NEW X, \A i \in 1 .. m : RecordOf(a.p.cells, ReadName(a.p.cells)[pos[i]]) \in X,
         NEW n \in Nat, NEW b \in [at : Nat, records : Seq(X), clean : BOOLEAN], Reading(a.p.cells, pos, m, n, b)
  PROVE  LET d == ReadNext(a.p.cells, b)
         IN  d \in [at : Nat, records : Seq(X), clean : BOOLEAN] /\ Reading(a.p.cells, pos, m, n + 1, d)
<1> DEFINE c == a.p.cells
           k == Len(b.records)
           d == ReadNext(c, b)
           R == [at : Nat, records : Seq(X), clean : BOOLEAN]
<1>1. /\ Len(c) \in Nat /\ k \in Nat /\ b.at \in Nat /\ b.records \in Seq(X) /\ b.clean \in BOOLEAN
      /\ b = [at |-> b.at, records |-> b.records, clean |-> b.clean]
  BY LenProperties, Listed DEF Sound
<1>2. Chain(c, a.counted, pos, m) /\ (AtEnd(a.p, a.counted, pos[m + 1], m) \/ DeadAt(c, pos[m + 1]) \/ NamesOnly(a.p, pos[m + 1]))
  BY DEF LaidOut
<1>3. m \in Nat /\ m <= Len(c) /\ m <= Len(a.counted) /\ \A i \in 1 .. m + 1 : pos[i] \in 1 .. Len(c) + 1
  <2>1. m <= Len(a.counted)
    BY <1>2 DEF Chain
  <2> HIDE DEF c
  <2> QED BY <1>1, <1>2, <2>1, ChainFits
<1>4. /\ k \in 0 .. m
      /\ \A i \in 1 .. k : b.records[i] = RecordOf(c, ReadName(c)[pos[i]])
      /\ b.at = pos[k + 1] \/ (k = m /\ b.at = Len(c) + 1)
      /\ k < m => n <= k
  BY DEF Reading
<1>5. CASE k = m
  <2>1. b.at \in 1 .. Len(c) + 1 /\ (b.at = Len(c) + 1 \/ DeadAt(c, b.at) \/ NamesOnly(a.p, b.at))
    <3>1. k + 1 \in 1 .. m + 1
      BY <1>1, <1>5
    <3>2. b.at \in 1 .. Len(c) + 1
      BY <1>1, <1>3, <1>4, <3>1
    <3> QED BY <1>2, <1>4, <1>5, <3>2 DEF AtEnd
  <2>2. d = b \/ d = [b EXCEPT !.at = Len(c) + 1, !.clean = FALSE]
    BY <2>1, EndIsRead
  <2> HIDE DEF d, k, c
  <2>3. CASE d = b
    BY <1>1, <1>4, <1>5, <2>3 DEF Reading, d, k, c
  <2>4. CASE d = [b EXCEPT !.at = Len(c) + 1, !.clean = FALSE]
    <3>1. d = [at |-> Len(c) + 1, records |-> b.records, clean |-> FALSE]
      BY <1>1, <2>4
    <3>2. d \in R /\ d.records = b.records /\ d.at = Len(c) + 1
      BY <1>1, <3>1
    <3>3. Reading(c, pos, m, n + 1, d)
      BY <1>1, <1>4, <1>5, <3>2 DEF Reading, k
    <3> QED BY <3>2, <3>3 DEF d, c
  <2> QED BY <2>2, <2>3, <2>4
<1>6. CASE k # m
  <2> DEFINE j == k + 1
             r == a.counted[j].record
             whole == a.counted[j].whole
             next == pos[j + 1]
             read == RecordOf(c, ReadName(c)[pos[j]])
  <2>1. j \in 1 .. m /\ j + 1 \in 1 .. m + 1 /\ b.at = pos[j] /\ j \in 1 .. Len(a.counted) /\ k < m /\ next \in Nat
    <3>1. j \in 1 .. m /\ j + 1 \in 1 .. m + 1 /\ j \in 1 .. Len(a.counted) /\ k < m
      BY <1>1, <1>3, <1>4, <1>6
    <3>2. next \in 1 .. Len(c) + 1
      BY <1>3, <3>1
    <3> QED BY <1>1, <1>4, <1>6, <3>1, <3>2
  <2>2. RecordAt(c, pos[j], r, whole, next) /\ IsRecord(r) /\ read \in X
    BY <1>2, <2>1 DEF Chain
  <2>3. d = [b EXCEPT !.at = next, !.records = Append(@, read)]
    <3> DEFINE i == pos[j]
    <3>1. read = RecordOf(c, ReadName(c)[i]) /\ RecordHere(c, i, r, whole, next) /\ b.at = i
      BY <2>1, <2>2 DEF RecordHere
    <3> HIDE DEF i, c, read, r, whole, next
    <3>2. ReadNext(c, b) = Passed(b, next, read)
      BY <3>1, RecordRead
    <3> QED BY <3>2 DEF Passed, d
  <2> HIDE DEF d, c, read, next, r, whole
  <2>4. d = [at |-> next, records |-> Append(b.records, read), clean |-> b.clean]
    BY <1>1, <2>3
  <2>5. /\ Append(b.records, read) \in Seq(X) /\ Len(Append(b.records, read)) = j
        /\ Append(b.records, read)[j] = read /\ \A i \in 1 .. k : Append(b.records, read)[i] = b.records[i]
    BY <1>1, <2>2, AppendProperties
  <2>6. d \in R /\ d.at = next /\ Len(d.records) = j /\ d.records[j] = read
        /\ \A i \in 1 .. k : d.records[i] = b.records[i]
    BY <1>1, <2>1, <2>4, <2>5
  <2>7. ASSUME NEW i \in 1 .. j PROVE d.records[i] = RecordOf(c, ReadName(c)[pos[i]])
    <3>1. CASE i = j
      BY <2>6, <3>1 DEF read
    <3>2. CASE i # j
      <4>1. i \in 1 .. k
        BY <1>1, <3>2
      <4> QED BY <1>4, <2>6, <4>1
    <3> QED BY <3>1, <3>2
  <2>8. j < m => n + 1 <= j
    BY <1>1, <1>4, <2>1
  <2>9. j \in 0 .. m
    BY <2>1
  <2> HIDE DEF j, k
  <2>10. Reading(c, pos, m, n + 1, d)
    BY <2>6, <2>7, <2>8, <2>9 DEF Reading, next
  <2> QED BY <2>6, <2>10 DEF d, c
<1> QED BY <1>5, <1>6

\* What is read of a packet: the records that lie one behind the other.
LEMMA PacketRead ==
  ASSUME NEW a, Sound(a.p.cells), NEW pos, NEW m, LaidOut(a, pos, m), Len(a.counted) \in Nat,
         \A i \in 1 .. Len(a.counted) : IsRecord(a.counted[i].record)
  PROVE  LET read == ReadRecords(a.p.cells).records
         IN  /\ m \in Nat /\ IsList(read) /\ Len(read) = m
             /\ \A i \in 1 .. m : read[i] = RecordOf(a.p.cells, ReadName(a.p.cells)[pos[i]])
<1> DEFINE c == a.p.cells
           L == Len(c)
           X == {RecordOf(c, ReadName(c)[pos[i]]) : i \in 1 .. m}
           R == [at : Nat, records : Seq(X), clean : BOOLEAN]
           base == [at |-> 1, records |-> <<>>, clean |-> TRUE]
           Op(b, e) == ReadNext(c, b)
           DD == [n \in 0 .. L |-> {b \in R : Reading(c, pos, m, n, b)}]
           h == [x \in (1 .. L) \X R |-> ReadNext(c, x[2])]
           f[n \in 0 .. L] == IF n = 0 THEN base ELSE Op(f[n - 1], c[n])
<1>1. L \in Nat
  BY Listed DEF Sound
<1>2. Chain(c, a.counted, pos, m) /\ m \in Nat /\ m <= L /\ \A i \in 1 .. m + 1 : pos[i] \in 1 .. L + 1
  <2>1. Chain(c, a.counted, pos, m)
    BY DEF LaidOut
  <2> HIDE DEF c
  <2> QED BY <1>1, <2>1, ChainFits
<1>3. base \in DD[0]
  <2>1. base \in R
    <3>1. <<>> \in Seq(X)
      OBVIOUS
    <3> HIDE DEF X
    <3> QED BY <3>1
  <2>2. Len(base.records) = 0 /\ base.at = pos[0 + 1]
    BY <1>2 DEF Chain
  <2>3. Reading(c, pos, m, 0, base)
    <3> HIDE DEF base, c
    <3> QED BY <1>2, <2>2 DEF Reading
  <2>4. 0 \in 0 .. L
    BY <1>1
  <2> HIDE DEF base, R
  <2> QED BY <2>1, <2>3, <2>4
<1>4. ASSUME NEW n \in 1 .. L, NEW b \in DD[n - 1]
      PROVE  h[<<n, b>>] = Op(b, c[n]) /\ Op(b, c[n]) \in DD[n]
  <2>1. n - 1 \in 0 .. L /\ n \in 0 .. L /\ n - 1 \in Nat /\ (n - 1) + 1 = n
    BY <1>1
  <2>2. b \in R /\ Reading(c, pos, m, n - 1, b)
    BY <2>1
  <2>3. ReadNext(c, b) \in R /\ Reading(c, pos, m, n, ReadNext(c, b))
    <3>1. \A i \in 1 .. m : RecordOf(c, ReadName(c)[pos[i]]) \in X
      OBVIOUS
    <3> HIDE DEF X
    <3>2. ReadNext(c, b) \in R /\ Reading(c, pos, m, (n - 1) + 1, ReadNext(c, b))
      BY <2>1, <2>2, <3>1, ReadingOn
    <3> QED BY <2>1, <3>2
  <2>4. h[<<n, b>>] = ReadNext(c, b)
    BY <2>2
  <2>5. ReadNext(c, b) \in DD[n]
    BY <2>1, <2>3
  <2> QED BY <2>4, <2>5
<1>5. PICK g \in [0 .. L -> R] :
          /\ g[0] = base /\ \A n \in 1 .. L : g[n] = h[<<n, g[n - 1]>>]
          /\ \A n \in 0 .. L : g[n] \in DD[n]
  <2>1. \A n \in 0 .. L : DD[n] \subseteq R
    OBVIOUS
  <2> HIDE DEF L, DD, h, R, Op, f, base
  <2>2. \A n \in 1 .. L : \A w \in DD[n - 1] : h[<<n, w>>] \in DD[n]
    BY <1>4
  <2>3. LoopSteps(L, R, DD, base, h)
    BY <1>1, <1>3, <2>1, <2>2 DEF LoopSteps
  <2> QED BY <2>3, FoldExists
<1>6. g = [n \in 0 .. L |-> IF n = 0 THEN base ELSE Op(g[n - 1], c[n])]
  <2> HIDE DEF L, DD, h, Op, f, R, base
  <2>1. ASSUME NEW n \in 1 .. L PROVE g[n] = Op(g[n - 1], c[n])
    <3>1. n - 1 \in 0 .. L
      BY <1>1
    <3>2. g[n - 1] \in DD[n - 1] /\ g[n] = h[<<n, g[n - 1]>>]
      BY <3>1, <1>5
    <3> QED BY <3>2, <1>4
  <2>2. \A n \in 0 .. L : g[n] = IF n = 0 THEN base ELSE Op(g[n - 1], c[n])
    BY <1>1, <1>5, <2>1
  <2> QED BY <2>2
<1>7. f = [n \in 0 .. L |-> IF n = 0 THEN base ELSE Op(f[n - 1], c[n])]
  BY <1>6
<1>8. ReadRecords(c).records = f[L].records
  BY DEF ReadRecords, Loop
<1> HIDE DEF f
<1>9. f[0] \in DD[0] /\ \A n \in 1 .. L : f[n - 1] \in DD[n - 1] => f[n] \in DD[n]
  <2> HIDE DEF Op, L, base, DD
  <2>1. f[0] = base /\ \A n \in 1 .. L : f[n] = Op(f[n - 1], c[n])
    BY <1>1, <1>7
  <2> QED BY <1>3, <1>4, <2>1
<1>10. f[L] \in DD[L] /\ L \in 0 .. L
  <2> HIDE DEF DD, L
  <2>1. \A n \in 0 .. L : f[n] \in DD[n]
    BY <1>1, <1>9, Carried
  <2> QED BY <1>1, <2>1
<1>11. f[L].records \in Seq(X) /\ Reading(c, pos, m, L, f[L])
  BY <1>10
<1> DEFINE read == f[L].records
<1> HIDE DEF X, c, L
<1>12. IsList(read) /\ Len(read) \in 0 .. m /\ (Len(read) < m => L <= Len(read))
       /\ \A i \in 1 .. Len(read) : read[i] = RecordOf(c, ReadName(c)[pos[i]])
  BY <1>11, ListOf DEF Reading
<1>13. Len(read) = m
  <2> HIDE DEF read
  <2> QED BY <1>1, <1>2, <1>12
<1> QED BY <1>2, <1>8, <1>12, <1>13 DEF c

\* A packet of records is read as it was written: the records that lie one behind the
\* other are the first ones that were counted, and none of the others is taken for one.
LEMMA DispatchRead ==
  ASSUME NEW E, \A r \in E : IsRecord(r), NEW rs \in Seq(E), NEW room \in Nat
  PROVE  LET a == Dispatch([cells |-> <<>>, len |-> room], rs)
             read == ReadRecords(a.p.cells).records
         IN  /\ IsList(read) /\ a.intact <= Len(read) /\ Len(read) <= Len(a.counted) /\ Len(a.counted) \in Nat
             /\ \A i \in 1 .. Len(read) : /\ a.counted[i].record \in E /\ a.counted[i].whole \in BOOLEAN
                                          /\ ReadAs(read[i], a.counted[i].record, a.counted[i].whole)
<1> DEFINE a == Dispatch([cells |-> <<>>, len |-> room], rs)
           c == a.p.cells
           read == ReadRecords(c).records
<1>1. a \in Dispatches(Values(E), E) /\ Sound(c) /\ \E q, k : LaidOut(a, q, k)
  BY DispatchLaid
<1> HIDE DEF a
<1>2. PICK pos, m : LaidOut(a, pos, m)
  BY <1>1
<1>3. a.counted \in Seq([record : E, whole : BOOLEAN])
  BY <1>1 DEF Dispatches
<1>4. Len(a.counted) \in Nat /\ \A i \in 1 .. Len(a.counted) : /\ a.counted[i].record \in E /\ a.counted[i].whole \in BOOLEAN
                                                               /\ IsRecord(a.counted[i].record)
  <2> DEFINE X == [record : E, whole : BOOLEAN]
             s == a.counted
  <2>1. s \in Seq(X) /\ \A x \in X : x.record \in E /\ x.whole \in BOOLEAN
    BY <1>3
  <2> HIDE DEF X, s
  <2>2. Len(s) \in Nat /\ \A i \in 1 .. Len(s) : s[i] \in X
    BY <2>1, LenProperties
  <2> QED BY <2>1, <2>2 DEF s
<1>5. m \in Nat /\ IsList(read) /\ Len(read) = m /\ \A i \in 1 .. m : read[i] = RecordOf(c, ReadName(c)[pos[i]])
  BY <1>1, <1>2, <1>4, PacketRead
<1>6. Chain(c, a.counted, pos, m) /\ a.intact \in 0 .. m
  BY <1>2 DEF LaidOut
<1>7. m <= Len(a.counted) /\ \A i \in 1 .. m : i \in 1 .. Len(a.counted)
  BY <1>4, <1>5, <1>6 DEF Chain
<1> HIDE DEF read, c
<1>8. ASSUME NEW i \in 1 .. m PROVE ReadAs(read[i], a.counted[i].record, a.counted[i].whole)
  <2> DEFINE r == a.counted[i].record
             whole == a.counted[i].whole
             at == pos[i]
             next == pos[i + 1]
  <2>1. RecordHere(c, at, r, whole, next) /\ read[i] = RecordOf(c, ReadName(c)[at])
    BY <1>1, <1>4, <1>5, <1>6, <1>7 DEF Chain, c, RecordHere
  <2> HIDE DEF r, whole, at, next
  <2>2. ReadAs(read[i], r, whole)
    BY <2>1, RecordRead
  <2> QED BY <2>2 DEF r, whole
<1>9. a.intact <= Len(read) /\ Len(read) <= Len(a.counted)
  BY <1>5, <1>6, <1>7
<1> QED BY <1>4, <1>5, <1>7, <1>8, <1>9 DEF read, c, a

-----------------------------------------------------------------------------
(* The packets of the other hosts.                                          *)

\* p is how a packet of records of s is read.
Sent(s, p) ==
  \E rs \in Seq(s.records), room \in Nat : p = Read(Dispatch([cells |-> <<>>, len |-> room], rs))

\* A packet is one of the dispatched ones.
LEMMA PacketIs ==
  ASSUME QueryAssumption, NEW s \in Setups, NEW p \in Packets[s]
  PROVE  Sent(s, p)
<1>1. s.most \in Nat /\ s.rooms \subseteq 0 .. MaxPacket
  BY DEF QueryAssumption
<1>2. PICK rs \in SeqOf(s.records, s.most), room \in s.rooms :
          p = Read(Dispatch([cells |-> <<>>, len |-> MaxPacket - room], rs))
  BY DEF Packets, AsRead
<1>3. rs \in Seq(s.records)
  <2>1. PICK m \in 0 .. s.most : rs \in [1 .. m -> s.records]
    BY <1>2 DEF SeqOf
  <2> QED BY <1>1, <2>1
<1>4. MaxPacket - room \in Nat
  BY <1>1, <1>2, PacketAssumption
<1> QED BY <1>2, <1>3, <1>4 DEF Sent

\* What is read of a packet (DispatchRead), as Read has it.
LEMMA PacketHeard ==
  ASSUME QueryAssumption, NEW s \in Setups, NEW p \in Packets[s]
  PROVE  /\ p.asWritten = TRUE
         /\ IsList(p.read.records)
         /\ \A i \in 1 .. Len(p.read.records) :
               p.read.records[i] \in p.cut \/ \E r \in s.records : ReadAs(p.read.records[i], r, TRUE)
<1>1. PICK rs \in Seq(s.records), room \in Nat : p = Read(Dispatch([cells |-> <<>>, len |-> room], rs))
  BY PacketIs DEF Sent
<1> DEFINE w == Dispatch([cells |-> <<>>, len |-> room], rs)
           read == ReadRecords(w.p.cells).records
<1>2. \A r \in s.records : IsRecord(r)
  BY DEF QueryAssumption
<1>3. /\ IsList(read) /\ w.intact <= Len(read) /\ Len(read) <= Len(w.counted) /\ Len(w.counted) \in Nat
      /\ \A i \in 1 .. Len(read) : /\ w.counted[i].record \in s.records /\ w.counted[i].whole \in BOOLEAN
                                   /\ ReadAs(read[i], w.counted[i].record, w.counted[i].whole)
  BY <1>2, DispatchRead
<1>4. p = Read(w)
  BY <1>1
<1> HIDE DEF w
<1>5. p.asWritten = AsWritten(w) /\ p.read.records = read
      /\ p.cut = {read[i] : i \in {j \in DOMAIN read : ~w.counted[j].whole}}
  BY <1>4 DEF Read
<1> HIDE DEF read
<1>6. DOMAIN read = 1 .. Len(read)
  BY <1>3, Listed
<1>7. AsWritten(w)
  BY <1>3 DEF AsWritten, ReadAs, read
<1>8. AsWritten(w) \in BOOLEAN
  BY DEF AsWritten
<1>9. \A i \in 1 .. Len(read) : read[i] \in p.cut \/ \E r \in s.records : ReadAs(read[i], r, TRUE)
  <2> TAKE i \in 1 .. Len(read)
  <2>1. CASE w.counted[i].whole = TRUE
    BY <1>3, <2>1
  <2>2. CASE w.counted[i].whole = FALSE
    BY <1>5, <1>6, <2>2
  <2> QED BY <1>3, <2>1, <2>2
<1> QED BY <1>3, <1>5, <1>7, <1>8, <1>9

\* Every packet is read back as it was written, whatever the records, the room, the lengths
\* of labels and items (_mdns_append_fqdn, _mdns_dispatch_tx_packet, mdns_parse_packet).
THEOREM PacketsReadBack == Spec => []ReadBack
<1> DEFINE Inv == setup \in Setups /\ asWritten = TRUE
<1>1. Init => Inv
  BY DEF Init
<1>2. ASSUME Inv, [Next]_vars PROVE Inv'
  <2>1. CASE Receive
    <3>1. PICK p \in Packets[setup] : asWritten' = (asWritten /\ p.asWritten) /\ setup' = setup
      BY <2>1 DEF Receive
    <3>2. p.asWritten = TRUE
      BY <1>2, QueryAssumption, PacketHeard
    <3> QED BY <1>2, <3>1, <3>2
  <2>2. CASE Notify \/ UNCHANGED vars
    BY <1>2, <2>2 DEF Notify, vars
  <2> QED BY <1>2, <2>1, <2>2 DEF Next
<1>3. Inv => ReadBack
  BY DEF ReadBack
<1> HIDE DEF Inv
<1> QED BY <1>1, <1>2, <1>3, PTL DEF Spec

\* What is read of a packet is true: what is there as a whole because it is what was
\* announced, or TXT data without an item; what was cut off because it is assumed.
LEMMA HeardTrue ==
  ASSUME QueryAssumption, NEW s \in Setups, NEW p \in Packets[s]
  PROVE  LET rs == p.read.records
         IN  rs \in Seq(ToSet(rs)) /\ \A r \in ToSet(rs) : Truthful(s, r)
<1> DEFINE rs == p.read.records
<1>1. /\ IsList(rs)
      /\ \A i \in 1 .. Len(rs) : rs[i] \in p.cut \/ \E r \in s.records : ReadAs(rs[i], r, TRUE)
  BY PacketHeard
<1> HIDE DEF rs
<1>2. DOMAIN rs = 1 .. Len(rs) /\ Len(rs) \in Nat /\ rs = [i \in 1 .. Len(rs) |-> rs[i]]
  BY <1>1, Listed DEF IsList
<1>3. ToSet(rs) = {rs[i] : i \in 1 .. Len(rs)}
  BY <1>2 DEF ToSet
<1>4. rs \in Seq(ToSet(rs))
  <2>1. rs \in [1 .. Len(rs) -> ToSet(rs)]
    BY <1>2, <1>3
  <2> QED BY <1>2, <2>1
<1>5. ASSUME NEW i \in 1 .. Len(rs) PROVE Truthful(s, rs[i])
  <2>1. CASE rs[i] \in p.cut
    BY <2>1 DEF QueryAssumption
  <2>2. ASSUME NEW r \in s.records, ReadAs(rs[i], r, TRUE) PROVE Truthful(s, rs[i])
    <3>1. Truthful(s, r)
      BY DEF QueryAssumption
    <3>2. CASE rs[i] = r
      BY <3>1, <3>2
    <3>3. CASE rs[i].type = "TXT" /\ rs[i].data = <<>>
      <4>1. <<>> \in Seq(ToSet(<<>>))
        OBVIOUS
      <4> QED BY <3>3, <4>1 DEF Truthful
    <3> QED BY <2>2, <3>2, <3>3 DEF ReadAs
  <2> QED BY <1>1, <2>1, <2>2
<1> QED BY <1>3, <1>4, <1>5 DEF rs

-----------------------------------------------------------------------------
(* What can be in a result.                                                 *)

\* Every record of every packet.
Heard == UNION {UNION {ToSet(p.read.records) : p \in Packets[s]} : s \in Setups}

\* What can get into a result.
Things ==
  UNION {STRING, Seq(STRING), {None, 0, <<>>},
         {s.browse : s \in Setups}, UNION {s.links : s \in Setups},
         {r.ttl : r \in Heard}, {r.data : r \in Heard}, {r.data[1] : r \in Heard},
         {ParseName(r.name).host : r \in Heard}, {ParseName(r.name).svc : r \in Heard},
         {ParseName(r.data).host : r \in Heard}, {ParseName(r.data[2]).host : r \in Heard}}

Texts == {t \in Things : t \in Seq(ToSet(t))}

Result == [inst : Things, host : Things, port : Things, txt : Texts, addr : SUBSET Things,
           ttl : Things, via : Things]

Kinds == {"PTR", "SRV", "TXT", "A", "ANY"}

Search == [type : Kinds, inst : Things, svc : Things, max : Nat, on : BOOLEAN, res : Seq(Result)]

\* The result r may be in the search s.
Good(s, r) ==
  /\ Consistent(Subject(s, r), r)
  /\ s.type = "PTR" => r.inst # None /\ (r.host = None => r.addr = {})
  /\ s.type \in {"A", "ANY"} /\ s.svc = <<>> => r.host = s.inst

OwnSearch(s) ==
  /\ s.max # 0 => Len(s.res) <= s.max
  /\ s.type = "PTR" => Distinct(s.res)
  /\ \A j \in 1 .. Len(s.res) : Good(s, s.res[j])

\* t is the search s with other results.
Frame(s, t) ==
  /\ t \in Search /\ t.type = s.type /\ t.inst = s.inst /\ t.svc = s.svc /\ t.max = s.max /\ t.on = s.on

\* The parts of a search.
LEMMA SearchFields ==
  ASSUME NEW s \in Search
  PROVE  /\ s.type \in Kinds /\ s.inst \in Things /\ s.svc \in Things /\ s.max \in Nat /\ s.on \in BOOLEAN
         /\ s.res \in Seq(Result) /\ Len(s.res) \in Nat /\ DOMAIN s.res = 1 .. Len(s.res)
         /\ \A j \in 1 .. Len(s.res) : s.res[j] \in Result
<1>1. s.res \in Seq(Result)
  BY DEF Search
<1> QED BY <1>1 DEF Search

\* The parts of a result.
LEMMA ResultFields ==
  ASSUME NEW r \in Result
  PROVE  /\ r.inst \in Things /\ r.host \in Things /\ r.port \in Things /\ r.txt \in Texts
         /\ r.addr \in SUBSET Things /\ r.ttl \in Things /\ r.via \in Things
BY DEF Result

\* A result is blank at first.
LEMMA BlankFields ==
  ASSUME NEW via \in Things, NEW ttl \in Things
  PROVE  LET b == Blank(via, ttl)
         IN  /\ b \in Result /\ b.inst = None /\ b.host = None /\ b.port = 0 /\ b.txt = <<>>
             /\ b.addr = {} /\ b.ttl = ttl /\ b.via = via
<1>1. None \in Things /\ 0 \in Things /\ <<>> \in Things
  BY DEF Things
<1>2. <<>> \in Texts
  BY <1>1 DEF Texts
<1> QED BY <1>1, <1>2 DEF Blank, Result

\* The smaller of two TTLs is one of them.
LEMMA LowerThing ==
  ASSUME NEW a \in Things, NEW b \in Things
  PROVE  Lower(a, b) \in Things /\ Renewed(a, b) \in Things
BY DEF Lower, Renewed

\* The smallest of a set of indices.
LEMMA First ==
  ASSUME NEW n \in Nat, NEW I \in SUBSET (1 .. n), I # {}
  PROVE  Min(I) \in I /\ \A j \in I : Min(I) <= j
<1>1. \E x \in I : \A y \in I : x =< y
  BY Least
<1> QED BY <1>1 DEF Min

\* What a result may be depends on the fixed fields of its search only.
LEMMA GoodFrame ==
  ASSUME NEW s, NEW t, Frame(s, t), NEW r, Good(s, r)
  PROVE  Good(t, r)
BY DEF Frame, Good, Subject

\* A new result.
LEMMA NewResultKeeps ==
  ASSUME NEW s \in Search, NEW r \in Result
  PROVE  LET t == NewResult(s, r)
         IN  /\ Frame(s, t)
             /\ OwnSearch(s) /\ Good(s, r) /\ (s.type = "PTR" => \A j \in 1 .. Len(s.res) : Key(s.res[j]) # Key(r))
                => OwnSearch(t)
<1> DEFINE q == <<r>> \o s.res
           t == [s EXCEPT !.res = q]
           n == Len(s.res)
<1>0. s.res \in Seq(Result) /\ n \in Nat /\ s.max \in Nat /\ DOMAIN s.res = 1 .. n
  BY SearchFields
<1>1. /\ q \in Seq(Result) /\ Len(q) = n + 1 /\ q[1] = r
      /\ \A j \in 2 .. n + 1 : q[j] = s.res[j - 1]
  BY <1>0
<1>2. DOMAIN q = 1 .. n + 1
  BY <1>1, <1>0
<1> HIDE DEF q
<1>3. Frame(s, t) /\ t.res = q
  BY <1>1 DEF Search, Frame
<1>4. Frame(s, s)
  BY DEF Frame
<1>5. NewResult(s, r) \in {s, t} /\ (NewResult(s, r) = t => s.max = 0 \/ n < s.max \/ t = s)
  BY DEF NewResult, q
<1>6. ASSUME OwnSearch(s), Good(s, r), s.type = "PTR" => \A j \in 1 .. n : Key(s.res[j]) # Key(r),
             s.max = 0 \/ n < s.max
      PROVE  OwnSearch(t)
  <2>1. \A j \in 1 .. n + 1 : Good(s, q[j])
    <3> SUFFICES ASSUME NEW j \in 1 .. n + 1 PROVE Good(s, q[j])
      OBVIOUS
    <3>1. CASE j = 1
      BY <3>1, <1>1, <1>6
    <3>2. CASE j # 1
      <4>1. j - 1 \in 1 .. n /\ j \in 2 .. n + 1
        BY <3>2, <1>0
      <4> QED BY <4>1, <1>1, <1>6 DEF OwnSearch
    <3> QED BY <3>1, <3>2
  <2>2. s.type = "PTR" => Distinct(q)
    <3> SUFFICES ASSUME s.type = "PTR", NEW i \in 1 .. n + 1, NEW j \in 1 .. n + 1, Key(q[i]) = Key(q[j]) PROVE i = j
      BY <1>2 DEF Distinct
    <3>1. \A a \in 2 .. n + 1 : a - 1 \in 1 .. n
      BY <1>0
    <3>2. \A a, b \in 1 .. n : Key(s.res[a]) = Key(s.res[b]) => a = b
      BY <1>0, <1>6 DEF OwnSearch, Distinct
    <3>3. CASE i = 1 \/ j = 1
      <4>1. ASSUME NEW a \in 2 .. n + 1 PROVE Key(q[a]) # Key(q[1])
        BY <1>1, <1>6, <3>1
      <4> QED BY <4>1, <3>3, <1>0
    <3>4. CASE i # 1 /\ j # 1
      <4>1. i \in 2 .. n + 1 /\ j \in 2 .. n + 1
        BY <3>4, <1>0
      <4>2. i - 1 = j - 1
        BY ZenonT(30), <4>1, <3>1, <3>2, <1>1
      <4> QED BY <4>1, <4>2, <1>0
    <3> QED BY <3>3, <3>4
  <2>3. s.max # 0 => n + 1 <= s.max
    BY <1>0, <1>6
  <2>4. \A j \in 1 .. n + 1 : Good(t, q[j])
    BY <2>1, <1>3, GoodFrame
  <2> HIDE DEF t
  <2> QED BY <2>2, <2>3, <2>4, <1>1, <1>3 DEF OwnSearch, Frame
<1> HIDE DEF t
<1> QED BY <1>3, <1>4, <1>5, <1>6

\* Another result in the place of one with the same key.
LEMMA SetResultKeeps ==
  ASSUME NEW s \in Search, NEW i \in 1 .. Len(s.res), NEW r \in Result
  PROVE  LET t == [s EXCEPT !.res[i] = r]
         IN  /\ Frame(s, t)
             /\ OwnSearch(s) /\ Good(s, r) /\ Key(r) = Key(s.res[i]) => OwnSearch(t)
<1> DEFINE q == [s.res EXCEPT ![i] = r]
           t == [s EXCEPT !.res[i] = r]
           n == Len(s.res)
<1>0. s.res \in Seq(Result) /\ n \in Nat /\ s.max \in Nat /\ DOMAIN s.res = 1 .. n
  BY SearchFields
<1>1. q \in Seq(Result) /\ Len(q) = n /\ \A j \in 1 .. n : q[j] = IF j = i THEN r ELSE s.res[j]
  BY <1>0
<1>2. DOMAIN q = 1 .. n
  BY <1>1, <1>0
<1>3. t = [s EXCEPT !.res = q]
  BY DEF Search
<1> HIDE DEF q, t
<1>4. Frame(s, t) /\ t.res = q
  BY <1>1, <1>3 DEF Search, Frame
<1>5. ASSUME OwnSearch(s), Good(s, r), Key(r) = Key(s.res[i]) PROVE OwnSearch(t)
  <2>1. \A j \in 1 .. n : Good(t, q[j])
    BY <1>1, <1>4, <1>5, GoodFrame DEF OwnSearch
  <2>2. s.type = "PTR" => Distinct(q)
    BY <1>0, <1>1, <1>2, <1>5 DEF OwnSearch, Distinct
  <2>3. s.max # 0 => n <= s.max
    BY <1>5 DEF OwnSearch
  <2> QED BY <2>1, <2>2, <2>3, <1>1, <1>4 DEF OwnSearch, Frame
<1> QED BY <1>4, <1>5 DEF t

-----------------------------------------------------------------------------
(* A record and a search.                                                   *)

\* What the searches for a result find: the first result of an instance, or none.
LEMMA OfInstanceIs ==
  ASSUME NEW s \in Search, NEW inst, NEW via
  PROVE  LET i == OfInstance(s, inst, via)
         IN  /\ i # 0 => i \in 1 .. Len(s.res) /\ Has(s.res[i], inst, via)
             /\ i = 0 => \A j \in 1 .. Len(s.res) : ~Has(s.res[j], inst, via)
<1> DEFINE I == {i \in 1 .. Len(s.res) : Has(s.res[i], inst, via)}
<1>1. Len(s.res) \in Nat /\ I \in SUBSET (1 .. Len(s.res))
  BY SearchFields
<1>2. OfInstance(s, inst, via) = IF I # {} THEN Min(I) ELSE 0
  BY DEF OfInstance, SelectInSeq
<1>3. I # {} => Min(I) \in I
  BY <1>1, First
<1> QED BY <1>2, <1>3

\* The first result of a host.
LEMMA OfHostIs ==
  ASSUME NEW s \in Search, NEW host, NEW via
  PROVE  LET i == OfHost(s, host, via)
         IN  i # 0 => i \in 1 .. Len(s.res) /\ On(s.res[i], host, via)
<1> DEFINE I == {i \in 1 .. Len(s.res) : On(s.res[i], host, via)}
<1>1. Len(s.res) \in Nat /\ I \in SUBSET (1 .. Len(s.res))
  BY SearchFields
<1>2. OfHost(s, host, via) = IF I # {} THEN Min(I) ELSE 0
  BY DEF OfHost, SelectInSeq
<1>3. I # {} => Min(I) \in I
  BY <1>1, First
<1> QED BY <1>2, <1>3

\* The first result of a link.
LEMMA OfLinkIs ==
  ASSUME NEW s \in Search, NEW via
  PROVE  LET i == OfLink(s, via)
         IN  i # 0 => i \in 1 .. Len(s.res)
<1> DEFINE I == {i \in 1 .. Len(s.res) : s.res[i].via = via}
<1>1. Len(s.res) \in Nat /\ I \in SUBSET (1 .. Len(s.res))
  BY SearchFields
<1>2. OfLink(s, via) = IF I # {} THEN Min(I) ELSE 0
  BY DEF OfLink, SelectInSeq
<1>3. I # {} => Min(I) \in I
  BY <1>1, First
<1> QED BY <1>2, <1>3

\* The result that gets an address.
LEMMA AddressOfIs ==
  ASSUME NEW s \in Search, NEW host, NEW via
  PROVE  LET i == AddressOf(s, host, via)
         IN  i # 0 => /\ i \in 1 .. Len(s.res)
                      /\ s.type \notin {"A", "ANY"} => On(s.res[i], host, via)
<1> DEFINE I == {i \in 1 .. Len(s.res) :
                   IF s.type \in {"A", "ANY"} THEN s.res[i].via = via ELSE On(s.res[i], host, via)}
<1>1. Len(s.res) \in Nat /\ I \in SUBSET (1 .. Len(s.res))
  BY SearchFields
<1>2. AddressOf(s, host, via) = IF I # {} THEN Min(I) ELSE 0
  BY DEF AddressOf, SelectInSeq
<1>3. I # {} => Min(I) \in I
  BY <1>1, First
<1> QED BY <1>2, <1>3

\* A PTR record for a search of instances.
LEMMA AddPtrKeeps ==
  ASSUME NEW s \in Search, NEW inst \in Things, NEW via \in Things, NEW ttl \in Things
  PROVE  LET t == AddPtr(s, inst, via, ttl)
         IN  /\ Frame(s, t)
             /\ OwnSearch(s) /\ s.type = "PTR" /\ inst # None => OwnSearch(t)
<1> DEFINE i == OfInstance(s, inst, via)
           b == [Blank(via, ttl) EXCEPT !.inst = inst]
           old == s.res[i]
           new == [old EXCEPT !.ttl = Lower(@, ttl)]
<1>1. CASE i # 0
  <2>1. i \in 1 .. Len(s.res) /\ old \in Result
    BY <1>1, OfInstanceIs, SearchFields
  <2>2. /\ new \in Result /\ Key(new) = Key(old)
        /\ new.inst = old.inst /\ new.host = old.host /\ new.port = old.port
        /\ new.txt = old.txt /\ new.addr = old.addr
    BY <2>1, ResultFields, LowerThing DEF Result, Key
  <2>3. Good(s, old) => Good(s, new)
    BY <2>2 DEF Good, Consistent, Subject
  <2>4. AddPtr(s, inst, via, ttl) = [s EXCEPT !.res[i] = new]
    BY <1>1, <2>1 DEF AddPtr, Search
  <2> HIDE DEF i, new
  <2>5. OwnSearch(s) => Good(s, old)
    BY <2>1 DEF OwnSearch
  <2> HIDE DEF old
  <2>6. /\ Frame(s, [s EXCEPT !.res[i] = new])
        /\ OwnSearch(s) /\ Good(s, new) => OwnSearch([s EXCEPT !.res[i] = new])
    BY <2>1, <2>2, SetResultKeeps DEF old
  <2> QED BY <2>3, <2>4, <2>5, <2>6
<1>2. CASE i = 0
  <2>1. /\ b \in Result /\ b.inst = inst /\ b.via = via /\ b.host = None /\ b.txt = <<>> /\ b.addr = {}
    BY BlankFields DEF Result
  <2>2. AddPtr(s, inst, via, ttl) = NewResult(s, b)
    BY <1>2 DEF AddPtr
  <2>3. s.type = "PTR" /\ inst # None => Good(s, b)
    BY <2>1 DEF Good, Consistent, Subject
  <2>4. inst # None => \A j \in 1 .. Len(s.res) : Key(s.res[j]) # Key(b)
    BY <1>2, <2>1, OfInstanceIs DEF Has, Key
  <2> HIDE DEF b
  <2> QED BY <2>1, <2>2, <2>3, <2>4, NewResultKeeps
<1> QED BY <1>1, <1>2

\* An SRV record for a search of one instance.
LEMMA AddSrvKeeps ==
  ASSUME NEW s \in Search, NEW host \in Things, NEW port \in Things, NEW via \in Things, NEW ttl \in Things
  PROVE  LET t == AddSrv(s, host, port, via, ttl)
         IN  /\ Frame(s, t)
             /\ OwnSearch(s) /\ s.type # "PTR" /\ s.svc # <<>>
                /\ (host # None => Announced(s.inst, "SRV", <<port, <<host, "local">> >>))
                => OwnSearch(t)
<1> DEFINE i == OfHost(s, host, via)
           b == [Blank(via, ttl) EXCEPT !.inst = s.inst, !.host = host, !.port = port]
           old == s.res[i]
           new == [old EXCEPT !.ttl = Lower(@, ttl)]
<1>1. CASE i # 0
  <2>1. i \in 1 .. Len(s.res) /\ old \in Result
    BY <1>1, OfHostIs, SearchFields
  <2>2. /\ new \in Result /\ Key(new) = Key(old)
        /\ new.inst = old.inst /\ new.host = old.host /\ new.port = old.port
        /\ new.txt = old.txt /\ new.addr = old.addr
    BY <2>1, ResultFields, LowerThing DEF Result, Key
  <2>3. Good(s, old) => Good(s, new)
    BY <2>2 DEF Good, Consistent, Subject
  <2>4. AddSrv(s, host, port, via, ttl) = [s EXCEPT !.res[i] = new]
    BY <1>1, <2>1 DEF AddSrv, Search
  <2> HIDE DEF i, new
  <2>5. OwnSearch(s) => Good(s, old)
    BY <2>1 DEF OwnSearch
  <2> HIDE DEF old
  <2>6. /\ Frame(s, [s EXCEPT !.res[i] = new])
        /\ OwnSearch(s) /\ Good(s, new) => OwnSearch([s EXCEPT !.res[i] = new])
    BY <2>1, <2>2, SetResultKeeps DEF old
  <2> QED BY <2>3, <2>4, <2>5, <2>6
<1>2. CASE i = 0
  <2>0. s.inst \in Things
    BY SearchFields
  <2>1. /\ b \in Result /\ b.inst = s.inst /\ b.via = via /\ b.host = host /\ b.port = port
        /\ b.txt = <<>> /\ b.addr = {}
    <3> DEFINE z == Blank(via, ttl)
    <3>1. /\ z \in Result /\ z.via = via /\ z.txt = <<>> /\ z.addr = {}
      BY BlankFields
    <3> HIDE DEF z
    <3>2. LET x == [z EXCEPT !.inst = s.inst, !.host = host, !.port = port]
          IN  /\ x \in Result /\ x.inst = s.inst /\ x.via = via /\ x.host = host /\ x.port = port
              /\ x.txt = <<>> /\ x.addr = {}
      BY <2>0, <3>1 DEF Result
    <3> QED BY <3>2 DEF z
  <2>2. AddSrv(s, host, port, via, ttl) = NewResult(s, b)
    BY <1>2 DEF AddSrv
  <2>3. s.type # "PTR" /\ s.svc # <<>> /\ (host # None => Announced(s.inst, "SRV", <<port, <<host, "local">> >>))
        => Good(s, b)
    BY <2>1 DEF Good, Consistent, Subject
  <2> HIDE DEF b
  <2> QED BY <2>1, <2>2, <2>3, NewResultKeeps
<1> QED BY <1>1, <1>2

\* A TXT record for a search of one instance.
LEMMA AddTxtKeeps ==
  ASSUME NEW s \in Search, NEW txt \in Texts, NEW via \in Things, NEW ttl \in Things
  PROVE  LET t == AddTxt(s, txt, via, ttl)
         IN  /\ Frame(s, t)
             /\ OwnSearch(s) /\ s.type # "PTR" /\ s.svc # <<>> /\ (txt # <<>> => Announced(s.inst, "TXT", txt))
                => OwnSearch(t)
<1> DEFINE i == OfLink(s, via)
           b == [Blank(via, ttl) EXCEPT !.txt = txt]
           old == s.res[i]
           new == [old EXCEPT !.txt = txt, !.ttl = Lower(@, ttl)]
<1>1. CASE i # 0 /\ old.txt = <<>>
  <2>1. i \in 1 .. Len(s.res) /\ old \in Result
    BY <1>1, OfLinkIs, SearchFields
  <2>2. /\ new \in Result /\ Key(new) = Key(old)
        /\ new.inst = old.inst /\ new.host = old.host /\ new.port = old.port
        /\ new.txt = txt /\ new.addr = old.addr
    BY <2>1, ResultFields, LowerThing DEF Result, Key
  <2>3. s.type # "PTR" /\ s.svc # <<>> /\ (txt # <<>> => Announced(s.inst, "TXT", txt)) /\ Good(s, old)
        => Good(s, new)
    BY <2>2 DEF Good, Consistent, Subject
  <2>4. AddTxt(s, txt, via, ttl) = [s EXCEPT !.res[i] = new]
    <3>1. AddTxt(s, txt, via, ttl) = [s EXCEPT !.res[i].txt = txt, !.res[i].ttl = Lower(@, ttl)]
      BY <1>1 DEF AddTxt
    <3> HIDE DEF i
    <3> QED BY ZenonT(30), <2>1, <3>1, SearchFields DEF Search
  <2> HIDE DEF i, new
  <2>5. OwnSearch(s) => Good(s, old)
    BY <2>1 DEF OwnSearch
  <2> HIDE DEF old
  <2>6. /\ Frame(s, [s EXCEPT !.res[i] = new])
        /\ OwnSearch(s) /\ Good(s, new) => OwnSearch([s EXCEPT !.res[i] = new])
    BY <2>1, <2>2, SetResultKeeps DEF old
  <2> QED BY <2>3, <2>4, <2>5, <2>6
<1>2. CASE i # 0 /\ old.txt # <<>>
  <2>1. AddTxt(s, txt, via, ttl) = s
    BY <1>2 DEF AddTxt
  <2> QED BY <2>1 DEF Frame
<1>3. CASE i = 0
  <2>1. /\ b \in Result /\ b.via = via /\ b.host = None /\ b.txt = txt /\ b.addr = {}
    BY BlankFields DEF Result
  <2>2. AddTxt(s, txt, via, ttl) = NewResult(s, b)
    BY <1>3 DEF AddTxt
  <2>3. s.type # "PTR" /\ s.svc # <<>> /\ (txt # <<>> => Announced(s.inst, "TXT", txt)) => Good(s, b)
    BY <2>1 DEF Good, Consistent, Subject
  <2> HIDE DEF b
  <2> QED BY <2>1, <2>2, <2>3, NewResultKeeps
<1> QED BY <1>1, <1>2, <1>3

\* An address, for any search that wants it.
LEMMA AddIpKeeps ==
  ASSUME NEW s \in Search, NEW host \in Things, NEW a \in Things, NEW via \in Things, NEW ttl \in Things
  PROVE  LET t == AddIp(s, host, a, via, ttl)
         IN  /\ Frame(s, t)
             /\ OwnSearch(s) /\ (s.type \in {"A", "ANY"} => s.svc = <<>> /\ s.inst = host)
                /\ Announced(host, "A", a)
                => OwnSearch(t)
<1> DEFINE i == AddressOf(s, host, via)
           b == [Blank(via, ttl) EXCEPT !.host = host, !.addr = {a}]
           old == s.res[i]
           new == [old EXCEPT !.addr = @ \cup {a}, !.ttl = Lower(@, ttl)]
<1>1. CASE i # 0
  <2>1. i \in 1 .. Len(s.res) /\ old \in Result /\ (s.type \notin {"A", "ANY"} => On(old, host, via))
    BY <1>1, AddressOfIs, SearchFields
  <2>2. /\ new \in Result /\ Key(new) = Key(old)
        /\ new.inst = old.inst /\ new.host = old.host /\ new.port = old.port
        /\ new.txt = old.txt /\ new.addr = old.addr \cup {a}
    BY <2>1, ResultFields, LowerThing DEF Result, Key
  <2>3. /\ (s.type \in {"A", "ANY"} => s.svc = <<>> /\ s.inst = host)
        /\ Announced(host, "A", a) /\ Good(s, old)
        => Good(s, new)
    <3> SUFFICES ASSUME s.type \in {"A", "ANY"} => s.svc = <<>> /\ s.inst = host,
                        Announced(host, "A", a), Good(s, old)
                 PROVE  Good(s, new)
      OBVIOUS
    <3>1. old.host = host /\ (s.type = "PTR" => host # None)
      BY <2>1 DEF Good, On
    <3> QED BY <2>2, <3>1 DEF Good, Consistent, Subject
  <2>4. AddIp(s, host, a, via, ttl) = [s EXCEPT !.res[i] = new]
    <3>1. AddIp(s, host, a, via, ttl) = [s EXCEPT !.res[i].addr = @ \cup {a}, !.res[i].ttl = Lower(@, ttl)]
      BY <1>1 DEF AddIp
    <3> HIDE DEF i
    <3> QED BY ZenonT(30), <2>1, <3>1, SearchFields DEF Search
  <2> HIDE DEF i, new
  <2>5. OwnSearch(s) => Good(s, old)
    BY <2>1 DEF OwnSearch
  <2> HIDE DEF old
  <2>6. /\ Frame(s, [s EXCEPT !.res[i] = new])
        /\ OwnSearch(s) /\ Good(s, new) => OwnSearch([s EXCEPT !.res[i] = new])
    BY <2>1, <2>2, SetResultKeeps DEF old
  <2> QED BY <2>3, <2>4, <2>5, <2>6
<1>2. CASE i = 0 /\ s.type \in {"A", "ANY"}
  <2>1. /\ b \in Result /\ b.via = via /\ b.host = host /\ b.txt = <<>> /\ b.addr = {a} /\ b.inst = None
    <3>1. {a} \in SUBSET Things
      OBVIOUS
    <3> DEFINE z == Blank(via, ttl)
    <3>2. /\ z \in Result /\ z.via = via /\ z.txt = <<>> /\ z.inst = None
      BY BlankFields
    <3> HIDE DEF z
    <3>3. LET x == [z EXCEPT !.host = host, !.addr = {a}]
          IN  /\ x \in Result /\ x.via = via /\ x.host = host /\ x.txt = <<>> /\ x.addr = {a} /\ x.inst = None
      BY <3>1, <3>2 DEF Result
    <3> QED BY <3>3 DEF z
  <2>2. AddIp(s, host, a, via, ttl) = NewResult(s, b)
    BY <1>2 DEF AddIp
  <2>3. s.svc = <<>> /\ s.inst = host /\ Announced(host, "A", a) => Good(s, b)
    BY <1>2, <2>1 DEF Good, Consistent, Subject
  <2> HIDE DEF b
  <2> QED BY <1>2, <2>1, <2>2, <2>3, NewResultKeeps
<1>3. CASE i = 0 /\ s.type \notin {"A", "ANY"}
  <2>1. AddIp(s, host, a, via, ttl) = s
    BY <1>3 DEF AddIp
  <2> QED BY <2>1 DEF Frame
<1> QED BY <1>1, <1>2, <1>3

-----------------------------------------------------------------------------
(* A record and the browse.                                                 *)

\* What is being parsed.
Parse == [ss : Seq(Search), br : [svc : Things, res : Seq(Result)], told : SUBSET (Things \X Things),
          sr : Nat, bf : BOOLEAN, bi : Things, down : BOOLEAN, mixed : BOOLEAN, moved : SUBSET Things]

\* The result r may be in the browse.
Browsable(r, exempt) ==
  /\ r.inst # None /\ (r.host = None => r.addr = {})
  /\ r.host # None => Announced(r.inst, "SRV", <<r.port, <<r.host, "local">> >>)
  /\ r.txt # <<>> => Announced(r.inst, "TXT", r.txt)
  /\ r.host \notin exempt => \A a \in r.addr : Announced(r.host, "A", a)

OwnBrowse(A) ==
  /\ Distinct(A.br.res)
  /\ \A j \in 1 .. Len(A.br.res) : Browsable(A.br.res[j], A.moved)

\* The result r is an old one, or reported, or no news.
Accounted(r, reported) ==
  \/ r \in ToSet(browse.res) \/ Key(r) \in reported
  \/ \E q \in OldResults(r) : NoNews(q.txt, r.txt) /\ r = [q EXCEPT !.txt = r.txt]

AllTold(A) == \A j \in 1 .. Len(A.br.res) : Accounted(A.br.res[j], A.told)

\* What adding to the browse leaves alone.
Beside(A, B) ==
  /\ B \in Parse /\ B.ss = A.ss /\ B.sr = A.sr /\ B.bf = A.bf /\ B.bi = A.bi
  /\ B.mixed = A.mixed /\ A.told \subseteq B.told /\ A.moved \subseteq B.moved

\* The parts of what is being parsed.
LEMMA ParseFields ==
  ASSUME NEW A \in Parse
  PROVE  /\ A.ss \in Seq(Search) /\ A.br \in [svc : Things, res : Seq(Result)]
         /\ A.told \in SUBSET (Things \X Things) /\ A.sr \in Nat /\ A.bf \in BOOLEAN /\ A.bi \in Things
         /\ A.down \in BOOLEAN /\ A.mixed \in BOOLEAN /\ A.moved \in SUBSET Things
BY DEF Parse

\* The parts of the browse.
LEMMA BrowseFields ==
  ASSUME NEW A \in Parse
  PROVE  /\ A.br.svc \in Things /\ A.br.res \in Seq(Result) /\ Len(A.br.res) \in Nat
         /\ DOMAIN A.br.res = 1 .. Len(A.br.res)
         /\ \A j \in 1 .. Len(A.br.res) : A.br.res[j] \in Result
<1>1. A.br.svc \in Things /\ A.br.res \in Seq(Result)
  BY ParseFields
<1> QED BY <1>1

\* The key of a result.
LEMMA KeyThing ==
  ASSUME NEW r \in Result
  PROVE  Key(r) \in Things \X Things
BY ResultFields DEF Key

\* More exemptions and more reports do no harm.
LEMMA MoreExempt ==
  ASSUME NEW r, NEW m, NEW n, m \subseteq n
  PROVE  (Browsable(r, m) => Browsable(r, n)) /\ (Accounted(r, m) => Accounted(r, n))
BY DEF Browsable, Accounted

\* Another result of the browse in the place of one with the same key.
LEMMA BrowseSet ==
  ASSUME NEW A \in Parse, NEW i \in 1 .. Len(A.br.res), NEW r \in Result, Key(r) = Key(A.br.res[i]),
         NEW t \in SUBSET (Things \X Things), NEW m \in SUBSET Things, A.told \subseteq t, A.moved \subseteq m
  PROVE  LET B == [A EXCEPT !.br.res[i] = r, !.told = t, !.moved = m]
         IN  /\ Beside(A, B)
             /\ OwnBrowse(A) /\ Browsable(r, m) => OwnBrowse(B)
             /\ AllTold(A) /\ Accounted(r, t) => AllTold(B)
<1> DEFINE q == [A.br.res EXCEPT ![i] = r]
           B == [A EXCEPT !.br.res[i] = r, !.told = t, !.moved = m]
           n == Len(A.br.res)
<1>0. A.br.res \in Seq(Result) /\ n \in Nat /\ DOMAIN A.br.res = 1 .. n /\ A.br \in [svc : Things, res : Seq(Result)]
  BY BrowseFields, ParseFields
<1>1. q \in Seq(Result) /\ Len(q) = n /\ DOMAIN q = 1 .. n /\ \A j \in 1 .. n : q[j] = IF j = i THEN r ELSE A.br.res[j]
  BY <1>0
<1>2. B = [A EXCEPT !.br = [A.br EXCEPT !.res = q], !.told = t, !.moved = m]
  BY <1>0 DEF Parse
<1> DEFINE b == [A.br EXCEPT !.res = q]
<1>3. b \in [svc : Things, res : Seq(Result)] /\ b.res = q
  BY <1>0, <1>1
<1> HIDE DEF q, B, b
<1>4. Beside(A, B) /\ B.br.res = q /\ B.told = t /\ B.moved = m
  BY <1>2, <1>3 DEF Parse, Beside, b
<1>5. ASSUME OwnBrowse(A), Browsable(r, m) PROVE OwnBrowse(B)
  <2>1. \A j \in 1 .. n : Browsable(q[j], m)
    BY <1>1, <1>5, MoreExempt DEF OwnBrowse
  <2>2. Distinct(q)
    BY <1>0, <1>1, <1>5 DEF OwnBrowse, Distinct
  <2> QED BY <1>1, <1>4, <2>1, <2>2 DEF OwnBrowse
<1>6. ASSUME AllTold(A), Accounted(r, t) PROVE AllTold(B)
  <2>1. \A j \in 1 .. n : Accounted(q[j], t)
    BY <1>1, <1>6, MoreExempt DEF AllTold
  <2> QED BY <1>1, <1>4, <2>1 DEF AllTold
<1> QED BY <1>4, <1>5, <1>6 DEF B

\* A new result is reported.
LEMMA NewBrowsedKeeps ==
  ASSUME NEW A \in Parse, NEW r \in Result
  PROVE  LET B == NewBrowsed(A, r)
         IN  /\ Beside(A, B)
             /\ OwnBrowse(A) /\ Browsable(r, A.moved) /\ (\A j \in 1 .. Len(A.br.res) : Key(A.br.res[j]) # Key(r))
                => OwnBrowse(B)
             /\ AllTold(A) => AllTold(B)
<1> DEFINE q == <<r>> \o A.br.res
           B == NewBrowsed(A, r)
           n == Len(A.br.res)
           t == A.told \cup {Key(r)}
           b == [A.br EXCEPT !.res = q]
<1>0. A.br.res \in Seq(Result) /\ n \in Nat /\ DOMAIN A.br.res = 1 .. n /\ A.br \in [svc : Things, res : Seq(Result)]
  BY BrowseFields, ParseFields
<1>1. /\ q \in Seq(Result) /\ Len(q) = n + 1 /\ q[1] = r
      /\ \A j \in 2 .. n + 1 : q[j] = A.br.res[j - 1]
  BY <1>0
<1>2. DOMAIN q = 1 .. n + 1
  BY <1>1, <1>0
<1>3. b \in [svc : Things, res : Seq(Result)] /\ b.res = q
  BY <1>0, <1>1
<1>4. t \in SUBSET (Things \X Things) /\ A.told \subseteq t /\ Key(r) \in t
  BY KeyThing, ParseFields
<1>5. B = [A EXCEPT !.br = b, !.told = t]
  BY <1>0 DEF NewBrowsed, Parse
<1> HIDE DEF q, B, b, t
<1>6. Beside(A, B) /\ B.br.res = q /\ B.told = t /\ B.moved = A.moved
  BY <1>3, <1>4, <1>5 DEF Parse, Beside
<1>7. \A j \in 1 .. n + 1 : j = 1 \/ (j \in 2 .. n + 1 /\ j - 1 \in 1 .. n)
  BY <1>0
<1>8. ASSUME OwnBrowse(A), Browsable(r, A.moved), \A j \in 1 .. n : Key(A.br.res[j]) # Key(r) PROVE OwnBrowse(B)
  <2>1. \A j \in 1 .. n + 1 : Browsable(q[j], A.moved)
    BY <1>1, <1>7, <1>8 DEF OwnBrowse
  <2>2. Distinct(q)
    <3> SUFFICES ASSUME NEW i \in 1 .. n + 1, NEW j \in 1 .. n + 1, Key(q[i]) = Key(q[j]) PROVE i = j
      BY <1>2 DEF Distinct
    <3>1. \A x, y \in 1 .. n : Key(A.br.res[x]) = Key(A.br.res[y]) => x = y
      BY <1>0, <1>8 DEF OwnBrowse, Distinct
    <3>2. CASE i = 1 \/ j = 1
      <4>1. ASSUME NEW x \in 2 .. n + 1 PROVE Key(q[x]) # Key(q[1])
        BY <1>1, <1>7, <1>8
      <4> QED BY <4>1, <3>2, <1>7
    <3>3. CASE i # 1 /\ j # 1
      <4>1. i \in 2 .. n + 1 /\ j \in 2 .. n + 1 /\ i - 1 \in 1 .. n /\ j - 1 \in 1 .. n
        BY <3>3, <1>7
      <4>2. i - 1 = j - 1
        BY <4>1, <3>1, <1>1
      <4> QED BY <4>1, <4>2, <1>0
    <3> QED BY <3>2, <3>3
  <2> QED BY <1>1, <1>6, <2>1, <2>2 DEF OwnBrowse
<1>9. ASSUME AllTold(A) PROVE AllTold(B)
  <2>1. \A j \in 1 .. n + 1 : Accounted(q[j], t)
    <3> SUFFICES ASSUME NEW j \in 1 .. n + 1 PROVE Accounted(q[j], t)
      OBVIOUS
    <3>1. CASE j = 1
      BY <3>1, <1>1, <1>4 DEF Accounted
    <3>2. CASE j # 1
      <4>1. Accounted(q[j], A.told)
        BY <3>2, <1>1, <1>7, <1>9 DEF AllTold
      <4> QED BY <4>1, <1>4, MoreExempt
    <3> QED BY <3>1, <3>2
  <2> QED BY <1>1, <1>6, <2>1 DEF AllTold
<1> QED BY <1>6, <1>8, <1>9 DEF B

\* What the searches for a result of the browse find.
LEMMA BrowsedIs ==
  ASSUME NEW A \in Parse, NEW via
  PROVE  LET i == Browsed(A, via)
         IN  /\ i # 0 => i \in 1 .. Len(A.br.res) /\ Has(A.br.res[i], A.bi, via)
             /\ i = 0 => \A j \in 1 .. Len(A.br.res) : ~Has(A.br.res[j], A.bi, via)
<1> DEFINE I == {i \in 1 .. Len(A.br.res) : Has(A.br.res[i], A.bi, via)}
<1>1. Len(A.br.res) \in Nat /\ I \in SUBSET (1 .. Len(A.br.res))
  BY BrowseFields
<1>2. Browsed(A, via) = IF I # {} THEN Min(I) ELSE 0
  BY DEF Browsed, SelectInSeq
<1>3. I # {} => Min(I) \in I
  BY <1>1, First
<1>4. Browsed(A, via) = 0 => I = {}
  BY <1>1, <1>2, <1>3
<1> QED BY <1>2, <1>3, <1>4

\* Copied addresses are those of a result that has the host, or the old ones.
LEMMA CopiedIs ==
  ASSUME NEW A \in Parse, NEW r \in Result, NEW host, NEW x, x = CopiedAddress(A.br.res, r, host)
  PROVE  /\ x \in SUBSET Things
         /\ \/ x = r.addr
            \/ \E j \in 1 .. Len(A.br.res) : x = A.br.res[j].addr /\ A.br.res[j].host = host
<1> DEFINE rs == A.br.res
           I == {i \in 1 .. Len(rs) : rs[i].host = host /\ rs[i].via[2] = r.via[2] /\ rs[i].addr # {}}
           j == SelectInSeq(rs, LAMBDA q : q.host = host /\ q.via[2] = r.via[2] /\ q.addr # {})
<1>1. Len(rs) \in Nat /\ I \in SUBSET (1 .. Len(rs))
  BY BrowseFields
<1>2. j = IF I # {} THEN Min(I) ELSE 0
  BY DEF SelectInSeq
<1>3. I # {} => Min(I) \in I
  <2> HIDE DEF I, rs, j
  <2> QED BY <1>1, First
<1>4. j # 0 => j \in 1 .. Len(rs) /\ rs[j].host = host
  <2>1. j # 0 => j \in I
    <3> HIDE DEF I, rs, j
    <3> QED BY <1>2, <1>3
  <2> HIDE DEF j
  <2> QED BY <2>1
<1>5. CopiedAddress(rs, r, host) = IF r.addr = {} /\ j # 0 THEN rs[j].addr ELSE r.addr
  BY DEF CopiedAddress
<1> HIDE DEF j
<1>6. \A k \in 1 .. Len(rs) : rs[k] \in Result /\ rs[k].addr \in SUBSET Things
  BY BrowseFields, ResultFields
<1> QED BY <1>4, <1>5, <1>6, ResultFields

\* An SRV record for the browse.
LEMMA BrowseSrvKeeps ==
  ASSUME NEW A \in Parse, NEW host \in Things, NEW port \in Things, NEW via \in Things, NEW ttl \in Things
  PROVE  LET B == BrowseSrv(A, host, port, via, ttl)
         IN  /\ Beside(A, B)
             /\ /\ OwnBrowse(A) /\ A.bi # None /\ host # None
                /\ Announced(A.bi, "SRV", <<port, <<host, "local">> >>)
                => OwnBrowse(B)
             /\ AllTold(A) => AllTold(B)
<1> DEFINE i == Browsed(A, via)
           b == [Blank(via, ttl) EXCEPT !.inst = A.bi, !.host = host, !.port = port]
           old == A.br.res[i]
           x == CopiedAddress(A.br.res, old, host)
           at == IF old.host = host THEN old ELSE [old EXCEPT !.host = host, !.port = port, !.addr = x]
           new == [at EXCEPT !.ttl = Renewed(@, ttl)]
           t == IF new # old THEN A.told \cup {Key(old)} ELSE A.told
           m == IF old.host \notin {None, host} THEN A.moved \cup {host} ELSE A.moved
           True == /\ OwnBrowse(A) /\ A.bi # None /\ host # None
                   /\ Announced(A.bi, "SRV", <<port, <<host, "local">> >>)
<1>0. A.bi \in Things /\ A.told \in SUBSET (Things \X Things) /\ A.moved \in SUBSET Things
  BY ParseFields
<1>1. CASE i # 0
  <2>1. i \in 1 .. Len(A.br.res) /\ old \in Result /\ old.inst = A.bi
    BY <1>1, BrowsedIs, BrowseFields DEF Has
  <2>2. /\ x \in SUBSET Things
        /\ x = old.addr \/ \E j \in 1 .. Len(A.br.res) : x = A.br.res[j].addr /\ A.br.res[j].host = host
    <3>1. old \in Result /\ x = CopiedAddress(A.br.res, old, host)
      BY <2>1
    <3> HIDE DEF i, b, old, x, at, new, t, m, True
    <3> QED BY SMTT(30), <3>1, CopiedIs
  <2>3. BrowseSrv(A, host, port, via, ttl) = [A EXCEPT !.br.res[i] = new, !.told = t, !.moved = m]
    BY <1>1 DEF BrowseSrv
  <2> HIDE DEF i, x
  <2>4. /\ at \in Result /\ Key(at) = Key(old) /\ at.inst = old.inst /\ at.txt = old.txt
        /\ IF old.host = host THEN at = old ELSE at.host = host /\ at.port = port /\ at.addr = x
    BY <2>1, <2>2 DEF Result, Key
  <2> HIDE DEF at
  <2>5. /\ new \in Result /\ Key(new) = Key(at) /\ new.inst = at.inst /\ new.txt = at.txt
        /\ new.host = at.host /\ new.port = at.port /\ new.addr = at.addr
    BY <2>4, ResultFields, LowerThing DEF Result, Key
  <2> HIDE DEF new
  <2>6. t \in SUBSET (Things \X Things) /\ A.told \subseteq t
    BY <1>0, <2>1, KeyThing
  <2>7. m \in SUBSET Things /\ A.moved \subseteq m
    BY <1>0
  <2>8. ASSUME AllTold(A) PROVE Accounted(new, t)
    <3>1. CASE new # old
      BY <3>1, <2>4, <2>5 DEF Accounted
    <3>2. CASE new = old
      BY <3>2, <2>1, <2>8 DEF AllTold
    <3> QED BY <3>1, <3>2
  <2>9. ASSUME True PROVE Browsable(new, m)
    <3>1. Browsable(old, A.moved)
      BY <2>1, <2>9 DEF OwnBrowse
    <3>2. CASE old.host = host
      BY <3>1, <3>2, <2>4, <2>5 DEF Browsable
    <3>3. CASE old.host # host
      <4>1. new.host = host /\ new.port = port /\ new.addr = x /\ new.inst = A.bi /\ new.txt = old.txt
        BY <3>3, <2>1, <2>4, <2>5
      <4>2. ASSUME host \notin m PROVE \A a \in x : Announced(host, "A", a)
        <5>1. old.addr = {} /\ host \notin A.moved
          BY <3>1, <3>3, <4>2 DEF Browsable
        <5>2. \A j \in 1 .. Len(A.br.res) : A.br.res[j].host = host => \A a \in A.br.res[j].addr : Announced(host, "A", a)
          BY <5>1, <2>9 DEF OwnBrowse, Browsable
        <5> QED BY <5>1, <5>2, <2>2
      <4> QED BY <3>1, <4>1, <4>2, <2>1, <2>9 DEF Browsable
    <3> QED BY <3>2, <3>3
  <2> HIDE DEF t, m, old
  <2>10. LET B == [A EXCEPT !.br.res[i] = new, !.told = t, !.moved = m]
         IN  /\ Beside(A, B)
             /\ OwnBrowse(A) /\ Browsable(new, m) => OwnBrowse(B)
             /\ AllTold(A) /\ Accounted(new, t) => AllTold(B)
    BY <2>1, <2>4, <2>5, <2>6, <2>7, BrowseSet DEF old
  <2> QED BY <2>3, <2>8, <2>9, <2>10
<1>2. CASE i = 0
  <2>1. /\ b \in Result /\ b.inst = A.bi /\ b.via = via /\ b.host = host /\ b.port = port
        /\ b.txt = <<>> /\ b.addr = {}
    <3> DEFINE z == Blank(via, ttl)
    <3>1. z \in Result /\ z.via = via /\ z.txt = <<>> /\ z.addr = {}
      BY BlankFields
    <3> HIDE DEF z
    <3>2. LET y == [z EXCEPT !.inst = A.bi, !.host = host, !.port = port]
          IN  /\ y \in Result /\ y.inst = A.bi /\ y.via = via /\ y.host = host /\ y.port = port
              /\ y.txt = <<>> /\ y.addr = {}
      BY <1>0, <3>1 DEF Result
    <3> QED BY <3>2 DEF z
  <2>2. BrowseSrv(A, host, port, via, ttl) = NewBrowsed(A, b)
    BY <1>2 DEF BrowseSrv
  <2>3. True => Browsable(b, A.moved)
    BY <2>1 DEF Browsable
  <2>4. A.bi # None => \A j \in 1 .. Len(A.br.res) : Key(A.br.res[j]) # Key(b)
    BY <1>2, <2>1, BrowsedIs DEF Has, Key
  <2> HIDE DEF b
  <2> QED BY <2>1, <2>2, <2>3, <2>4, NewBrowsedKeeps
<1> QED BY <1>1, <1>2

\* No news and then no news is no news.
LEMMA StillNoNews ==
  ASSUME NEW a \in Texts, NEW b \in Texts, NEW c \in Texts, NoNews(a, b), NoNews(b, c)
  PROVE  NoNews(a, c)
<1> SUFFICES ASSUME a # <<>> PROVE NoNews(a, c)
  BY DEF NoNews
<1>1. a \in Seq(ToSet(a)) /\ Len(a) # 0
  BY DEF Texts
<1>2. Len(b) = Len(a) /\ ToSet(b) \subseteq ToSet(a)
  BY DEF NoNews
<1>3. b # <<>>
  BY <1>1, <1>2
<1> QED BY <1>2, <1>3 DEF NoNews

\* A TXT record for the browse.
LEMMA BrowseTxtKeeps ==
  ASSUME NEW A \in Parse, NEW txt \in Texts, NEW via \in Things, NEW ttl \in Things, browse.res \in Seq(Result)
  PROVE  LET B == BrowseTxt(A, txt, via, ttl)
         IN  /\ Beside(A, B)
             /\ OwnBrowse(A) /\ A.bi # None /\ (txt # <<>> => Announced(A.bi, "TXT", txt)) => OwnBrowse(B)
             /\ AllTold(A) => AllTold(B)
<1> DEFINE i == Browsed(A, via)
           b == [Blank(via, ttl) EXCEPT !.inst = A.bi, !.txt = txt]
           old == A.br.res[i]
           new == [old EXCEPT !.txt = txt, !.ttl = Renewed(@, ttl)]
           t == IF TxtChanged(old.txt, txt) \/ new.ttl # old.ttl THEN A.told \cup {Key(old)} ELSE A.told
           True == OwnBrowse(A) /\ A.bi # None /\ (txt # <<>> => Announced(A.bi, "TXT", txt))
<1>0. A.bi \in Things /\ A.told \in SUBSET (Things \X Things) /\ A.moved \in SUBSET Things
  BY ParseFields
<1>1. CASE i # 0
  <2>1. i \in 1 .. Len(A.br.res) /\ old \in Result /\ old.inst = A.bi
    BY <1>1, BrowsedIs, BrowseFields DEF Has
  <2>3. BrowseTxt(A, txt, via, ttl) = [A EXCEPT !.br.res[i] = new, !.told = t, !.moved = A.moved]
    <3>1. BrowseTxt(A, txt, via, ttl) = [A EXCEPT !.br.res[i] = new, !.told = t]
      BY <1>1 DEF BrowseTxt
    <3> HIDE DEF i, new, t
    <3> QED BY <3>1 DEF Parse
  <2> HIDE DEF i
  <2>5. /\ new \in Result /\ Key(new) = Key(old) /\ new.inst = old.inst /\ new.txt = txt
        /\ new.host = old.host /\ new.port = old.port /\ new.addr = old.addr
        /\ new.ttl = old.ttl => new = [old EXCEPT !.txt = txt]
    BY <2>1, ResultFields, LowerThing DEF Result, Key
  <2> HIDE DEF new
  <2>6. t \in SUBSET (Things \X Things) /\ A.told \subseteq t
    BY <1>0, <2>1, KeyThing
  <2>8. ASSUME AllTold(A) PROVE Accounted(new, t)
    <3>1. Accounted(old, A.told) /\ old.txt \in Texts
      BY <2>1, <2>8, ResultFields DEF AllTold
    <3>2. CASE Key(old) \in t
      BY <3>2, <2>5 DEF Accounted
    <3>3. CASE Key(old) \notin t
      <4>1. ~TxtChanged(old.txt, txt) /\ new = [old EXCEPT !.txt = txt] /\ Key(old) \notin A.told
        BY <3>3, <2>5, <2>6
      <4>2. NoNews(old.txt, txt)
        BY <4>1 DEF TxtChanged, NoNews
      <4>3. PICK q \in OldResults(old) : NoNews(q.txt, old.txt) /\ old = [q EXCEPT !.txt = old.txt]
        <5>1. CASE old \in ToSet(browse.res)
          <6>1. old \in OldResults(old) /\ old = [old EXCEPT !.txt = old.txt]
            BY <5>1, <2>1 DEF OldResults, Result
          <6>2. NoNews(old.txt, old.txt)
            BY DEF NoNews
          <6> QED BY <6>1, <6>2
        <5> QED BY <5>1, <3>1, <4>1 DEF Accounted
      <4>4. q \in Result /\ q.txt \in Texts /\ Key(q) = Key(old) /\ q \in ToSet(browse.res)
        BY <4>3, ResultFields DEF OldResults, ToSet
      <4>5. NoNews(q.txt, new.txt)
        BY <3>1, <4>2, <4>3, <4>4, <2>5, StillNoNews
      <4>6. new = [q EXCEPT !.txt = new.txt]
        BY <4>1, <4>3, <4>4, <2>5 DEF Result
      <4>7. q \in OldResults(new)
        BY <4>4, <2>5 DEF OldResults
      <4> QED BY <4>5, <4>6, <4>7 DEF Accounted
    <3> QED BY <3>2, <3>3
  <2>9. ASSUME True PROVE Browsable(new, A.moved)
    <3>1. Browsable(old, A.moved)
      BY <2>1, <2>9 DEF OwnBrowse
    <3> QED BY <3>1, <2>1, <2>5, <2>9 DEF Browsable
  <2> HIDE DEF t, old
  <2>10. LET B == [A EXCEPT !.br.res[i] = new, !.told = t, !.moved = A.moved]
         IN  /\ Beside(A, B)
             /\ OwnBrowse(A) /\ Browsable(new, A.moved) => OwnBrowse(B)
             /\ AllTold(A) /\ Accounted(new, t) => AllTold(B)
    BY <1>0, <2>1, <2>5, <2>6, BrowseSet DEF old
  <2> QED BY <2>3, <2>8, <2>9, <2>10
<1>2. CASE i = 0
  <2>1. b \in Result /\ b.inst = A.bi /\ b.via = via /\ b.host = None /\ b.txt = txt /\ b.addr = {}
    <3> DEFINE z == Blank(via, ttl)
    <3>1. z \in Result /\ z.via = via /\ z.host = None /\ z.addr = {}
      BY BlankFields
    <3> HIDE DEF z
    <3>2. LET y == [z EXCEPT !.inst = A.bi, !.txt = txt]
          IN  y \in Result /\ y.inst = A.bi /\ y.via = via /\ y.host = None /\ y.txt = txt /\ y.addr = {}
      BY <1>0, <3>1 DEF Result
    <3> QED BY <3>2 DEF z
  <2>2. BrowseTxt(A, txt, via, ttl) = NewBrowsed(A, b)
    BY <1>2 DEF BrowseTxt
  <2>3. True => Browsable(b, A.moved)
    BY <2>1 DEF Browsable
  <2>4. A.bi # None => \A j \in 1 .. Len(A.br.res) : Key(A.br.res[j]) # Key(b)
    BY <1>2, <2>1, BrowsedIs DEF Has, Key
  <2> HIDE DEF b
  <2> QED BY <2>1, <2>2, <2>3, <2>4, NewBrowsedKeeps
<1> QED BY <1>1, <1>2

\* An address for the browse.
LEMMA BrowseIpKeeps ==
  ASSUME NEW A \in Parse, NEW host, NEW a \in Things, NEW via, NEW ttl \in Things
  PROVE  LET B == BrowseIp(A, host, a, via, ttl)
         IN  /\ Beside(A, B)
             /\ OwnBrowse(A) /\ Announced(host, "A", a) => OwnBrowse(B)
             /\ AllTold(A) => AllTold(B)
<1> DEFINE I == {j \in 1 .. Len(A.br.res) : On(A.br.res[j], host, via) /\ a \notin A.br.res[j].addr}
           i == SelectInSeq(A.br.res, LAMBDA r : On(r, host, via) /\ a \notin r.addr)
           old == A.br.res[i]
           new == [old EXCEPT !.addr = @ \cup {a}, !.ttl = Renewed(@, ttl)]
           t == A.told \cup {Key(old)}
<1>0. A.told \in SUBSET (Things \X Things) /\ A.moved \in SUBSET Things
  BY ParseFields
<1>1. CASE i # 0
  <2>1. i \in 1 .. Len(A.br.res) /\ old \in Result /\ old.host = host /\ host # None
    <3>1. Len(A.br.res) \in Nat /\ I \in SUBSET (1 .. Len(A.br.res))
      BY BrowseFields
    <3>2. i = IF I # {} THEN Min(I) ELSE 0
      BY DEF SelectInSeq
    <3>3. i \in I
      BY <1>1, <3>1, <3>2, First
    <3> HIDE DEF i
    <3> QED BY <3>3, BrowseFields DEF On
  <2>3. BrowseIp(A, host, a, via, ttl) = [A EXCEPT !.br.res[i] = new, !.told = t, !.moved = A.moved]
    <3>1. BrowseIp(A, host, a, via, ttl) = [A EXCEPT !.br.res[i] = new, !.told = t]
      BY <1>1 DEF BrowseIp
    <3> HIDE DEF i, new, t
    <3> QED BY <3>1 DEF Parse
  <2> HIDE DEF i
  <2>5. /\ new \in Result /\ Key(new) = Key(old) /\ new.inst = old.inst /\ new.txt = old.txt
        /\ new.host = old.host /\ new.port = old.port /\ new.addr = old.addr \cup {a}
    BY <2>1, ResultFields, LowerThing DEF Result, Key
  <2> HIDE DEF new
  <2>6. t \in SUBSET (Things \X Things) /\ A.told \subseteq t /\ Key(new) \in t
    BY <1>0, <2>1, <2>5, KeyThing
  <2>8. Accounted(new, t)
    BY <2>6 DEF Accounted
  <2>9. ASSUME OwnBrowse(A), Announced(host, "A", a) PROVE Browsable(new, A.moved)
    <3>1. Browsable(old, A.moved)
      BY <2>1, <2>9 DEF OwnBrowse
    <3> QED BY <3>1, <2>1, <2>5, <2>9 DEF Browsable
  <2> HIDE DEF t, old
  <2>10. LET B == [A EXCEPT !.br.res[i] = new, !.told = t, !.moved = A.moved]
         IN  /\ Beside(A, B)
             /\ OwnBrowse(A) /\ Browsable(new, A.moved) => OwnBrowse(B)
             /\ AllTold(A) /\ Accounted(new, t) => AllTold(B)
    BY <1>0, <2>1, <2>5, <2>6, BrowseSet DEF old
  <2> QED BY <2>3, <2>8, <2>9, <2>10
<1>2. CASE i = 0
  <2>1. BrowseIp(A, host, a, via, ttl) = A
    BY <1>2 DEF BrowseIp
  <2> QED BY <2>1 DEF Beside
<1> QED BY <1>1, <1>2

-----------------------------------------------------------------------------
(* From record to record.                                                   *)

\* The searches are those of the setup.
Asked(ss) ==
  /\ Len(ss) = Len(setup.searches)
  /\ \A i \in 1 .. Len(ss) : ss[i].type = setup.searches[i].type /\ ss[i].svc = setup.searches[i].svc

Owned(A) == OwnBrowse(A) /\ \A i \in 1 .. Len(A.ss) : OwnSearch(A.ss[i])

\* The invariant of the loop over the records of a packet.
Going(A) ==
  /\ A \in Parse /\ A.sr \in 0 .. Len(A.ss) /\ Asked(A.ss) /\ AllTold(A)
  /\ ~A.mixed => Owned(A)

\* The search and the browse that parsing has in hand are those that want this record.
Meant(A, n, type, via) ==
  /\ A.sr # 0 => Wants(A.ss[A.sr], n, type, via)
  /\ A.bf /\ type \in {"SRV", "TXT"} => A.bi = n.host

Ready(A, r, via) == Going(A) /\ (~A.mixed => Meant(A, ParseName(r.name), r.type, via))

\* The values of a record.
LEMMA HeardThings ==
  ASSUME NEW r \in Heard
  PROVE  /\ r.ttl \in Things /\ r.data \in Things /\ r.data[1] \in Things
         /\ ParseName(r.name).host \in Things /\ ParseName(r.data).host \in Things
         /\ ParseName(r.data[2]).host \in Things
<1> DEFINE all == {{r.ttl, r.data, r.data[1]}, {ParseName(r.name).host, ParseName(r.data).host, ParseName(r.data[2]).host}}
<1>1. r.ttl \in {x.ttl : x \in Heard} /\ r.data \in {x.data : x \in Heard} /\ r.data[1] \in {x.data[1] : x \in Heard}
  OBVIOUS
<1>2. /\ ParseName(r.name).host \in {ParseName(x.name).host : x \in Heard}
      /\ ParseName(r.data).host \in {ParseName(x.data).host : x \in Heard}
      /\ ParseName(r.data[2]).host \in {ParseName(x.data[2]).host : x \in Heard}
  OBVIOUS
<1> QED BY <1>1, <1>2 DEF Things

\* The searches of what is being parsed.
LEMMA StateFields ==
  ASSUME NEW A \in Parse
  PROVE  /\ A.ss \in Seq(Search) /\ Len(A.ss) \in Nat /\ DOMAIN A.ss = 1 .. Len(A.ss)
         /\ \A j \in 1 .. Len(A.ss) : A.ss[j] \in Search
<1>1. A.ss \in Seq(Search)
  BY ParseFields
<1> QED BY <1>1

\* Other results for one of the searches.
LEMMA SearchSet ==
  ASSUME NEW A, Going(A), NEW j \in 1 .. Len(A.ss), NEW t, Frame(A.ss[j], t), ~A.mixed => OwnSearch(t)
  PROVE  Going([A EXCEPT !.ss[j] = t])
<1> DEFINE q == [A.ss EXCEPT ![j] = t]
           B == [A EXCEPT !.ss[j] = t]
           n == Len(A.ss)
<1>0. /\ A \in Parse /\ A.ss \in Seq(Search) /\ n \in Nat /\ DOMAIN A.ss = 1 .. n
      /\ t \in Search /\ t.type = A.ss[j].type /\ t.svc = A.ss[j].svc
  BY StateFields DEF Going, Frame
<1>1. q \in Seq(Search) /\ Len(q) = n /\ \A i \in 1 .. n : q[i] = IF i = j THEN t ELSE A.ss[i]
  BY <1>0
<1>2. B = [A EXCEPT !.ss = q]
  BY <1>0 DEF Parse
<1> HIDE DEF q, B
<1>3. /\ B \in Parse /\ B.ss = q /\ B.sr = A.sr /\ B.br = A.br /\ B.told = A.told
      /\ B.mixed = A.mixed /\ B.moved = A.moved
  BY <1>0, <1>1, <1>2 DEF Parse
<1>4. Asked(q)
  BY <1>0, <1>1 DEF Going, Asked
<1>5. AllTold(B)
  BY <1>3 DEF Going, AllTold
<1>6. ~B.mixed => Owned(B)
  <2>1. OwnBrowse(A) => OwnBrowse(B)
    BY <1>3 DEF OwnBrowse
  <2>2. ~A.mixed => \A i \in 1 .. n : OwnSearch(q[i])
    BY <1>1 DEF Going, Owned
  <2> QED BY <2>1, <2>2, <1>1, <1>3 DEF Going, Owned
<1>7. B.sr \in 0 .. Len(B.ss)
  BY <1>1, <1>3 DEF Going
<1> QED BY <1>3, <1>4, <1>5, <1>6, <1>7 DEF Going, B

\* Other results for the browse.
LEMMA BrowseMoves ==
  ASSUME NEW A, Going(A), NEW B, Beside(A, B), AllTold(B), ~A.mixed => OwnBrowse(B)
  PROVE  Going(B)
BY DEF Going, Beside, Owned

\* What a record is looked up for.
LEMMA LookUpReady ==
  ASSUME NEW A, Going(A), NEW r \in Heard, NEW via
  PROVE  Ready(LookUp(A, ParseName(r.name), r.type, via), r, via)
<1> DEFINE n == ParseName(r.name)
           B == LookUp(A, n, r.type, via)
           wanted == BrowseWants(A.br, n, r.type, via)
           j == SearchFrom(A.ss, 1, n, r.type, via)
<1>0. /\ A \in Parse /\ A.sr \in 0 .. Len(A.ss) /\ Len(A.ss) \in Nat /\ n.host \in Things /\ A.bi \in Things
      /\ A.bf \in BOOLEAN /\ A.mixed \in BOOLEAN
  BY HeardThings, StateFields, ParseFields DEF Going
<1>1. CASE Ours(n)
  <2>1. B = [A EXCEPT !.mixed = @ \/ A.sr # 0 \/ A.bf]
    BY <1>1 DEF LookUp
  <2> HIDE DEF B, n
  <2>2. /\ B \in Parse /\ B.ss = A.ss /\ B.sr = A.sr /\ B.br = A.br /\ B.told = A.told /\ B.bf = A.bf
        /\ B.bi = A.bi /\ B.moved = A.moved /\ B.mixed = (A.mixed \/ A.sr # 0 \/ A.bf)
    BY <2>1, <1>0 DEF Parse
  <2>3. Going(B)
    BY <2>2 DEF Going, AllTold, Owned, OwnBrowse
  <2> QED BY <2>2, <2>3 DEF Ready, Meant, B, n
<1>2. CASE ~Ours(n)
  <2>1. B = [A EXCEPT !.sr = j, !.bf = wanted, !.bi = IF wanted /\ r.type \in {"SRV", "TXT"} THEN n.host ELSE @]
    BY <1>2 DEF LookUp
  <2>2. j \in 0 .. Len(A.ss) /\ (j # 0 => Wants(A.ss[j], n, r.type, via))
    <3> DEFINE all == {k \in 1 .. Len(A.ss) : A.ss[k].on /\ Wants(A.ss[k], n, r.type, via)}
    <3>1. j = IF all = {} THEN 0 ELSE CHOOSE k \in all : \A l \in all : k <= l
      BY DEF SearchFrom
    <3>2. all \in SUBSET Nat /\ (all # {} => \E k \in all : \A l \in all : k <= l)
      <4>1. all \in SUBSET Nat
        BY <1>0
      <4> HIDE DEF all
      <4> QED BY <4>1, Least
    <3>3. all # {} => j \in all
      <4> HIDE DEF all, j
      <4> QED BY <3>1, <3>2
    <3>4. \A k \in all : k \in 1 .. Len(A.ss) /\ Wants(A.ss[k], n, r.type, via)
      OBVIOUS
    <3>5. all = {} => j = 0
      <4> HIDE DEF all, j
      <4> QED BY <3>1
    <3> HIDE DEF j, all
    <3> QED BY <3>3, <3>4, <3>5, <1>0
  <2>3. wanted \in BOOLEAN
    BY DEF BrowseWants
  <2> HIDE DEF B, n, j, wanted
  <2> DEFINE x == IF wanted /\ r.type \in {"SRV", "TXT"} THEN n.host ELSE A.bi
  <2>7. B = [A EXCEPT !.sr = j, !.bf = wanted, !.bi = x] /\ x \in Things /\ j \in Nat
    BY <2>1, <2>2, <1>0
  <2>8. wanted /\ r.type \in {"SRV", "TXT"} => x = n.host
    OBVIOUS
  <2> HIDE DEF x
  <2>4. /\ B \in Parse /\ B.ss = A.ss /\ B.sr = j /\ B.br = A.br /\ B.told = A.told /\ B.bf = wanted
        /\ B.bi = x /\ B.moved = A.moved /\ B.mixed = A.mixed
    BY <2>7, <2>3, <1>0 DEF Parse
  <2>5. Going(B)
    BY <2>2, <2>4 DEF Going, AllTold, Owned, OwnBrowse
  <2>6. Meant(B, n, r.type, via)
    BY <2>2, <2>4, <2>8 DEF Meant
  <2> QED BY <2>5, <2>6 DEF Ready, B, n
<1> QED BY <1>1, <1>2

\* A PTR record.
LEMMA PtrGoes ==
  ASSUME QueryAssumption, setup \in Setups, NEW r \in Heard, Truthful(setup, r), r.type = "PTR",
         NEW via \in Things, NEW A, Ready(A, r, via)
  PROVE  Going(ParsePtr(A, r, via))
<1> DEFINE inst == ParseName(r.data).host
           n == ParseName(r.name)
           s == A.ss[A.sr]
           t == AddPtr(s, inst, via, r.ttl)
<1>0. A \in Parse /\ Going(A) /\ A.sr \in 0 .. Len(A.ss) /\ Len(A.ss) \in Nat
  BY StateFields DEF Ready, Going
<1>1. CASE A.sr = 0
  BY <1>0, <1>1 DEF ParsePtr
<1>2. CASE A.sr # 0
  <2>1. A.sr \in 1 .. Len(A.ss) /\ s \in Search
    BY <1>0, <1>2, StateFields
  <2>2. ParsePtr(A, r, via) = [A EXCEPT !.ss[A.sr] = t]
    BY <1>2 DEF ParsePtr
  <2>3. inst \in Things /\ r.ttl \in Things
    BY HeardThings
  <2>4. ASSUME ~A.mixed PROVE OwnSearch(s) /\ s.type = "PTR" /\ inst # None
    <3>1. Wants(s, n, "PTR", via) /\ OwnSearch(s)
      BY <1>0, <1>2, <2>1, <2>4 DEF Ready, Meant, Going, Owned
    <3>2. s.type = "PTR" /\ s.svc = n.svc
      BY <3>1 DEF Wants
    <3>3. setup.searches[A.sr] \in ToSet(setup.searches)
      <4>1. A.sr \in 1 .. Len(setup.searches)
        BY <1>0, <2>1 DEF Going, Asked
      <4>2. DOMAIN setup.searches = 1 .. Len(setup.searches)
        BY DEF QueryAssumption
      <4> QED BY <4>1, <4>2 DEF ToSet
    <3>4. setup.searches[A.sr].type = "PTR" /\ setup.searches[A.sr].svc = n.svc
      BY <1>0, <2>1, <3>2 DEF Going, Asked
    <3> QED BY <3>1, <3>2, <3>3, <3>4 DEF Truthful
  <2> HIDE DEF t
  <2>5. Frame(s, t) /\ (~A.mixed => OwnSearch(t))
    BY <2>1, <2>3, <2>4, AddPtrKeeps DEF t
  <2>6. Going([A EXCEPT !.ss[A.sr] = t])
    BY <1>0, <2>1, <2>5, SearchSet
  <2> QED BY <2>2, <2>6
<1> QED BY <1>1, <1>2

\* A result for a record that names an instance.
LEMMA EntryKeeps ==
  ASSUME NEW s \in Search, NEW n, n.host \in Things, NEW via \in Things, NEW ttl \in Things
  PROVE  LET t == Entry(s, n, via, ttl)
         IN  /\ Frame(s, t) /\ (s.type # "PTR" => t = s)
             /\ OwnSearch(s) /\ (s.type = "PTR" => n.host # None) => OwnSearch(t)
<1>1. Frame(s, s)
  BY DEF Frame
<1>2. Entry(s, n, via, ttl) = s \/ (s.type = "PTR" /\ Entry(s, n, via, ttl) = AddPtr(s, n.host, via, ttl))
  BY DEF Entry
<1> QED BY <1>1, <1>2, AddPtrKeeps

\* The browse comes first.
LEMMA BrowseGoes ==
  ASSUME NEW A, Going(A), NEW U, Beside(A, U), AllTold(U), ~A.mixed /\ A.bf /\ A.bi # None => OwnBrowse(U)
  PROVE  LET B == Browse(A, U) IN Going(B) /\ B.ss = A.ss /\ B.sr = A.sr /\ B.mixed = A.mixed
<1>0. A \in Parse /\ A.bf \in BOOLEAN
  BY ParseFields DEF Going
<1>1. CASE ~A.bf
  BY <1>1 DEF Browse
<1>2. CASE A.bf /\ A.bi = None
  <2> DEFINE B == [A EXCEPT !.down = TRUE]
  <2>1. Browse(A, U) = B
    BY <1>2 DEF Browse
  <2>2. /\ B \in Parse /\ B.ss = A.ss /\ B.sr = A.sr /\ B.br = A.br /\ B.told = A.told
        /\ B.mixed = A.mixed /\ B.moved = A.moved
    BY <1>0 DEF Parse
  <2> HIDE DEF B
  <2> QED BY <2>1, <2>2 DEF Going, AllTold, Owned, OwnBrowse
<1>3. CASE A.bf /\ A.bi # None
  <2>1. Browse(A, U) = U
    BY <1>3 DEF Browse
  <2> QED BY <2>1, <1>3, BrowseMoves DEF Beside
<1> QED BY <1>1, <1>2, <1>3

\* An SRV record.
LEMMA SrvGoes ==
  ASSUME setup \in Setups, NEW r \in Heard, Truthful(setup, r), r.type = "SRV",
         NEW via \in Things, NEW A, Ready(A, r, via)
  PROVE  Going(ParseSrv(A, r, via))
<1> DEFINE n == ParseName(r.name)
           host == ParseName(r.data[2]).host
           port == r.data[1]
           s0 == A.ss[A.sr]
           s == Entry(s0, n, via, r.ttl)
           i == OfInstance(s, n.host, via)
           U == BrowseSrv(A, host, port, via, r.ttl)
           B == Browse(A, U)
<1>0. A \in Parse /\ Going(A) /\ A.sr \in 0 .. Len(A.ss) /\ Len(A.ss) \in Nat
  BY StateFields DEF Ready, Going
<1>1. host \in Things /\ port \in Things /\ n.host \in Things /\ r.ttl \in Things
  BY HeardThings
<1>2. host # None /\ Announced(n.host, "SRV", <<port, <<host, "local">> >>)
  BY DEF Truthful, Announced
<1>3. Going(B) /\ B.ss = A.ss /\ B.sr = A.sr /\ B.mixed = A.mixed
  <2>1. ~A.mixed /\ A.bf => A.bi = n.host /\ OwnBrowse(A)
    BY <1>0 DEF Ready, Meant, Going, Owned
  <2> HIDE DEF n, host, port, U, B
  <2>2. Beside(A, U) /\ AllTold(U) /\ (~A.mixed /\ A.bf /\ A.bi # None => OwnBrowse(U))
    BY <1>0, <1>1, <1>2, <2>1, BrowseSrvKeeps DEF U, Going
  <2> QED BY <1>0, <2>2, BrowseGoes DEF B
<1>4. CASE A.sr = 0
  <2>1. ParseSrv(A, r, via) = B
    BY <1>4 DEF ParseSrv
  <2> QED BY <2>1, <1>3
<1>5. CASE A.sr # 0
  <2>1. A.sr \in 1 .. Len(A.ss) /\ s0 \in Search
    BY <1>0, <1>5, StateFields
  <2>2. ~A.mixed => OwnSearch(s0) /\ Wants(s0, n, "SRV", via)
    BY <1>0, <1>5, <2>1 DEF Ready, Meant, Going, Owned
  <2>3. Frame(s0, s) /\ (s0.type # "PTR" => s = s0) /\ (OwnSearch(s0) /\ (s0.type = "PTR" => n.host # None) => OwnSearch(s))
    <3> HIDE DEF s0, n
    <3> QED BY <1>1, <2>1, EntryKeeps
  <2>4. s \in Search /\ s.type = s0.type
    BY <2>3 DEF Frame
  <2>5. CASE s.type = "PTR" /\ i = 0
    <3>1. ParseSrv(A, r, via) = A
      BY <1>5, <2>5 DEF ParseSrv
    <3> QED BY <3>1, <1>0
  <2>6. CASE s.type = "PTR" /\ i # 0
    <3> DEFINE old == s.res[i]
               new == [old EXCEPT !.host = host, !.port = port]
               t == IF old.host # None THEN s ELSE [s EXCEPT !.res[i].host = host, !.res[i].port = port]
    <3>1. ParseSrv(A, r, via) = [B EXCEPT !.ss[A.sr] = t]
      BY <1>5, <2>6 DEF ParseSrv
    <3>2. i \in 1 .. Len(s.res) /\ old \in Result /\ old.inst = n.host /\ n.host # None
      <4> HIDE DEF s, n
      <4> QED BY <2>4, <2>6, OfInstanceIs, SearchFields DEF Has
    <3> HIDE DEF s, i, n, host, port, s0, B
    <3>3. old.host # None \/ t = [s EXCEPT !.res[i] = new]
      BY <3>2, <2>4, SearchFields DEF Search
    <3>4. /\ new \in Result /\ Key(new) = Key(old) /\ new.inst = old.inst /\ new.txt = old.txt
          /\ new.host = host /\ new.port = port /\ new.addr = old.addr
      BY <1>1, <3>2 DEF Result, Key
    <3> HIDE DEF new
    <3>5. OwnSearch(s) /\ old.host = None => Good(s, new)
      <4> SUFFICES ASSUME OwnSearch(s), old.host = None PROVE Good(s, new)
        OBVIOUS
      <4>1. Good(s, old)
        BY <3>2 DEF OwnSearch
      <4>2. Subject(s, old) = n.host /\ Subject(s, new) = n.host
        BY <2>6, <3>2, <3>4 DEF Subject
      <4>3. new.addr = {}
        BY <4>1, <2>6, <3>4 DEF Good
      <4>4. Consistent(n.host, new)
        BY <4>1, <4>2, <4>3, <3>4, <1>2 DEF Good, Consistent
      <4> QED BY <4>2, <4>3, <4>4, <3>2, <3>4, <2>6 DEF Good
    <3>6. Frame(s, t) /\ (OwnSearch(s) => OwnSearch(t))
      <4>1. Frame(s, s)
        BY <2>4 DEF Frame
      <4>2. LET w == [s EXCEPT !.res[i] = new]
            IN  Frame(s, w) /\ (OwnSearch(s) /\ Good(s, new) => OwnSearch(w))
        BY <2>4, <3>2, <3>4, SetResultKeeps
      <4>3. old.host # None => t = s
        OBVIOUS
      <4> HIDE DEF t
      <4> QED BY <4>1, <4>2, <4>3, <3>3, <3>5
    <3> HIDE DEF t, old
    <3>7. Frame(B.ss[A.sr], t)
      BY <3>6, <2>3, <1>3 DEF Frame, s0
    <3>8. ~B.mixed => OwnSearch(t)
      BY <3>6, <3>2, <2>2, <2>3, <1>3
    <3>9. A.sr \in 1 .. Len(B.ss)
      BY <2>1, <1>3
    <3>10. Going([B EXCEPT !.ss[A.sr] = t])
      BY <3>7, <3>8, <3>9, <1>3, SearchSet
    <3> QED BY <3>1, <3>10
  <2>7. CASE s.type # "PTR"
    <3> DEFINE t == AddSrv(s, host, port, via, r.ttl)
    <3>1. ParseSrv(A, r, via) = [B EXCEPT !.ss[A.sr] = t]
      BY <1>5, <2>7 DEF ParseSrv
    <3>2. ~A.mixed => OwnSearch(s) /\ s.svc # <<>> /\ s.inst = n.host
      BY <2>2, <2>3, <2>4, <2>7 DEF Wants
    <3> HIDE DEF s, n, host, port, s0, B
    <3>3. Frame(s, t) /\ (~A.mixed => OwnSearch(t))
      BY <1>1, <1>2, <2>4, <2>7, <3>2, AddSrvKeeps
    <3> HIDE DEF t
    <3>4. Frame(B.ss[A.sr], t)
      BY <3>3, <2>3, <1>3 DEF Frame, s0
    <3>5. A.sr \in 1 .. Len(B.ss)
      BY <2>1, <1>3
    <3>6. Going([B EXCEPT !.ss[A.sr] = t])
      BY <3>3, <3>4, <3>5, <1>3, SearchSet
    <3> QED BY <3>1, <3>6
  <2> QED BY <2>5, <2>6, <2>7
<1> QED BY <1>4, <1>5

\* A TXT record.
LEMMA TxtGoes ==
  ASSUME setup \in Setups, browse.res \in Seq(Result), NEW r \in Heard, Truthful(setup, r), r.type = "TXT",
         NEW via \in Things, NEW A, Ready(A, r, via)
  PROVE  Going(ParseTxt(A, r, via))
<1> DEFINE n == ParseName(r.name)
           s0 == A.ss[A.sr]
           s == Entry(s0, n, via, r.ttl)
           i == OfInstance(s, n.host, via)
           U == BrowseTxt(A, r.data, via, r.ttl)
           B == Browse(A, U)
<1>0. A \in Parse /\ Going(A) /\ A.sr \in 0 .. Len(A.ss) /\ Len(A.ss) \in Nat
  BY StateFields DEF Ready, Going
<1>1. r.data \in Texts /\ n.host \in Things /\ r.ttl \in Things
  BY HeardThings DEF Truthful, Texts
<1>2. r.data # <<>> => Announced(n.host, "TXT", r.data)
  BY DEF Truthful, Announced
<1>3. Going(B) /\ B.ss = A.ss /\ B.sr = A.sr /\ B.mixed = A.mixed
  <2>1. ~A.mixed /\ A.bf => A.bi = n.host /\ OwnBrowse(A)
    BY <1>0 DEF Ready, Meant, Going, Owned
  <2> HIDE DEF n, U, B
  <2>2. Beside(A, U) /\ AllTold(U) /\ (~A.mixed /\ A.bf /\ A.bi # None => OwnBrowse(U))
    BY <1>0, <1>1, <1>2, <2>1, BrowseTxtKeeps DEF U, Going
  <2> QED BY <1>0, <2>2, BrowseGoes DEF B
<1>4. CASE A.sr = 0
  <2>1. ParseTxt(A, r, via) = B
    BY <1>4 DEF ParseTxt
  <2> QED BY <2>1, <1>3
<1>5. CASE A.sr # 0
  <2>1. A.sr \in 1 .. Len(A.ss) /\ s0 \in Search
    BY <1>0, <1>5, StateFields
  <2>2. ~A.mixed => OwnSearch(s0) /\ Wants(s0, n, "TXT", via)
    BY <1>0, <1>5, <2>1 DEF Ready, Meant, Going, Owned
  <2>3. Frame(s0, s) /\ (s0.type # "PTR" => s = s0) /\ (OwnSearch(s0) /\ (s0.type = "PTR" => n.host # None) => OwnSearch(s))
    <3> HIDE DEF s0, n
    <3> QED BY <1>1, <2>1, EntryKeeps
  <2>4. s \in Search /\ s.type = s0.type
    BY <2>3 DEF Frame
  <2>5. CASE s.type = "PTR" /\ i = 0
    <3>1. ParseTxt(A, r, via) = B
      BY <1>5, <2>5 DEF ParseTxt
    <3> QED BY <3>1, <1>3
  <2>6. CASE s.type = "PTR" /\ i # 0
    <3> DEFINE old == s.res[i]
               new == [old EXCEPT !.txt = r.data]
               t == IF old.txt # <<>> THEN s ELSE [s EXCEPT !.res[i].txt = r.data]
    <3>1. ParseTxt(A, r, via) = [B EXCEPT !.ss[A.sr] = t]
      BY ZenonT(30), <1>5, <2>6 DEF ParseTxt
    <3>2. i \in 1 .. Len(s.res) /\ old \in Result /\ old.inst = n.host /\ n.host # None
      <4> HIDE DEF s, n
      <4> QED BY <2>4, <2>6, OfInstanceIs, SearchFields DEF Has
    <3> HIDE DEF s, i, n, s0, B
    <3>3. old.txt # <<>> \/ t = [s EXCEPT !.res[i] = new]
      BY <3>2, <2>4, SearchFields DEF Search
    <3>4. /\ new \in Result /\ Key(new) = Key(old) /\ new.inst = old.inst /\ new.txt = r.data
          /\ new.host = old.host /\ new.port = old.port /\ new.addr = old.addr
      BY <1>1, <3>2 DEF Result, Key
    <3> HIDE DEF new
    <3>5. OwnSearch(s) => Good(s, new)
      <4> SUFFICES ASSUME OwnSearch(s) PROVE Good(s, new)
        OBVIOUS
      <4>1. Good(s, old)
        BY <3>2 DEF OwnSearch
      <4>2. Subject(s, old) = n.host /\ Subject(s, new) = n.host
        BY <2>6, <3>2, <3>4 DEF Subject
      <4>3. Consistent(n.host, new)
        BY <4>1, <4>2, <3>4, <1>2 DEF Good, Consistent
      <4> QED BY <4>1, <4>2, <4>3, <3>2, <3>4, <2>6 DEF Good
    <3>6. Frame(s, t) /\ (OwnSearch(s) => OwnSearch(t))
      <4>1. Frame(s, s)
        BY <2>4 DEF Frame
      <4>2. LET w == [s EXCEPT !.res[i] = new]
            IN  Frame(s, w) /\ (OwnSearch(s) /\ Good(s, new) => OwnSearch(w))
        BY <2>4, <3>2, <3>4, SetResultKeeps
      <4>3. old.txt # <<>> => t = s
        OBVIOUS
      <4> HIDE DEF t
      <4> QED BY <4>1, <4>2, <4>3, <3>3, <3>5
    <3> HIDE DEF t, old
    <3>7. Frame(B.ss[A.sr], t)
      BY <3>6, <2>3, <1>3 DEF Frame, s0
    <3>8. ~B.mixed => OwnSearch(t)
      BY <3>6, <3>2, <2>2, <2>3, <1>3
    <3>9. A.sr \in 1 .. Len(B.ss)
      BY <2>1, <1>3
    <3>10. Going([B EXCEPT !.ss[A.sr] = t])
      BY <3>7, <3>8, <3>9, <1>3, SearchSet
    <3> QED BY <3>1, <3>10
  <2>7. CASE s.type # "PTR" /\ r.data = <<>>
    <3>1. ParseTxt(A, r, via) = B
      BY <1>5, <2>7 DEF ParseTxt
    <3> QED BY <3>1, <1>3
  <2>8. CASE s.type # "PTR" /\ r.data # <<>>
    <3> DEFINE t == AddTxt(s, r.data, via, r.ttl)
    <3>1. ParseTxt(A, r, via) = [B EXCEPT !.ss[A.sr] = t]
      BY <1>5, <2>8 DEF ParseTxt
    <3>2. ~A.mixed => OwnSearch(s) /\ s.svc # <<>> /\ s.inst = n.host
      BY <2>2, <2>3, <2>4, <2>8 DEF Wants
    <3> HIDE DEF s, n, s0, B
    <3>3. Frame(s, t) /\ (~A.mixed => OwnSearch(t))
      BY <1>1, <1>2, <2>4, <2>8, <3>2, AddTxtKeeps
    <3> HIDE DEF t
    <3>4. Frame(B.ss[A.sr], t)
      BY <3>3, <2>3, <1>3 DEF Frame, s0
    <3>5. A.sr \in 1 .. Len(B.ss)
      BY <2>1, <1>3
    <3>6. Going([B EXCEPT !.ss[A.sr] = t])
      BY <3>3, <3>4, <3>5, <1>3, SearchSet
    <3> QED BY <3>1, <3>6
  <2> QED BY <2>5, <2>6, <2>7, <2>8
<1> QED BY <1>4, <1>5

\* An A record.
LEMMA AGoes ==
  ASSUME setup \in Setups, NEW r \in Heard, Truthful(setup, r), r.type = "A",
         NEW via \in Things, NEW A, Ready(A, r, via)
  PROVE  Going(ParseA(A, r, via))
<1> DEFINE n == ParseName(r.name)
           U == BrowseIp(A, n.host, r.data, via, r.ttl)
           B == IF A.bf THEN U ELSE A
           for == {j \in A.sr .. Len(A.ss) : j = A.sr \/ (A.ss[j].on /\ Wants(A.ss[j], n, "A", via))}
           got(j) == AddIp(A.ss[j], n.host, r.data, via, r.ttl)
           given == [j \in DOMAIN A.ss |-> IF j \in for THEN got(j) ELSE A.ss[j]]
           C == [B EXCEPT !.sr = 0, !.ss = given]
<1>0. /\ A \in Parse /\ Going(A) /\ A.sr \in 0 .. Len(A.ss) /\ A.ss \in Seq(Search) /\ Len(A.ss) \in Nat
      /\ DOMAIN A.ss = 1 .. Len(A.ss) /\ \A j \in 1 .. Len(A.ss) : A.ss[j] \in Search
  BY StateFields DEF Ready, Going
<1>1. r.data \in Things /\ n.host \in Things /\ r.ttl \in Things /\ Announced(n.host, "A", r.data)
  BY HeardThings DEF Truthful, Announced
<1>2. Going(B) /\ B.ss = A.ss /\ B.mixed = A.mixed
  <2> HIDE DEF n, U
  <2>1. Beside(A, U) /\ AllTold(U) /\ (~A.mixed => OwnBrowse(U))
    BY <1>0, <1>1, BrowseIpKeeps DEF U, Going, Owned
  <2>2. Going(U) /\ U.ss = A.ss /\ U.mixed = A.mixed
    BY <1>0, <2>1, BrowseMoves DEF Beside
  <2> QED BY <1>0, <2>2
<1>3. CASE A.sr = 0
  <2>1. ParseA(A, r, via) = B
    BY <1>3 DEF ParseA
  <2> QED BY <2>1, <1>2
<1>4. CASE A.sr # 0
  <2>1. ParseA(A, r, via) = C
    BY <1>4 DEF ParseA
  <2>2. ASSUME NEW j \in 1 .. Len(A.ss)
        PROVE  /\ Frame(A.ss[j], got(j))
               /\ ~A.mixed /\ j \in for => OwnSearch(got(j))
    <3>1. ~A.mixed => OwnSearch(A.ss[j])
      BY <1>0 DEF Going, Owned
    <3>2. ~A.mixed /\ j \in for => Wants(A.ss[j], n, "A", via)
      BY <1>4 DEF Ready, Meant
    <3>3. Wants(A.ss[j], n, "A", via) /\ A.ss[j].type \in {"A", "ANY"} => A.ss[j].svc = <<>> /\ A.ss[j].inst = n.host
      BY DEF Wants
    <3> HIDE DEF n, for
    <3> QED BY <1>0, <1>1, <3>1, <3>2, <3>3, AddIpKeeps
  <2> HIDE DEF got, for, B, U, n
  <2>3. ASSUME NEW j \in 1 .. Len(A.ss)
        PROVE  Frame(A.ss[j], given[j]) /\ (~A.mixed => OwnSearch(given[j]))
    <3>1. given[j] = IF j \in for THEN got(j) ELSE A.ss[j]
      BY <1>0
    <3>2. Frame(A.ss[j], A.ss[j]) /\ (~A.mixed => OwnSearch(A.ss[j]))
      BY <1>0 DEF Frame, Going, Owned
    <3> HIDE DEF given
    <3> QED BY <2>2, <3>1, <3>2
  <2>4. given \in Seq(Search) /\ Len(given) = Len(A.ss)
    <3>1. \A j \in 1 .. Len(A.ss) : given[j] \in Search
      BY <2>3 DEF Frame
    <3>2. DOMAIN given = 1 .. Len(A.ss) /\ given = [j \in 1 .. Len(A.ss) |-> given[j]]
      BY <1>0
    <3> HIDE DEF given
    <3>3. given \in [1 .. Len(A.ss) -> Search]
      BY <3>1, <3>2
    <3> QED BY <3>3, <1>0
  <2> HIDE DEF given
  <2>5. /\ C \in Parse /\ C.ss = given /\ C.sr = 0 /\ C.br = B.br /\ C.told = B.told
        /\ C.mixed = B.mixed /\ C.moved = B.moved
    BY <1>2, <2>4 DEF Parse, Going
  <2>6. Asked(given)
    BY <1>0, <2>3, <2>4 DEF Asked, Going, Frame
  <2> HIDE DEF C
  <2>7. AllTold(C)
    BY <1>2, <2>5 DEF AllTold, Going
  <2>8. ~C.mixed => Owned(C)
    <3>1. OwnBrowse(B) => OwnBrowse(C)
      BY <2>5 DEF OwnBrowse
    <3>2. ~B.mixed => \A j \in 1 .. Len(C.ss) : OwnSearch(C.ss[j])
      BY <1>2, <2>3, <2>4, <2>5
    <3> QED BY <3>1, <3>2, <1>2, <2>5 DEF Going, Owned
  <2>9. C.sr \in 0 .. Len(C.ss)
    BY <1>0, <2>4, <2>5
  <2>10. Going(C)
    BY <2>5, <2>6, <2>7, <2>8, <2>9 DEF Going
  <2> QED BY <2>1, <2>10
<1> QED BY <1>3, <1>4

\* A record.
LEMMA RecordGoes ==
  ASSUME QueryAssumption, setup \in Setups, browse.res \in Seq(Result), NEW r \in Heard, Truthful(setup, r),
         NEW via \in Things, NEW A, Going(A)
  PROVE  Going(ParseRecord(A, r, via))
<1> DEFINE B == LookUp(A, ParseName(r.name), r.type, via)
<1>1. Ready(B, r, via)
  BY LookUpReady
<1>2. r.type \in {"PTR", "SRV", "TXT", "A"}
  BY DEF Truthful
<1> HIDE DEF B
<1>3. CASE r.type = "PTR"
  <2>1. ParseRecord(A, r, via) = ParsePtr(B, r, via)
    BY <1>3 DEF ParseRecord, B
  <2> QED BY <1>1, <1>3, <2>1, PtrGoes
<1>4. CASE r.type = "SRV"
  <2>1. ParseRecord(A, r, via) = ParseSrv(B, r, via)
    BY <1>4 DEF ParseRecord, B
  <2> QED BY <1>1, <1>4, <2>1, SrvGoes
<1>5. CASE r.type = "TXT"
  <2>1. ParseRecord(A, r, via) = ParseTxt(B, r, via)
    BY <1>5 DEF ParseRecord, B
  <2> QED BY <1>1, <1>5, <2>1, TxtGoes
<1>6. CASE r.type = "A"
  <2>1. ParseRecord(A, r, via) = ParseA(B, r, via)
    BY <1>6 DEF ParseRecord, B
  <2> QED BY <1>1, <1>6, <2>1, AGoes
<1> QED BY <1>2, <1>3, <1>4, <1>5, <1>6

-----------------------------------------------------------------------------
(* From packet to packet.                                                   *)

\* All the records of a packet.
LEMMA RecordsGo ==
  ASSUME QueryAssumption, setup \in Setups, browse.res \in Seq(Result), NEW p \in Packets[setup],
         NEW via \in Things, NEW T, Going(T)
  PROVE  Going(ParseRecords(T, p.read.records, via))
<1> DEFINE rs == p.read.records
           L == Len(rs)
           E == {A \in Parse : Going(A)}
           D == [n \in 0 .. L |-> E]
           h == [a \in (1 .. L) \X Parse |-> ParseRecord(a[2], rs[a[1]], via)]
           f[n \in 0 .. L] == IF n = 0 THEN T ELSE ParseRecord(f[n - 1], rs[n], via)
<1>1. L \in Nat /\ \A n \in 1 .. L : rs[n] \in Heard /\ Truthful(setup, rs[n])
  <2>1. rs \in Seq(ToSet(rs)) /\ \A r \in ToSet(rs) : Truthful(setup, r)
    BY HeardTrue
  <2>2. ToSet(rs) \subseteq Heard
    BY DEF Heard
  <2> HIDE DEF rs
  <2> QED BY <2>1, <2>2
<1> HIDE DEF rs
<1>2. T \in E
  BY DEF Going
<1>3. ASSUME NEW n \in 1 .. L, NEW A \in E
      PROVE  h[<<n, A>>] = ParseRecord(A, rs[n], via) /\ ParseRecord(A, rs[n], via) \in E
  <2>1. A \in Parse /\ Going(A)
    OBVIOUS
  <2>2. Going(ParseRecord(A, rs[n], via))
    BY <1>1, <2>1, RecordGoes
  <2>3. ParseRecord(A, rs[n], via) \in Parse
    BY <2>2 DEF Going
  <2> QED BY <2>1, <2>2, <2>3
<1>4. PICK g \in [0 .. L -> Parse] :
          /\ g[0] = T /\ \A n \in 1 .. L : g[n] = h[<<n, g[n - 1]>>]
          /\ \A n \in 0 .. L : g[n] \in D[n]
  <2>1. \A n \in 0 .. L : D[n] \subseteq Parse
    OBVIOUS
  <2>2. T \in D[0]
    BY <1>1, <1>2
  <2>3. \A n \in 1 .. L : \A A \in D[n - 1] : h[<<n, A>>] \in D[n]
    <3>1. \A n \in 1 .. L : D[n - 1] = E /\ D[n] = E
      BY <1>1
    <3> HIDE DEF D, E, h
    <3> QED BY ZenonT(30), <1>3, <3>1
  <2> HIDE DEF L, D, h, f
  <2>4. LoopSteps(L, Parse, D, T, h)
    BY <1>1, <2>1, <2>2, <2>3 DEF LoopSteps
  <2> QED BY <2>4, FoldExists
<1>5. g = [n \in 0 .. L |-> IF n = 0 THEN T ELSE ParseRecord(g[n - 1], rs[n], via)]
  <2>1. \A n \in 0 .. L : g[n] \in E
    BY <1>4
  <2> HIDE DEF L, E, D, h, f
  <2>2. ASSUME NEW n \in 1 .. L PROVE g[n] = ParseRecord(g[n - 1], rs[n], via)
    <3>1. n - 1 \in 0 .. L
      BY <1>1
    <3> QED BY <2>1, <3>1, <1>3, <1>4
  <2>3. \A n \in 0 .. L : g[n] = IF n = 0 THEN T ELSE ParseRecord(g[n - 1], rs[n], via)
    BY <1>1, <1>4, <2>2
  <2> QED BY <2>3
<1>6. f = [n \in 0 .. L |-> IF n = 0 THEN T ELSE ParseRecord(f[n - 1], rs[n], via)]
  BY <1>5
<1>7. ParseRecords(T, rs, via) = f[L]
  BY DEF ParseRecords, Loop
<1> HIDE DEF f
<1>8. f[0] \in D[0] /\ \A n \in 1 .. L : f[n - 1] \in D[n - 1] => f[n] \in D[n]
  <2>1. f[0] = T /\ \A n \in 1 .. L : f[n] = ParseRecord(f[n - 1], rs[n], via)
    <3> HIDE DEF L
    <3> QED BY <1>1, <1>6
  <2>2. \A n \in 0 .. L : D[n] = E
    OBVIOUS
  <2>3. \A n \in 1 .. L : n - 1 \in 0 .. L /\ n \in 0 .. L
    BY <1>1
  <2>4. 0 \in 0 .. L
    BY <1>1
  <2> HIDE DEF D, E, L, h
  <2>5. D[0] = E
    BY <2>2, <2>4
  <2>6. ASSUME NEW n \in 1 .. L, f[n - 1] \in D[n - 1] PROVE f[n] \in D[n]
    <3>1. D[n - 1] = E /\ D[n] = E /\ f[n] = ParseRecord(f[n - 1], rs[n], via)
      BY <2>1, <2>2, <2>3
    <3> QED BY <3>1, <2>6, <1>3
  <2> QED BY <1>2, <2>1, <2>5, <2>6
<1>9. f[L] \in D[L]
  <2> HIDE DEF D, L
  <2>1. \A n \in 0 .. L : f[n] \in D[n]
    BY <1>1, <1>8, Carried
  <2> QED BY <1>1, <2>1
<1> QED BY <1>1, <1>7, <1>9 DEF rs

\* The inductive invariant: what the searches and the browse hold is their own.
QueryInv ==
  /\ setup \in Setups /\ Start \in Parse /\ Asked(searches)
  /\ ~mixed => Owned(Start)

\* Between two packets the invariant of the loop holds.
LEMMA StartGoes ==
  ASSUME QueryInv
  PROVE  Going(Start) /\ browse.res \in Seq(Result)
<1>1. /\ Start.ss = searches /\ Start.br = browse /\ Start.sr = 0 /\ Start.mixed = mixed
      /\ Start \in Parse /\ setup \in Setups /\ Asked(searches) /\ (~mixed => Owned(Start))
  BY DEF QueryInv, Start
<1> HIDE DEF Start
<1>2. browse.res \in Seq(Result)
  BY <1>1, BrowseFields
<1>3. AllTold(Start)
  <2>1. \A j \in 1 .. Len(browse.res) : browse.res[j] \in ToSet(browse.res)
    BY <1>2 DEF ToSet
  <2> QED BY <1>1, <2>1 DEF AllTold, Accounted
<1>4. Start.sr \in 0 .. Len(Start.ss)
  BY <1>1, StateFields
<1> QED BY <1>1, <1>2, <1>3, <1>4 DEF Going

\* What the application has asked for holds nothing yet.
LEMMA QueryInit ==
  ASSUME QueryAssumption, Init
  PROVE  QueryInv
<1> DEFINE q == setup.searches
           Asks == [type : Kinds, inst : STRING, svc : Seq(STRING), max : Nat, on : BOOLEAN, res : {<<>>}]
<1>1. setup \in Setups /\ q \in Seq(Asks)
  BY DEF Init, QueryAssumption, Kinds
<1>2. \A x \in STRING : x \in Things
  BY DEF Things
<1>3. \A x \in Seq(STRING) : x \in Things
  BY DEF Things
<1>4. /\ searches = [i \in DOMAIN q |-> [q[i] EXCEPT !.on = TRUE, !.res = <<>>]]
      /\ browse = [svc |-> setup.browse, res |-> <<>>] /\ mixed = FALSE /\ moved = {}
  BY DEF Init
<1> DEFINE n == Len(q)
<1>5. n \in Nat /\ DOMAIN q = 1 .. n /\ \A i \in 1 .. n : q[i] \in Asks
  <2> HIDE DEF q, Asks
  <2> QED BY <1>1
<1> HIDE DEF q, n
<1>6. ASSUME NEW i \in 1 .. n
      PROVE  LET s == [q[i] EXCEPT !.on = TRUE, !.res = <<>>]
             IN  s \in Search /\ s.type = q[i].type /\ s.svc = q[i].svc /\ s.res = <<>> /\ s.max \in Nat
  <2>1. q[i] \in Asks
    BY <1>5
  <2>2. <<>> \in Seq(Result)
    OBVIOUS
  <2>3. q[i].inst \in Things /\ q[i].svc \in Things
    BY <1>2, <1>3, <2>1
  <2> QED BY <2>1, <2>2, <2>3 DEF Search
<1>7. \A i \in 1 .. n : /\ searches[i] \in Search /\ searches[i].type = q[i].type /\ searches[i].svc = q[i].svc
                        /\ searches[i].res = <<>> /\ searches[i].max \in Nat
  BY <1>4, <1>5, <1>6
<1>8. searches \in [1 .. n -> Search]
  <2>1. searches = [i \in 1 .. n |-> searches[i]]
    BY <1>4, <1>5
  <2> QED BY <1>7, <2>1
<1>9. searches \in Seq(Search) /\ Len(searches) = n
  BY <1>5, <1>8
<1>10. setup.browse \in Things /\ None \in Things
  <2>1. setup.browse \in {s.browse : s \in Setups}
    BY <1>1
  <2> QED BY <2>1 DEF Things
<1>11. browse \in [svc : Things, res : Seq(Result)] /\ browse.res = <<>> /\ Len(browse.res) = 0
  <2>1. <<>> \in Seq(Result) /\ Len(<<>>) = 0
    OBVIOUS
  <2> QED BY <1>4, <1>10, <2>1
<1>12. Start \in Parse /\ Start.ss = searches /\ Start.br = browse
  BY <1>4, <1>9, <1>10, <1>11 DEF Start, Parse
<1>13. Asked(searches)
  BY <1>7, <1>9 DEF Asked, q, n
<1>14. Owned(Start)
  <2>1. OwnBrowse(Start)
    <3>1. DOMAIN browse.res = {} /\ 1 .. Len(browse.res) = {}
      BY <1>11
    <3> QED BY <1>12, <3>1 DEF OwnBrowse, Distinct
  <2>2. ASSUME NEW i \in 1 .. n PROVE OwnSearch(searches[i])
    <3>1. searches[i].res = <<>> /\ searches[i].max \in Nat
      BY <1>7
    <3>2. Len(<<>>) = 0 /\ DOMAIN <<>> = {} /\ 1 .. Len(<<>>) = {}
      OBVIOUS
    <3> QED BY <3>1, <3>2 DEF OwnSearch, Distinct
  <2> QED BY <1>9, <1>12, <2>1, <2>2 DEF Owned
<1> QED BY <1>1, <1>12, <1>13, <1>14 DEF QueryInv

\* Finishing searches leaves their results.
LEMMA FinishKeeps ==
  ASSUME NEW ss \in Seq(Search), Asked(ss)
  PROVE  LET q == FinishDone(ss)
         IN  /\ q \in Seq(Search) /\ Asked(q) /\ Len(q) = Len(ss)
             /\ \A i \in 1 .. Len(q) : OwnSearch(ss[i]) => OwnSearch(q[i])
<1> DEFINE q == FinishDone(ss)
           n == Len(ss)
           done(s) == [s EXCEPT !.on = @ /\ (s.max = 0 \/ Len(s.res) < s.max)]
<1>1. n \in Nat /\ DOMAIN ss = 1 .. n /\ \A i \in 1 .. n : ss[i] \in Search
  OBVIOUS
<1>2. q = [i \in 1 .. n |-> done(ss[i])]
  BY <1>1 DEF FinishDone
<1>3. ASSUME NEW s \in Search
      PROVE  Frame(s, s) /\ done(s) \in Search /\ done(s).type = s.type /\ done(s).svc = s.svc /\ done(s).max = s.max
             /\ done(s).res = s.res /\ done(s).inst = s.inst
  <2>1. (s.on /\ (s.max = 0 \/ Len(s.res) < s.max)) \in BOOLEAN
    OBVIOUS
  <2> QED BY <2>1 DEF Search, Frame
<1>4. ASSUME NEW s \in Search, OwnSearch(s) PROVE OwnSearch(done(s))
  <2>1. /\ done(s).type = s.type /\ done(s).svc = s.svc /\ done(s).max = s.max
        /\ done(s).res = s.res /\ done(s).inst = s.inst
    BY <1>3
  <2> HIDE DEF done
  <2>2. \A r : Good(s, r) => Good(done(s), r)
    BY <2>1 DEF Good, Subject
  <2> QED BY <2>1, <2>2, <1>4 DEF OwnSearch
<1> HIDE DEF done, q
<1>5. \A i \in 1 .. n : q[i] = done(ss[i]) /\ q[i] \in Search
  BY <1>1, <1>2, <1>3
<1>6. q \in Seq(Search) /\ Len(q) = n
  <2>1. q \in [1 .. n -> Search]
    BY <1>2, <1>5
  <2> QED BY <1>1, <2>1
<1>7. Asked(q)
  BY <1>1, <1>3, <1>5, <1>6 DEF Asked
<1>8. \A i \in 1 .. n : OwnSearch(ss[i]) => OwnSearch(q[i])
  BY <1>1, <1>4, <1>5
<1> QED BY <1>6, <1>7, <1>8 DEF q

\* A packet.
LEMMA ReceiveGoes ==
  ASSUME QueryAssumption, QueryInv, NEW p \in Packets[setup], NEW via \in setup.links
  PROVE  Going(ParseRecords(Start, p.read.records, via))
<1>1. setup \in Setups /\ via \in Things
  <2>1. setup \in Setups
    BY DEF QueryInv
  <2>2. via \in UNION {s.links : s \in Setups}
    BY <2>1
  <2> QED BY <2>1, <2>2 DEF Things
<1> QED BY <1>1, StartGoes, RecordsGo

\* Every step keeps the invariant.
LEMMA QueryStep ==
  ASSUME QueryAssumption, QueryInv, [Next]_vars
  PROVE  QueryInv'
<1>1. CASE Receive
  <2>1. PICK p \in Packets[setup], via \in setup.links :
          LET A == ParseRecords(Start, p.read.records, via)
          IN  /\ searches' = IF p.read.clean THEN FinishDone(A.ss) ELSE A.ss
              /\ browse' = A.br /\ mixed' = A.mixed /\ moved' = A.moved
    BY <1>1 DEF Receive
  <2> DEFINE A == ParseRecords(Start, p.read.records, via)
  <2>2. Going(A)
    BY ReceiveGoes
  <2> HIDE DEF A
  <2>3. /\ searches' = IF p.read.clean THEN FinishDone(A.ss) ELSE A.ss
        /\ browse' = A.br /\ mixed' = A.mixed /\ moved' = A.moved /\ setup' = setup /\ setup \in Setups
    BY <1>1, <2>1 DEF A, Receive, QueryInv
  <2>4. A \in Parse /\ A.ss \in Seq(Search) /\ Asked(A.ss) /\ (~A.mixed => Owned(A))
    BY <2>2, StateFields DEF Going
  <2>5. /\ searches' \in Seq(Search) /\ Asked(searches')
        /\ Len(searches') = Len(A.ss)
        /\ \A i \in 1 .. Len(searches') : OwnSearch(A.ss[i]) => OwnSearch(searches'[i])
    BY <2>3, <2>4, FinishKeeps
  <2>6. Asked(searches)'
    BY <2>3, <2>5 DEF Asked
  <2>7. /\ Start' \in Parse /\ Start'.ss = searches' /\ Start'.br = A.br /\ Start'.moved = A.moved
    <3>1. A.br \in [svc : Things, res : Seq(Result)] /\ A.mixed \in BOOLEAN /\ A.moved \in SUBSET Things
      BY <2>4, ParseFields
    <3>2. None \in Things
      BY DEF Things
    <3> QED BY <2>3, <2>5, <3>1, <3>2 DEF Start, Parse
  <2>8. ~mixed' => Owned(Start)'
    <3>1. OwnBrowse(A) => OwnBrowse(Start)'
      BY <2>3, <2>7 DEF OwnBrowse, Browsable, Announced
    <3>2. ASSUME NEW i \in 1 .. Len(searches'), ~A.mixed PROVE OwnSearch(searches[i])'
      <4>1. OwnSearch(searches'[i])
        BY <2>4, <2>5, <3>2 DEF Owned
      <4> QED BY ZenonT(30), <2>3, <4>1 DEF OwnSearch, Good, Consistent, Announced
    <3> QED BY <2>3, <2>4, <2>7, <3>1, <3>2 DEF Owned
  <2>9. (Start \in Parse)'
    BY ZenonT(30), <2>3, <2>7 DEF Parse, Things, Heard, Result, Search, Texts
  <2> QED BY <2>3, <2>6, <2>8, <2>9 DEF QueryInv
<1>2. CASE Notify \/ UNCHANGED vars
  <2>1. UNCHANGED <<setup, searches, browse, mixed, moved>>
    BY <1>2 DEF vars, Notify
  <2>2. Start' = Start
    BY <2>1 DEF Start
  <2>3. (setup \in Setups)' /\ Asked(searches)'
    BY <2>1 DEF QueryInv, Asked
  <2>4. (Start \in Parse)'
    BY ZenonT(30), <2>2 DEF QueryInv, Parse, Things, Heard, Result, Search, Texts
  <2>5. OwnBrowse(Start) => OwnBrowse(Start)'
    BY <2>1, <2>2 DEF OwnBrowse, Browsable, Announced
  <2>6. ASSUME NEW i \in 1 .. Len(searches), OwnSearch(searches[i]) PROVE OwnSearch(searches[i])'
    BY ZenonT(30), <2>1, <2>6 DEF OwnSearch, Good, Consistent, Announced
  <2>7. Owned(Start) => Owned(Start)'
    BY <2>1, <2>2, <2>5, <2>6 DEF Owned, Start
  <2> QED BY <2>1, <2>3, <2>4, <2>7 DEF QueryInv
<1> QED BY <1>1, <1>2 DEF Next

\* Between two packets no search and no browse holds what is not its own (mdns_parse_packet
\* and all it calls for results).
THEOREM QueryKept == Spec => []QueryInv
<1>1. Init => QueryInv
  BY QueryInit, QueryAssumption
<1>2. QueryInv /\ [Next]_vars => QueryInv'
  BY QueryStep, QueryAssumption
<1> QED BY <1>1, <1>2, PTL DEF Spec

\* The invariant says what OwnData says.
LEMMA InvOwnData ==
  ASSUME QueryInv
  PROVE  OwnData
<1> SUFFICES ASSUME ~mixed PROVE OwnData
  BY DEF OwnData
<1>1. /\ Start.ss = searches /\ Start.br = browse /\ Start.moved = moved
      /\ Start \in Parse /\ Owned(Start)
  BY DEF QueryInv, Start
<1> HIDE DEF Start
<1>2. DOMAIN searches = 1 .. Len(searches) /\ \A i \in 1 .. Len(searches) : searches[i] \in Search
  BY <1>1, StateFields
<1>3. ASSUME NEW i \in DOMAIN searches
      PROVE  LET s == searches[i]
             IN  /\ s.max # 0 => Len(s.res) <= s.max
                 /\ s.type = "PTR" => Distinct(s.res)
                 /\ \A j \in DOMAIN s.res : Consistent(Subject(s, s.res[j]), s.res[j])
  <2> DEFINE s == searches[i]
  <2>1. s \in Search /\ OwnSearch(s)
    BY <1>1, <1>2 DEF Owned
  <2> HIDE DEF s
  <2>2. DOMAIN s.res = 1 .. Len(s.res)
    BY <2>1, SearchFields
  <2>3. (s.max # 0 => Len(s.res) <= s.max) /\ (s.type = "PTR" => Distinct(s.res))
    BY <2>1 DEF OwnSearch
  <2>4. \A j \in DOMAIN s.res : Consistent(Subject(s, s.res[j]), s.res[j])
    BY <2>1, <2>2 DEF OwnSearch, Good
  <2> QED BY <2>3, <2>4 DEF s
<1>4. DOMAIN browse.res = 1 .. Len(browse.res) /\ \A j \in 1 .. Len(browse.res) : browse.res[j] \in Result
  BY <1>1, BrowseFields
<1>5. Distinct(browse.res) /\ \A j \in 1 .. Len(browse.res) : Browsable(browse.res[j], moved)
  BY <1>1 DEF Owned, OwnBrowse
<1>6. ASSUME NEW r \in Result, Browsable(r, moved)
      PROVE  Consistent(r.inst, IF r.host \in moved THEN [r EXCEPT !.addr = {}] ELSE r)
  <2>1. CASE r.host \in moved
    <3> DEFINE q == [r EXCEPT !.addr = {}]
    <3>1. q.host = r.host /\ q.port = r.port /\ q.txt = r.txt /\ q.addr = {}
      BY DEF Result
    <3> HIDE DEF q
    <3>2. Consistent(r.inst, q)
      BY <1>6, <3>1 DEF Browsable, Consistent
    <3> QED BY <2>1, <3>2 DEF q
  <2>2. CASE r.host \notin moved
    BY <1>6, <2>2 DEF Browsable, Consistent
  <2> QED BY <2>1, <2>2
<1> QED BY <1>3, <1>4, <1>5, <1>6 DEF OwnData

\* Whatever the setup and its packets: a result of _mdns_search_result_add_* or of
\* _mdns_browse_result_add_* holds what was announced of its own instance and host, and no
\* search or browse has two results of an instance and link.
THEOREM OwnDataKept == Spec => []OwnData
<1>1. QueryInv => OwnData
  BY InvOwnData
<1> QED BY <1>1, QueryKept, PTL

\* A packet reports what it changes.
LEMMA AllReported ==
  ASSUME NEW A, Going(A)
  PROVE  Changed(A.br) \subseteq A.told
<1> SUFFICES ASSUME NEW k \in Changed(A.br) PROVE k \in A.told
  OBVIOUS
<1>1. PICK r \in ToSet(A.br.res) :
        /\ k = Key(r) /\ r \notin ToSet(browse.res)
        /\ ~ \E q \in OldResults(r) : NoNews(q.txt, r.txt) /\ r = [q EXCEPT !.txt = r.txt]
  BY DEF Changed
<1>2. DOMAIN A.br.res = 1 .. Len(A.br.res) /\ AllTold(A)
  BY BrowseFields DEF Going
<1>3. Accounted(r, A.told)
  BY <1>2 DEF AllTold, ToSet
<1> QED BY <1>1, <1>3 DEF Accounted

\* Of the queue.
NewsInv == /\ news \in Seq(SUBSET (Things \X Things))
           /\ ChangesReported

\* Actions join and leave the queue.
LEMMA NewsMove ==
  ASSUME NEW X, NEW q \in Seq(X)
  PROVE  /\ \A x \in X : Append(q, x) \in Seq(X) /\ UNION ToSet(Append(q, x)) = (UNION ToSet(q)) \cup x
         /\ q # <<>> => Tail(q) \in Seq(X) /\ UNION ToSet(q) = Head(q) \cup (UNION ToSet(Tail(q)))
<1>1. Len(q) \in Nat /\ DOMAIN q = 1 .. Len(q)
  OBVIOUS
<1>2. ASSUME NEW x \in X
      PROVE  Append(q, x) \in Seq(X) /\ UNION ToSet(Append(q, x)) = (UNION ToSet(q)) \cup x
  <2> DEFINE w == Append(q, x)
             n == Len(q)
  <2>1. /\ w \in Seq(X) /\ DOMAIN w = 1 .. n + 1 /\ w[n + 1] = x
        /\ \A i \in 1 .. n : w[i] = q[i]
    BY <1>1
  <2> HIDE DEF w, n
  <2>2. /\ n + 1 \in DOMAIN w /\ \A i \in DOMAIN q : i \in DOMAIN w /\ w[i] = q[i]
        /\ \A i \in DOMAIN w : i = n + 1 \/ (i \in DOMAIN q /\ w[i] = q[i])
    BY <1>1, <2>1 DEF n
  <2>3. ToSet(w) = ToSet(q) \cup {x}
    BY <2>1, <2>2 DEF ToSet
  <2> QED BY <2>1, <2>3 DEF w
<1>3. ASSUME q # <<>>
      PROVE  Tail(q) \in Seq(X) /\ UNION ToSet(q) = Head(q) \cup (UNION ToSet(Tail(q)))
  <2> DEFINE w == Tail(q)
             n == Len(q)
  <2>1. /\ w \in Seq(X) /\ DOMAIN w = 1 .. n - 1 /\ Head(q) = q[1] /\ 1 \in 1 .. n
        /\ \A i \in 1 .. n - 1 : w[i] = q[i + 1]
    BY <1>1, <1>3
  <2> HIDE DEF w
  <2>2. /\ \A i \in DOMAIN w : i + 1 \in DOMAIN q /\ w[i] = q[i + 1]
        /\ \A i \in DOMAIN q : i = 1 \/ (i - 1 \in DOMAIN w /\ w[i - 1] = q[i])
    BY <1>1, <2>1
  <2>3. ToSet(q) = ToSet(w) \cup {Head(q)}
    BY <1>1, <2>1, <2>2 DEF ToSet
  <2> QED BY <2>1, <2>3 DEF w
<1> QED BY <1>2, <1>3

\* Every step keeps the queue in order.
LEMMA NewsStep ==
  ASSUME QueryAssumption, QueryInv, NewsInv, [Next]_vars
  PROVE  NewsInv'
<1> DEFINE X == SUBSET (Things \X Things)
<1>0. news \in Seq(X)
  BY DEF NewsInv
<1>1. CASE Receive
  <2>1. PICK p \in Packets[setup], via \in setup.links :
          LET A == ParseRecords(Start, p.read.records, via)
          IN  \/ /\ p.read.clean /\ A.told = {}
                 /\ owed' = owed \cup Changed(A.br) /\ UNCHANGED news
              \/ /\ p.read.clean /\ A.told # {} /\ Len(news) < QueueLen
                 /\ owed' = owed \cup Changed(A.br) /\ news' = Append(news, A.told)
              \/ /\ p.read.clean => A.told # {}
                 /\ UNCHANGED <<news, owed>>
    BY <1>1 DEF Receive
  <2> DEFINE A == ParseRecords(Start, p.read.records, via)
  <2>2. Going(A)
    BY ReceiveGoes
  <2>3. \/ A.told = {} /\ owed' = owed \cup Changed(A.br) /\ news' = news
        \/ owed' = owed \cup Changed(A.br) /\ news' = Append(news, A.told)
        \/ news' = news /\ owed' = owed
    BY <2>1
  <2> HIDE DEF A
  <2>4. Changed(A.br) \subseteq A.told /\ A.told \in X
    BY <2>2, AllReported, ParseFields DEF Going
  <2>5. ~down /\ owed \subseteq UNION ToSet(news)
    BY <1>1 DEF Receive, NewsInv, ChangesReported
  <2> HIDE DEF X
  <2>6. CASE A.told = {} /\ owed' = owed \cup Changed(A.br) /\ news' = news
    <3>1. Changed(A.br) = {}
      BY <2>4, <2>6
    <3> QED BY <1>0, <2>5, <2>6, <3>1 DEF NewsInv, ChangesReported, X
  <2>7. CASE owed' = owed \cup Changed(A.br) /\ news' = Append(news, A.told)
    <3>1. Append(news, A.told) \in Seq(X)
          /\ UNION ToSet(Append(news, A.told)) = (UNION ToSet(news)) \cup A.told
      BY <1>0, <2>4, NewsMove
    <3>2. news' \in Seq(X) /\ owed' \subseteq UNION ToSet(news')
      BY <2>4, <2>5, <2>7, <3>1
    <3> QED BY <3>2 DEF NewsInv, ChangesReported, X
  <2>8. CASE news' = news /\ owed' = owed
    BY <1>0, <2>5, <2>8 DEF NewsInv, ChangesReported, X
  <2> QED BY <2>3, <2>6, <2>7, <2>8
<1>2. CASE Notify
  <2>1. /\ news # <<>> /\ news' = Tail(news) /\ ~down
        /\ owed' = owed \ Head(news) \/ down' = TRUE
    BY <1>2 DEF Notify
  <2>2. owed \subseteq UNION ToSet(news)
    BY <2>1 DEF NewsInv, ChangesReported
  <2> HIDE DEF X
  <2>3. news' \in Seq(X) /\ (down' = TRUE \/ owed' \subseteq UNION ToSet(news'))
    BY <1>0, <2>1, <2>2, NewsMove
  <2> QED BY <2>3 DEF NewsInv, ChangesReported, X
<1>3. CASE UNCHANGED vars
  BY <1>3 DEF vars, NewsInv, ChangesReported
<1> QED BY <1>1, <1>2, <1>3 DEF Next

\* Whatever the setup and its packets: for every result of the browse that
\* _mdns_browse_result_add_* makes or changes, but for the TXT data of NoNews, an action that
\* calls the notifier waits until it is executed, if it could be queued at all.
THEOREM ChangesTold == Spec => []ChangesReported
<1>1. Init => NewsInv
  <2> SUFFICES ASSUME Init PROVE NewsInv
    OBVIOUS
  <2>1. news = <<>> /\ owed = {}
    BY DEF Init
  <2> QED BY <2>1 DEF NewsInv, ChangesReported
<1>2. QueryInv /\ NewsInv /\ [Next]_vars => NewsInv'
  BY NewsStep, QueryAssumption
<1>3. NewsInv => ChangesReported
  BY DEF NewsInv
<1> QED BY <1>1, <1>2, <1>3, QueryKept, PTL DEF Spec
=============================================================================
