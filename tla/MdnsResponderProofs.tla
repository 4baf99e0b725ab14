------------------------- MODULE MdnsResponderProofs -------------------------
(***************************************************************************)
(* The safety properties of MdnsResponder hold for any interfaces, any     *)
(* services, any types and any number of calls, events and conflicts.      *)
(*                                                                         *)
(* The state is one record, and the operators that stand for the functions *)
(* of the code map records to records, so most lemmas are about records T, *)
(* U, V and not about the variables: what U keeps of T, and that its PCBs  *)
(* are sane. Sane(U, R, p) has two halves. Quiet is what holds of a PCB    *)
(* whatever packets it has; a restart first clears the packets and only    *)
(* then probes PCB by PCB, and in between only Quiet holds. Loaded is what *)
(* the packets of a PCB are like: one probe for what it probes for, or an  *)
(* announcement with news. R is the set of services that may be referred   *)
(* to.                                                                     *)
(*                                                                         *)
(* A step is p's own turn (Turn) if the other PCBs keep all they have      *)
(* (Kept). Fresh, ProbesOn and NoNews say how PCBs may move, and with them *)
(* calls that probe (Restarts), calls that announce (Moved), and events    *)
(* and removals (Shifted) are all Stepped. Sending is the one step that    *)
(* is not.                                                                 *)
(***************************************************************************)
EXTENDS MdnsResponder, ListLemmas, TLAPS

(* The transmit queue.                                                     *)

\* The records of the PCBs.
PcbType == [state : States, services : Seq(Services), ip : BOOLEAN, running : BOOLEAN, failed : Nat]

\* The state records the operators of the responder work on.
Servers == [pcb : [Pcbs -> PcbType], queue : Seq(Packets), open : SUBSET Pcbs,
            main : BOOLEAN, host : BOOLEAN, own : SUBSET Services]

\* The places of the packets of p.
Mine(queue, p) == {i \in 1 .. Len(queue) : queue[i].pcb = p}

\* Packets that differ in when they are due only.
Like(a, b) == /\ a.pcb = b.pcb /\ a.kind = b.kind /\ a.q = b.q
              /\ a.recs = b.recs /\ a.host = b.host

\* k may stand before l.
NoLater(k, l) == ~Greater(k, l)

\* The packets in the order of their times, as plain numbers.
Sorted(queue) == \A i, j \in 1 .. Len(queue) : i <= j => NoLater(queue[i], queue[j])

\* p has at most one packet.
Sole(queue, p) == \A i, j \in Mine(queue, p) : i = j

\* A packet of p like k.
Has(queue, p, k) == \E i \in Mine(queue, p) : Like(queue[i], k)

\* b holds the packets of p that a holds.
Same(a, b, p) ==
  /\ \A i \in Mine(a, p) : Has(b, p, a[i])
  /\ \A i \in Mine(b, p) : Has(a, p, b[i])
  /\ Sole(a, p) => Sole(b, p)

\* b is a with a packet like k.
Scheduled(a, b, k) ==
  /\ b \in Seq(Packets)
  /\ Sorted(a) => Sorted(b)
  /\ \A o \in Pcbs : o # k.pcb => Same(a, b, o)
  /\ Has(b, k.pcb, k)
  /\ \A i \in Mine(a, k.pcb) : Has(b, k.pcb, a[i])
  /\ \A i \in Mine(b, k.pcb) : Like(b[i], k) \/ Has(a, k.pcb, b[i])
  /\ Mine(a, k.pcb) = {} => Sole(b, k.pcb)

\* b is a without the packets of p.
Cleared(a, b, p) ==
  /\ b \in Seq(Packets)
  /\ Sorted(a) => Sorted(b)
  /\ \A o \in Pcbs : o # p => Same(a, b, o)
  /\ Mine(b, p) = {}

\* The fields of a packet.
LEMMA PacketFields ==
  ASSUME NEW k \in Packets
  PROVE  /\ k.pcb \in Pcbs /\ k.kind \in {"probe", "announce", "answer"} /\ k.q \in Seq(Services)
         /\ k.names \subseteq Services /\ k.recs \subseteq Services
         /\ k.host \in {"none", "servers", "answers"} /\ k.at \in 0 .. 2 /\ k.lap \in {0, 1}
BY DEF Packets, Long

\* A packet given another time is like itself.
LEMMA Retimed ==
  ASSUME NEW k \in Packets, NEW after \in 0 .. 2
  PROVE  LET e == Timed(k, after) IN e \in Packets /\ Like(e, k) /\ e.pcb = k.pcb
<1> DEFINE x == IF wrap <= after THEN 1 ELSE 0
           d == [k EXCEPT !.at = after]
           e == [d EXCEPT !.lap = x]
<1>1. x \in {0, 1} /\ Timed(k, after) = e
  BY DEF Timed
<1>2. d \in Packets /\ Like(d, k) /\ d.pcb = k.pcb
  BY DEF Packets, Long, Like
<1> HIDE DEF x, d
<1>3. e \in Packets /\ Like(e, d) /\ e.pcb = d.pcb
  BY <1>1, <1>2 DEF Packets, Like
<1> QED BY <1>1, <1>2, <1>3 DEF Like

\* Times are ordered.
LEMMA DueOrder ==
  ASSUME NEW k \in Packets, NEW l \in Packets, NEW m \in Packets
  PROVE  NoLater(k, k) /\ (NoLater(k, l) /\ NoLater(l, m) => NoLater(k, m))
<1>1. \A x \in {k, l, m} : x.at \in 0 .. 2 /\ x.lap \in {0, 1}
  BY PacketFields
<1> QED BY <1>1 DEF NoLater, Greater

\* Like is an equivalence.
LEMMA LikeSame ==
  ASSUME NEW a, NEW b, NEW c
  PROVE  /\ Like(a, a)
         /\ Like(a, b) => Like(b, a)
         /\ Like(a, b) /\ Like(b, c) => Like(a, c)
BY DEF Like

\* Same is reflexive and transitive.
LEMMA SameSame ==
  ASSUME NEW a, NEW b, NEW c, NEW p
  PROVE  Same(a, a, p) /\ (Same(a, b, p) /\ Same(b, c, p) => Same(a, c, p))
<1>1. Same(a, a, p)
  BY LikeSame DEF Same, Has
<1>2. ASSUME Same(a, b, p), Same(b, c, p) PROVE Same(a, c, p)
  <2>1. ASSUME NEW i \in Mine(a, p) PROVE Has(c, p, a[i])
    <3>1. PICK j \in Mine(b, p) : Like(b[j], a[i])
      BY <1>2 DEF Same, Has
    <3>2. PICK k \in Mine(c, p) : Like(c[k], b[j])
      BY <1>2 DEF Same, Has
    <3> QED BY <3>1, <3>2, LikeSame DEF Has
  <2>2. ASSUME NEW i \in Mine(c, p) PROVE Has(a, p, c[i])
    <3>1. PICK j \in Mine(b, p) : Like(b[j], c[i])
      BY <1>2 DEF Same, Has
    <3>2. PICK k \in Mine(a, p) : Like(a[k], b[j])
      BY <1>2 DEF Same, Has
    <3> QED BY <3>1, <3>2, LikeSame DEF Has
  <2> QED BY <1>2, <2>1, <2>2 DEF Same
<1> QED BY <1>1, <1>2

\* _mdns_schedule_tx_packet: the packet is in, the queue stays sorted, the others keep theirs.
LEMMA ScheduleQueue ==
  ASSUME NEW queue \in Seq(Packets), Sorted(queue), NEW k \in Packets, NEW after \in 0 .. 2
  PROVE  Scheduled(queue, Schedule(queue, k, after), k)
<1> DEFINE N == Len(queue)
           e == Timed(k, after)
           B == {i \in DOMAIN queue : Greater(queue[i], e)} \cup {N + 1}
           c == First(B) - 1
           w == InsertAt(queue, c + 1, e)
<1>1. N \in Nat /\ DOMAIN queue = 1 .. N /\ \A i \in 1 .. N : queue[i] \in Packets
  BY LenProperties
<1>2. First(B) \in B /\ \A j \in B : First(B) <= j
  <2>1. B \in SUBSET Nat /\ N + 1 \in B
    BY <1>1
  <2> HIDE DEF B
  <2>2. PICK n \in B : \A m \in B : n <= m
    BY <2>1, Least
  <2> QED BY <2>2 DEF First
<1>3. c + 1 = First(B) /\ c \in 0 .. N /\ c \in Nat
  <2>1. First(B) \in 1 .. N + 1
    BY <1>1, <1>2
  <2> HIDE DEF B
  <2> QED BY <1>1, <2>1
<1>4. e \in Packets /\ Like(e, k) /\ e.pcb = k.pcb
  BY Retimed
<1>5. w \in Seq(Packets) /\ WithElement(w, queue, c + 1, e)
  <2>1. c + 1 \in 1 .. Len(queue) + 1
    BY <1>1, <1>3
  <2> HIDE DEF c, e
  <2> QED BY <1>4, <2>1, Inserted
<1>6. Schedule(queue, k, after) = w
  BY <1>3 DEF Schedule
<1>7. \A i \in 1 .. N : (i <= c => NoLater(queue[i], e)) /\ (~(i <= c) => ~NoLater(queue[i], e))
  <2> SUFFICES ASSUME NEW i \in 1 .. N
               PROVE  (i <= c => NoLater(queue[i], e)) /\ (~(i <= c) => ~NoLater(queue[i], e))
    OBVIOUS
  <2>1. CASE i <= c
    <3>1. i \notin B
      <4> HIDE DEF B, c, N
      <4> QED BY <1>1, <1>2, <1>3, <2>1
    <3> HIDE DEF c, e
    <3>2. NoLater(queue[i], e)
      BY <1>1, <3>1 DEF NoLater
    <3> QED BY <2>1, <3>2
  <2>2. CASE ~(i <= c)
    <3> DEFINE f == c + 1
    <3>1. f \in B /\ f <= i /\ f \in 1 .. N
      <4> HIDE DEF B, c, N
      <4> QED BY <1>1, <1>2, <1>3, <2>2
    <3>2. Greater(queue[f], e)
      <4> HIDE DEF c
      <4> QED BY <1>1, <3>1
    <3> HIDE DEF f, e, c, B
    <3>3. NoLater(queue[f], queue[i])
      BY <3>1 DEF Sorted
    <3>4. ~NoLater(queue[i], e)
      BY <1>1, <1>4, <3>1, <3>2, <3>3, DueOrder DEF NoLater
    <3> QED BY <2>2, <3>4
  <2> HIDE DEF B, c, e, N
  <2> QED BY <2>1, <2>2
<1> HIDE DEF B, c, e, w, N
<1>8. /\ Len(w) = N + 1 /\ c + 1 \in 1 .. N + 1 /\ w[c + 1] = e
      /\ \A i \in 1 .. N : i <= c => w[i] = queue[i] /\ i \in 1 .. N + 1
      /\ \A i \in 1 .. N : ~(i <= c) => w[i + 1] = queue[i] /\ i + 1 \in 1 .. N + 1
      /\ \A i \in 1 .. N + 1 : i < c + 1 => w[i] = queue[i] /\ i \in 1 .. N
      /\ \A i \in 1 .. N + 1 : i > c + 1 => w[i] = queue[i - 1] /\ i - 1 \in 1 .. N
  BY <1>1, <1>3, <1>5 DEF WithElement, N
<1>9. ASSUME Sorted(queue) PROVE Sorted(w)
  <2>1. \A i \in 1 .. N + 1 : w[i] \in Packets /\ NoLater(w[i], w[i])
    <3>1. \A i \in 1 .. Len(w) : w[i] \in Packets
      BY <1>5
    <3> QED BY <1>8, <3>1, DueOrder
  <2> SUFFICES ASSUME NEW i \in 1 .. N + 1, NEW j \in 1 .. N + 1, i < j PROVE NoLater(w[i], w[j])
    BY <1>1, <1>8, <2>1 DEF Sorted
  <2>2. CASE j < c + 1
    BY <2>2, <1>1, <1>3, <1>8, <1>9 DEF Sorted, N
  <2>3. CASE j = c + 1
    <3>1. i < c + 1 /\ w[i] = queue[i] /\ i \in 1 .. N /\ i <= c
      BY <2>3, <1>1, <1>3, <1>8
    <3> QED BY <3>1, <2>3, <1>4, <1>7, <1>8
  <2>4. CASE j > c + 1
    <3>1. w[j] = queue[j - 1] /\ j - 1 \in 1 .. N /\ ~(j - 1 <= c)
      BY <2>4, <1>1, <1>3, <1>8
    <3>2. CASE i < c + 1
      <4>1. w[i] = queue[i] /\ i \in 1 .. N /\ i <= j - 1
        BY <3>2, <2>4, <1>1, <1>3, <1>8
      <4> QED BY <3>1, <4>1, <1>9 DEF Sorted, N
    <3>3. CASE i = c + 1
      <4>1. ~NoLater(queue[j - 1], e) /\ queue[j - 1] \in Packets /\ w[i] = e
        BY <3>1, <3>3, <1>1, <1>7, <1>8
      <4>2. NoLater(e, queue[j - 1])
        <5>1. queue[j - 1].at \in 0 .. 2 /\ e.at \in 0 .. 2
          BY <1>4, <4>1, PacketFields
        <5>2. queue[j - 1].lap \in {0, 1} /\ e.lap \in {0, 1}
          BY <1>4, <4>1, PacketFields
        <5> QED BY <4>1, <5>1, <5>2 DEF NoLater, Greater
      <4> QED BY <3>1, <4>1, <4>2
    <3>4. CASE i > c + 1
      <4>1. w[i] = queue[i - 1] /\ i - 1 \in 1 .. N /\ i - 1 <= j - 1
        BY <3>4, <1>1, <1>3, <1>8
      <4> QED BY <3>1, <4>1, <1>9 DEF Sorted, N
    <3> QED BY <3>2, <3>3, <3>4, <1>3
  <2> QED BY <2>2, <2>3, <2>4, <1>3
<1>10. ASSUME NEW i \in 1 .. N PROVE \E j \in 1 .. N + 1 : w[j] = queue[i] /\ j # c + 1
  BY <1>1, <1>3, <1>8
<1>11. ASSUME NEW j \in 1 .. N + 1, j # c + 1 PROVE \E i \in 1 .. N : w[j] = queue[i]
  BY <1>3, <1>8, <1>11
<1>12. ASSUME NEW o, NEW i \in Mine(queue, o) PROVE Has(w, o, queue[i])
  BY <1>8, <1>10, LikeSame DEF Has, Mine, N
<1>13. ASSUME NEW o, NEW i \in Mine(w, o), i # c + 1 PROVE Has(queue, o, w[i])
  BY <1>8, <1>11, <1>13, LikeSame DEF Has, Mine, N
<1>14. c + 1 \in Mine(w, k.pcb) /\ \A o : o # k.pcb => c + 1 \notin Mine(w, o)
  BY <1>4, <1>8 DEF Mine
<1>15. ASSUME NEW o \in Pcbs, o # k.pcb, Sole(queue, o) PROVE Sole(w, o)
  <2> SUFFICES ASSUME NEW i \in Mine(w, o), NEW j \in Mine(w, o), i < j PROVE FALSE
    <3>1. \A i \in Mine(w, o) : i \in Int
      BY DEF Mine
    <3> QED BY <3>1 DEF Sole
  <2> DEFINE Back(x) == IF x < c + 1 THEN x ELSE x - 1
  <2>1. ASSUME NEW x \in Mine(w, o) PROVE Back(x) \in Mine(queue, o) /\ x # c + 1 /\ x \in Int
    <3>1. x \in 1 .. N + 1 /\ w[x].pcb = o /\ x # c + 1
      BY <1>8, <1>14, <1>15 DEF Mine
    <3>2. CASE x < c + 1
      <4>1. w[x] = queue[x] /\ x \in 1 .. N
        BY <1>8, <3>1, <3>2
      <4> QED BY <3>1, <3>2, <4>1 DEF Mine, N
    <3>3. CASE x > c + 1
      <4>1. w[x] = queue[x - 1] /\ x - 1 \in 1 .. N /\ ~(x < c + 1)
        BY <1>3, <1>8, <3>1, <3>3
      <4> QED BY <3>1, <3>3, <4>1 DEF Mine, N
    <3> QED BY <1>3, <3>1, <3>2, <3>3
  <2>2. Back(i) = Back(j)
    BY <2>1, <1>15 DEF Sole
  <2> QED BY <2>1, <2>2, <1>3
<1>16. ASSUME Mine(queue, k.pcb) = {} PROVE Sole(w, k.pcb)
  <2>1. \A i \in Mine(w, k.pcb) : i = c + 1
    BY <1>13, <1>16 DEF Has
  <2> QED BY <2>1 DEF Sole
<1>17. \A o \in Pcbs : o # k.pcb => Same(queue, w, o)
  BY <1>12, <1>13, <1>14, <1>15 DEF Same
<1>18. Has(w, k.pcb, k)
  BY <1>4, <1>8, <1>14 DEF Has
<1>19. \A i \in Mine(w, k.pcb) : Like(w[i], k) \/ Has(queue, k.pcb, w[i])
  BY <1>4, <1>8, <1>13
<1> QED BY <1>5, <1>6, <1>9, <1>12, <1>16, <1>17, <1>18, <1>19 DEF Scheduled

\* _mdns_clear_pcb_tx_queue_head: the packets of p are gone, the others keep theirs.
LEMMA ClearQueue ==
  ASSUME NEW queue \in Seq(Packets), Sorted(queue), NEW p
  PROVE  Cleared(queue, ClearPcbQueue(queue, p), p)
<1> DEFINE gone == {k \in ToSet(queue) : k.pcb = p}
           w == Without(queue, gone)
           N == Len(queue)
<1>1. PICK m : w \in Seq(Packets) /\ Leaves(w, m, queue, gone, N)
  BY WithoutLeaves
<1>2. ClearPcbQueue(queue, p) = w
  BY DEF ClearPcbQueue
<1>3. N \in Nat /\ DOMAIN queue = 1 .. N /\ Len(w) \in Nat
  BY <1>1, LenProperties
<1>4. \A i \in 1 .. N : (queue[i] \in gone <=> queue[i].pcb = p)
  BY <1>3 DEF ToSet
<1> HIDE DEF gone, w, N
<1>5. \A i \in 1 .. Len(w) : m[i] \in 1 .. N /\ w[i] = queue[m[i]] /\ w[i].pcb # p
  BY <1>1, <1>4 DEF Leaves
<1>6. \A i, j \in 1 .. Len(w) : i < j => m[i] < m[j]
  BY <1>1 DEF Leaves
<1>7. Sorted(w)
  <2> SUFFICES ASSUME NEW i \in 1 .. Len(w), NEW j \in 1 .. Len(w), i <= j PROVE NoLater(w[i], w[j])
    BY DEF Sorted
  <2>1. m[i] <= m[j] /\ m[i] \in 1 .. N /\ m[j] \in 1 .. N
    BY <1>3, <1>5, <1>6
  <2> QED BY <2>1, <1>5 DEF Sorted, N
<1>8. Mine(w, p) = {}
  BY <1>5 DEF Mine
<1>9. ASSUME NEW o \in Pcbs, o # p PROVE Same(queue, w, o)
  <2>1. ASSUME NEW i \in Mine(queue, o) PROVE Has(w, o, queue[i])
    <3>1. i \in 1 .. N /\ queue[i] \notin gone
      BY <1>4, <1>9 DEF Mine, N
    <3>2. PICK j \in 1 .. Len(w) : m[j] = i
      BY <1>1, <3>1 DEF Leaves
    <3> QED BY <1>5, <3>2, LikeSame DEF Has, Mine
  <2>2. ASSUME NEW i \in Mine(w, o) PROVE m[i] \in Mine(queue, o) /\ w[i] = queue[m[i]]
    BY <1>5 DEF Mine, N
  <2>3. ASSUME NEW i \in Mine(w, o) PROVE Has(queue, o, w[i])
    BY <2>2, LikeSame DEF Has
  <2>4. ASSUME Sole(queue, o) PROVE Sole(w, o)
    <3> SUFFICES ASSUME NEW i \in Mine(w, o), NEW j \in Mine(w, o), i < j PROVE FALSE
      <4>1. \A i \in Mine(w, o) : i \in Int
        BY DEF Mine
      <4> QED BY <4>1 DEF Sole
    <3>1. m[i] = m[j] /\ m[i] < m[j]
      BY <2>2, <2>4, <1>6 DEF Sole, Mine
    <3> QED BY <3>1, <2>2 DEF Mine
  <2> QED BY <2>1, <2>3, <2>4 DEF Same
<1> QED BY <1>1, <1>2, <1>7, <1>8, <1>9 DEF Cleared

-----------------------------------------------------------------------------
\* A PCB that probes: its socket is open and its state is one of the three.
Live(T, p) == p \in T.open /\ Probing(T.pcb[p])

\* The packet k carries what the PCB c probes for.
ProbeFor(k, c) ==
  /\ k.kind = "probe" /\ k.recs = ToSet(c.services)
  /\ k.host = (IF c.ip THEN "servers" ELSE "none")
  /\ c.services # <<>> \/ c.ip
  /\ \A s \in ToSet(c.services) : HasTwin(s) \/ s \in ToSet(k.q)

\* No packet refers to a service that is not among R.
PacketOK(k, c, R) ==
  /\ k.recs \subseteq R /\ IsInjective(k.q)
  /\ \A s \in ToSet(k.q) : HasTwin(s) \/ (Probing(c) /\ s \in ToSet(c.services))

\* An announcement that says something.
News(k) == k.kind = "announce" /\ (k.recs # {} \/ k.host # "none")

\* What holds of a PCB whatever packets it has, ...
Quiet(T, R, p) ==
  /\ p \in T.open <=> T.pcb[p].state \notin {OFF, DUP}
  /\ T.pcb[p].running <=> Live(T, p)
  /\ ToSet(T.pcb[p].services) \subseteq R /\ IsInjective(T.pcb[p].services)
  /\ Live(T, p) => T.host
  /\ ~Live(T, p) => T.pcb[p].services = <<>>
  /\ p \notin T.open => Mine(T.queue, p) = {}

\* ... and of its packets.
Loaded(T, R, p) ==
  /\ Live(T, p) => /\ Sole(T.queue, p) /\ Mine(T.queue, p) # {}
                   /\ \A i \in Mine(T.queue, p) : ProbeFor(T.queue[i], T.pcb[p])
  /\ Announcing(T.pcb[p]) => \E i \in Mine(T.queue, p) : News(T.queue[i])
  /\ \A i \in Mine(T.queue, p) : PacketOK(T.queue[i], T.pcb[p], R)

Sane(T, R, p) == Quiet(T, R, p) /\ Loaded(T, R, p)

\* The server as a whole.
Server(T) == T \in Servers /\ Sorted(T.queue) /\ (T.main <=> T.open # {})

\* What a step that is not about p leaves alone.
Kept(T, U, p) ==
  /\ U.pcb[p] = T.pcb[p] /\ (p \in U.open <=> p \in T.open)
  /\ Same(T.queue, U.queue, p) /\ (T.host => U.host)

\* The fields of the server.
LEMMA ServerFields ==
  ASSUME NEW T \in Servers
  PROVE  /\ T.pcb \in [Pcbs -> PcbType] /\ T.queue \in Seq(Packets) /\ T.open \subseteq Pcbs
         /\ T.main \in BOOLEAN /\ T.host \in BOOLEAN /\ T.own \subseteq Services
BY DEF Servers

\* The fields of a PCB.
LEMMA PcbFields ==
  ASSUME NEW c \in PcbType
  PROVE  /\ c.state \in States /\ c.services \in Seq(Services) /\ c.ip \in BOOLEAN
         /\ c.running \in BOOLEAN /\ c.failed \in Nat
BY DEF PcbType

\* What a step leaves alone stays as sane as it was.
LEMMA KeptSane ==
  ASSUME NEW T, NEW U, NEW R, NEW p, Kept(T, U, p)
  PROVE  (Quiet(T, R, p) => Quiet(U, R, p)) /\ (Loaded(T, R, p) => Loaded(U, R, p))
<1>1. Live(U, p) <=> Live(T, p)
  BY DEF Kept, Live
<1>2. Same(T.queue, U.queue, p) /\ U.pcb[p] = T.pcb[p]
  BY DEF Kept
<1>3. Mine(T.queue, p) = {} <=> Mine(U.queue, p) = {}
  BY <1>2 DEF Same, Has
<1>4. Quiet(T, R, p) => Quiet(U, R, p)
  BY <1>1, <1>3 DEF Quiet, Kept
<1>5. ASSUME Loaded(T, R, p) PROVE Loaded(U, R, p)
  <2>1. ASSUME Live(U, p), NEW i \in Mine(U.queue, p) PROVE ProbeFor(U.queue[i], U.pcb[p])
    <3>1. PICK j \in Mine(T.queue, p) : Like(T.queue[j], U.queue[i])
      BY <1>2 DEF Same, Has
    <3>2. ProbeFor(T.queue[j], T.pcb[p])
      BY <1>1, <1>5, <2>1 DEF Loaded
    <3> QED BY <1>2, <3>1, <3>2 DEF ProbeFor, Like
  <2>2. ASSUME NEW i \in Mine(U.queue, p) PROVE PacketOK(U.queue[i], U.pcb[p], R)
    <3>1. PICK j \in Mine(T.queue, p) : Like(T.queue[j], U.queue[i])
      BY <1>2 DEF Same, Has
    <3>2. PacketOK(T.queue[j], T.pcb[p], R)
      BY <1>5 DEF Loaded
    <3> QED BY <1>2, <3>1, <3>2 DEF PacketOK, Like
  <2>3. ASSUME Announcing(U.pcb[p]) PROVE \E i \in Mine(U.queue, p) : News(U.queue[i])
    <3>1. PICK j \in Mine(T.queue, p) : News(T.queue[j])
      BY <1>2, <1>5, <2>3 DEF Loaded
    <3>2. PICK i \in Mine(U.queue, p) : Like(U.queue[i], T.queue[j])
      BY <1>2 DEF Same, Has
    <3>3. News(U.queue[i])
      BY <3>1, <3>2 DEF News, Like
    <3> QED BY <3>3
  <2>4. Live(U, p) => Sole(U.queue, p) /\ Mine(U.queue, p) # {}
    BY <1>1, <1>2, <1>3, <1>5 DEF Loaded, Same
  <2> QED BY <2>1, <2>2, <2>3, <2>4 DEF Loaded
<1> QED BY <1>4, <1>5

\* Kept is reflexive and transitive.
LEMMA KeptKept ==
  ASSUME NEW T, NEW U, NEW V, NEW p
  PROVE  Kept(T, T, p) /\ (Kept(T, U, p) /\ Kept(U, V, p) => Kept(T, V, p))
BY SameSame DEF Kept

\* A service list that grows.
LEMMA MoreServices ==
  ASSUME NEW T, NEW R, NEW Q, R \subseteq Q, NEW p
  PROVE  (Quiet(T, R, p) => Quiet(T, Q, p)) /\ (Loaded(T, R, p) => Loaded(T, Q, p))
BY DEF Quiet, Loaded, PacketOK

\* A closed PCB has nothing.
LEMMA ClosedLoaded ==
  ASSUME NEW T, NEW R, NEW p, Quiet(T, R, p), p \notin T.open
  PROVE  Loaded(T, R, p)
BY DEF Quiet, Loaded, Live, Announcing, OFF, DUP, PROBE_3

-----------------------------------------------------------------------------
(* Starting to probe.                                                      *)

\* A list without elements is empty.
LEMMA NoElement == ASSUME NEW E, NEW a \in Seq(E) PROVE ToSet(a) = {} <=> a = <<>>
<1>1. DOMAIN a = 1 .. Len(a) /\ Len(a) \in Nat
  BY LenProperties
<1>2. ASSUME ToSet(a) = {} PROVE a = <<>>
  <2>1. \A i \in 1 .. Len(a) : a[i] \in ToSet(a)
    BY <1>1 DEF ToSet
  <2>2. Len(a) = 0
    BY <1>1, <1>2, <2>1
  <2> QED BY <2>2, EmptySeq
<1>3. ToSet(<<>>) = {}
  BY EmptySeq DEF ToSet
<1> QED BY <1>2, <1>3

\* The elements of two lists one behind the other.
LEMMA Joined ==
  ASSUME NEW E, NEW a \in Seq(E), NEW b \in Seq(E)
  PROVE  /\ a \o b \in Seq(E) /\ ToSet(a \o b) = ToSet(a) \cup ToSet(b)
         /\ IsInjective(a) /\ IsInjective(b) /\ ToSet(a) \cap ToSet(b) = {} => IsInjective(a \o b)
<1> DEFINE w == a \o b
           M == Len(a)
           N == Len(b)
<1>1. DOMAIN a = 1 .. M /\ DOMAIN b = 1 .. N /\ M \in Nat /\ N \in Nat
  BY LenProperties
<1>2. /\ w \in Seq(E) /\ Len(w) = M + N
      /\ \A i \in 1 .. M + N : w[i] = IF i <= M THEN a[i] ELSE b[i - M]
  BY ConcatProperties
<1>3. DOMAIN w = 1 .. M + N
  BY <1>2, LenProperties
<1> HIDE DEF w, M, N
<1>4. \A i \in 1 .. M : i \in 1 .. M + N /\ w[i] = a[i]
  BY <1>1, <1>2
<1>5. \A i \in 1 .. N : M + i \in 1 .. M + N /\ w[M + i] = b[i]
  BY <1>1, <1>2
<1>6. \A i \in 1 .. M + N : \/ i \in 1 .. M /\ w[i] = a[i]
                            \/ i \notin 1 .. M /\ i - M \in 1 .. N /\ w[i] = b[i - M]
  BY <1>1, <1>2
<1>7. ToSet(w) = ToSet(a) \cup ToSet(b)
  <2>1. \A x : x \in ToSet(w) <=> \E i \in 1 .. M + N : w[i] = x
    BY <1>3 DEF ToSet
  <2>2. \A x : x \in ToSet(a) <=> \E i \in 1 .. M : a[i] = x
    BY <1>1 DEF ToSet
  <2>3. \A x : x \in ToSet(b) <=> \E i \in 1 .. N : b[i] = x
    BY <1>1 DEF ToSet
  <2>4. ASSUME NEW x \in ToSet(w) PROVE x \in ToSet(a) \cup ToSet(b)
    BY <2>1, <2>2, <2>3, <1>6
  <2>5. ASSUME NEW x \in ToSet(a) PROVE x \in ToSet(w)
    BY <2>1, <2>2, <1>4
  <2>6. ASSUME NEW x \in ToSet(b) PROVE x \in ToSet(w)
    BY <2>1, <2>3, <1>5
  <2> QED BY <2>4, <2>5, <2>6
<1>8. ASSUME IsInjective(a), IsInjective(b), ToSet(a) \cap ToSet(b) = {} PROVE IsInjective(w)
  <2> SUFFICES ASSUME NEW i \in 1 .. M + N, NEW j \in 1 .. M + N, w[i] = w[j] PROVE i = j
    BY <1>3 DEF IsInjective
  <2>1. \A k \in 1 .. M : a[k] \in ToSet(a)
    BY <1>1 DEF ToSet
  <2>2. \A k \in 1 .. N : b[k] \in ToSet(b)
    BY <1>1 DEF ToSet
  <2>3. CASE i \in 1 .. M /\ j \in 1 .. M
    BY <2>3, <1>1, <1>6, <1>8 DEF IsInjective
  <2>4. CASE i \notin 1 .. M /\ j \notin 1 .. M
    <3>1. b[i - M] = b[j - M] /\ i - M \in 1 .. N /\ j - M \in 1 .. N
      BY <2>4, <1>6
    <3>2. i - M = j - M
      BY <3>1, <1>1, <1>8 DEF IsInjective
    <3> QED BY <3>2, <1>1
  <2>5. ~(i \in 1 .. M /\ j \notin 1 .. M) /\ ~(i \notin 1 .. M /\ j \in 1 .. M)
    BY <2>1, <2>2, <1>6, <1>8
  <2> QED BY <2>3, <2>4, <2>5
<1> QED BY <1>2, <1>7, <1>8 DEF w

\* The server with another queue, or another record for the PCB p.
WithQueue(T, q) == [T EXCEPT !.queue = q]
WithPcb(T, p, c) == [T EXCEPT !.pcb[p] = c]

\* U is T but for the queue q, or but for the record c of p.
OnlyQueue(T, U, q) ==
  /\ U \in Servers /\ U.queue = q /\ U.pcb = T.pcb /\ U.open = T.open
  /\ U.main = T.main /\ U.host = T.host /\ U.own = T.own

OnlyPcb(T, U, p, c) ==
  /\ U \in Servers /\ U.queue = T.queue /\ U.open = T.open
  /\ U.main = T.main /\ U.host = T.host /\ U.own = T.own
  /\ U.pcb[p] = c /\ \A o \in Pcbs : o # p => U.pcb[o] = T.pcb[o]

\* Storing a queue changes nothing else.
LEMMA QueueSet ==
  ASSUME NEW T \in Servers, NEW q \in Seq(Packets)
  PROVE  OnlyQueue(T, WithQueue(T, q), q)
BY DEF Servers, WithQueue, OnlyQueue

\* Storing a record changes nothing else.
LEMMA PcbSet ==
  ASSUME NEW T \in Servers, NEW p \in Pcbs, NEW c \in PcbType
  PROVE  OnlyPcb(T, WithPcb(T, p, c), p, c)
BY DEF Servers, WithPcb, OnlyPcb

\* The record of a PCB that starts to probe.
Started(c, svcs, ip) ==
  [c EXCEPT !.state = PROBE_1, !.services = svcs, !.ip = ip, !.running = TRUE]

\* What Started stores.
LEMMA StartedPcb ==
  ASSUME NEW c \in PcbType, NEW svcs \in Seq(Services), NEW ip \in BOOLEAN
  PROVE  /\ Started(c, svcs, ip) \in PcbType /\ Started(c, svcs, ip).state = PROBE_1
         /\ Started(c, svcs, ip).services = svcs /\ Started(c, svcs, ip).ip = ip
         /\ Started(c, svcs, ip).running = TRUE
<1>1. PROBE_1 \in States
  BY DEF States, PROBE_1, RUNNING
<1> HIDE DEF PROBE_1, States
<1> QED BY <1>1 DEF PcbType, Started

\* A step about the packets and the PCB p that leaves the others and the rest alone.
Turn(T, U, p) ==
  /\ Server(U) /\ U.open = T.open /\ U.main = T.main /\ U.host = T.host /\ U.own = T.own
  /\ \A o \in Pcbs : o # p => Kept(T, U, o)

\* Clearing the packets of p is p's own turn.
LEMMA Clearing ==
  ASSUME NEW T, Server(T), NEW p \in Pcbs
  PROVE  LET U == [T EXCEPT !.queue = ClearPcbQueue(@, p)]
         IN  Turn(T, U, p) /\ U.pcb = T.pcb /\ Mine(U.queue, p) = {}
<1> DEFINE q == ClearPcbQueue(T.queue, p)
           U == WithQueue(T, q)
<1>1. Cleared(T.queue, q, p)
  BY ClearQueue, ServerFields DEF Server
<1> HIDE DEF q
<1>2. /\ U \in Servers /\ U.queue = q /\ U.pcb = T.pcb /\ U.open = T.open
      /\ U.main = T.main /\ U.host = T.host /\ U.own = T.own
  BY <1>1, QueueSet DEF Cleared, Server, OnlyQueue
<1> HIDE DEF U
<1>3. Turn(T, U, p)
  BY <1>1, <1>2 DEF Turn, Kept, Cleared, Server
<1>4. U = [T EXCEPT !.queue = ClearPcbQueue(@, p)]
  BY DEF U, q, WithQueue
<1> QED BY <1>1, <1>2, <1>3, <1>4 DEF Cleared

\* _mdns_create_probe_packet.
LEMMA ProbePackets ==
  ASSUME NEW p \in Pcbs, NEW svcs \in Seq(Services), NEW ip \in BOOLEAN
  PROVE  LET k == ProbePacket(p, svcs, ip)
         IN  /\ k \in Packets /\ k.pcb = p /\ k.kind = "probe" /\ k.q = svcs /\ k.recs = ToSet(svcs)
             /\ k.host = IF ip THEN "servers" ELSE "none"
<1>1. ToSet(svcs) \subseteq Services
  BY DEF ToSet
<1> QED BY <1>1 DEF ProbePacket, Packets, Long

\* What a call that probes asks of the PCB: the lists are of registered services, and
\* a server without a host name has not probed.
Startable(T, R, p, svcs, ip) ==
  /\ p \in T.open
  /\ svcs \in Seq(Services) /\ ToSet(svcs) \subseteq R /\ IsInjective(svcs) /\ ip \in BOOLEAN
  /\ ToSet(T.pcb[p].services) \subseteq R /\ IsInjective(T.pcb[p].services)
  /\ T.host \/ (T.pcb[p].services = <<>> /\ ~T.pcb[p].running)
  /\ \/ svcs # <<>> \/ ip
     \/ Probing(T.pcb[p]) /\ (T.pcb[p].services # <<>> \/ T.pcb[p].ip)

\* A packet alone that is like k, for a PCB that is probing.
LEMMA SoleProbe ==
  ASSUME NEW U, NEW R, NEW p, NEW k,
         p \in U.open, U.pcb[p].state = PROBE_1, U.pcb[p].running, U.host,
         ToSet(U.pcb[p].services) \subseteq R, IsInjective(U.pcb[p].services),
         Sole(U.queue, p), Has(U.queue, p, k),
         \A i \in Mine(U.queue, p) : Like(U.queue[i], k),
         ProbeFor(k, U.pcb[p]), PacketOK(k, U.pcb[p], R)
  PROVE  Sane(U, R, p)
<1>1. Probing(U.pcb[p]) /\ ~Announcing(U.pcb[p]) /\ U.pcb[p].state \notin {OFF, DUP}
  BY DEF Probing, Announcing, OFF, DUP, PROBE_1, PROBE_3, ANNOUNCE_1
<1>2. Quiet(U, R, p)
  BY <1>1 DEF Quiet, Live
<1>3. ASSUME NEW i \in Mine(U.queue, p)
      PROVE  ProbeFor(U.queue[i], U.pcb[p]) /\ PacketOK(U.queue[i], U.pcb[p], R)
  BY DEF ProbeFor, PacketOK, Like
<1>4. Loaded(U, R, p)
  BY <1>1, <1>3 DEF Loaded, Has
<1> QED BY <1>2, <1>4 DEF Sane

\* _mdns_init_pcb_probe_new_service leaves one probe, for all the PCB counts as probed.
LEMMA NewServices ==
  ASSUME NEW T, Server(T), NEW p \in Pcbs, NEW R, NEW svcs, NEW ip, T.host,
         Startable(T, R, p, svcs, ip), Mine(T.queue, p) = {}
  PROVE  LET c == T.pcb[p]
             new == IF Probing(c) THEN Without(svcs, ToSet(c.services)) ELSE svcs
             U == ProbeNewService(T, p, new, ip)
         IN  Turn(T, U, p) /\ Sane(U, R, p) /\ U.pcb[p].state = PROBE_1
<1> DEFINE c == T.pcb[p]
           new == IF Probing(c) THEN Without(svcs, ToSet(c.services)) ELSE svcs
           all == new \o (IF Probing(c) THEN c.services ELSE <<>>)
           withIp == c.ip \/ ip
           delay == IF c.failed > FastProbes THEN Long ELSE Short
           k == ProbePacket(p, all, withIp)
           q == Schedule(T.queue, k, delay)
           d == Started(c, all, withIp)
           V == WithPcb(T, p, d)
           U == WithQueue(V, q)
<1>0. T \in Servers /\ c \in PcbType
  BY ServerFields DEF Server
<1>1. /\ new \in Seq(Services) /\ ToSet(new) \subseteq R /\ IsInjective(new)
      /\ Probing(c) => ToSet(new) \cap ToSet(c.services) = {}
  <2>1. CASE Probing(c)
    BY <2>1, WithoutElements, WithoutInjective DEF Startable
  <2>2. CASE ~Probing(c)
    BY <2>2 DEF Startable
  <2> QED BY <2>1, <2>2
<1>2. c.services \in Seq(Services) /\ c.ip \in BOOLEAN
  BY <1>0, PcbFields
<1>3. ip \in BOOLEAN /\ ToSet(c.services) \subseteq R /\ IsInjective(c.services)
  BY DEF Startable
<1>4. \/ all # <<>>
      \/ withIp
  <2> SUFFICES ASSUME all = <<>>, ~ip, ~c.ip PROVE FALSE
    BY <1>2, <1>3
  <2>1. new = <<>> /\ (Probing(c) => c.services = <<>>)
    <3>1. new \in Seq(Services) /\ (IF Probing(c) THEN c.services ELSE <<>>) \in Seq(Services)
      BY <1>1, <1>2
    <3>a. (IF Probing(c) THEN c.services ELSE <<>>) = <<>> => (Probing(c) => c.services = <<>>)
      OBVIOUS
    <3> DEFINE old == IF Probing(c) THEN c.services ELSE <<>>
    <3> HIDE DEF new, old
    <3>2. ToSet(new \o old) = ToSet(new) \cup ToSet(old)
      BY <3>1, Joined DEF old
    <3>3. ToSet(new \o old) = {}
      <4>1. new \o old = <<>>
        BY DEF old
      <4> QED BY <4>1, EmptySeq DEF ToSet
    <3>4. new = <<>> /\ old = <<>>
      BY <3>1, <3>2, <3>3, NoElement DEF old
    <3> QED BY <3>4, <3>a DEF old
  <2>2. svcs = <<>>
    <3>1. CASE Probing(c)
      <4>1. ToSet(c.services) = {} /\ ToSet(new) = ToSet(svcs) \ ToSet(c.services) /\ ToSet(new) = {}
        BY <2>1, <3>1, <1>2, <1>1, NoElement, WithoutElements DEF Startable
      <4> QED BY <4>1, NoElement DEF Startable
    <3>2. CASE ~Probing(c)
      BY <2>1, <3>2
    <3> QED BY <3>1, <3>2
  <2> QED BY <2>1, <2>2 DEF Startable
<1>5. all \in Seq(Services) /\ ToSet(all) \subseteq R /\ IsInjective(all)
  <2>1. <<>> \in Seq(Services) /\ ToSet(<<>>) = {} /\ IsInjective(<<>>)
    BY EmptySeq DEF ToSet, IsInjective
  <2> DEFINE old == IF Probing(c) THEN c.services ELSE <<>>
  <2>2. old \in Seq(Services) /\ ToSet(old) \subseteq R /\ IsInjective(old) /\ ToSet(new) \cap ToSet(old) = {}
    BY <2>1, <1>1, <1>2, <1>3
  <2>3. all = new \o old
    OBVIOUS
  <2> HIDE DEF new, old, all
  <2> QED BY <1>1, <2>2, <2>3, Joined
<1>6. withIp \in BOOLEAN /\ delay \in 0 .. 2
  BY <1>2, <1>3 DEF Long, Short
<1> HIDE DEF new, all, withIp, delay
<1>7. /\ k \in Packets /\ k.pcb = p /\ k.kind = "probe" /\ k.q = all /\ k.recs = ToSet(all)
      /\ k.host = IF withIp THEN "servers" ELSE "none"
  BY <1>5, <1>6, ProbePackets
<1>8. /\ d \in PcbType /\ d.state = PROBE_1 /\ d.services = all /\ d.ip = withIp /\ d.running = TRUE
  BY <1>0, <1>5, <1>6, StartedPcb
<1> HIDE DEF k, d
<1>9. Scheduled(T.queue, q, k)
  BY <1>0, <1>6, <1>7, ServerFields, ScheduleQueue DEF Server
<1> HIDE DEF q
<1>10. /\ U \in Servers /\ U.queue = q /\ U.open = T.open /\ U.main = T.main /\ U.host = T.host
       /\ U.own = T.own /\ U.pcb[p] = d /\ \A o \in Pcbs : o # p => U.pcb[o] = T.pcb[o]
  <2>1. /\ V \in Servers /\ V.queue = T.queue /\ V.open = T.open /\ V.main = T.main /\ V.host = T.host
        /\ V.own = T.own /\ V.pcb[p] = d /\ \A o \in Pcbs : o # p => V.pcb[o] = T.pcb[o]
    <3>1. T \in Servers /\ d \in PcbType
      BY <1>0, <1>8
    <3>2. OnlyPcb(T, V, p, d)
      BY <3>1, PcbSet
    <3> QED BY <3>2 DEF OnlyPcb
  <2>2. q \in Seq(Packets)
    BY <1>9 DEF Scheduled
  <2> HIDE DEF V
  <2>3. /\ U \in Servers /\ U.queue = q /\ U.pcb = V.pcb /\ U.open = V.open
        /\ U.main = V.main /\ U.host = V.host /\ U.own = V.own
    BY <2>1, <2>2, QueueSet DEF OnlyQueue
  <2> QED BY <2>1, <2>3
<1>11. U = ProbeNewService(T, p, new, ip)
  <2>1. ProbeNewService(T, p, new, ip) =
          [T EXCEPT !.pcb[p] = [@ EXCEPT !.state = PROBE_1, !.services = all, !.ip = withIp, !.running = TRUE],
                    !.queue = Schedule(@, k, delay)]
    BY DEF ProbeNewService, all, withIp, k, delay
  <2> QED BY <2>1, <1>0 DEF U, V, d, q, Servers, Started, WithPcb, WithQueue
<1> HIDE DEF U
<1>12. Turn(T, U, p)
  BY <1>7, <1>9, <1>10 DEF Turn, Server, Kept, Scheduled
<1>13. Sane(U, R, p)
  <2>1. ProbeFor(k, U.pcb[p])
    BY <1>4, <1>7, <1>8, <1>10 DEF ProbeFor
  <2>2. Probing(U.pcb[p])
    BY <1>8, <1>10 DEF Probing, OFF, PROBE_1, ANNOUNCE_1
  <2>3. PacketOK(k, U.pcb[p], R)
    BY <1>5, <1>7, <1>8, <1>10, <2>2 DEF PacketOK
  <2>4. \A i \in Mine(U.queue, p) : Like(U.queue[i], k)
    BY <1>7, <1>9, <1>10 DEF Scheduled, Has
  <2>5. Has(U.queue, p, k) /\ Sole(U.queue, p)
    BY <1>7, <1>9, <1>10 DEF Scheduled
  <2> QED BY <1>5, <1>8, <1>10, <2>1, <2>3, <2>4, <2>5, SoleProbe DEF Startable
<1> QED BY <1>8, <1>10, <1>11, <1>12, <1>13 DEF new

\* The record of a PCB with another state.
InState(c, x) == [c EXCEPT !.state = x]

\* What InState stores.
LEMMA StatePcb ==
  ASSUME NEW c \in PcbType, NEW x \in States
  PROVE  /\ InState(c, x) \in PcbType /\ InState(c, x).state = x
         /\ InState(c, x).services = c.services /\ InState(c, x).ip = c.ip
         /\ InState(c, x).running = c.running /\ InState(c, x).failed = c.failed
<1> HIDE DEF States
<1> QED BY DEF PcbType, InState

\* The states, one by one.
LEMMA AllStates ==
  /\ {OFF, DUP, PROBE_1, PROBE_2, PROBE_3, ANNOUNCE_1, ANNOUNCE_2, ANNOUNCE_3, RUNNING} = States
  /\ \A x \in States : x \in Nat
BY DEF States, OFF, DUP, PROBE_1, PROBE_2, PROBE_3, ANNOUNCE_1, ANNOUNCE_2, ANNOUNCE_3, RUNNING

\* Two turns of p are one.
LEMMA TurnTurn ==
  ASSUME NEW T, NEW U, NEW V, NEW p, Turn(T, U, p), Turn(U, V, p)
  PROVE  Turn(T, V, p)
<1>1. ASSUME NEW o \in Pcbs, o # p PROVE Kept(T, V, o)
  <2>1. Kept(T, U, o) /\ Kept(U, V, o)
    BY <1>1 DEF Turn
  <2> QED BY <2>1, KeptKept
<1> QED BY <1>1 DEF Turn

\* Storing a record for p is no business of the others.
LEMMA PcbTurn ==
  ASSUME NEW T, Server(T), NEW p \in Pcbs, NEW c \in PcbType
  PROVE  /\ Turn(T, WithPcb(T, p, c), p) /\ WithPcb(T, p, c).pcb[p] = c
         /\ WithPcb(T, p, c).queue = T.queue
<1>1. OnlyPcb(T, WithPcb(T, p, c), p, c)
  BY PcbSet DEF Server
<1> QED BY <1>1, SameSame DEF OnlyPcb, Turn, Kept, Server

\* _mdns_init_pcb_probe: without a host name the PCB runs, else it probes from the start.
LEMMA Probes ==
  ASSUME NEW T, Server(T), NEW p \in Pcbs, NEW R, NEW svcs, NEW ip, Startable(T, R, p, svcs, ip)
  PROVE  LET U == InitProbe(T, p, svcs, ip)
         IN  /\ Turn(T, U, p) /\ Sane(U, R, p)
             /\ U.pcb[p].state = IF T.host THEN PROBE_1 ELSE RUNNING
<1> DEFINE Z == [T EXCEPT !.queue = ClearPcbQueue(@, p)]
           c == T.pcb[p]
           new == IF Probing(c) THEN Without(svcs, ToSet(c.services)) ELSE svcs
           U == InitProbe(T, p, svcs, ip)
<1>1. Turn(T, Z, p) /\ Z.pcb = T.pcb /\ Mine(Z.queue, p) = {}
  BY Clearing
<1>2. U = IF ~T.host THEN [Z EXCEPT !.pcb[p].state = RUNNING] ELSE ProbeNewService(Z, p, new, ip)
  BY DEF InitProbe
<1> HIDE DEF Z, U
<1>3. Server(Z) /\ Z.host = T.host /\ Z.open = T.open /\ Z.pcb[p] = c
  BY <1>1 DEF Turn
<1>4. CASE T.host
  <2>1. Startable(Z, R, p, svcs, ip) /\ Z.host
    BY <1>3, <1>4 DEF Startable
  <2>2. LET n == IF Probing(Z.pcb[p]) THEN Without(svcs, ToSet(Z.pcb[p].services)) ELSE svcs
            V == ProbeNewService(Z, p, n, ip)
        IN  Turn(Z, V, p) /\ Sane(V, R, p) /\ V.pcb[p].state = PROBE_1
    BY <1>1, <1>3, <2>1, NewServices
  <2>3. Turn(Z, U, p) /\ Sane(U, R, p) /\ U.pcb[p].state = PROBE_1
    BY <1>2, <1>3, <1>4, <2>2
  <2> QED BY <1>1, <1>4, <2>3, TurnTurn DEF U
<1>5. CASE ~T.host
  <2> DEFINE d == InState(Z.pcb[p], RUNNING)
             V == WithPcb(Z, p, d)
  <2>1. U = V
    BY <1>2, <1>5 DEF WithPcb, InState
  <2>2. Z.pcb[p] \in PcbType /\ RUNNING \in States
    BY <1>3, AllStates, ServerFields DEF Server
  <2>3. /\ d \in PcbType /\ d.state = RUNNING /\ d.services = c.services /\ d.running = c.running
    BY <1>3, <2>2, StatePcb
  <2> HIDE DEF d
  <2>4. Turn(Z, V, p) /\ V.pcb[p] = d /\ V.queue = Z.queue
    BY <1>3, <2>3, PcbTurn
  <2> HIDE DEF V
  <2>5. V.open = T.open /\ p \in V.open /\ c.services = <<>> /\ ~c.running
    BY <1>3, <1>5, <2>4 DEF Turn, Startable
  <2>6. ~Probing(d) /\ ~Announcing(d) /\ d.state \notin {OFF, DUP}
    BY <2>3 DEF Probing, Announcing, OFF, DUP, RUNNING, PROBE_3, ANNOUNCE_1
  <2>7. ToSet(c.services) \subseteq R /\ IsInjective(c.services)
    BY DEF Startable
  <2>8. Sane(V, R, p)
    BY <1>1, <2>3, <2>4, <2>5, <2>6, <2>7 DEF Sane, Quiet, Loaded, Live
  <2>9. Turn(T, U, p) /\ Sane(U, R, p) /\ U.pcb[p].state = RUNNING
    BY <1>1, <2>1, <2>3, <2>4, <2>8, TurnTurn
  <2> QED BY <1>5, <2>9 DEF U
<1> QED BY <1>4, <1>5

\* The record of a PCB whose probe is forgotten.
Forgetful(c) == [c EXCEPT !.services = <<>>, !.running = FALSE]

\* What Forgetful stores.
LEMMA ForgetfulPcb ==
  ASSUME NEW c \in PcbType
  PROVE  /\ Forgetful(c) \in PcbType /\ Forgetful(c).state = c.state /\ Forgetful(c).services = <<>>
         /\ Forgetful(c).running = FALSE
<1> HIDE DEF States
<1>1. <<>> \in Seq(Services)
  BY EmptySeq
<1> QED BY <1>1 DEF PcbType, Forgetful

\* The empty list.
LEMMA Nothing == ToSet(<<>>) = {} /\ IsInjective(<<>>)
BY EmptySeq DEF ToSet, IsInjective

\* What a call asks to probe or to announce.
Proper(R, svcs, ip) ==
  /\ svcs \in Seq(Services) /\ ToSet(svcs) \subseteq R /\ IsInjective(svcs) /\ ip \in BOOLEAN
  /\ svcs # <<>> \/ ip

\* A pass of _mdns_probe_all_pcbs: an open PCB probes from the start, whatever it did before.
LEMMA ProbesPcb ==
  ASSUME NEW T, Server(T), NEW p \in Pcbs, NEW R, NEW svcs, NEW ip, NEW clearOld \in BOOLEAN,
         Proper(R, svcs, ip), Quiet(T, R, p), T.host
  PROVE  LET U == ProbePcb(T, p, svcs, ip, clearOld)
         IN  Turn(T, U, p) /\ Sane(U, R, p) /\ (p \in T.open => U.pcb[p].state = PROBE_1)
<1> DEFINE d == Forgetful(T.pcb[p])
           V == IF clearOld THEN WithPcb(T, p, d) ELSE T
           U == ProbePcb(T, p, svcs, ip, clearOld)
<1>0. T.pcb[p] \in PcbType
  BY ServerFields DEF Server
<1>1. d \in PcbType /\ d.services = <<>>
  BY <1>0, ForgetfulPcb
<1>2. U = IF p \in T.open THEN InitProbe(V, p, svcs, ip) ELSE T
  BY <1>0 DEF ProbePcb, WithPcb, Forgetful, Server, Servers, PcbType
<1> HIDE DEF d, U
<1>3. CASE p \in T.open
  <2>1. /\ Turn(T, V, p) /\ ToSet(V.pcb[p].services) \subseteq R /\ IsInjective(V.pcb[p].services)
    <3>1. CASE clearOld
      <4>1. Turn(T, WithPcb(T, p, d), p) /\ WithPcb(T, p, d).pcb[p] = d
        BY <1>1, PcbTurn
      <4> QED BY <3>1, <4>1, <1>1, Nothing
    <3>2. CASE ~clearOld
      BY <3>2, KeptKept DEF Quiet, Turn
    <3> QED BY <3>1, <3>2
  <2> HIDE DEF V
  <2>2. Startable(V, R, p, svcs, ip) /\ Server(V) /\ V.host /\ V.open = T.open
    BY <1>3, <2>1 DEF Startable, Turn, Proper
  <2>3. LET W == InitProbe(V, p, svcs, ip)
        IN  /\ Turn(V, W, p) /\ Sane(W, R, p)
            /\ W.pcb[p].state = IF V.host THEN PROBE_1 ELSE RUNNING
    BY <2>2, Probes
  <2>4. Turn(V, U, p) /\ Sane(U, R, p) /\ U.pcb[p].state = PROBE_1
    BY <1>2, <1>3, <2>2, <2>3
  <2> QED BY <2>1, <2>4, TurnTurn DEF U
<1>4. CASE p \notin T.open
  BY <1>2, <1>4, ClosedLoaded, KeptKept DEF U, Turn, Sane
<1> QED BY <1>3, <1>4

-----------------------------------------------------------------------------
\* U is T with the PCBs of the first n turns restarted.
Restarted(T, U, R, n) ==
  /\ Server(U) /\ U.open = T.open /\ U.host = T.host /\ U.own = T.own
  /\ \A p \in Pcbs :
        /\ Quiet(U, R, p)
        /\ (\E i \in 1 .. n : PcbOrder[i] = p) =>
              Loaded(U, R, p) /\ (p \in T.open => U.pcb[p].state = PROBE_1)

\* The next pass of _mdns_probe_all_pcbs.
LEMMA RestartedMore ==
  ASSUME NEW T, NEW U, NEW R, NEW svcs, NEW ip, NEW clearOld \in BOOLEAN, Proper(R, svcs, ip),
         T.host, NEW n \in 1 .. Len(PcbOrder), Restarted(T, U, R, n - 1)
  PROVE  Restarted(T, ProbePcb(U, PcbOrder[n], svcs, ip, clearOld), R, n)
<1> DEFINE p == PcbOrder[n]
           V == ProbePcb(U, p, svcs, ip, clearOld)
<1>1. p \in Pcbs
  BY ResponderAssumption
<1>2. Server(U) /\ U.open = T.open /\ U.host = T.host /\ U.own = T.own /\ Quiet(U, R, p)
  BY <1>1 DEF Restarted
<1> HIDE DEF p
<1>3. Turn(U, V, p) /\ Sane(V, R, p) /\ (p \in U.open => V.pcb[p].state = PROBE_1)
  BY <1>1, <1>2, ProbesPcb
<1> HIDE DEF V
<1>4. ASSUME NEW o \in Pcbs
      PROVE  /\ Quiet(V, R, o)
             /\ (\E i \in 1 .. n : PcbOrder[i] = o) =>
                    Loaded(V, R, o) /\ (o \in T.open => V.pcb[o].state = PROBE_1)
  <2>1. CASE o = p
    BY <2>1, <1>2, <1>3 DEF Sane
  <2>2. CASE o # p
    <3>1. Kept(U, V, o)
      BY <1>3, <2>2 DEF Turn
    <3>2. Quiet(U, R, o) /\ ((\E i \in 1 .. n - 1 : PcbOrder[i] = o) =>
                  Loaded(U, R, o) /\ (o \in T.open => U.pcb[o].state = PROBE_1))
      BY DEF Restarted
    <3>3. \A i \in 1 .. n : PcbOrder[i] = o => i \in 1 .. n - 1
      BY <2>2 DEF p
    <3>4. (\E i \in 1 .. n : PcbOrder[i] = o) => \E i \in 1 .. n - 1 : PcbOrder[i] = o
      BY <3>3
    <3>5. Quiet(V, R, o) /\ (Loaded(U, R, o) => Loaded(V, R, o)) /\ V.pcb[o] = U.pcb[o]
      BY <3>1, <3>2, KeptSane DEF Kept
    <3> QED BY <3>2, <3>4, <3>5
  <2> QED BY <2>1, <2>2
<1>5. Server(V) /\ V.open = T.open /\ V.host = T.host /\ V.own = T.own
  BY <1>2, <1>3 DEF Turn
<1> QED BY <1>4, <1>5 DEF Restarted, V, p

\* Every PCB is quiet.
AllQuiet(T, R) == \A p \in Pcbs : Quiet(T, R, p)

\* Every open PCB probes from the start.
Restarts(T, U, R) ==
  /\ Server(U) /\ U.open = T.open /\ U.host = TRUE
  /\ \A p \in Pcbs : Sane(U, R, p) /\ (p \in U.open => U.pcb[p].state = PROBE_1)

\* Every PCB that is open probes from the start when _mdns_probe_all_pcbs is done.
LEMMA ProbesAll ==
  ASSUME NEW T, Server(T), NEW R, NEW svcs, NEW ip, NEW clearOld \in BOOLEAN, Proper(R, svcs, ip),
         T.host, AllQuiet(T, R)
  PROVE  Restarts(T, ProbeAll(T, svcs, ip, clearOld), R)
<1> DEFINE L == Len(PcbOrder)
           Op(U, n) == ProbePcb(U, PcbOrder[n], svcs, ip, clearOld)
           D == [n \in 0 .. L |-> {U \in Servers : Restarted(T, U, R, n)}]
           h == [a \in (1 .. L) \X Servers |-> Op(a[2], a[1])]
           f[n \in 0 .. L] == IF n = 0 THEN T ELSE Op(f[n - 1], n)
<1>1. L \in Nat
  BY ResponderAssumption
<1>2. T \in D[0]
  <2>1. Restarted(T, T, R, 0)
    BY DEF Restarted, AllQuiet
  <2> QED BY <1>1, <2>1 DEF Server
<1>3. ASSUME NEW n \in 1 .. L, NEW U \in D[n - 1]
      PROVE  h[<<n, U>>] = Op(U, n) /\ Op(U, n) \in D[n]
  <2>1. n - 1 \in 0 .. L /\ n \in 0 .. L
    BY <1>1
  <2>2. U \in Servers /\ Restarted(T, U, R, n - 1)
    BY <2>1
  <2>3. Restarted(T, Op(U, n), R, n)
    BY <2>2, RestartedMore
  <2>4. Op(U, n) \in Servers
    BY <2>3 DEF Restarted, Server
  <2> QED BY <2>1, <2>2, <2>3, <2>4
<1>4. PICK g \in [0 .. L -> Servers] :
          /\ g[0] = T /\ \A n \in 1 .. L : g[n] = h[<<n, g[n - 1]>>]
          /\ \A n \in 0 .. L : g[n] \in D[n]
  <2>1. \A n \in 0 .. L : D[n] \subseteq Servers
    OBVIOUS
  <2> HIDE DEF L, D, h, Op, f
  <2>2. \A n \in 1 .. L : \A U \in D[n - 1] : h[<<n, U>>] \in D[n]
    BY <1>3
  <2>3. LoopSteps(L, Servers, D, T, h)
    BY <1>1, <1>2, <2>1, <2>2 DEF LoopSteps
  <2> QED BY <2>3, FoldExists
<1>5. g = [n \in 0 .. L |-> IF n = 0 THEN T ELSE Op(g[n - 1], n)]
  <2> HIDE DEF L, D, h, Op, f
  <2>1. ASSUME NEW n \in 1 .. L PROVE g[n] = Op(g[n - 1], n)
    <3>1. n - 1 \in 0 .. L
      BY <1>1
    <3>2. g[n - 1] \in D[n - 1] /\ g[n] = h[<<n, g[n - 1]>>]
      BY <3>1, <1>4
    <3> QED BY <3>2, <1>3
  <2>2. \A n \in 0 .. L : g[n] = IF n = 0 THEN T ELSE Op(g[n - 1], n)
    BY <1>1, <1>4, <2>1
  <2> QED BY <2>2
<1>6. f = [n \in 0 .. L |-> IF n = 0 THEN T ELSE Op(f[n - 1], n)]
  BY <1>5
<1>7. ProbeAll(T, svcs, ip, clearOld) = f[L]
  BY DEF ProbeAll, Loop
<1> HIDE DEF f
<1>8. f[0] \in D[0] /\ \A n \in 1 .. L : f[n - 1] \in D[n - 1] => f[n] \in D[n]
  <2>1. f[0] = T /\ \A n \in 1 .. L : f[n] = Op(f[n - 1], n)
    <3> HIDE DEF Op, L
    <3> QED BY <1>1, <1>6
  <2> HIDE DEF Op, D
  <2> QED BY <1>2, <1>3, <2>1
<1>9. f[L] \in D[L]
  <2> HIDE DEF D, L
  <2>1. \A n \in 0 .. L : f[n] \in D[n]
    BY <1>1, <1>8, Carried
  <2> QED BY <1>1, <2>1
<1>10. Restarted(T, f[L], R, L)
  BY <1>1, <1>9
<1> DEFINE U == f[L]
<1>11. ASSUME NEW p \in Pcbs PROVE Sane(U, R, p) /\ (p \in U.open => U.pcb[p].state = PROBE_1)
  <2>1. \E i \in 1 .. L : PcbOrder[i] = p
    <3>1. DOMAIN PcbOrder = 1 .. L
      BY ResponderAssumption, LenProperties
    <3> QED BY <3>1 DEF Pcbs
  <2> QED BY <1>10, <2>1 DEF Restarted, Sane
<1>12. Server(U) /\ U.open = T.open /\ U.host = T.host /\ U.own = T.own
  BY <1>10 DEF Restarted
<1> HIDE DEF U
<1>13. U.host = TRUE
  BY <1>12, ServerFields DEF Server
<1> QED BY <1>7, <1>11, <1>12, <1>13 DEF U, Restarts

\* What a PCB that probes has asked for counts on: it started again, or goes on with less.
Fresh(T, U, p) ==
  Live(U, p) => \/ U.pcb[p].state = PROBE_1
                \/ /\ Live(T, p) /\ U.pcb[p].state = T.pcb[p].state
                   /\ ToSet(U.pcb[p].services) \subseteq ToSet(T.pcb[p].services)

\* A PCB that probes does not start to announce.
ProbesOn(T, U, p) == Live(T, p) => Live(U, p) \/ p \notin U.open

\* Fresh is transitive.
LEMMA FreshFresh ==
  ASSUME NEW T, NEW U, NEW V, NEW p
  PROVE  Fresh(T, U, p) /\ Fresh(U, V, p) => Fresh(T, V, p)
BY DEF Fresh

\* What a step leaves alone did not start anything.
LEMMA KeptFresh ==
  ASSUME NEW T, NEW U, NEW p, Kept(T, U, p)
  PROVE  Fresh(T, U, p) /\ ProbesOn(T, U, p) /\ U.pcb[p] = T.pcb[p] /\ (Live(T, p) <=> Live(U, p))
BY DEF Fresh, ProbesOn, Kept, Live

\* A packet in the place of another one due at the same time.
LEMMA ReplaceQueue ==
  ASSUME NEW a \in Seq(Packets), Sorted(a), NEW m \in 1 .. Len(a), NEW k \in Packets,
         k.pcb = a[m].pcb, k.at = a[m].at, k.lap = a[m].lap
  PROVE  LET b == [a EXCEPT ![m] = k]
         IN  /\ b \in Seq(Packets) /\ Sorted(b) /\ Len(b) = Len(a) /\ b[m] = k
             /\ \A i \in 1 .. Len(a) : i # m => b[i] = a[i]
             /\ \A o : Mine(b, o) = Mine(a, o)
             /\ \A o : o # k.pcb => Same(a, b, o)
<1> DEFINE b == [a EXCEPT ![m] = k]
           N == Len(a)
<1>1. N \in Nat /\ DOMAIN a = 1 .. N /\ a = [i \in 1 .. N |-> a[i]] /\ \A i \in 1 .. N : a[i] \in Packets
  BY LenProperties
<1>2. b = [i \in 1 .. N |-> IF i = m THEN k ELSE a[i]]
  BY <1>1
<1>3. b \in Seq(Packets) /\ Len(b) = N
  <2>1. b \in [1 .. N -> Packets]
    BY <1>1, <1>2
  <2> HIDE DEF b, N
  <2>2. b \in Seq(Packets) /\ DOMAIN b = 1 .. N
    BY <1>1, <2>1, IsASeq
  <2>3. DOMAIN b = 1 .. Len(b) /\ Len(b) \in Nat
    BY <2>2, LenProperties
  <2> QED BY <1>1, <2>2, <2>3
<1>4. b[m] = k /\ \A i \in 1 .. N : i # m => b[i] = a[i]
  BY <1>2
<1> HIDE DEF b, N
<1>5. Sorted(b)
  <2>1. \A i \in 1 .. N : b[i].at = a[i].at /\ b[i].lap = a[i].lap
    BY <1>4
  <2> QED BY <2>1, <1>3 DEF Sorted, NoLater, Greater, N
<1>6. \A o : Mine(b, o) = Mine(a, o)
  <2>1. \A i \in 1 .. N : b[i].pcb = a[i].pcb
    BY <1>4
  <2> QED BY <2>1, <1>3 DEF Mine, N
<1>7. ASSUME NEW o, o # k.pcb PROVE Same(a, b, o)
  <2>1. \A i \in Mine(a, o) : b[i] = a[i]
    BY <1>4, <1>7 DEF Mine, N
  <2> QED BY <2>1, <1>6, LikeSame DEF Same, Has, Sole
<1> QED BY <1>3, <1>4, <1>5, <1>6, <1>7 DEF b, N

\* The first packet of p.
LEMMA FirstOf ==
  ASSUME NEW N, NEW B \in SUBSET (1 .. N), B # {}
  PROVE  First(B) \in B
<1>1. B \in SUBSET Nat
  OBVIOUS
<1>2. PICK n \in B : \A m \in B : n <= m
  BY <1>1, Least
<1> QED BY <1>2 DEF First

\* Storing a queue that keeps the packets of the others is p's own turn.
LEMMA QueueTurn ==
  ASSUME NEW T, Server(T), NEW p, NEW q \in Seq(Packets), Sorted(q),
         \A o \in Pcbs : o # p => Same(T.queue, q, o)
  PROVE  /\ Turn(T, WithQueue(T, q), p) /\ WithQueue(T, q).pcb = T.pcb
         /\ WithQueue(T, q).queue = q
<1>1. OnlyQueue(T, WithQueue(T, q), q)
  BY QueueSet DEF Server
<1> QED BY <1>1 DEF OnlyQueue, Turn, Kept, Server

\* _mdns_create_announce_packet.
LEMMA AnnouncePackets ==
  ASSUME NEW p \in Pcbs, NEW svcs \in Seq(Services), NEW ip \in BOOLEAN
  PROVE  LET k == AnnouncePacket(p, svcs, ip)
         IN  /\ k \in Packets /\ k.pcb = p /\ k.kind = "announce" /\ k.q = <<>> /\ k.recs = ToSet(svcs)
             /\ k.host = IF ip THEN "servers" ELSE "none"
<1>1. ToSet(svcs) \subseteq Services /\ <<>> \in Seq(Services)
  BY EmptySeq DEF ToSet
<1> QED BY <1>1 DEF AnnouncePacket, Packets, Long

\* Answers that join a packet.
LEMMA AnsweringPacket ==
  ASSUME NEW k \in Packets, NEW svcs \in Seq(Services), NEW ip \in BOOLEAN
  PROVE  LET e == WithAnswers(k, svcs, ip)
         IN  /\ e \in Packets /\ e.pcb = k.pcb /\ e.kind = k.kind /\ e.q = k.q /\ e.at = k.at /\ e.lap = k.lap
             /\ e.recs = k.recs \cup ToSet(svcs) /\ e.host = IF ip THEN "answers" ELSE k.host
<1>1. ToSet(svcs) \subseteq Services
  BY DEF ToSet
<1> QED BY <1>1 DEF WithAnswers, Packets, Long

\* States of an open PCB.
LEMMA Phases ==
  ASSUME NEW c \in PcbType
  PROVE  /\ Announcing(c) => ~Probing(c) /\ c.state \notin {OFF, DUP}
         /\ c.state = RUNNING => ~Probing(c) /\ ~Announcing(c) /\ c.state \notin {OFF, DUP}
         /\ c.state = ANNOUNCE_1 => Announcing(c)
         /\ c.state = PROBE_1 => Probing(c) /\ ~Announcing(c) /\ c.state \notin {OFF, DUP}
         /\ c.state \in {OFF, DUP} => ~Announcing(c)
         /\ Probing(c) \/ Announcing(c) \/ c.state \in {RUNNING, OFF}
<1>1. c.state \in States
  BY PcbFields
<1> QED BY <1>1 DEF Announcing, Probing, States, OFF, DUP, PROBE_1, PROBE_3, ANNOUNCE_1, RUNNING

-----------------------------------------------------------------------------
(* Announcing.                                                             *)

\* What a call that announces does to a PCB.
Announced(T, U, R, p) ==
  /\ Turn(T, U, p) /\ Sane(U, R, p) /\ Fresh(T, U, p) /\ (Live(T, p) => Live(U, p))

\* _mdns_announce_pcb while the PCB probes: it probes again.
LEMMA AnnouncesProbing ==
  ASSUME NEW T, Server(T), NEW p \in Pcbs, NEW R, NEW svcs, NEW ip, Proper(R, svcs, ip),
         Sane(T, R, p), Live(T, p)
  PROVE  Announced(T, InitProbe(T, p, svcs, ip), R, p)
<1> DEFINE U == InitProbe(T, p, svcs, ip)
<1>1. Startable(T, R, p, svcs, ip) /\ T.host
  BY DEF Startable, Proper, Sane, Quiet, Live
<1>2. Turn(T, U, p) /\ Sane(U, R, p) /\ U.pcb[p].state = IF T.host THEN PROBE_1 ELSE RUNNING
  BY <1>1, Probes
<1> HIDE DEF U
<1>3. U.pcb[p].state = PROBE_1 /\ p \in U.open
  BY <1>1, <1>2 DEF Turn, Live
<1>4. Probing(U.pcb[p])
  BY <1>3 DEF Probing, OFF, PROBE_1, ANNOUNCE_1
<1> QED BY <1>2, <1>3, <1>4 DEF Announced, Fresh, Live, U

\* _mdns_announce_pcb while the PCB announces: the records join its first packet.
LEMMA AnnouncesMore ==
  ASSUME NEW T, Server(T), NEW p \in Pcbs, NEW R, NEW svcs, NEW ip, Proper(R, svcs, ip),
         Sane(T, R, p), p \in T.open, Announcing(T.pcb[p]), NEW m, m = First(Mine(T.queue, p))
  PROVE  /\ Mine(T.queue, p) # {}
         /\ Announced(T, [T EXCEPT !.queue[m] = WithAnswers(@, svcs, ip), !.pcb[p].state = ANNOUNCE_1], R, p)
<1> DEFINE c == T.pcb[p]
           d == InState(c, ANNOUNCE_1)
           k == T.queue[m]
           e == WithAnswers(k, svcs, ip)
           q == [T.queue EXCEPT ![m] = e]
           V == WithQueue(T, q)
           U == WithPcb(V, p, d)
<1>0. T \in Servers /\ c \in PcbType /\ T.queue \in Seq(Packets) /\ Sorted(T.queue)
  BY ServerFields DEF Server
<1>1. c.services = <<>> /\ ~c.running /\ ~Probing(c)
  <2>1. ~Live(T, p)
    BY <1>0, Phases DEF Live
  <2> QED BY <1>0, <2>1, Phases DEF Sane, Quiet
<1>2. m \in Mine(T.queue, p) /\ Mine(T.queue, p) # {}
  <2>1. Mine(T.queue, p) \in SUBSET (1 .. Len(T.queue)) /\ Mine(T.queue, p) # {}
    BY DEF Mine, Sane, Loaded
  <2> QED BY <2>1, FirstOf
<1>3. k \in Packets /\ k.pcb = p /\ m \in 1 .. Len(T.queue)
  <2>1. k.pcb = p /\ m \in 1 .. Len(T.queue)
    BY <1>2 DEF Mine
  <2> QED BY <1>0, <2>1, LenProperties
<1>4. /\ e \in Packets /\ e.pcb = p /\ e.kind = k.kind /\ e.q = k.q /\ e.at = k.at /\ e.lap = k.lap
      /\ e.recs = k.recs \cup ToSet(svcs) /\ e.host = IF ip THEN "answers" ELSE k.host
  BY <1>3, AnsweringPacket DEF Proper
<1>5. d \in PcbType /\ d.state = ANNOUNCE_1 /\ d.services = <<>> /\ d.running = c.running
  BY <1>0, <1>1, AllStates, StatePcb
<1> HIDE DEF c, d, e
<1>6. /\ q \in Seq(Packets) /\ Sorted(q) /\ Len(q) = Len(T.queue) /\ q[m] = e
      /\ \A i \in 1 .. Len(T.queue) : i # m => q[i] = T.queue[i]
      /\ Mine(q, p) = Mine(T.queue, p)
      /\ \A o : o # p => Same(T.queue, q, o)
  BY <1>0, <1>3, <1>4, ReplaceQueue
<1>7. U = [T EXCEPT !.queue[m] = WithAnswers(@, svcs, ip), !.pcb[p].state = ANNOUNCE_1]
  BY <1>0 DEF U, V, q, e, d, c, k, WithPcb, WithQueue, InState, Servers
<1> HIDE DEF k, q
<1>8. Turn(T, V, p) /\ V.pcb = T.pcb /\ V.queue = q
  BY <1>6, QueueTurn
<1> HIDE DEF V
<1>9. Turn(V, U, p) /\ U.pcb[p] = d /\ U.queue = q
  BY <1>5, <1>8, PcbTurn DEF Turn
<1> HIDE DEF U
<1>10. Turn(T, U, p) /\ p \in U.open
  BY <1>8, <1>9, TurnTurn DEF Turn
<1>11. ~Probing(d) /\ Announcing(d) /\ d.state \notin {OFF, DUP}
  BY <1>5, Phases
<1>12. Quiet(U, R, p)
  BY <1>1, <1>5, <1>9, <1>10, <1>11, Nothing DEF Quiet, Live
<1>13. Loaded(U, R, p)
  <2>1. \E i \in Mine(q, p) : News(q[i])
    <3>1. PICK i \in Mine(T.queue, p) : News(T.queue[i])
      BY DEF Sane, Loaded, c
    <3>2. CASE i = m
      BY <3>1, <3>2, <1>2, <1>4, <1>6 DEF News, k
    <3>3. CASE i # m
      BY <3>1, <3>3, <1>6 DEF Mine
    <3> QED BY <3>2, <3>3
  <2>2. ASSUME NEW i \in Mine(q, p) PROVE PacketOK(q[i], d, R)
    <3>1. PacketOK(T.queue[i], c, R)
      BY <1>6 DEF Sane, Loaded, c
    <3>2. CASE i = m
      BY <3>1, <3>2, <1>1, <1>4, <1>6 DEF PacketOK, Proper, k
    <3>3. CASE i # m
      <4>1. q[i] = T.queue[i]
        BY <3>3, <1>6 DEF Mine
      <4> QED BY <3>1, <4>1, <1>1 DEF PacketOK
    <3> QED BY <3>2, <3>3
  <2> QED BY <2>1, <2>2, <1>9, <1>11 DEF Loaded, Live
<1>14. ~Live(T, p) /\ ~Live(U, p)
  BY <1>1, <1>9, <1>11 DEF Live, c
<1> QED BY <1>2, <1>7, <1>10, <1>12, <1>13, <1>14 DEF Announced, Sane, Fresh

\* _mdns_announce_pcb while the PCB runs: a packet of its own.
LEMMA AnnouncesNews ==
  ASSUME NEW T, Server(T), NEW p \in Pcbs, NEW R, NEW svcs, NEW ip, Proper(R, svcs, ip),
         Sane(T, R, p), p \in T.open, T.pcb[p].state = RUNNING
  PROVE  Announced(T, [T EXCEPT !.pcb[p].state = ANNOUNCE_1,
                                !.queue = Schedule(@, AnnouncePacket(p, svcs, ip), 0)], R, p)
<1> DEFINE c == T.pcb[p]
           d == InState(c, ANNOUNCE_1)
           k == AnnouncePacket(p, svcs, ip)
           q == Schedule(T.queue, k, 0)
           V == WithQueue(T, q)
           U == WithPcb(V, p, d)
<1>0. T \in Servers /\ c \in PcbType /\ T.queue \in Seq(Packets) /\ Sorted(T.queue)
  BY ServerFields DEF Server
<1>1. c.services = <<>> /\ ~c.running /\ ~Probing(c)
  <2>1. ~Live(T, p)
    BY <1>0, Phases DEF Live
  <2> QED BY <1>0, <2>1, Phases DEF Sane, Quiet
<1>3. /\ k \in Packets /\ k.pcb = p /\ k.kind = "announce" /\ k.q = <<>> /\ k.recs = ToSet(svcs)
      /\ k.host = IF ip THEN "servers" ELSE "none"
  BY AnnouncePackets DEF Proper
<1>5. d \in PcbType /\ d.state = ANNOUNCE_1 /\ d.services = <<>> /\ d.running = c.running
  BY <1>0, <1>1, AllStates, StatePcb
<1> HIDE DEF d, k
<1>6. Scheduled(T.queue, q, k)
  BY <1>0, <1>3, ScheduleQueue
<1>7. U = [T EXCEPT !.pcb[p].state = ANNOUNCE_1,
                    !.queue = Schedule(@, AnnouncePacket(p, svcs, ip), 0)]
  BY <1>0 DEF U, V, q, d, c, k, WithPcb, WithQueue, InState, Servers
<1> HIDE DEF q, c
<1>8. Turn(T, V, p) /\ V.pcb = T.pcb /\ V.queue = q
  BY <1>0, <1>3, <1>6, QueueTurn DEF Scheduled
<1> HIDE DEF V
<1>9. Turn(V, U, p) /\ U.pcb[p] = d /\ U.queue = q
  BY <1>5, <1>8, PcbTurn DEF Turn
<1> HIDE DEF U
<1>10. Turn(T, U, p) /\ p \in U.open
  BY <1>8, <1>9, TurnTurn DEF Turn
<1>11. ~Probing(d) /\ Announcing(d) /\ d.state \notin {OFF, DUP}
  BY <1>5, Phases
<1>12. Quiet(U, R, p)
  BY <1>1, <1>5, <1>9, <1>10, <1>11, Nothing DEF Quiet, Live
<1>13. Loaded(U, R, p)
  <2>1. \E i \in Mine(q, p) : News(q[i])
    <3>1. PICK i \in Mine(q, p) : Like(q[i], k)
      BY <1>3, <1>6 DEF Scheduled, Has
    <3>2. svcs # <<>> => ToSet(svcs) # {}
      BY NoElement DEF Proper
    <3> QED BY <1>3, <3>1, <3>2 DEF News, Like, Proper
  <2>2. ASSUME NEW i \in Mine(q, p) PROVE PacketOK(q[i], d, R)
    <3>1. CASE Like(q[i], k)
      BY <3>1, <1>3, Nothing DEF PacketOK, Like, Proper
    <3>2. CASE Has(T.queue, p, q[i])
      <4>1. PICK j \in Mine(T.queue, p) : Like(T.queue[j], q[i])
        BY <3>2 DEF Has
      <4>2. PacketOK(T.queue[j], c, R)
        BY DEF Sane, Loaded, c
      <4> QED BY <1>1, <4>1, <4>2 DEF PacketOK, Like
    <3> QED BY <3>1, <3>2, <1>3, <1>6 DEF Scheduled
  <2> QED BY <2>1, <2>2, <1>9, <1>11 DEF Loaded, Live
<1>14. ~Live(T, p) /\ ~Live(U, p)
  BY <1>1, <1>9, <1>11 DEF Live, c
<1> QED BY <1>7, <1>10, <1>12, <1>13, <1>14 DEF Announced, Sane, Fresh

\* _mdns_announce_pcb: a PCB that probes goes on probing.
LEMMA Announces ==
  ASSUME NEW T, Server(T), NEW p \in Pcbs, NEW R, NEW svcs, NEW ip, Proper(R, svcs, ip),
         Sane(T, R, p)
  PROVE  Announced(T, AnnouncePcb(T, p, svcs, ip), R, p)
<1> DEFINE U == AnnouncePcb(T, p, svcs, ip)
           c == T.pcb[p]
           mine == {i \in DOMAIN T.queue : T.queue[i].pcb = p}
<1>0. Announced(T, T, R, p)
  BY KeptKept DEF Announced, Turn, Fresh
<1>1. mine = Mine(T.queue, p)
  <2>1. DOMAIN T.queue = 1 .. Len(T.queue)
    BY LenProperties, ServerFields DEF Server
  <2> QED BY <2>1 DEF Mine
<1>2. c \in PcbType
  BY ServerFields DEF Server
<1>3. CASE p \notin T.open
  BY <1>0, <1>3 DEF AnnouncePcb
<1>4. CASE p \in T.open /\ Probing(c)
  <2>0. ~Announcing(c) /\ c.state # RUNNING
    BY <1>2, <1>4, Phases
  <2>1. U = InitProbe(T, p, svcs, ip)
    BY <1>4, <2>0 DEF AnnouncePcb
  <2> QED BY <1>4, <2>1, AnnouncesProbing DEF Live
<1>5. CASE p \in T.open /\ Announcing(c)
  <2>1. ~Probing(c)
    BY <1>2, <1>5, Phases
  <2>2. mine # {} /\ Announced(T, [T EXCEPT !.queue[First(mine)] = WithAnswers(@, svcs, ip), !.pcb[p].state = ANNOUNCE_1], R, p)
    <3> DEFINE m == First(Mine(T.queue, p))
    <3>1. m = First(Mine(T.queue, p))
      OBVIOUS
    <3> HIDE DEF m
    <3>2. /\ Mine(T.queue, p) # {}
          /\ Announced(T, [T EXCEPT !.queue[m] = WithAnswers(@, svcs, ip), !.pcb[p].state = ANNOUNCE_1], R, p)
      BY <1>5, <3>1, AnnouncesMore
    <3> QED BY <3>1, <3>2, <1>1
  <2>3. U = [T EXCEPT !.queue[First(mine)] = WithAnswers(@, svcs, ip), !.pcb[p].state = ANNOUNCE_1]
    <3>1. c.state # RUNNING
      BY <1>2, <1>5, Phases
    <3> QED BY <1>5, <2>1, <2>2, <3>1 DEF AnnouncePcb
  <2> QED BY <2>2, <2>3
<1>6. CASE p \in T.open /\ c.state = RUNNING
  <2>1. ~Probing(c) /\ ~Announcing(c)
    BY <1>2, <1>6, Phases
  <2>2. CASE T.host
    BY <1>6, <2>1, <2>2, AnnouncesNews DEF AnnouncePcb
  <2>3. CASE ~T.host
    BY <1>0, <1>6, <2>1, <2>3 DEF AnnouncePcb
  <2> QED BY <2>2, <2>3
<1> QED
  <2>1. p \in T.open => c.state # OFF
    BY DEF Sane, Quiet
  <2> QED BY <1>2, <1>3, <1>4, <1>5, <1>6, <2>1, Phases

\* What the loops over the PCBs keep that announce and close.
Moved(T, U, R) ==
  /\ Server(U) /\ U.open \subseteq T.open /\ U.host = T.host /\ U.own = T.own
  /\ \A p \in Pcbs : Sane(U, R, p) /\ Fresh(T, U, p) /\ ProbesOn(T, U, p)

\* A turn of p that announces, after what went before.
LEMMA MovedOn ==
  ASSUME NEW T, NEW U, NEW V, NEW R, NEW p \in Pcbs, Moved(T, U, R), Announced(U, V, R, p)
  PROVE  Moved(T, V, R)
<1>1. ASSUME NEW o \in Pcbs PROVE Sane(V, R, o) /\ Fresh(T, V, o) /\ ProbesOn(T, V, o)
  <2>1. Sane(U, R, o) /\ Fresh(T, U, o) /\ ProbesOn(T, U, o)
    BY DEF Moved
  <2>2. Sane(V, R, o) /\ Fresh(U, V, o) /\ (Live(U, o) => Live(V, o))
    <3>1. CASE o = p
      BY <3>1 DEF Announced
    <3>2. CASE o # p
      <4>1. Kept(U, V, o)
        BY <3>2 DEF Announced, Turn
      <4> QED BY <2>1, <4>1, KeptSane, KeptFresh DEF Sane
    <3> QED BY <3>1, <3>2
  <2>3. V.open = U.open
    BY DEF Announced, Turn
  <2> QED BY <2>1, <2>2, <2>3, FreshFresh DEF ProbesOn
<1>2. Server(V) /\ V.open \subseteq T.open /\ V.host = T.host /\ V.own = T.own
  BY DEF Announced, Turn, Moved
<1> QED BY <1>1, <1>2 DEF Moved

\* Nothing is a move.
LEMMA MovedNot ==
  ASSUME NEW T, Server(T), NEW R, \A p \in Pcbs : Sane(T, R, p)
  PROVE  Moved(T, T, R)
BY DEF Moved, Fresh, ProbesOn

\* A step of _mdns_announce_all_pcbs.
LEMMA AnnouncesAll ==
  ASSUME NEW T, Server(T), NEW R, NEW svcs, NEW ip, Proper(R, svcs, ip),
         \A p \in Pcbs : Sane(T, R, p)
  PROVE  Moved(T, AnnounceAll(T, svcs, ip), R)
<1> DEFINE L == Len(PcbOrder)
           Op(U, n) == AnnouncePcb(U, PcbOrder[n], svcs, ip)
           E == {U \in Servers : Moved(T, U, R)}
           D == [n \in 0 .. L |-> E]
           h == [a \in (1 .. L) \X Servers |-> Op(a[2], a[1])]
           f[n \in 0 .. L] == IF n = 0 THEN T ELSE Op(f[n - 1], n)
<1>1. L \in Nat
  BY ResponderAssumption
<1>2. T \in E
  BY MovedNot DEF Server
<1>3. ASSUME NEW n \in 1 .. L, NEW U \in E
      PROVE  h[<<n, U>>] = Op(U, n) /\ Op(U, n) \in E
  <2>1. PcbOrder[n] \in Pcbs
    BY ResponderAssumption
  <2>2. U \in Servers /\ Moved(T, U, R)
    OBVIOUS
  <2>3. Announced(U, Op(U, n), R, PcbOrder[n])
    <3>1. Server(U) /\ Sane(U, R, PcbOrder[n])
      BY <2>1, <2>2 DEF Moved
    <3> QED BY <2>1, <3>1, Announces
  <2> HIDE DEF Op
  <2>4. Moved(T, Op(U, n), R)
    BY <2>1, <2>2, <2>3, MovedOn
  <2>5. Op(U, n) \in Servers
    BY <2>4 DEF Moved, Server
  <2> QED BY <2>2, <2>4, <2>5
<1>4. PICK g \in [0 .. L -> Servers] :
          /\ g[0] = T /\ \A n \in 1 .. L : g[n] = h[<<n, g[n - 1]>>]
          /\ \A n \in 0 .. L : g[n] \in D[n]
  <2>1. \A n \in 0 .. L : D[n] \subseteq Servers
    OBVIOUS
  <2>2. T \in D[0]
    BY <1>1, <1>2
  <2>3. \A n \in 1 .. L : \A U \in D[n - 1] : h[<<n, U>>] \in D[n]
    <3>1. \A n \in 1 .. L : D[n - 1] = E /\ D[n] = E
      BY <1>1
    <3> HIDE DEF D, E, h, Op
    <3> QED BY <1>3, <3>1
  <2> HIDE DEF L, D, h, Op, f
  <2>4. LoopSteps(L, Servers, D, T, h)
    BY <1>1, <2>1, <2>2, <2>3 DEF LoopSteps
  <2> QED BY <2>4, FoldExists
<1>5. g = [n \in 0 .. L |-> IF n = 0 THEN T ELSE Op(g[n - 1], n)]
  <2>1. \A n \in 0 .. L : g[n] \in E
    BY <1>4
  <2> HIDE DEF L, E, D, h, Op, f
  <2>2. ASSUME NEW n \in 1 .. L PROVE g[n] = Op(g[n - 1], n)
    <3>1. n - 1 \in 0 .. L
      BY <1>1
    <3> QED BY <2>1, <3>1, <1>3, <1>4
  <2>3. \A n \in 0 .. L : g[n] = IF n = 0 THEN T ELSE Op(g[n - 1], n)
    BY <1>1, <1>4, <2>2
  <2> QED BY <2>3
<1>6. f = [n \in 0 .. L |-> IF n = 0 THEN T ELSE Op(f[n - 1], n)]
  BY <1>5
<1>7. AnnounceAll(T, svcs, ip) = f[L]
  BY DEF AnnounceAll, Loop
<1> HIDE DEF f
<1>8. f[0] \in D[0] /\ \A n \in 1 .. L : f[n - 1] \in D[n - 1] => f[n] \in D[n]
  <2>1. f[0] = T /\ \A n \in 1 .. L : f[n] = Op(f[n - 1], n)
    <3> HIDE DEF Op, L
    <3> QED BY <1>1, <1>6
  <2>2. \A n \in 0 .. L : D[n] = E
    OBVIOUS
  <2>3. \A n \in 1 .. L : n - 1 \in 0 .. L /\ n \in 0 .. L
    BY <1>1
  <2>4. 0 \in 0 .. L
    BY <1>1
  <2> HIDE DEF Op, D, E, L, h
  <2>5. D[0] = E
    BY <2>2, <2>4
  <2>6. ASSUME NEW n \in 1 .. L, f[n - 1] \in D[n - 1] PROVE f[n] \in D[n]
    <3>1. D[n - 1] = E /\ D[n] = E /\ f[n] = Op(f[n - 1], n)
      BY <2>1, <2>2, <2>3
    <3> QED BY <3>1, <2>6, <1>3
  <2> QED BY <1>2, <2>1, <2>5, <2>6
<1>9. f[L] \in D[L]
  <2> HIDE DEF D, L
  <2>1. \A n \in 0 .. L : f[n] \in D[n]
    BY <1>1, <1>8, Carried
  <2> QED BY <1>1, <2>1
<1> QED BY <1>1, <1>7, <1>9

-----------------------------------------------------------------------------
\* p is closed between T and U.
Closing(T, U, p) ==
  /\ Server(U) /\ U.open = T.open \ {p} /\ U.host = T.host /\ U.own = T.own
  /\ \A o \in Pcbs : o # p => Kept(T, U, o)

\* The server without the socket of p.
WithOpen(T, o, m) == [T EXCEPT !.open = o, !.main = m]

\* U is T but for the sockets.
OnlyOpen(T, U, o, m) ==
  /\ U \in Servers /\ U.queue = T.queue /\ U.pcb = T.pcb /\ U.open = o
  /\ U.main = m /\ U.host = T.host /\ U.own = T.own

\* Storing the open sockets changes nothing else.
LEMMA OpenSet ==
  ASSUME NEW T \in Servers, NEW o \in SUBSET Pcbs, NEW m \in BOOLEAN
  PROVE  OnlyOpen(T, WithOpen(T, o, m), o, m)
BY DEF Servers, WithOpen, OnlyOpen

\* mdns_pcb_deinit_local closes the socket, clears the PCB and leaves no packet for it.
LEMMA Closes ==
  ASSUME NEW T, Server(T), NEW p \in Pcbs, p \in T.open
  PROVE  LET U == DeinitLocal([T EXCEPT !.queue = ClearPcbQueue(@, p)], p)
         IN  Closing(T, U, p) /\ U.pcb[p] = PcbInit /\ Mine(U.queue, p) = {}
<1> DEFINE Z == [T EXCEPT !.queue = ClearPcbQueue(@, p)]
           m == IF \E o \in Z.open : o # p /\ If(o) = If(p) THEN Z.main ELSE Z.open # {p} /\ Z.main
           V == WithOpen(Z, Z.open \ {p}, m)
           U == WithPcb(V, p, PcbInit)
<1>1. Turn(T, Z, p) /\ Z.pcb = T.pcb /\ Mine(Z.queue, p) = {}
  BY Clearing
<1>2. DeinitLocal(Z, p) = U
  BY DEF DeinitLocal, NetClose, WithOpen, WithPcb
<1> HIDE DEF Z
<1>3. Z \in Servers /\ Z.open = T.open /\ (Z.main <=> Z.open # {})
  BY <1>1 DEF Turn, Server
<1>4. m \in BOOLEAN /\ (m <=> Z.open \ {p} # {}) /\ Z.open \ {p} \in SUBSET Pcbs
  <2>1. Z.main = TRUE /\ p \in Z.open /\ Z.open \in SUBSET Pcbs
    BY <1>3, ServerFields
  <2>2. CASE \E o \in Z.open : o # p /\ If(o) = If(p)
    BY <2>1, <2>2
  <2>3. CASE ~\E o \in Z.open : o # p /\ If(o) = If(p)
    <3>1. m = (Z.open # {p})
      BY <2>1, <2>3
    <3> QED BY <2>1, <3>1
  <2> QED BY <2>2, <2>3
<1> HIDE DEF m
<1>5. OnlyOpen(Z, V, Z.open \ {p}, m)
  BY <1>3, <1>4, OpenSet
<1>6. PcbInit \in PcbType
  BY EmptySeq, AllStates DEF PcbInit, PcbType
<1> HIDE DEF V
<1>7. OnlyPcb(V, U, p, PcbInit)
  BY <1>5, <1>6, PcbSet DEF OnlyOpen
<1> HIDE DEF U
<1>8. /\ U \in Servers /\ U.queue = Z.queue /\ U.open = T.open \ {p} /\ U.main = m /\ U.host = T.host
      /\ U.own = T.own /\ U.pcb[p] = PcbInit /\ \A o \in Pcbs : o # p => U.pcb[o] = T.pcb[o]
  BY <1>1, <1>3, <1>5, <1>7 DEF OnlyOpen, OnlyPcb, Turn
<1>9. Server(U)
  BY <1>1, <1>3, <1>4, <1>8 DEF Server, Turn
<1>10. ASSUME NEW o \in Pcbs, o # p PROVE Kept(T, U, o)
  <2>1. Kept(T, Z, o)
    BY <1>1, <1>10 DEF Turn
  <2> QED BY <2>1, <1>3, <1>8, <1>10 DEF Kept
<1> QED BY <1>1, <1>2, <1>8, <1>9, <1>10 DEF Closing, Z

\* A closed PCB without packets is sane.
LEMMA ClosedSane ==
  ASSUME NEW T, NEW R, NEW p, p \notin T.open, T.pcb[p].state \in {OFF, DUP},
         T.pcb[p].running = FALSE, T.pcb[p].services = <<>>, Mine(T.queue, p) = {}
  PROVE  Sane(T, R, p) /\ ~Live(T, p)
BY Nothing DEF Sane, Quiet, Loaded, Live, Announcing, OFF, DUP, PROBE_3

-----------------------------------------------------------------------------
(* Interfaces.                                                             *)

\* A PCB that announces did so before.
NoNews(T, U, p) == Announcing(U.pcb[p]) => Announcing(T.pcb[p])

\* What the interface events, the probing calls and the removal of a service keep.
Shifted(T, U, R) ==
  /\ Server(U) /\ U.host = T.host /\ U.own = T.own
  /\ \A p \in Pcbs : Sane(U, R, p) /\ Fresh(T, U, p) /\ NoNews(T, U, p)

\* Shifted is transitive.
LEMMA ShiftedOn ==
  ASSUME NEW T, NEW U, NEW V, NEW R, Shifted(T, U, R), Shifted(U, V, R)
  PROVE  Shifted(T, V, R)
<1>1. ASSUME NEW p \in Pcbs PROVE Sane(V, R, p) /\ Fresh(T, V, p) /\ NoNews(T, V, p)
  <2>1. Sane(V, R, p) /\ Fresh(T, U, p) /\ Fresh(U, V, p) /\ NoNews(T, U, p) /\ NoNews(U, V, p)
    BY DEF Shifted
  <2> QED BY <2>1, FreshFresh DEF NoNews
<1> QED BY <1>1 DEF Shifted

\* Moved is transitive.
LEMMA MovedMoved ==
  ASSUME NEW T, NEW U, NEW V, NEW R, Moved(T, U, R), Moved(U, V, R)
  PROVE  Moved(T, V, R)
<1>1. ASSUME NEW p \in Pcbs PROVE Sane(V, R, p) /\ Fresh(T, V, p) /\ ProbesOn(T, V, p)
  <2>1. Sane(V, R, p) /\ Fresh(T, U, p) /\ Fresh(U, V, p) /\ ProbesOn(T, U, p) /\ ProbesOn(U, V, p)
    BY DEF Moved
  <2>2. V.open \subseteq U.open
    BY DEF Moved
  <2> QED BY <2>1, <2>2, FreshFresh DEF ProbesOn
<1> QED BY <1>1 DEF Moved

\* A PCB without a socket, packets or probes, ...
Idle(T, p) ==
  /\ p \notin T.open /\ T.pcb[p].running = FALSE /\ T.pcb[p].services = <<>>
  /\ Mine(T.queue, p) = {}

\* A closed PCB has nothing to do.
LEMMA ClosedIdle ==
  ASSUME NEW T, Server(T), NEW R, NEW p \in Pcbs, Quiet(T, R, p), p \notin T.open
  PROVE  Idle(T, p)
<1>1. T.pcb[p] \in PcbType
  BY ServerFields DEF Server
<1>2. T.pcb[p].running \in BOOLEAN
  BY <1>1, PcbFields
<1> QED BY <1>2 DEF Quiet, Idle, Live

\* ... and the same PCB once it is marked off or a duplicate.
LEMMA Marked ==
  ASSUME NEW T, Server(T), NEW R, NEW p \in Pcbs, Idle(T, p), NEW x \in {OFF, DUP}
  PROVE  LET U == [T EXCEPT !.pcb[p].state = x]
         IN  Turn(T, U, p) /\ Sane(U, R, p) /\ Idle(U, p) /\ ~Live(U, p) /\ ~Announcing(U.pcb[p])
<1> DEFINE c == T.pcb[p]
           d == InState(c, x)
           U == WithPcb(T, p, d)
<1>1. c \in PcbType /\ x \in States
  BY AllStates, ServerFields DEF Server
<1>2. d \in PcbType /\ d.state = x /\ d.services = c.services /\ d.running = c.running
  BY <1>1, StatePcb
<1>3. [T EXCEPT !.pcb[p].state = x] = U
  BY DEF WithPcb, InState
<1> HIDE DEF d
<1>4. Turn(T, U, p) /\ U.pcb[p] = d /\ U.queue = T.queue
  BY <1>2, PcbTurn
<1> HIDE DEF U
<1>5. p \notin U.open
  BY <1>4 DEF Turn, Idle
<1>6. Idle(U, p)
  BY <1>2, <1>4, <1>5 DEF Idle
<1>7. U.pcb[p].state \in {OFF, DUP}
  BY <1>2, <1>4
<1>8. Sane(U, R, p) /\ ~Live(U, p)
  BY <1>6, <1>7, ClosedSane DEF Idle
<1>9. ~Announcing(U.pcb[p])
  BY <1>7 DEF Announcing, OFF, DUP, PROBE_3
<1> QED BY <1>3, <1>4, <1>6, <1>8, <1>9

\* What a turn of p is for the others.
LEMMA TurnShifted ==
  ASSUME NEW T, NEW U, NEW R, NEW p \in Pcbs, Turn(T, U, p), \A o \in Pcbs : Sane(T, R, o),
         Sane(U, R, p), Fresh(T, U, p), NoNews(T, U, p)
  PROVE  Shifted(T, U, R)
<1>1. ASSUME NEW o \in Pcbs PROVE Sane(U, R, o) /\ Fresh(T, U, o) /\ NoNews(T, U, o)
  <2>1. CASE o = p
    BY <2>1
  <2>2. CASE o # p
    <3>1. Kept(T, U, o)
      BY <2>2 DEF Turn
    <3> QED BY <3>1, KeptSane, KeptFresh DEF Sane, NoNews
  <2> QED BY <2>1, <2>2
<1> QED BY <1>1 DEF Shifted, Turn

\* Marking a closed PCB is no news for anyone.
LEMMA MarkedShifted ==
  ASSUME NEW T, Server(T), NEW R, \A o \in Pcbs : Sane(T, R, o), NEW p \in Pcbs, p \notin T.open,
         NEW x \in {OFF, DUP}
  PROVE  LET U == [T EXCEPT !.pcb[p].state = x]
         IN  Shifted(T, U, R) /\ U.open = T.open
<1> DEFINE U == [T EXCEPT !.pcb[p].state = x]
<1>1. Idle(T, p)
  BY ClosedIdle DEF Sane
<1>2. Turn(T, U, p) /\ Sane(U, R, p) /\ ~Live(U, p) /\ ~Announcing(U.pcb[p])
  BY <1>1, Marked
<1> HIDE DEF U
<1>3. Fresh(T, U, p) /\ NoNews(T, U, p)
  BY <1>2 DEF Fresh, NoNews
<1>4. Shifted(T, U, R) /\ U.open = T.open
  BY <1>2, <1>3, TurnShifted DEF Turn
<1> QED BY <1>4 DEF U

-----------------------------------------------------------------------------
\* The server once the socket of p is open.
LEMMA Opens ==
  ASSUME NEW T, Server(T), NEW p \in Pcbs
  PROVE  LET U == NetOpen(T, p)
         IN  /\ Server(U) /\ U.open = T.open \cup {p} /\ U.host = T.host /\ U.own = T.own
             /\ U.pcb = T.pcb /\ U.queue = T.queue /\ \A o \in Pcbs : o # p => Kept(T, U, o)
<1> DEFINE U == WithOpen(T, T.open \cup {p}, TRUE)
<1>1. T.open \cup {p} \in SUBSET Pcbs
  BY ServerFields DEF Server
<1>2. OnlyOpen(T, U, T.open \cup {p}, TRUE)
  BY <1>1, OpenSet DEF Server
<1>3. NetOpen(T, p) = U
  BY DEF NetOpen, WithOpen
<1> HIDE DEF U
<1>4. \A o \in Pcbs : o # p => Kept(T, U, o)
  BY <1>2, SameSame DEF OnlyOpen, Kept
<1>5. Server(U)
  BY <1>2 DEF Server, OnlyOpen
<1> QED BY <1>2, <1>3, <1>4, <1>5 DEF OnlyOpen

\* What _mdns_enable_pcb leaves: T is a server that does not know p yet, or a sane one.
LEMMA Enables ==
  ASSUME NEW T, Server(T), NEW R, \A o \in Pcbs : Sane(T, R, o), NEW p \in Pcbs,
         NEW joins \in BOOLEAN, NEW svcs \in Seq(Services), ToSet(svcs) \subseteq R, IsInjective(svcs)
  PROVE  LET U == EnablePcb(T, p, joins, svcs)
         IN  Shifted(T, U, R) /\ U.open \subseteq T.open \cup {p}
<1> DEFINE U == EnablePcb(T, p, joins, svcs)
           O == IF p \in T.open THEN T ELSE NetOpen(T, p)
<1>1. Quiet(T, R, p)
  BY DEF Sane
<1>2. CASE p \in T.open \/ joins
  <2>1. /\ Server(O) /\ O.open = T.open \cup {p} /\ O.host = T.host /\ O.own = T.own
        /\ O.pcb = T.pcb /\ \A o \in Pcbs : o # p => Kept(T, O, o)
    <3>1. CASE p \in T.open
      BY <3>1, KeptKept
    <3>2. CASE p \notin T.open
      BY <3>2, Opens
    <3> QED BY <3>1, <3>2
  <2>2. U = InitProbe(O, p, svcs, TRUE)
    BY <1>2 DEF EnablePcb, RestartPcb
  <2> HIDE DEF U, O
  <2>3. Startable(O, R, p, svcs, TRUE)
    <3>1. T.pcb[p].running \in BOOLEAN
      BY ServerFields, PcbFields DEF Server
    <3>2. T.host \/ (T.pcb[p].services = <<>> /\ ~T.pcb[p].running)
      BY <1>1, <3>1 DEF Quiet
    <3> QED BY <1>1, <2>1, <3>2 DEF Startable, Quiet
  <2> DEFINE ip == TRUE
  <2>4. LET W == InitProbe(O, p, svcs, ip)
        IN  /\ Turn(O, W, p) /\ Sane(W, R, p)
            /\ W.pcb[p].state = IF O.host THEN PROBE_1 ELSE RUNNING
    <3>1. Startable(O, R, p, svcs, ip)
      BY <2>3
    <3> HIDE DEF ip
    <3> QED BY <2>1, <3>1, Probes
  <2>5. Turn(O, U, p) /\ Sane(U, R, p) /\ U.pcb[p].state \in {PROBE_1, RUNNING}
    BY <2>2, <2>4
  <2>6. ~Announcing(U.pcb[p]) /\ Fresh(T, U, p)
    BY <2>5 DEF Announcing, Fresh, Live, Probing, PROBE_1, PROBE_3, RUNNING, ANNOUNCE_1
  <2>7. ASSUME NEW o \in Pcbs PROVE Sane(U, R, o) /\ Fresh(T, U, o) /\ NoNews(T, U, o)
    <3>1. CASE o = p
      BY <3>1, <2>5, <2>6 DEF NoNews
    <3>2. CASE o # p
      <4>1. Kept(T, O, o) /\ Kept(O, U, o)
        BY <3>2, <2>1, <2>5 DEF Turn
      <4>2. Kept(T, U, o)
        BY <4>1, KeptKept
      <4> QED BY <4>2, KeptSane, KeptFresh DEF Sane, NoNews
    <3> QED BY <3>1, <3>2
  <2> QED BY <2>1, <2>5, <2>7 DEF Shifted, Turn, U
<1>3. CASE p \notin T.open /\ ~joins
  <2> DEFINE c == T.pcb[p]
             d == [c EXCEPT !.failed = 0]
             V == WithPcb(T, p, d)
  <2>1. U = V
    BY <1>3 DEF EnablePcb, WithPcb
  <2>2. c \in PcbType
    BY ServerFields DEF Server
  <2>3. d \in PcbType /\ d.state = c.state /\ d.services = c.services /\ d.running = c.running
    <3> HIDE DEF c, States
    <3> QED BY <2>2 DEF PcbType
  <2>4. Idle(T, p) /\ c.state \in {OFF, DUP}
    BY <1>1, <1>3, ClosedIdle DEF Quiet
  <2> HIDE DEF d
  <2>5. Turn(T, V, p) /\ V.pcb[p] = d /\ V.queue = T.queue
    BY <2>3, PcbTurn
  <2> HIDE DEF V, U
  <2>6. Sane(V, R, p) /\ ~Live(V, p)
    BY <1>3, <2>3, <2>4, <2>5, ClosedSane DEF Idle, Turn
  <2>7. ~Announcing(V.pcb[p])
    BY <2>3, <2>4, <2>5 DEF Announcing, OFF, DUP, PROBE_3
  <2>8. Fresh(T, V, p) /\ NoNews(T, V, p)
    BY <2>6, <2>7 DEF Fresh, NoNews
  <2>9. Shifted(T, V, R) /\ V.open = T.open
    BY <2>5, <2>6, <2>8, TurnShifted DEF Turn
  <2> QED BY <2>1, <2>9 DEF U
<1> QED BY <1>2, <1>3

\* _mdns_disable_pcb, with the duplicate interface that it sets free.
LEMMA Disables ==
  ASSUME NEW T, Server(T), NEW R, \A o \in Pcbs : Sane(T, R, o), NEW p \in Pcbs,
         NEW joins \in BOOLEAN, NEW svcs \in Seq(Services), ToSet(svcs) \subseteq R, IsInjective(svcs)
  PROVE  Shifted(T, DisablePcb(T, p, joins, svcs), R)
<1> DEFINE closed == DeinitLocal([T EXCEPT !.queue = ClearPcbQueue(@, p)], p)
           o == Twin(p)
           off == [closed EXCEPT !.pcb[o].state = OFF]
           freed == IF o # p /\ o \in Pcbs /\ T.pcb[o].state = DUP
                    THEN EnablePcb(off, o, joins, svcs) ELSE closed
           U == IF p \in T.open THEN freed ELSE T
<1>1. Shifted(T, U, R) /\ p \notin U.open
  <2>1. CASE p \notin T.open
    <3>1. Shifted(T, T, R)
      BY KeptKept, KeptFresh DEF Shifted, NoNews
    <3> QED BY <2>1, <3>1
  <2>2. CASE p \in T.open
    <3>1. Closing(T, closed, p) /\ closed.pcb[p] = PcbInit /\ Mine(closed.queue, p) = {}
      BY <2>2, Closes
    <3> HIDE DEF closed
    <3>2. Shifted(T, closed, R) /\ closed.open = T.open \ {p}
      <4>1. ASSUME NEW q \in Pcbs PROVE Sane(closed, R, q) /\ Fresh(T, closed, q) /\ NoNews(T, closed, q)
        <5>1. CASE q = p
          <6>1. p \notin closed.open /\ PcbInit.state = OFF /\ PcbInit.running = FALSE /\ PcbInit.services = <<>>
            BY <3>1 DEF Closing, PcbInit
          <6>2. Sane(closed, R, p) /\ ~Live(closed, p)
            BY <3>1, <6>1, ClosedSane
          <6>3. ~Announcing(closed.pcb[p])
            BY <3>1, <6>1 DEF Announcing, OFF, PROBE_3
          <6> QED BY <5>1, <6>2, <6>3 DEF Fresh, NoNews
        <5>2. CASE q # p
          <6>1. Kept(T, closed, q)
            BY <3>1, <5>2 DEF Closing
          <6> QED BY <6>1, KeptSane, KeptFresh DEF Sane, NoNews
        <5> QED BY <5>1, <5>2
      <4> QED BY <3>1, <4>1 DEF Closing, Shifted
    <3>3. CASE o # p /\ o \in Pcbs /\ T.pcb[o].state = DUP
      <4>1. o \notin T.open /\ o \notin closed.open
        BY <3>2, <3>3 DEF Sane, Quiet
      <4> HIDE DEF o
      <4>2. Shifted(closed, off, R) /\ off.open = closed.open
        BY <3>2, <3>3, <4>1, MarkedShifted DEF Shifted
      <4> HIDE DEF off
      <4>3. Shifted(off, EnablePcb(off, o, joins, svcs), R)
            /\ EnablePcb(off, o, joins, svcs).open \subseteq off.open \cup {o}
        <5>1. Server(off) /\ \A q \in Pcbs : Sane(off, R, q)
          BY <4>2 DEF Shifted
        <5> QED BY <3>3, <5>1, Enables
      <4>4. Shifted(T, off, R)
        BY <3>2, <4>2, ShiftedOn
      <4>5. Shifted(T, EnablePcb(off, o, joins, svcs), R)
        BY <4>3, <4>4, ShiftedOn
      <4>6. U = EnablePcb(off, o, joins, svcs)
        BY <2>2, <3>3
      <4> HIDE DEF U, freed
      <4> QED BY <3>2, <3>3, <4>2, <4>3, <4>5, <4>6
    <3>4. CASE ~(o # p /\ o \in Pcbs /\ T.pcb[o].state = DUP)
      <4>1. U = closed
        BY <2>2, <3>4
      <4> QED BY <3>2, <4>1
    <3> QED BY <3>3, <3>4
  <2> QED BY <2>1, <2>2
<1>2. DisablePcb(T, p, joins, svcs) = [U EXCEPT !.pcb[p].state = OFF]
  BY DEF DisablePcb
<1> HIDE DEF U
<1>3. Shifted(U, [U EXCEPT !.pcb[p].state = OFF], R)
  BY <1>1, MarkedShifted DEF Shifted
<1> HIDE DEF closed, off, freed, o
<1> QED BY <1>1, <1>2, <1>3, ShiftedOn

-----------------------------------------------------------------------------
\* _mdns_dup_interface, one PCB of the interface.
LEMMA StepsBack ==
  ASSUME NEW T, Server(T), NEW R, \A o \in Pcbs : Sane(T, R, o), NEW p \in Pcbs
  PROVE  Moved(T, DupPcb(T, p), R)
<1> DEFINE U == IF p \in T.open THEN DeinitLocal([T EXCEPT !.queue = ClearPcbQueue(@, p)], p) ELSE T
           V == [U EXCEPT !.pcb[p].state = DUP]
           W == AnnouncePcb(V, Twin(p), <<>>, TRUE)
<1>1. CASE Twin(p) \notin T.open
  <2>1. DupPcb(T, p) = T
    BY <1>1 DEF DupPcb
  <2> QED BY <2>1, MovedNot
<1>2. CASE Twin(p) \in T.open
  <2>1. DupPcb(T, p) = W
    BY <1>2 DEF DupPcb
  <2>2. /\ Server(U) /\ Idle(U, p) /\ U.open \subseteq T.open /\ U.host = T.host /\ U.own = T.own
        /\ \A o \in Pcbs : o # p => Kept(T, U, o)
    <3>1. CASE p \in T.open
      <4>1. Closing(T, U, p) /\ U.pcb[p] = PcbInit /\ Mine(U.queue, p) = {}
        BY <3>1, Closes
      <4> HIDE DEF U
      <4> QED BY <4>1 DEF Closing, Idle, PcbInit
    <3>2. CASE p \notin T.open
      BY <3>2, ClosedIdle, KeptKept DEF Sane
    <3> QED BY <3>1, <3>2
  <2> HIDE DEF U
  <2>3. Turn(U, V, p) /\ Sane(V, R, p) /\ Idle(V, p) /\ ~Live(V, p)
    BY <2>2, Marked
  <2> HIDE DEF V
  <2>4. ASSUME NEW o \in Pcbs PROVE Sane(V, R, o) /\ Fresh(T, V, o) /\ ProbesOn(T, V, o)
    <3>1. CASE o = p
      BY <3>1, <2>3 DEF Fresh, ProbesOn, Idle
    <3>2. CASE o # p
      <4>1. Kept(T, U, o) /\ Kept(U, V, o)
        BY <3>2, <2>2, <2>3 DEF Turn
      <4>2. Kept(T, V, o)
        BY <4>1, KeptKept
      <4> QED BY <4>2, KeptSane, KeptFresh DEF Sane
    <3> QED BY <3>1, <3>2
  <2>5. Moved(T, V, R)
    BY <2>2, <2>3, <2>4 DEF Moved, Turn
  <2>6. Twin(p) \in Pcbs
    BY <1>2, ServerFields DEF Server
  <2> DEFINE t == Twin(p)
             none == <<>>
             ip == TRUE
  <2>7. Proper(R, none, ip)
    BY EmptySeq, Nothing DEF Proper
  <2>8. W = AnnouncePcb(V, t, none, ip)
    OBVIOUS
  <2> HIDE DEF t, none, ip, W
  <2>9. Announced(V, W, R, t)
    <3>1. t \in Pcbs /\ Server(V) /\ Sane(V, R, t)
      BY <2>3, <2>4, <2>6 DEF t, Turn
    <3> QED BY <3>1, <2>7, <2>8, Announces
  <2>10. Moved(T, W, R)
    BY <2>5, <2>6, <2>9, MovedOn DEF t
  <2> QED BY <2>1, <2>10
<1> QED BY <1>1, <1>2

\* A pass of _mdns_dup_interface.
LEMMA DupStep ==
  ASSUME NEW T, NEW R, NEW U, Moved(T, U, R), NEW p \in Pcbs, NEW f
  PROVE  Moved(T, IF If(p) = f THEN DupPcb(U, p) ELSE U, R)
<1>1. Moved(U, DupPcb(U, p), R)
  BY StepsBack DEF Moved
<1> QED BY <1>1, MovedMoved

\* _mdns_dup_interface.
LEMMA Duplicates ==
  ASSUME NEW T, Server(T), NEW R, \A p \in Pcbs : Sane(T, R, p), NEW i
  PROVE  Moved(T, DupInterface(T, i), R)
<1> DEFINE L == Len(PcbOrder)
           Op(U, n) == IF If(PcbOrder[n]) = i THEN DupPcb(U, PcbOrder[n]) ELSE U
           E == {U \in Servers : Moved(T, U, R)}
           D == [n \in 0 .. L |-> E]
           h == [a \in (1 .. L) \X Servers |-> Op(a[2], a[1])]
           f[n \in 0 .. L] == IF n = 0 THEN T ELSE Op(f[n - 1], n)
<1>1. L \in Nat
  BY ResponderAssumption
<1>2. T \in E
  BY MovedNot DEF Server
<1>3. ASSUME NEW n \in 1 .. L, NEW U \in E
      PROVE  h[<<n, U>>] = Op(U, n) /\ Op(U, n) \in E
  <2>1. PcbOrder[n] \in Pcbs
    BY ResponderAssumption
  <2>2. U \in Servers /\ Moved(T, U, R)
    OBVIOUS
  <2>3. Moved(T, Op(U, n), R)
    BY <2>1, <2>2, DupStep
  <2>4. h[<<n, U>>] = Op(U, n)
    BY <2>2
  <2> HIDE DEF Op, h
  <2>5. Op(U, n) \in Servers
    BY <2>3 DEF Moved, Server
  <2> QED BY <2>3, <2>4, <2>5
<1>4. PICK g \in [0 .. L -> Servers] :
          /\ g[0] = T /\ \A n \in 1 .. L : g[n] = h[<<n, g[n - 1]>>]
          /\ \A n \in 0 .. L : g[n] \in D[n]
  <2>1. \A n \in 0 .. L : D[n] \subseteq Servers
    OBVIOUS
  <2>2. T \in D[0]
    BY <1>1, <1>2
  <2>3. \A n \in 1 .. L : \A U \in D[n - 1] : h[<<n, U>>] \in D[n]
    <3>1. \A n \in 1 .. L : D[n - 1] = E /\ D[n] = E
      BY <1>1
    <3> HIDE DEF D, E, h, Op
    <3> QED BY <1>3, <3>1
  <2> HIDE DEF L, D, h, Op, f
  <2>4. LoopSteps(L, Servers, D, T, h)
    BY <1>1, <2>1, <2>2, <2>3 DEF LoopSteps
  <2> QED BY <2>4, FoldExists
<1>5. g = [n \in 0 .. L |-> IF n = 0 THEN T ELSE Op(g[n - 1], n)]
  <2>1. \A n \in 0 .. L : g[n] \in E
    BY <1>4
  <2> HIDE DEF L, E, D, h, Op, f
  <2>2. ASSUME NEW n \in 1 .. L PROVE g[n] = Op(g[n - 1], n)
    <3>1. n - 1 \in 0 .. L
      BY <1>1
    <3> QED BY <2>1, <3>1, <1>3, <1>4
  <2>3. \A n \in 0 .. L : g[n] = IF n = 0 THEN T ELSE Op(g[n - 1], n)
    BY <1>1, <1>4, <2>2
  <2> QED BY <2>3
<1>6. f = [n \in 0 .. L |-> IF n = 0 THEN T ELSE Op(f[n - 1], n)]
  BY <1>5
<1>7. DupInterface(T, i) = f[L]
  BY DEF DupInterface, Loop
<1> HIDE DEF f
<1>8. f[0] \in D[0] /\ \A n \in 1 .. L : f[n - 1] \in D[n - 1] => f[n] \in D[n]
  <2>1. f[0] = T /\ \A n \in 1 .. L : f[n] = Op(f[n - 1], n)
    <3> HIDE DEF Op, L
    <3> QED BY <1>1, <1>6
  <2>2. \A n \in 0 .. L : D[n] = E
    OBVIOUS
  <2>3. \A n \in 1 .. L : n - 1 \in 0 .. L /\ n \in 0 .. L
    BY <1>1
  <2>4. 0 \in 0 .. L
    BY <1>1
  <2> HIDE DEF Op, D, E, L, h
  <2>5. D[0] = E
    BY <2>2, <2>4
  <2>6. ASSUME NEW n \in 1 .. L, f[n - 1] \in D[n - 1] PROVE f[n] \in D[n]
    <3>1. D[n - 1] = E /\ D[n] = E /\ f[n] = Op(f[n - 1], n)
      BY <2>1, <2>2, <2>3
    <3> QED BY <3>1, <2>6, <1>3
  <2> QED BY <1>2, <2>1, <2>5, <2>6
<1>9. f[L] \in D[L]
  <2> HIDE DEF D, L
  <2>1. \A n \in 0 .. L : f[n] \in D[n]
    BY <1>1, <1>8, Carried
  <2> QED BY <1>1, <2>1
<1> QED BY <1>1, <1>7, <1>9

-----------------------------------------------------------------------------
(* Forgetting a service: what each packet leaves, and the loop over them.  *)

\* Without its first question of the type of s a probe still asks for every service
\* that has its type for itself, and no longer for s if s has.
LEMMA Unasked ==
  ASSUME NEW q \in Seq(Services), NEW s \in Services
  PROVE  /\ DropQuestion(q, s) \in Seq(Services)
         /\ ToSet(DropQuestion(q, s)) \subseteq ToSet(q)
         /\ IsInjective(q) => IsInjective(DropQuestion(q, s))
         /\ \A t \in ToSet(q) : t # s /\ ~HasTwin(t) => t \in ToSet(DropQuestion(q, s))
         /\ IsInjective(q) /\ ~HasTwin(s) => s \notin ToSet(DropQuestion(q, s))
<1> DEFINE same == {i \in DOMAIN q : TypeOf(q[i]) = TypeOf(s)}
           m == First(same)
           w == DropQuestion(q, s)
           N == Len(q)
<1>1. N \in Nat /\ DOMAIN q = 1 .. N /\ \A i \in 1 .. N : q[i] \in Services
  BY LenProperties
<1>2. CASE same = {}
  <2>1. w = q
    BY <1>2 DEF DropQuestion
  <2>2. s \notin ToSet(q)
    BY <1>1, <1>2 DEF ToSet
  <2> QED BY <2>1, <2>2
<1>3. CASE same # {}
  <2>1. w = RemoveAt(q, m)
    BY <1>3 DEF DropQuestion
  <2>2. m \in 1 .. N /\ TypeOf(q[m]) = TypeOf(s)
    <3>1. same \in SUBSET (1 .. N)
      BY <1>1
    <3>2. m \in same
      <4> HIDE DEF same
      <4> QED BY <1>3, <3>1, FirstOf
    <3> QED BY <1>1, <3>2
  <2> HIDE DEF m
  <2>3. w \in Seq(Services) /\ WithoutElement(w, q, m)
    BY <2>1, <2>2, Removed
  <2> HIDE DEF w, same
  <2>4. /\ Len(w) = N - 1 /\ DOMAIN w = 1 .. N - 1
        /\ \A j \in 1 .. N - 1 : \/ j \in 1 .. N /\ j # m /\ w[j] = q[j] /\ j < m
                                 \/ j + 1 \in 1 .. N /\ j + 1 # m /\ w[j] = q[j + 1] /\ ~(j < m)
    BY <1>1, <2>2, <2>3, LenProperties DEF WithoutElement
  <2>5. \A i \in 1 .. N : i # m => \E j \in 1 .. N - 1 : w[j] = q[i]
    <3>1. ASSUME NEW i \in 1 .. N, i < m PROVE \E j \in 1 .. N - 1 : w[j] = q[i]
      BY <3>1, <1>1, <2>2, <2>4
    <3>2. ASSUME NEW i \in 1 .. N, i > m PROVE \E j \in 1 .. N - 1 : w[j] = q[i]
      <4>1. i - 1 \in 1 .. N - 1 /\ ~(i - 1 < m) /\ (i - 1) + 1 = i
        BY <3>2, <1>1, <2>2
      <4> QED BY <4>1, <2>4
    <3> QED BY <3>1, <3>2, <1>1, <2>2
  <2> HIDE DEF N
  <2>6. ToSet(w) = {w[j] : j \in 1 .. N - 1} /\ ToSet(q) = {q[j] : j \in 1 .. N}
    BY <1>1, <2>4 DEF ToSet
  <2>7. ToSet(w) \subseteq ToSet(q)
    BY <2>4, <2>6
  <2>8. ASSUME IsInjective(q) PROVE IsInjective(w)
    <3>1. SUFFICES ASSUME NEW i \in 1 .. N - 1, NEW j \in 1 .. N - 1, w[i] = w[j] PROVE i = j
      BY <2>4 DEF IsInjective
    <3>2. \A a, b \in 1 .. N : q[a] = q[b] => a = b
      BY <1>1, <2>8 DEF IsInjective
    <3>3. CASE i < m /\ j < m
      BY <3>1, <3>2, <3>3, <2>4
    <3>4. CASE i < m /\ ~(j < m)
      <4>1. q[i] = q[j + 1] /\ i \in 1 .. N /\ j + 1 \in 1 .. N
        BY <3>1, <3>4, <2>4
      <4> QED BY <4>1, <3>2, <3>4, <1>1, <2>2
    <3>5. CASE ~(i < m) /\ j < m
      <4>1. q[i + 1] = q[j] /\ i + 1 \in 1 .. N /\ j \in 1 .. N
        BY <3>1, <3>5, <2>4
      <4> QED BY <4>1, <3>2, <3>5, <1>1, <2>2
    <3>6. CASE ~(i < m) /\ ~(j < m)
      <4>1. q[i + 1] = q[j + 1] /\ i + 1 \in 1 .. N /\ j + 1 \in 1 .. N
        BY <3>1, <3>6, <2>4
      <4>2. i + 1 = j + 1
        BY <4>1, <3>2
      <4> QED BY <4>2, <1>1
    <3> QED BY <3>3, <3>4, <3>5, <3>6
  <2>9. ASSUME NEW t \in ToSet(q), t # s, ~HasTwin(t) PROVE t \in ToSet(w)
    <3>1. PICK i \in 1 .. N : t = q[i]
      BY <2>6
    <3>2. TypeOf(t) # TypeOf(s)
      BY <2>9 DEF HasTwin
    <3> QED BY <3>1, <3>2, <2>2, <2>5, <2>6
  <2>10. ASSUME IsInjective(q), ~HasTwin(s) PROVE s \notin ToSet(w)
    <3>1. SUFFICES ASSUME NEW j \in 1 .. N - 1, w[j] = s PROVE FALSE
      BY <2>6
    <3>2. q[m] = s
      BY <1>1, <2>2, <2>10 DEF HasTwin
    <3>3. PICK i \in 1 .. N : i # m /\ q[i] = s
      BY <2>4, <3>1
    <3> QED BY <3>2, <3>3, <1>1, <2>2, <2>10 DEF IsInjective
  <2> QED BY <2>3, <2>7, <2>8, <2>9, <2>10 DEF w
<1> QED BY <1>2, <1>3 DEF w

-----------------------------------------------------------------------------
\* What is left of a packet, and what becomes of its PCB.
Left(k, c, s) ==
  [k EXCEPT !.recs = @ \ {s},
            !.q = IF Probing(c) /\ s \in ToSet(c.services) THEN DropQuestion(@, s) ELSE @]

\* ... and what becomes of its PCB.
After(c, k, s) ==
  LET probed == Without(c.services, {s})
      done == probed = <<>> /\ ~c.ip
  IN  CASE Probing(c) /\ s \in ToSet(c.services) ->
              [(IF done THEN Stopped(c) ELSE c) EXCEPT !.services = probed]
        [] Announcing(c) /\ HasAnswers(k) /\ ~HasAnswers(Left(k, c, s)) -> [c EXCEPT !.state = RUNNING]
        [] OTHER -> c

\* ForgetInPacket, by Left and After.
LEMMA ForgetTurn ==
  ASSUME NEW a, NEW k, NEW s
  PROVE  ForgetInPacket(a, k, s) =
            [pcb |-> [a.pcb EXCEPT ![k.pcb] = After(a.pcb[k.pcb], k, s)],
             queue |-> IF IsEmpty(Left(k, a.pcb[k.pcb], s)) THEN a.queue
                       ELSE Append(a.queue, Left(k, a.pcb[k.pcb], s))]
BY DEF ForgetInPacket, After, Left

\* What Left keeps of a packet.
LEMMA LeftPacket ==
  ASSUME NEW k \in Packets, NEW c, NEW s \in Services
  PROVE  LET l == Left(k, c, s)
         IN  /\ l \in Packets /\ l.pcb = k.pcb /\ l.kind = k.kind /\ l.host = k.host /\ l.at = k.at /\ l.lap = k.lap
             /\ l.recs = k.recs \ {s}
             /\ l.q = IF Probing(c) /\ s \in ToSet(c.services) THEN DropQuestion(k.q, s) ELSE k.q
<1> DEFINE x == IF Probing(c) /\ s \in ToSet(c.services) THEN DropQuestion(k.q, s) ELSE k.q
<1>1. x \in Seq(Services)
  BY Unasked, PacketFields
<1>2. Left(k, c, s) = [k EXCEPT !.recs = @ \ {s}, !.q = x]
  BY DEF Left, Packets
<1> HIDE DEF x
<1>3. LET l == [k EXCEPT !.recs = @ \ {s}, !.q = x]
      IN  /\ l \in Packets /\ l.pcb = k.pcb /\ l.kind = k.kind /\ l.host = k.host /\ l.at = k.at /\ l.lap = k.lap
          /\ l.recs = k.recs \ {s} /\ l.q = x
  BY <1>1 DEF Packets
<1> QED BY <1>2, <1>3 DEF x

\* The three ways of After.
LEMMA AfterProbe ==
  ASSUME NEW c \in PcbType, Probing(c), NEW s \in ToSet(c.services), NEW k
  PROVE  LET d == After(c, k, s)
             done == Without(c.services, {s}) = <<>> /\ ~c.ip
         IN  /\ d \in PcbType /\ d.services = Without(c.services, {s}) /\ d.ip = c.ip
             /\ done => d.running = FALSE /\ d.state = RUNNING
             /\ ~done => d.running = c.running /\ d.state = c.state
<1> DEFINE probed == Without(c.services, {s})
           done == probed = <<>> /\ ~c.ip
           b == IF done THEN Stopped(c) ELSE c
           d == [b EXCEPT !.services = probed]
<1>1. probed \in Seq(Services)
  BY WithoutElements, PcbFields
<1>2. After(c, k, s) = d
  <2>1. ~Announcing(c)
    BY Phases
  <2> QED BY <2>1 DEF After
<1>3. RUNNING \in States
  BY AllStates
<1> HIDE DEF probed, done, States, RUNNING
<1>4. CASE done
  <2>1. b = [c EXCEPT !.running = FALSE, !.state = RUNNING]
    BY <1>4 DEF Stopped
  <2>2. /\ b \in PcbType /\ b.ip = c.ip /\ b.running = FALSE /\ b.state = RUNNING
    BY <2>1, <1>3 DEF PcbType
  <2> HIDE DEF b
  <2>3. /\ d \in PcbType /\ d.services = probed /\ d.ip = b.ip /\ d.running = b.running /\ d.state = b.state
    BY <2>2, <1>1 DEF PcbType
  <2> QED BY <1>2, <1>4, <2>2, <2>3 DEF done, probed
<1>5. CASE ~done
  <2>1. b = c
    BY <1>5
  <2> HIDE DEF b
  <2>2. /\ d \in PcbType /\ d.services = probed /\ d.ip = b.ip /\ d.running = b.running /\ d.state = b.state
    BY <2>1, <1>1 DEF PcbType
  <2> QED BY <1>2, <1>5, <2>1, <2>2 DEF done, probed
<1> QED BY <1>4, <1>5

\* What becomes of any other PCB.
LEMMA AfterElse ==
  ASSUME NEW c \in PcbType, NEW k, NEW s, ~(Probing(c) /\ s \in ToSet(c.services))
  PROVE  LET d == After(c, k, s)
         IN  /\ d \in PcbType /\ d.services = c.services /\ d.ip = c.ip /\ d.running = c.running
             /\ \/ d.state = c.state /\ ~(Announcing(c) /\ HasAnswers(k) /\ ~HasAnswers(Left(k, c, s)))
                \/ d.state = RUNNING /\ Announcing(c)
             /\ ~Announcing(c) => d = c
<1>1. CASE Announcing(c) /\ HasAnswers(k) /\ ~HasAnswers(Left(k, c, s))
  <2>1. After(c, k, s) = InState(c, RUNNING)
    BY <1>1 DEF After, InState
  <2>2. RUNNING \in States
    BY AllStates
  <2> QED BY <1>1, <2>1, <2>2, StatePcb
<1>2. CASE ~(Announcing(c) /\ HasAnswers(k) /\ ~HasAnswers(Left(k, c, s)))
  <2>1. After(c, k, s) = c
    BY <1>2 DEF After
  <2> QED BY <1>2, <2>1, PcbFields
<1> QED BY <1>1, <1>2

\* b is a with the packet l behind, but for an empty l.
Grown(a, b, l) ==
  /\ b \in Seq(Packets) /\ Sorted(b) /\ \A i \in 1 .. Len(b) : NoLater(b[i], l)
  /\ \A o \in Pcbs : o # l.pcb => Same(a, b, o)
  /\ \A i \in Mine(b, l.pcb) : (i \in Mine(a, l.pcb) /\ b[i] = a[i]) \/ (b[i] = l /\ ~IsEmpty(l))
  /\ \A i \in Mine(a, l.pcb) : i \in Mine(b, l.pcb) /\ b[i] = a[i]
  /\ ~IsEmpty(l) => \E i \in Mine(b, l.pcb) : b[i] = l
  /\ Mine(a, l.pcb) = {} => Sole(b, l.pcb)

\* The loop appends in the order of the queue, so the new queue is sorted too.
LEMMA Grows ==
  ASSUME NEW a \in Seq(Packets), Sorted(a), NEW l \in Packets, \A i \in 1 .. Len(a) : NoLater(a[i], l)
  PROVE  Grown(a, IF IsEmpty(l) THEN a ELSE Append(a, l), l)
<1> DEFINE N == Len(a)
           b == Append(a, l)
<1>1. N \in Nat /\ NoLater(l, l) /\ \A i \in 1 .. N : a[i] \in Packets
  BY LenProperties, DueOrder
<1>2. CASE IsEmpty(l)
  <2>1. Mine(a, l.pcb) = {} => Sole(a, l.pcb)
    BY DEF Sole
  <2> QED BY <1>2, <2>1, SameSame DEF Grown
<1>3. CASE ~IsEmpty(l)
  <2>1. /\ b \in Seq(Packets) /\ Len(b) = N + 1 /\ b[N + 1] = l
        /\ \A i \in 1 .. N : b[i] = a[i]
    BY AppendProperties
  <2> HIDE DEF b, N
  <2>2. \A i \in 1 .. N + 1 : (i \in 1 .. N /\ b[i] = a[i]) \/ (i = N + 1 /\ b[i] = l)
    BY <1>1, <2>1
  <2>3. \A i \in 1 .. N : i \in 1 .. N + 1 /\ b[i] = a[i] /\ i # N + 1
    BY <1>1, <2>1
  <2>4. N + 1 \in 1 .. N + 1
    BY <1>1
  <2>5. \A i \in 1 .. N + 1 : NoLater(b[i], l)
    BY <1>1, <2>2 DEF N
  <2>6. Sorted(b)
    <3>1. SUFFICES ASSUME NEW i \in 1 .. N + 1, NEW j \in 1 .. N + 1, i <= j PROVE NoLater(b[i], b[j])
      BY <2>1 DEF Sorted
    <3>2. CASE j = N + 1
      BY <3>2, <2>1, <2>5
    <3>3. CASE j # N + 1
      <4>1. j \in 1 .. N /\ i \in 1 .. N
        BY <3>1, <3>3, <1>1
      <4> QED BY <3>1, <4>1, <2>1 DEF Sorted, N
    <3> QED BY <3>2, <3>3
  <2>7. ASSUME NEW o PROVE /\ \A i \in Mine(a, o) : i \in Mine(b, o) /\ b[i] = a[i]
                           /\ \A i \in Mine(b, o) : (i \in Mine(a, o) /\ b[i] = a[i])
                                                    \/ (i = N + 1 /\ b[i] = l /\ o = l.pcb)
    BY <2>1, <2>2, <2>3 DEF Mine, N
  <2>8. ASSUME NEW o, o # l.pcb PROVE Same(a, b, o)
    <3>1. /\ \A i \in Mine(a, o) : i \in Mine(b, o) /\ b[i] = a[i]
          /\ \A i \in Mine(b, o) : i \in Mine(a, o) /\ b[i] = a[i]
      BY <2>7, <2>8
    <3> QED BY <3>1, LikeSame DEF Same, Has, Sole
  <2>9. N + 1 \in Mine(b, l.pcb)
    BY <2>1, <2>4 DEF Mine
  <2>10. Mine(a, l.pcb) = {} => Sole(b, l.pcb)
    BY <2>7 DEF Sole
  <2> QED BY <1>3, <2>1, <2>5, <2>6, <2>7, <2>8, <2>9, <2>10 DEF Grown, b
<1> QED BY <1>2, <1>3

-----------------------------------------------------------------------------
\* U is T when the loop has come to the packet k of p, V when it has passed it.
Passing(T, U, V, k, s, p) ==
  /\ V \in Servers /\ V.open = T.open /\ V.host = T.host /\ U.open = T.open
  /\ k \in Packets /\ k.pcb = p /\ V.pcb[p] = After(U.pcb[p], k, s)
  /\ Grown(U.queue, V.queue, Left(k, U.pcb[p], s))

\* A probe goes on without s, or stops when nothing is left of it.
LEMMA ForgetsProbe ==
  ASSUME NEW T, Server(T), NEW R \in SUBSET Services, NEW p \in Pcbs, Sane(T, R, p), Live(T, p),
         NEW U, NEW V, NEW n \in Mine(T.queue, p), NEW s \in Services,
         Passing(T, U, V, T.queue[n], s, p), U.pcb[p] = T.pcb[p], Mine(U.queue, p) = {}
  PROVE  Sane(V, R \ {s}, p) /\ Fresh(T, V, p) /\ ~Announcing(V.pcb[p])
<1> DEFINE c == T.pcb[p]
           k == T.queue[n]
           l == Left(k, c, s)
           d == After(c, k, s)
           Q == R \ {s}
<1>1. c \in PcbType /\ Probing(c) /\ ~Announcing(c) /\ c.services \in Seq(Services) /\ p \in T.open
  BY ServerFields, PcbFields, Phases DEF Server, Live
<1>2. ProbeFor(k, c) /\ PacketOK(k, c, R) /\ k \in Packets /\ k.pcb = p
  BY DEF Sane, Loaded, Passing
<1>3. Grown(U.queue, V.queue, l) /\ V.pcb[p] = d
  BY DEF Passing
<1>4. /\ l.pcb = p /\ l.kind = "probe" /\ l.host = k.host /\ l.recs = k.recs \ {s}
      /\ l.q = IF s \in ToSet(c.services) THEN DropQuestion(k.q, s) ELSE k.q
  BY <1>1, <1>2, LeftPacket DEF ProbeFor
<1>5. /\ T.host /\ ToSet(c.services) \subseteq R /\ IsInjective(c.services) /\ c.state \notin {OFF, DUP}
      /\ c.running
  BY <1>1 DEF Sane, Quiet
<1>6. k.recs = ToSet(c.services) /\ k.host = (IF c.ip THEN "servers" ELSE "none")
  BY <1>2 DEF ProbeFor
<1> HIDE DEF k, l, d, c, Q
<1>7. Sole(V.queue, p) /\ \A i \in Mine(V.queue, p) : V.queue[i] = l
  BY <1>3, <1>4 DEF Grown
<1>8. ~IsEmpty(l) => Mine(V.queue, p) # {}
  BY <1>3, <1>4 DEF Grown
<1>9. V.open = T.open /\ V.host = T.host
  BY DEF Passing
<1>10. k.q \in Seq(Services) /\ IsInjective(k.q)
  BY <1>2, PacketFields DEF PacketOK
\* the PCB goes on with the services d has
<1>11. ASSUME d.state = c.state, d.running = c.running, d.services \in Seq(Services), IsInjective(d.services),
              ToSet(d.services) = ToSet(c.services) \ {s}, ProbeFor(l, d), PacketOK(l, d, Q), ~IsEmpty(l)
       PROVE  Sane(V, Q, p) /\ Fresh(T, V, p) /\ ~Announcing(V.pcb[p])
  <2>1. Probing(d) /\ ~Announcing(d)
    BY <1>1, <1>11 DEF Probing, Announcing
  <2>2. Live(V, p) /\ Live(T, p)
    BY <1>1, <1>3, <1>9, <2>1 DEF Live
  <2>3. Quiet(V, Q, p)
    BY <1>1, <1>3, <1>5, <1>9, <1>11, <2>2 DEF Quiet, Q
  <2>4. Loaded(V, Q, p)
    BY <1>3, <1>7, <1>8, <1>11, <2>1 DEF Loaded
  <2>5. Fresh(T, V, p)
    BY <1>3, <1>11, <2>2 DEF Fresh, c
  <2> QED BY <1>3, <2>1, <2>3, <2>4, <2>5 DEF Sane
<1>12. CASE s \notin ToSet(c.services)
  <2>1. d = c
    BY <1>1, <1>12, AfterElse DEF d
  <2>2. l.recs = k.recs /\ l.q = k.q
    BY <1>4, <1>6, <1>12
  <2>3. ProbeFor(l, d)
    BY <1>2, <1>4, <2>1, <2>2 DEF ProbeFor
  <2>4. PacketOK(l, d, Q)
    BY <1>2, <1>5, <1>6, <1>12, <2>1, <2>2 DEF PacketOK, Q
  <2>5. ~IsEmpty(l)
    <3>1. c.services # <<>> => ToSet(c.services) # {}
      BY <1>1, NoElement
    <3> QED BY <1>2, <1>4, <1>6, <2>2, <3>1 DEF ProbeFor, IsEmpty
  <2>6. ToSet(d.services) = ToSet(c.services) \ {s}
    BY <1>12, <2>1
  <2> QED BY <1>1, <1>5, <1>11, <2>1, <2>3, <2>4, <2>5, <2>6 DEF Q
<1>13. CASE s \in ToSet(c.services)
  <2> DEFINE rest == Without(c.services, {s})
             done == rest = <<>> /\ ~c.ip
  <2>1. rest \in Seq(Services) /\ ToSet(rest) = ToSet(c.services) \ {s} /\ IsInjective(rest)
    BY <1>1, <1>5, WithoutElements, WithoutInjective
  <2>2. /\ d \in PcbType /\ d.services = rest /\ d.ip = c.ip
        /\ done => d.running = FALSE /\ d.state = RUNNING
        /\ ~done => d.running = c.running /\ d.state = c.state
    BY <1>1, <1>13, AfterProbe DEF d
  <2> HIDE DEF rest, done
  <2>3. /\ ToSet(l.q) \subseteq ToSet(k.q) /\ IsInjective(l.q)
        /\ \A t \in ToSet(k.q) : t # s /\ ~HasTwin(t) => t \in ToSet(l.q)
        /\ ~HasTwin(s) => s \notin ToSet(l.q)
    BY <1>4, <1>10, <1>13, Unasked
  <2>4. \A t \in ToSet(l.q) : HasTwin(t) \/ t \in ToSet(rest)
    BY <1>2, <2>1, <2>3 DEF PacketOK
  <2>5. l.recs = ToSet(rest)
    BY <1>4, <1>6, <2>1
  <2>6. CASE done
    <3>1. d.running = FALSE /\ d.state = RUNNING /\ d.services = <<>>
      BY <2>2, <2>6 DEF done
    <3>2. ~Probing(d) /\ ~Announcing(d) /\ d.state \notin {OFF, DUP}
      BY <2>2, <3>1, Phases
    <3>3. ToSet(rest) = {}
      BY <2>6, Nothing DEF done
    <3>4. PacketOK(l, d, Q)
      BY <2>3, <2>4, <2>5, <3>3 DEF PacketOK
    <3>5. ~Live(V, p)
      BY <1>3, <3>2 DEF Live
    <3>6. Quiet(V, Q, p)
      BY <1>1, <1>3, <1>9, <3>1, <3>2, <3>5, Nothing DEF Quiet
    <3>7. Loaded(V, Q, p)
      BY <1>3, <1>7, <3>2, <3>4, <3>5 DEF Loaded
    <3> QED BY <1>3, <3>2, <3>5, <3>6, <3>7 DEF Sane, Fresh, Q
  <2>7. CASE ~done
    <3>1. d.running = c.running /\ d.state = c.state
      BY <2>2, <2>7
    <3>2. Probing(d)
      BY <1>1, <3>1 DEF Probing
    <3>3. ProbeFor(l, d)
      <4>1. rest # <<>> \/ c.ip
        BY <2>7 DEF done
      <4>2. \A t \in ToSet(rest) : HasTwin(t) \/ t \in ToSet(l.q)
        BY <1>2, <2>1, <2>3 DEF ProbeFor
      <4> QED BY <1>4, <1>6, <2>2, <2>5, <4>1, <4>2 DEF ProbeFor
    <3>4. PacketOK(l, d, Q)
      BY <1>5, <2>1, <2>2, <2>3, <2>4, <2>5, <3>2 DEF PacketOK, Q
    <3>5. ~IsEmpty(l)
      <4>1. rest # <<>> => ToSet(rest) # {}
        BY <2>1, NoElement
      <4> QED BY <1>4, <1>6, <2>5, <2>7, <4>1 DEF IsEmpty, done
    <3> QED BY <1>11, <2>1, <2>2, <3>1, <3>3, <3>4, <3>5 DEF Q
  <2> QED BY <2>6, <2>7
<1> QED BY <1>12, <1>13

\* A packet that asks for nothing any PCB still probes for.
Leftover(k, Q) == k.recs \subseteq Q /\ IsInjective(k.q) /\ \A t \in ToSet(k.q) : HasTwin(t)

\* A PCB that does not probe, when the loop has passed n packets: it announces on only
\* if a packet is left that does.
Rested(T, U, Q, p, n) ==
  /\ U.pcb[p].services = <<>> /\ U.pcb[p].running = FALSE
  /\ U.pcb[p].state = T.pcb[p].state \/ (Announcing(T.pcb[p]) /\ U.pcb[p].state = RUNNING)
  /\ Mine(T.queue, p) = {} => Mine(U.queue, p) = {}
  /\ \A i \in Mine(U.queue, p) : Leftover(U.queue[i], Q)
  /\ Announcing(U.pcb[p]) =>
        \A i \in Mine(T.queue, p) : i <= n /\ News(T.queue[i])
                                       => \E j \in Mine(U.queue, p) : News(U.queue[j])

\* A packet of a PCB that does not probe, on its way through the loop.
LEMMA ForgetsRest ==
  ASSUME NEW T, Server(T), NEW R \in SUBSET Services, NEW p \in Pcbs, Sane(T, R, p), ~Live(T, p),
         NEW U \in Servers, NEW V, NEW n \in Mine(T.queue, p), NEW s \in Services,
         Passing(T, U, V, T.queue[n], s, p), Rested(T, U, R \ {s}, p, n - 1)
  PROVE  Rested(T, V, R \ {s}, p, n)
<1> DEFINE c == U.pcb[p]
           k == T.queue[n]
           l == Left(k, c, s)
           d == After(c, k, s)
           Q == R \ {s}
<1>1. c \in PcbType /\ n \in 1 .. Len(T.queue) /\ Len(T.queue) \in Nat
  BY ServerFields, LenProperties DEF Server, Mine
<1>2. k \in Packets /\ k.pcb = p /\ Grown(U.queue, V.queue, l) /\ V.pcb[p] = d
  BY DEF Passing
<1>3. /\ c.services = <<>> /\ c.running = FALSE
      /\ c.state = T.pcb[p].state \/ (Announcing(T.pcb[p]) /\ c.state = RUNNING)
  BY DEF Rested
<1>4. s \notin ToSet(c.services)
  BY <1>3, Nothing
<1>5. /\ d.services = <<>> /\ d.running = FALSE
      /\ \/ d.state = c.state /\ ~(Announcing(c) /\ HasAnswers(k) /\ ~HasAnswers(l))
         \/ d.state = RUNNING /\ Announcing(c)
  BY <1>1, <1>3, <1>4, AfterElse
<1>6. l.pcb = p /\ l.kind = k.kind /\ l.host = k.host /\ l.recs = k.recs \ {s} /\ l.q = k.q
  BY <1>2, <1>4, LeftPacket
<1>7. PacketOK(k, T.pcb[p], R) /\ T.pcb[p].services = <<>>
  BY DEF Sane, Quiet, Loaded
<1>8. Leftover(l, Q)
  BY <1>6, <1>7, Nothing DEF PacketOK, Leftover
<1> HIDE DEF c, d, k, l, Q
<1>9. \A i \in Mine(V.queue, p) : Leftover(V.queue[i], Q)
  <2>1. \A i \in Mine(U.queue, p) : Leftover(U.queue[i], Q)
    BY DEF Rested, Q
  <2> QED BY <1>2, <1>6, <1>8, <2>1 DEF Grown
<1>10. d.state = T.pcb[p].state \/ (Announcing(T.pcb[p]) /\ d.state = RUNNING)
  <2>1. Announcing(c) => Announcing(T.pcb[p])
    BY <1>3, Phases, <1>1 DEF Announcing
  <2> QED BY <1>3, <1>5, <2>1
<1>11. ASSUME Announcing(d), NEW i \in Mine(T.queue, p), i <= n, News(T.queue[i])
       PROVE  \E j \in Mine(V.queue, p) : News(V.queue[j])
  <2>1. d.state = c.state /\ ~(Announcing(c) /\ HasAnswers(k) /\ ~HasAnswers(l)) /\ Announcing(c)
    BY <1>5, <1>11 DEF Announcing, RUNNING
  <2>2. CASE i # n
    <3>1. i <= n - 1
      BY <1>1, <1>11, <2>2 DEF Mine
    <3>2. PICK j \in Mine(U.queue, p) : News(U.queue[j])
      BY <1>11, <2>1, <3>1 DEF Rested, c
    <3>3. j \in Mine(V.queue, p) /\ V.queue[j] = U.queue[j]
      BY <1>2, <1>6, <3>2 DEF Grown
    <3> QED BY <3>2, <3>3
  <2>3. CASE i = n
    <3>1. News(k)
      BY <1>11, <2>3 DEF k
    <3>2. k.host \in {"none", "servers", "answers"}
      BY <1>2, PacketFields
    <3>3. News(l) /\ ~IsEmpty(l)
      BY <1>6, <2>1, <3>1, <3>2 DEF News, IsEmpty, HasAnswers
    <3> QED BY <1>2, <1>6, <3>3 DEF Grown
  <2> QED BY <2>2, <2>3
<1>12. Mine(T.queue, p) = {} => Mine(V.queue, p) = {}
  OBVIOUS
<1> QED BY <1>2, <1>5, <1>9, <1>10, <1>11, <1>12 DEF Rested, Q

\* The other PCBs: their packets stay.
LEMMA RestedOn ==
  ASSUME NEW T, NEW U, NEW V, NEW Q, NEW p, NEW n \in Nat, NEW m \in Nat, Kept(U, V, p), Rested(T, U, Q, p, m),
         \A i \in Mine(T.queue, p) : i <= n => i <= m
  PROVE  Rested(T, V, Q, p, n)
<1>1. /\ \A i \in Mine(U.queue, p) : Has(V.queue, p, U.queue[i])
      /\ \A i \in Mine(V.queue, p) : Has(U.queue, p, V.queue[i])
      /\ V.pcb[p] = U.pcb[p]
  BY DEF Kept, Same
<1>2. ASSUME NEW i \in Mine(V.queue, p) PROVE Leftover(V.queue[i], Q)
  <2>1. PICK j \in Mine(U.queue, p) : Like(U.queue[j], V.queue[i])
    BY <1>1 DEF Has
  <2>2. Leftover(U.queue[j], Q)
    BY DEF Rested
  <2> QED BY <2>1, <2>2 DEF Leftover, Like
<1>3. ASSUME NEW i \in Mine(U.queue, p), News(U.queue[i]) PROVE \E j \in Mine(V.queue, p) : News(V.queue[j])
  <2>1. PICK j \in Mine(V.queue, p) : Like(V.queue[j], U.queue[i])
    BY <1>1 DEF Has
  <2> QED BY <1>3, <2>1 DEF News, Like
<1>4. Mine(T.queue, p) = {} => Mine(V.queue, p) = {}
  BY <1>1 DEF Rested, Has
<1> QED BY <1>1, <1>2, <1>3, <1>4 DEF Rested

\* At the end of the loop.
LEMMA RestedSane ==
  ASSUME NEW T, Server(T), NEW R, NEW Q, NEW p \in Pcbs, Sane(T, R, p), ~Live(T, p), NEW U, U.open = T.open,
         Rested(T, U, Q, p, Len(T.queue))
  PROVE  Sane(U, Q, p) /\ ~Live(U, p) /\ NoNews(T, U, p)
<1>1. T.pcb[p] \in PcbType
  BY ServerFields DEF Server
<1>2. U.pcb[p].state = T.pcb[p].state \/ (Announcing(T.pcb[p]) /\ U.pcb[p].state = RUNNING)
  BY DEF Rested
<1>3. Announcing(U.pcb[p]) => Announcing(T.pcb[p])
  BY <1>2 DEF Announcing
<1>4. ~Live(U, p)
  BY <1>2 DEF Live, Probing, RUNNING, ANNOUNCE_1
<1>5. p \in U.open <=> U.pcb[p].state \notin {OFF, DUP}
  <2>1. p \in T.open <=> T.pcb[p].state \notin {OFF, DUP}
    BY DEF Sane, Quiet
  <2>2. Announcing(T.pcb[p]) => T.pcb[p].state \notin {OFF, DUP}
    BY <1>1, Phases
  <2> QED BY <1>2, <2>1, <2>2 DEF RUNNING, OFF, DUP
<1>6. Quiet(U, Q, p)
  BY <1>4, <1>5, Nothing DEF Rested, Sane, Quiet
<1>7. ASSUME NEW i \in Mine(U.queue, p) PROVE PacketOK(U.queue[i], U.pcb[p], Q)
  BY DEF Rested, Leftover, PacketOK
<1>8. ASSUME Announcing(U.pcb[p]) PROVE \E i \in Mine(U.queue, p) : News(U.queue[i])
  <2>1. PICK i \in Mine(T.queue, p) : News(T.queue[i])
    BY <1>3, <1>8 DEF Sane, Loaded
  <2>2. i <= Len(T.queue)
    BY DEF Mine
  <2> QED BY <1>8, <2>1, <2>2 DEF Rested
<1> QED BY <1>3, <1>4, <1>6, <1>7, <1>8 DEF Sane, Loaded, NoNews

\* What the loop of ForgetService carries, and the server it stands for.
Accs == [pcb : [Pcbs -> PcbType], queue : Seq(Packets)]
View(T, a) == [T EXCEPT !.pcb = a.pcb, !.queue = a.queue]

\* The server View(T, a), field by field.
Viewed(T, U, a) ==
  /\ U \in Servers /\ U.pcb = a.pcb /\ U.queue = a.queue /\ U.open = T.open /\ U.main = T.main
  /\ U.host = T.host /\ U.own = T.own

\* The server of what the loop carries.
LEMMA Views ==
  ASSUME NEW T \in Servers, NEW a \in Accs
  PROVE  Viewed(T, View(T, a), a)
<1> HIDE DEF PcbType, Packets
<1> QED BY DEF Servers, Accs, View, Viewed

\* A PCB when the loop has passed n packets.
Treated(T, U, Q, p, n) ==
  /\ ~Live(T, p) => Rested(T, U, Q, p, n)
  /\ Live(T, p) /\ (\A i \in Mine(T.queue, p) : ~(i <= n))
        => U.pcb[p] = T.pcb[p] /\ Mine(U.queue, p) = {}
  /\ Live(T, p) /\ (\E i \in Mine(T.queue, p) : i <= n)
        => Sane(U, Q, p) /\ Fresh(T, U, p) /\ ~Announcing(U.pcb[p])

\* What the loop keeps: it carries a of the first n packets.
Partial(T, a, Q, n) ==
  /\ a \in Accs /\ Sorted(a.queue)
  /\ \A i \in 1 .. Len(a.queue) : \A j \in n + 1 .. Len(T.queue) : NoLater(a.queue[i], T.queue[j])
  /\ \A p \in Pcbs : Treated(T, View(T, a), Q, p, n)

\* A pass of the loop of _mdns_remove_scheduled_service_packets.
LEMMA PartialMore ==
  ASSUME NEW T, Server(T), NEW R \in SUBSET Services, \A p \in Pcbs : Sane(T, R, p), NEW s \in Services,
         NEW n \in 1 .. Len(T.queue), NEW a, Partial(T, a, R \ {s}, n - 1)
  PROVE  Partial(T, ForgetInPacket(a, T.queue[n], s), R \ {s}, n)
<1> DEFINE k == T.queue[n]
           p == k.pcb
           c == a.pcb[p]
           l == Left(k, c, s)
           d == After(c, k, s)
           x == [a.pcb EXCEPT ![p] = d]
           q == IF IsEmpty(l) THEN a.queue ELSE Append(a.queue, l)
           b == ForgetInPacket(a, k, s)
           U == View(T, a)
           V == View(T, b)
           Q == R \ {s}
           N == Len(T.queue)
<1>1. /\ T \in Servers /\ N \in Nat /\ k \in Packets /\ p \in Pcbs /\ a \in Accs
      /\ \A i \in 1 .. N : T.queue[i] \in Packets
  <2>1. T \in Servers /\ T.queue \in Seq(Packets)
    BY ServerFields DEF Server
  <2>2. N \in Nat /\ \A i \in 1 .. N : T.queue[i] \in Packets
    BY <2>1, LenProperties
  <2> QED BY <2>1, <2>2, PacketFields DEF Partial
<1>2. a.pcb \in [Pcbs -> PcbType] /\ a.queue \in Seq(Packets) /\ c \in PcbType
  BY <1>1 DEF Accs
<1>3. l \in Packets /\ l.pcb = p /\ l.at = k.at /\ l.lap = k.lap
  BY <1>1, LeftPacket
<1>4. b = [pcb |-> x, queue |-> q]
  BY ForgetTurn
<1>5. d \in PcbType
  <2>1. CASE Probing(c) /\ s \in ToSet(c.services)
    BY <1>2, <2>1, AfterProbe
  <2>2. CASE ~(Probing(c) /\ s \in ToSet(c.services))
    BY <1>2, <2>2, AfterElse
  <2> QED BY <2>1, <2>2
<1> HIDE DEF k, p, c, l, d, b, Q, N
<1>6. x \in [Pcbs -> PcbType] /\ x[p] = d /\ \A o \in Pcbs : o # p => x[o] = a.pcb[o]
  BY <1>1, <1>2, <1>5
<1>7. Sorted(a.queue) /\ \A i \in 1 .. Len(a.queue) : NoLater(a.queue[i], l)
  <2>1. n \in (n - 1) + 1 .. N
    BY <1>1 DEF N
  <2>2. Sorted(a.queue) /\ \A i \in 1 .. Len(a.queue) : NoLater(a.queue[i], k)
    BY <2>1 DEF Partial, k, N
  <2> QED BY <1>3, <2>2 DEF NoLater, Greater
<1>8. Grown(a.queue, q, l)
  BY <1>2, <1>3, <1>7, Grows
<1> HIDE DEF x, q
<1>9. b \in Accs /\ b.pcb = x /\ b.queue = q
  BY <1>4, <1>6, <1>8 DEF Accs, Grown
<1>10. Viewed(T, U, a) /\ Viewed(T, V, b)
  BY <1>1, <1>9, Views
<1>11. \A o \in Pcbs : Treated(T, U, Q, o, n - 1)
  BY DEF Partial, Q
<1> HIDE DEF U, V
<1>12. /\ U \in Servers /\ U.pcb = a.pcb /\ U.queue = a.queue /\ U.open = T.open /\ U.host = T.host
       /\ V \in Servers /\ V.pcb = x /\ V.queue = q /\ V.open = T.open /\ V.host = T.host
  BY <1>9, <1>10 DEF Viewed
<1>13. \A i \in 1 .. Len(q) : \A j \in n + 1 .. N : NoLater(q[i], T.queue[j])
  <2>1. SUFFICES ASSUME NEW i \in 1 .. Len(q), NEW j \in n + 1 .. N PROVE NoLater(q[i], T.queue[j])
    OBVIOUS
  <2>2. NoLater(q[i], l)
    BY <1>8 DEF Grown
  <2>3. NoLater(q[i], T.queue[n])
    BY <1>3, <2>2 DEF NoLater, Greater, k
  <2>4. n \in 1 .. N /\ j \in 1 .. N /\ n <= j
    BY <1>1 DEF N
  <2>5. NoLater(T.queue[n], T.queue[j])
    BY <2>4 DEF Server, Sorted, N
  <2>6. q[i] \in Packets
    BY <1>8, LenProperties DEF Grown
  <2>7. T.queue[n] \in Packets /\ T.queue[j] \in Packets
    BY <1>1, <2>4
  <2> QED BY <2>3, <2>5, <2>6, <2>7, DueOrder
<1>14. Passing(T, U, V, k, s, p)
  BY <1>1, <1>6, <1>8, <1>12 DEF Passing, c, d, l, p
<1>15. n \in Mine(T.queue, p) /\ n \in Nat /\ n - 1 \in Nat
  BY DEF Mine, p, k
<1>16. ASSUME NEW o \in Pcbs, o # p PROVE Treated(T, V, Q, o, n)
  <2>1. Kept(U, V, o)
    <3>1. Same(U.queue, V.queue, o)
      BY <1>3, <1>8, <1>12, <1>16 DEF Grown
    <3> QED BY <3>1, <1>6, <1>12, <1>16 DEF Kept
  <2>2. \A i \in Mine(T.queue, o) : i <= n <=> i <= n - 1
    <3>1. n \notin Mine(T.queue, o)
      BY <1>16 DEF Mine, p, k
    <3> QED BY <3>1, <1>1 DEF Mine, N
  <2>3. Treated(T, U, Q, o, n - 1)
    BY <1>11
  <2>4. ~Live(T, o) => Rested(T, V, Q, o, n)
    BY <1>15, <2>1, <2>2, <2>3, RestedOn DEF Treated
  <2>5. Mine(U.queue, o) = {} => Mine(V.queue, o) = {}
    BY <2>1 DEF Kept, Same, Has
  <2>6. Sane(U, Q, o) => Sane(V, Q, o)
    BY <2>1, KeptSane DEF Sane
  <2>7. V.pcb[o] = U.pcb[o] /\ (Fresh(T, U, o) => Fresh(T, V, o))
    BY <2>1, KeptFresh, FreshFresh
  <2> QED BY <2>2, <2>3, <2>4, <2>5, <2>6, <2>7 DEF Treated
<1>17. Treated(T, V, Q, p, n)
  <2>1. Treated(T, U, Q, p, n - 1) /\ Sane(T, R, p)
    BY <1>1, <1>11
  <2>2. CASE Live(T, p)
    <3>1. \A i \in Mine(T.queue, p) : ~(i <= n - 1)
      <4>1. Sole(T.queue, p)
        BY <2>1, <2>2 DEF Sane, Loaded
      <4>2. \A i \in Mine(T.queue, p) : i = n
        BY <1>15, <4>1 DEF Sole
      <4> QED BY <4>2, <1>15
    <3>2. U.pcb[p] = T.pcb[p] /\ Mine(U.queue, p) = {}
      BY <2>1, <2>2, <3>1 DEF Treated
    <3>3. Sane(V, Q, p) /\ Fresh(T, V, p) /\ ~Announcing(V.pcb[p])
      BY <1>1, <1>14, <1>15, <2>1, <2>2, <3>2, ForgetsProbe DEF Q, k
    <3>4. \E i \in Mine(T.queue, p) : i <= n
      BY <1>15
    <3> QED BY <2>2, <3>3, <3>4 DEF Treated
  <2>3. CASE ~Live(T, p)
    <3>1. Rested(T, U, Q, p, n - 1)
      BY <2>1, <2>3 DEF Treated
    <3>2. Rested(T, V, Q, p, n)
      BY <1>1, <1>12, <1>14, <1>15, <2>1, <2>3, <3>1, ForgetsRest DEF Q, k
    <3> QED BY <2>3, <3>2 DEF Treated
  <2> QED BY <2>2, <2>3
<1>18. \A o \in Pcbs : Treated(T, V, Q, o, n)
  BY <1>16, <1>17
<1>19. Sorted(q)
  BY <1>8 DEF Grown
<1> QED BY <1>9, <1>13, <1>18, <1>19 DEF Partial, Q, V, b, k, N

\* Before the loop.
LEMMA PartialNone ==
  ASSUME NEW T, Server(T), NEW R, NEW Q, \A p \in Pcbs : Sane(T, R, p)
  PROVE  Partial(T, [pcb |-> T.pcb, queue |-> <<>>], Q, 0)
<1> DEFINE a == [pcb |-> T.pcb, queue |-> <<>>]
           U == View(T, a)
<1>1. a \in Accs /\ a.pcb = T.pcb /\ a.queue = <<>>
  BY ServerFields, EmptySeq DEF Server, Accs
<1>2. Viewed(T, U, a)
  BY <1>1, Views DEF Server
<1> HIDE DEF a, U
<1>3. Len(<<>>) = 0 /\ 1 .. 0 = {}
  BY EmptySeq
<1>4. U.pcb = T.pcb /\ U.queue = <<>> /\ \A p : Mine(<<>>, p) = {}
  BY <1>1, <1>2, <1>3 DEF Viewed, Mine
<1>5. \A p : \A i \in Mine(T.queue, p) : ~(i <= 0)
  BY DEF Mine
<1>6. ASSUME NEW p \in Pcbs PROVE Treated(T, U, Q, p, 0)
  <2>1. ~Live(T, p) => T.pcb[p].services = <<>> /\ T.pcb[p].running = FALSE
    <3>1. T.pcb[p].running \in BOOLEAN
      BY ServerFields, PcbFields DEF Server
    <3> QED BY <3>1 DEF Sane, Quiet
  <2>2. ~Live(T, p) => Rested(T, U, Q, p, 0)
    BY <1>4, <1>5, <2>1 DEF Rested
  <2> QED BY <1>4, <1>5, <2>2 DEF Treated
<1>7. Sorted(a.queue)
  BY <1>1, <1>3 DEF Sorted
<1> QED BY <1>1, <1>3, <1>6, <1>7 DEF Partial, a, U

\* _mdns_remove_scheduled_service_packets.
LEMMA Forgets ==
  ASSUME NEW T, Server(T), NEW R \in SUBSET Services, \A p \in Pcbs : Sane(T, R, p), NEW s \in Services
  PROVE  Shifted(T, ForgetService(T, s), R \ {s})
<1> DEFINE L == Len(T.queue)
           Q == R \ {s}
           base == [pcb |-> T.pcb, queue |-> <<>>]
           Op(a, n) == ForgetInPacket(a, T.queue[n], s)
           D == [n \in 0 .. L |-> {a \in Accs : Partial(T, a, Q, n)}]
           h == [e \in (1 .. L) \X Accs |-> Op(e[2], e[1])]
           f[n \in 0 .. L] == IF n = 0 THEN base ELSE Op(f[n - 1], n)
<1>1. L \in Nat
  BY ServerFields, LenProperties DEF Server
<1>2. base \in D[0]
  <2>1. Partial(T, base, Q, 0)
    BY PartialNone
  <2>2. 0 \in 0 .. L
    BY <1>1
  <2> HIDE DEF base, L, Q
  <2>3. base \in Accs
    BY <2>1 DEF Partial
  <2> QED BY <2>1, <2>2, <2>3
<1>3. ASSUME NEW n \in 1 .. L, NEW a \in D[n - 1]
      PROVE  h[<<n, a>>] = Op(a, n) /\ Op(a, n) \in D[n]
  <2>1. n - 1 \in 0 .. L /\ n \in 0 .. L
    BY <1>1
  <2>2. a \in Accs /\ Partial(T, a, Q, n - 1)
    BY <2>1
  <2>3. h[<<n, a>>] = Op(a, n)
    BY <2>2
  <2>4. Partial(T, Op(a, n), Q, n)
    BY <2>2, PartialMore
  <2> HIDE DEF Op, h
  <2> QED BY <2>1, <2>3, <2>4 DEF Partial
<1>4. PICK g \in [0 .. L -> Accs] :
          /\ g[0] = base /\ \A n \in 1 .. L : g[n] = h[<<n, g[n - 1]>>]
          /\ \A n \in 0 .. L : g[n] \in D[n]
  <2>1. \A n \in 0 .. L : D[n] \subseteq Accs
    OBVIOUS
  <2> HIDE DEF L, D, h, Op, f, base
  <2>2. \A n \in 1 .. L : \A a \in D[n - 1] : h[<<n, a>>] \in D[n]
    BY <1>3
  <2>3. LoopSteps(L, Accs, D, base, h)
    BY <1>1, <1>2, <2>1, <2>2 DEF LoopSteps
  <2> QED BY <2>3, FoldExists
<1>5. g = [n \in 0 .. L |-> IF n = 0 THEN base ELSE Op(g[n - 1], n)]
  <2> HIDE DEF L, D, h, Op, f, base
  <2>1. ASSUME NEW n \in 1 .. L PROVE g[n] = Op(g[n - 1], n)
    <3>1. n - 1 \in 0 .. L
      BY <1>1
    <3> QED BY <3>1, <1>3, <1>4
  <2>2. \A n \in 0 .. L : g[n] = IF n = 0 THEN base ELSE Op(g[n - 1], n)
    BY <1>1, <1>4, <2>1
  <2> QED BY <2>2
<1>6. f = [n \in 0 .. L |-> IF n = 0 THEN base ELSE Op(f[n - 1], n)]
  BY <1>5
<1>7. ForgetService(T, s) = View(T, f[L])
  BY DEF ForgetService, Loop, View
<1> HIDE DEF f
<1>8. f[0] \in D[0] /\ \A n \in 1 .. L : f[n - 1] \in D[n - 1] => f[n] \in D[n]
  <2>1. f[0] = base /\ \A n \in 1 .. L : f[n] = Op(f[n - 1], n)
    <3> HIDE DEF Op, L, base
    <3> QED BY <1>1, <1>6
  <2> HIDE DEF Op, D, h, L, base
  <2>2. ASSUME NEW n \in 1 .. L, f[n - 1] \in D[n - 1] PROVE f[n] \in D[n]
    BY <1>3, <2>1, <2>2
  <2> QED BY <1>2, <2>1, <2>2
<1>9. Partial(T, f[L], Q, L)
  <2>1. f[L] \in D[L]
    <3> HIDE DEF D, L
    <3>1. \A n \in 0 .. L : f[n] \in D[n]
      BY <1>1, <1>8, Carried
    <3> QED BY <1>1, <3>1
  <2>2. L \in 0 .. L
    BY <1>1
  <2> QED BY <2>1, <2>2
<1> DEFINE a == f[L]
           U == View(T, a)
<1>10. Viewed(T, U, a)
  BY <1>9, Views DEF Partial, Server
<1> HIDE DEF a, U, Q
<1>11. Server(U) /\ U.open = T.open /\ U.host = T.host /\ U.own = T.own
  BY <1>9, <1>10 DEF Server, Viewed, Partial, a
<1>12. ASSUME NEW p \in Pcbs PROVE Sane(U, Q, p) /\ Fresh(T, U, p) /\ NoNews(T, U, p)
  <2>1. Treated(T, U, Q, p, L)
    BY <1>9 DEF Partial, U, a
  <2>2. CASE Live(T, p)
    <3>1. PICK i : i \in Mine(T.queue, p)
      BY <2>2 DEF Sane, Loaded
    <3>2. i <= L
      BY <3>1 DEF Mine
    <3> QED BY <2>1, <2>2, <3>1, <3>2 DEF Treated, NoNews
  <2>3. CASE ~Live(T, p)
    <3>1. Rested(T, U, Q, p, L)
      BY <2>1, <2>3 DEF Treated
    <3>2. Sane(U, Q, p) /\ ~Live(U, p) /\ NoNews(T, U, p)
      BY <1>11, <2>3, <3>1, RestedSane DEF L
    <3> QED BY <3>2 DEF Fresh
  <2> QED BY <2>2, <2>3
<1> QED BY <1>7, <1>11, <1>12 DEF Shifted, U, a, Q

-----------------------------------------------------------------------------
\* The services of list that are not among the first n or stay.
Remaining(list, gone, n) == ToSet(list) \ {list[i] : i \in {j \in 1 .. n : list[j] \in gone}}

\* A pass of the loop over the services that go.
LEMMA ForgetsMore ==
  ASSUME NEW T, NEW list \in Seq(Services), NEW gone, NEW n \in 1 .. Len(list), NEW U,
         Shifted(T, U, Remaining(list, gone, n - 1))
  PROVE  Shifted(T, IF list[n] \in gone THEN ForgetService(U, list[n]) ELSE U, Remaining(list, gone, n))
<1> DEFINE s == list[n]
           Q == Remaining(list, gone, n - 1)
           V == ForgetService(U, s)
<1>1. s \in Services /\ n \in Nat /\ Q \in SUBSET Services
  BY LenProperties DEF Remaining, ToSet
<1>2. \A i \in 1 .. n : i \in 1 .. n - 1 \/ i = n
  BY <1>1
<1>2a. \A i \in 1 .. n - 1 : i \in 1 .. n
  BY <1>1
<1>2b. n \in 1 .. n
  BY <1>1
<1>3. CASE s \in gone
  <2>1. Remaining(list, gone, n) = Q \ {s}
    BY <1>2, <1>2a, <1>2b, <1>3 DEF Remaining
  <2>2. Shifted(U, V, Q \ {s})
    BY <1>1, Forgets DEF Shifted
  <2> HIDE DEF V, Q
  <2>3. ASSUME NEW p \in Pcbs PROVE Sane(V, Q \ {s}, p) /\ Fresh(T, V, p) /\ NoNews(T, V, p)
    <3>1. /\ Fresh(T, U, p) /\ Fresh(U, V, p) /\ NoNews(T, U, p) /\ NoNews(U, V, p)
          /\ Sane(V, Q \ {s}, p)
      BY <2>2 DEF Shifted, Q
    <3> QED BY <3>1, FreshFresh DEF NoNews
  <2>4. Shifted(T, V, Q \ {s})
    BY <2>2, <2>3 DEF Shifted
  <2> QED BY <1>3, <2>1, <2>4 DEF V
<1>4. CASE s \notin gone
  <2>1. Remaining(list, gone, n) = Q
    BY <1>2, <1>2a, <1>4 DEF Remaining
  <2> QED BY <1>4, <2>1
<1> QED BY <1>3, <1>4

\* The removal of services, one after the other.
LEMMA ForgetsAll ==
  ASSUME NEW T, Server(T), NEW list \in Seq(Services), NEW gone, \A p \in Pcbs : Sane(T, ToSet(list), p)
  PROVE  Shifted(T, Loop(LAMBDA U, s : IF s \in gone THEN ForgetService(U, s) ELSE U, T, list),
                 ToSet(Without(list, gone)))
<1> DEFINE L == Len(list)
           Op(U, n) == IF list[n] \in gone THEN ForgetService(U, list[n]) ELSE U
           D == [n \in 0 .. L |-> {U \in Servers : Shifted(T, U, Remaining(list, gone, n))}]
           h == [e \in (1 .. L) \X Servers |-> Op(e[2], e[1])]
           f[n \in 0 .. L] == IF n = 0 THEN T ELSE Op(f[n - 1], n)
<1>1. L \in Nat
  BY LenProperties
<1>2. T \in D[0]
  <2>1. Remaining(list, gone, 0) = ToSet(list)
    BY DEF Remaining
  <2>2. Shifted(T, T, ToSet(list))
    BY KeptKept, KeptFresh DEF Shifted, NoNews
  <2> QED BY <1>1, <2>1, <2>2 DEF Server
<1>3. ASSUME NEW n \in 1 .. L, NEW U \in D[n - 1]
      PROVE  h[<<n, U>>] = Op(U, n) /\ Op(U, n) \in D[n]
  <2>1. n - 1 \in 0 .. L /\ n \in 0 .. L
    BY <1>1
  <2>2. U \in Servers /\ Shifted(T, U, Remaining(list, gone, n - 1))
    BY <2>1
  <2>3. h[<<n, U>>] = Op(U, n)
    BY <2>2
  <2>4. Shifted(T, Op(U, n), Remaining(list, gone, n))
    BY <2>2, ForgetsMore
  <2> HIDE DEF Op, h
  <2> QED BY <2>1, <2>3, <2>4 DEF Shifted, Server
<1>4. PICK g \in [0 .. L -> Servers] :
          /\ g[0] = T /\ \A n \in 1 .. L : g[n] = h[<<n, g[n - 1]>>]
          /\ \A n \in 0 .. L : g[n] \in D[n]
  <2>1. \A n \in 0 .. L : D[n] \subseteq Servers
    OBVIOUS
  <2> HIDE DEF L, D, h, Op, f
  <2>2. \A n \in 1 .. L : \A U \in D[n - 1] : h[<<n, U>>] \in D[n]
    BY <1>3
  <2>3. LoopSteps(L, Servers, D, T, h)
    BY <1>1, <1>2, <2>1, <2>2 DEF LoopSteps
  <2> QED BY <2>3, FoldExists
<1>5. g = [n \in 0 .. L |-> IF n = 0 THEN T ELSE Op(g[n - 1], n)]
  <2> HIDE DEF L, D, h, Op, f
  <2>1. ASSUME NEW n \in 1 .. L PROVE g[n] = Op(g[n - 1], n)
    <3>1. n - 1 \in 0 .. L
      BY <1>1
    <3> QED BY <3>1, <1>3, <1>4
  <2>2. \A n \in 0 .. L : g[n] = IF n = 0 THEN T ELSE Op(g[n - 1], n)
    BY <1>1, <1>4, <2>1
  <2> QED BY <2>2
<1>6. f = [n \in 0 .. L |-> IF n = 0 THEN T ELSE Op(f[n - 1], n)]
  BY <1>5
<1>7. Loop(LAMBDA U, s : IF s \in gone THEN ForgetService(U, s) ELSE U, T, list) = f[L]
  BY DEF Loop
<1> HIDE DEF f
<1>8. f[0] \in D[0] /\ \A n \in 1 .. L : f[n - 1] \in D[n - 1] => f[n] \in D[n]
  <2>1. f[0] = T /\ \A n \in 1 .. L : f[n] = Op(f[n - 1], n)
    <3> HIDE DEF Op, L
    <3> QED BY <1>1, <1>6
  <2> HIDE DEF Op, D, h, L
  <2>2. ASSUME NEW n \in 1 .. L, f[n - 1] \in D[n - 1] PROVE f[n] \in D[n]
    BY <1>3, <2>1, <2>2
  <2> QED BY <1>2, <2>1, <2>2
<1>9. Shifted(T, f[L], Remaining(list, gone, L))
  <2>1. f[L] \in D[L]
    <3> HIDE DEF D, L
    <3>1. \A n \in 0 .. L : f[n] \in D[n]
      BY <1>1, <1>8, Carried
    <3> QED BY <1>1, <3>1
  <2>2. L \in 0 .. L
    BY <1>1
  <2> QED BY <2>1, <2>2
<1>10. Remaining(list, gone, L) = ToSet(Without(list, gone))
  <2>1. ToSet(Without(list, gone)) = ToSet(list) \ gone
    BY WithoutElements
  <2>2. ToSet(list) = {list[i] : i \in 1 .. L}
    BY LenProperties DEF ToSet
  <2> QED BY <2>1, <2>2 DEF Remaining
<1> QED BY <1>7, <1>9, <1>10

-----------------------------------------------------------------------------
(* What happens between two packets: calls, events, conflicts.             *)

\* What every call, event and conflict does: no PCB begins to announce what it probes for.
Stepped(T, U, R) ==
  /\ Server(U)
  /\ \A p \in Pcbs : /\ Sane(U, R, p) /\ Fresh(T, U, p)
                     /\ T.pcb[p].state = PROBE_3 => U.pcb[p].state # ANNOUNCE_1

\* A step without news ...
LEMMA ShiftedStepped ==
  ASSUME NEW T, NEW U, NEW R, Shifted(T, U, R)
  PROVE  Stepped(T, U, R)
<1>1. ASSUME NEW p \in Pcbs, T.pcb[p].state = PROBE_3 PROVE U.pcb[p].state # ANNOUNCE_1
  <2>1. ~Announcing(T.pcb[p])
    BY <1>1 DEF Announcing, PROBE_3
  <2>2. ~Announcing(U.pcb[p])
    BY <2>1 DEF Shifted, NoNews
  <2> QED BY <2>2 DEF Announcing, ANNOUNCE_1, PROBE_3, RUNNING
<1> QED BY <1>1 DEF Shifted, Stepped

\* ... a step that announces ...
LEMMA MovedStepped ==
  ASSUME NEW T, NEW U, NEW R, NEW Q, \A p \in Pcbs : Sane(T, Q, p), Moved(T, U, R)
  PROVE  Stepped(T, U, R)
<1>1. ASSUME NEW p \in Pcbs, T.pcb[p].state = PROBE_3 PROVE U.pcb[p].state # ANNOUNCE_1
  <2>1. p \in T.open
    BY <1>1 DEF Sane, Quiet, PROBE_3, OFF, DUP
  <2>2. Live(T, p)
    BY <1>1, <2>1 DEF Live, Probing, PROBE_3, OFF, ANNOUNCE_1
  <2>3. Live(U, p) \/ p \notin U.open
    BY <2>2 DEF Moved, ProbesOn
  <2>4. CASE Live(U, p)
    BY <2>4 DEF Live, Probing, ANNOUNCE_1
  <2>5. CASE p \notin U.open
    <3>1. U.pcb[p].state \in {OFF, DUP}
      BY <2>5 DEF Moved, Sane, Quiet
    <3> QED BY <3>1 DEF OFF, DUP, ANNOUNCE_1
  <2> QED BY <2>3, <2>4, <2>5
<1> QED BY <1>1 DEF Moved, Stepped

\* ... and a restart of the probes are steps.
LEMMA RestartsStepped ==
  ASSUME NEW T, NEW U, NEW R, Restarts(T, U, R)
  PROVE  Stepped(T, U, R)
<1>1. ASSUME NEW p \in Pcbs PROVE Fresh(T, U, p) /\ U.pcb[p].state # ANNOUNCE_1
  <2>1. CASE p \in U.open
    BY <2>1 DEF Restarts, Fresh, PROBE_1, ANNOUNCE_1
  <2>2. CASE p \notin U.open
    <3>1. U.pcb[p].state \in {OFF, DUP}
      BY <2>2 DEF Restarts, Sane, Quiet
    <3> QED BY <2>2, <3>1 DEF Fresh, Live, OFF, DUP, ANNOUNCE_1
  <2> QED BY <2>1, <2>2
<1> QED BY <1>1 DEF Restarts, Stepped

-----------------------------------------------------------------------------
\* What changes before a restart is no business of the probes.
Alike(T, U) ==
  /\ Server(U) /\ U.open = T.open /\ (T.host => U.host)
  /\ \A p \in Pcbs :
        /\ U.pcb[p].state = T.pcb[p].state /\ U.pcb[p].services = T.pcb[p].services
        /\ U.pcb[p].running = T.pcb[p].running
        /\ Mine(T.queue, p) = {} => Mine(U.queue, p) = {}

\* What changes before a restart leaves the PCBs as quiet as they were.
LEMMA AlikeQuiet ==
  ASSUME NEW T, NEW U, Alike(T, U), NEW R, NEW p \in Pcbs, Quiet(T, R, p)
  PROVE  Quiet(U, R, p)
<1>1. /\ U.pcb[p].state = T.pcb[p].state /\ U.pcb[p].services = T.pcb[p].services
      /\ U.pcb[p].running = T.pcb[p].running /\ U.open = T.open /\ (T.host => U.host)
      /\ Mine(T.queue, p) = {} => Mine(U.queue, p) = {}
  BY DEF Alike
<1>2. Live(T, p) <=> Live(U, p)
  BY <1>1 DEF Live, Probing
<1> QED BY <1>1, <1>2 DEF Quiet

\* Alike is transitive.
LEMMA AlikeAlike ==
  ASSUME NEW T, NEW U, NEW V, Alike(T, U), Alike(U, V)
  PROVE  Alike(T, V)
BY DEF Alike

\* The host name may be set before a restart, ...
LEMMA Hosted ==
  ASSUME NEW T, Server(T)
  PROVE  LET U == [T EXCEPT !.host = TRUE] IN Alike(T, U) /\ U.host = TRUE
<1> DEFINE U == [T EXCEPT !.host = TRUE]
<1>1. /\ U \in Servers /\ U.queue = T.queue /\ U.pcb = T.pcb /\ U.open = T.open /\ U.main = T.main
      /\ U.host = TRUE
  BY DEF Server, Servers
<1> HIDE DEF U
<1>2. Alike(T, U)
  BY <1>1 DEF Alike, Server
<1> QED BY <1>1, <1>2 DEF U

\* ... a service may get a name of its own, ...
LEMMA Owned ==
  ASSUME NEW T, Server(T), NEW o \in SUBSET Services
  PROVE  LET U == [T EXCEPT !.own = o] IN Alike(T, U) /\ U.host = T.host
<1> DEFINE U == [T EXCEPT !.own = o]
<1>1. /\ U \in Servers /\ U.queue = T.queue /\ U.pcb = T.pcb /\ U.open = T.open /\ U.main = T.main
      /\ U.host = T.host
  BY DEF Server, Servers
<1> HIDE DEF U
<1>2. Alike(T, U)
  BY <1>1 DEF Alike, Server
<1> QED BY <1>1, <1>2 DEF U

\* ... a failed probe may be counted ...
LEMMA Failing ==
  ASSUME NEW T, Server(T), NEW p \in Pcbs
  PROVE  LET U == [T EXCEPT !.pcb[p].failed = IF @ > FastProbes THEN @ ELSE @ + 1]
         IN  Alike(T, U) /\ U.host = T.host /\ U.own = T.own
<1> DEFINE c == T.pcb[p]
           x == IF c.failed > FastProbes THEN c.failed ELSE c.failed + 1
           d == [c EXCEPT !.failed = x]
           U == WithPcb(T, p, d)
<1>1. c \in PcbType
  BY ServerFields DEF Server
<1>2. x \in Nat
  BY <1>1, PcbFields
<1>3. U = [T EXCEPT !.pcb[p].failed = IF @ > FastProbes THEN @ ELSE @ + 1]
  BY DEF WithPcb
<1> HIDE DEF c, x
<1>4. d \in PcbType /\ d.state = c.state /\ d.services = c.services /\ d.running = c.running
  <2> HIDE DEF States
  <2> QED BY <1>1, <1>2 DEF PcbType
<1> HIDE DEF d
<1>5. OnlyPcb(T, U, p, d)
  BY <1>4, PcbSet DEF Server
<1> HIDE DEF U
<1>6. Alike(T, U) /\ U.host = T.host /\ U.own = T.own
  BY <1>4, <1>5 DEF OnlyPcb, Alike, Server, c
<1> QED BY <1>3, <1>6

\* ... and the whole queue may be cleared.
LEMMA Emptied ==
  ASSUME NEW T, Server(T)
  PROVE  LET U == [T EXCEPT !.queue = <<>>] IN Alike(T, U) /\ U.host = T.host
<1> DEFINE q == <<>>
           U == WithQueue(T, q)
<1>1. q \in Seq(Packets) /\ Len(q) = 0 /\ 1 .. 0 = {}
  BY EmptySeq
<1>2. Sorted(q) /\ \A p : Mine(q, p) = {}
  BY <1>1 DEF Sorted, Mine
<1>3. U = [T EXCEPT !.queue = <<>>]
  BY DEF WithQueue
<1> HIDE DEF q
<1>4. OnlyQueue(T, U, q)
  BY <1>1, QueueSet DEF Server
<1> HIDE DEF U
<1>5. Alike(T, U) /\ U.host = T.host
  BY <1>2, <1>4 DEF OnlyQueue, Alike, Server
<1> QED BY <1>3, <1>5

\* _mdns_probe_all_pcbs after such a change, ...
LEMMA ProbesAlike ==
  ASSUME NEW T, NEW R, \A p \in Pcbs : Quiet(T, R, p), NEW Z, Alike(T, Z), Z.host, NEW svcs, NEW ip,
         NEW clearOld \in BOOLEAN, Proper(R, svcs, ip)
  PROVE  Restarts(T, ProbeAll(Z, svcs, ip, clearOld), R)
<1>1. Server(Z) /\ Z.open = T.open /\ AllQuiet(Z, R)
  BY AlikeQuiet DEF Alike, AllQuiet
<1>2. Restarts(Z, ProbeAll(Z, svcs, ip, clearOld), R)
  BY <1>1, ProbesAll
<1> QED BY <1>1, <1>2 DEF Restarts

\* ... _mdns_restart_all_pcbs ...
LEMMA RestartsAlike ==
  ASSUME NEW T, NEW R, \A p \in Pcbs : Quiet(T, R, p), NEW Z, Alike(T, Z), Z.host, NEW svcs,
         svcs \in Seq(Services), ToSet(svcs) \subseteq R, IsInjective(svcs)
  PROVE  Restarts(T, RestartAll(Z, svcs), R)
<1> DEFINE W == [Z EXCEPT !.queue = <<>>]
           ip == TRUE
           old == TRUE
<1>1. Alike(Z, W) /\ W.host = Z.host
  BY Emptied DEF Alike
<1>2. RestartAll(Z, svcs) = ProbeAll(W, svcs, ip, old)
  BY DEF RestartAll
<1>3. Proper(R, svcs, ip) /\ old \in BOOLEAN
  BY DEF Proper
<1> HIDE DEF W, ip, old
<1>4. Alike(T, W)
  BY <1>1, AlikeAlike
<1>5. Restarts(T, ProbeAll(W, svcs, ip, old), R)
  BY <1>1, <1>3, <1>4, ProbesAlike
<1> QED BY <1>2, <1>5

\* ... and _mdns_restart_all_pcbs_no_instance, which does nothing if every service has a name.
LEMMA RestartsNamed ==
  ASSUME NEW T, NEW R, \A p \in Pcbs : Quiet(T, R, p), NEW Z, Alike(T, Z), Z.host, NEW svcs,
         svcs \in Seq(Services), ToSet(svcs) \subseteq R, IsInjective(svcs)
  PROVE  LET U == RestartAllNoInstance(Z, svcs)
         IN  IF ToSet(svcs) \subseteq Z.own THEN U = Z ELSE Restarts(T, U, R)
<1> DEFINE rest == Without(svcs, Z.own)
           ip == FALSE
           old == TRUE
<1>1. rest \in Seq(Services) /\ ToSet(rest) = ToSet(svcs) \ Z.own /\ IsInjective(rest)
  BY WithoutElements, WithoutInjective
<1>2. RestartAllNoInstance(Z, svcs) = IF rest = <<>> THEN Z ELSE ProbeAll(Z, rest, ip, old)
  BY DEF RestartAllNoInstance, NoInstance
<1>3. ip \in BOOLEAN /\ old \in BOOLEAN
  OBVIOUS
<1> HIDE DEF rest, ip, old
<1>4. ToSet(svcs) \subseteq Z.own <=> rest = <<>>
  <2>1. ToSet(rest) = {} <=> rest = <<>>
    BY <1>1, NoElement
  <2> QED BY <1>1, <2>1
<1>5. CASE rest = <<>>
  BY <1>2, <1>4, <1>5
<1>6. CASE rest # <<>>
  <2>1. Proper(R, rest, ip)
    BY <1>1, <1>3, <1>6 DEF Proper
  <2>2. Restarts(T, ProbeAll(Z, rest, ip, old), R)
    BY <1>3, <2>1, ProbesAlike
  <2> QED BY <1>2, <1>4, <1>6, <2>2
<1> QED BY <1>5, <1>6

-----------------------------------------------------------------------------
(* The invariant.                                                          *)

\* The services registered now.
Registered == ToSet(services)

\* The services a PCB probes for have been asked for as often as it counts.
Asked(p) ==
  Live(S, p) => \A s \in ToSet(S.pcb[p].services) : HasTwin(s) \/ asked[p][s] + PROBE_1 >= S.pcb[p].state

\* The inductive invariant.
ResponderInv ==
  /\ Server(S) /\ \A p \in Pcbs : Sane(S, Registered, p)
  /\ services \in Seq(Services) /\ IsInjective(services) /\ (services # <<>> => S.host)
  /\ inst \in BOOLEAN /\ events \in 0 .. MaxEvents
  /\ asked \in [Pcbs -> [Services -> 0 .. 3]] /\ \A p \in Pcbs : Asked(p)

\* A probe that goes on has its count.
Counts ==
  /\ asked' \in [Pcbs -> [Services -> 0 .. 3]]
  /\ \A p \in Pcbs : Live(S', p) /\ S'.pcb[p].state # PROBE_1 =>
        \A s \in ToSet(S'.pcb[p].services) : asked'[p][s] = asked[p][s]

\* What every action but the sending of a packet does.
Legal ==
  /\ Stepped(S, S', Registered') /\ Counts
  /\ services' \in Seq(Services) /\ IsInjective(services') /\ (services' # <<>> => S'.host)
  /\ inst' \in BOOLEAN /\ events' \in 0 .. MaxEvents

\* A legal step keeps the invariant.
LEMMA LegalInv ==
  ASSUME ResponderInv, Legal
  PROVE  ResponderInv'
<1>1. ASSUME NEW p \in Pcbs PROVE Asked(p)'
  <2>1. SUFFICES ASSUME Live(S', p), NEW s \in ToSet(S'.pcb[p].services)
                 PROVE  HasTwin(s) \/ asked'[p][s] + PROBE_1 >= S'.pcb[p].state
    BY DEF Asked
  <2>2. Fresh(S, S', p) /\ Sane(S', Registered', p)
    BY DEF Legal, Stepped
  <2>3. s \in Services
    <3>1. s \in Registered'
      BY <2>1, <2>2 DEF Sane, Quiet
    <3>2. s \in ToSet(services') /\ services' \in Seq(Services)
      BY <3>1 DEF Registered, Legal
    <3> QED BY <3>2, LenProperties DEF ToSet
  <2>4. asked'[p][s] \in 0 .. 3
    BY <2>3 DEF Legal, Counts
  <2>5. CASE S'.pcb[p].state = PROBE_1
    BY <2>4, <2>5 DEF PROBE_1
  <2>6. CASE S'.pcb[p].state # PROBE_1
    <3>1. /\ Live(S, p) /\ S'.pcb[p].state = S.pcb[p].state
          /\ s \in ToSet(S.pcb[p].services)
      BY <2>1, <2>2, <2>6 DEF Fresh
    <3>2. asked'[p][s] = asked[p][s]
      BY <2>1, <2>6 DEF Legal, Counts
    <3>3. HasTwin(s) \/ asked[p][s] + PROBE_1 >= S.pcb[p].state
      BY <3>1 DEF ResponderInv, Asked
    <3> QED BY <3>1, <3>2, <3>3
  <2> QED BY <2>5, <2>6
<1> QED BY <1>1 DEF Legal, Stepped, Counts, ResponderInv

\* Nothing new about a name, ...
LEMMA CountsKept ==
  ASSUME ResponderInv, UNCHANGED asked
  PROVE  Counts
BY DEF ResponderInv, Counts

\* ... or a new name, which every open PCB probes for from the start.
LEMMA CountsRenamed ==
  ASSUME ResponderInv, NEW who, Renamed(who),
         \A p \in S'.open : S'.pcb[p].state = PROBE_1
                            \/ \A s \in ToSet(S'.pcb[p].services) : s \notin who /\ s \in Services
  PROVE  Counts
<1>1. asked' = [p \in Pcbs |-> [s \in Services |-> IF s \in who \/ p \notin S'.open THEN 0 ELSE asked[p][s]]]
  BY DEF Renamed
<1>2. asked \in [Pcbs -> [Services -> 0 .. 3]]
  BY DEF ResponderInv
<1>3. asked' \in [Pcbs -> [Services -> 0 .. 3]]
  BY <1>1, <1>2
<1>4. ASSUME NEW p \in Pcbs, Live(S', p), S'.pcb[p].state # PROBE_1, NEW s \in ToSet(S'.pcb[p].services)
      PROVE  asked'[p][s] = asked[p][s]
  <2>1. p \in S'.open
    BY <1>4 DEF Live
  <2>2. s \notin who /\ s \in Services
    BY <1>4, <2>1
  <2> QED BY <1>1, <2>1, <2>2
<1> QED BY <1>3, <1>4 DEF Counts

\* A restart counts from the start.
LEMMA CountsRestart ==
  ASSUME ResponderInv, NEW who, Renamed(who), NEW R, Restarts(S, S', R)
  PROVE  Counts
<1>1. S'.open \subseteq Pcbs
  BY ServerFields DEF Restarts, Server
<1>2. \A p \in S'.open : S'.pcb[p].state = PROBE_1
  BY <1>1 DEF Restarts
<1> QED BY <1>2, CountsRenamed

\* No name changes: only a socket that closes loses its count.
LEMMA CountsSame ==
  ASSUME ResponderInv, Renamed({}), NEW R \in SUBSET Services, \A p \in Pcbs : Sane(S', R, p), Server(S')
  PROVE  Counts
<1>1. S'.open \subseteq Pcbs
  BY ServerFields DEF Server
<1>2. \A p \in S'.open : \A s \in ToSet(S'.pcb[p].services) : s \notin {} /\ s \in Services
  BY <1>1 DEF Sane, Quiet
<1> QED BY <1>2, CountsRenamed

\* What the invariant says of the server and of the list.
LEMMA InvFields ==
  ASSUME ResponderInv
  PROVE  /\ Server(S) /\ AllQuiet(S, Registered) /\ Registered \in SUBSET Services
         /\ S.open \subseteq Pcbs /\ S.host \in BOOLEAN /\ S.own \subseteq Services
         /\ services \in Seq(Services) /\ IsInjective(services)
         /\ ToSet(services) \subseteq Registered
<1>1. Registered \in SUBSET Services
  BY LenProperties DEF ResponderInv, Registered, ToSet
<1> QED BY <1>1, ServerFields DEF ResponderInv, Registered, Server, AllQuiet, Sane

\* The list of one service.
LEMMA OneService ==
  ASSUME NEW s \in Services, NEW R, s \in R, NEW ip \in BOOLEAN
  PROVE  Proper(R, <<s>>, ip) /\ ToSet(<<s>>) = {s}
<1>1. <<s>> \in Seq(Services) /\ DOMAIN <<s>> = 1 .. 1 /\ <<s>>[1] = s
  OBVIOUS
<1>2. ToSet(<<s>>) = {s} /\ IsInjective(<<s>>)
  BY <1>1 DEF ToSet, IsInjective
<1>3. <<s>> # <<>>
  OBVIOUS
<1> QED BY <1>1, <1>2, <1>3 DEF Proper

\* What a restart of the probes makes of a call that leaves the list alone.
LEMMA LegalRestart ==
  ASSUME ResponderInv, Restarts(S, S', Registered), Counts, services' = services,
         inst' \in BOOLEAN, events' \in 0 .. MaxEvents
  PROVE  Legal
<1>1. Registered' = Registered
  BY DEF Registered
<1>2. Stepped(S, S', Registered')
  BY <1>1, RestartsStepped
<1> QED BY <1>2 DEF Legal, ResponderInv, Restarts

\* The counter of events keeps its bound.
LEMMA Evented ==
  ASSUME ResponderInv
  PROVE  (Event => events' \in 0 .. MaxEvents) /\ (UNCHANGED events => events' \in 0 .. MaxEvents)
<1>1. MaxEvents \in Nat /\ events \in 0 .. MaxEvents
  BY ResponderAssumption DEF ResponderInv
<1> QED BY <1>1 DEF Event

\* Nothing changes before a restart.
LEMMA AlikeSelf ==
  ASSUME NEW T, Server(T)
  PROVE  Alike(T, T) /\ (T.host => T.host = TRUE)
BY ServerFields DEF Alike, Server

\* mdns_hostname_set is a legal step.
LEMMA HostnameSetLegal ==
  ASSUME ResponderInv, HostnameSet
  PROVE  Legal
<1> DEFINE Z == [S EXCEPT !.host = TRUE]
<1>1. Alike(S, Z) /\ Z.host
  BY InvFields, Hosted
<1> HIDE DEF Z
<1>2. Restarts(S, RestartAll(Z, services), Registered)
  BY <1>1, InvFields, RestartsAlike DEF AllQuiet
<1>3. S' = RestartAll(Z, services) /\ Renamed(ByHost) /\ services' = services /\ inst' = inst
      /\ events' \in 0 .. MaxEvents
  BY Evented DEF HostnameSet, Z
<1>4. Restarts(S, S', Registered)
  BY <1>2, <1>3
<1>5. Counts
  BY <1>3, <1>4, CountsRestart
<1> QED BY <1>3, <1>4, <1>5, LegalRestart DEF ResponderInv

\* A call that leaves server, names and list as they are.
LEMMA LegalIdle ==
  ASSUME ResponderInv, S' = S, Counts, services' = services, inst' \in BOOLEAN, events' \in 0 .. MaxEvents
  PROVE  Legal
<1>1. Registered' = Registered
  BY DEF Registered
<1>2. Shifted(S, S, Registered)
  BY KeptKept, KeptFresh DEF Shifted, NoNews, ResponderInv
<1>3. Stepped(S, S', Registered')
  BY <1>1, <1>2, ShiftedStepped
<1> QED BY <1>3 DEF Legal, ResponderInv

\* mdns_instance_name_set is a legal step.
LEMMA InstanceNameSetLegal ==
  ASSUME ResponderInv, InstanceNameSet
  PROVE  Legal
<1>1. /\ S.host /\ S' = RestartAllNoInstance(S, services) /\ Renamed(ByInstance)
      /\ services' = services /\ inst' \in BOOLEAN /\ events' \in 0 .. MaxEvents
  BY Evented DEF InstanceNameSet
<1>2. Alike(S, S)
  BY AlikeSelf, InvFields
<1>3. IF ToSet(services) \subseteq S.own THEN S' = S ELSE Restarts(S, S', Registered)
  <2>1. LET U == RestartAllNoInstance(S, services)
        IN  IF ToSet(services) \subseteq S.own THEN U = S ELSE Restarts(S, U, Registered)
    BY <1>1, <1>2, InvFields, RestartsNamed DEF AllQuiet
  <2> QED BY <1>1, <2>1
<1>4. CASE ToSet(services) \subseteq S.own
  <2>1. \A p \in S'.open : \A s \in ToSet(S'.pcb[p].services) : s \notin ByInstance /\ s \in Services
    <3>1. \A p \in S.open : ToSet(S.pcb[p].services) \subseteq Registered
      BY InvFields DEF AllQuiet, Quiet
    <3> QED BY <1>3, <1>4, <3>1, InvFields DEF ByInstance, Registered
  <2>2. Counts
    BY <1>1, <2>1, CountsRenamed
  <2> QED BY <1>1, <1>3, <1>4, <2>2, LegalIdle
<1>5. CASE ~(ToSet(services) \subseteq S.own)
  <2>1. Counts
    BY <1>1, <1>3, <1>5, CountsRestart
  <2> QED BY <1>1, <1>3, <1>5, <2>1, LegalRestart
<1> QED BY <1>4, <1>5

\* mdns_service_add is a legal step.
LEMMA ServiceAddLegal ==
  ASSUME ResponderInv, NEW s \in Services, ServiceAdd(s)
  PROVE  Legal
<1> DEFINE own == (S.own \ {s}) \cup (Named \cap {s})
           Z == [S EXCEPT !.own = own]
           R == Registered \cup {s}
           ip == FALSE
           old == FALSE
<1>1. /\ S.host /\ s \notin ToSet(services) /\ services' = <<s>> \o services
      /\ S' = ProbeAll(Z, <<s>>, ip, old) /\ Renamed({s}) /\ inst' = inst /\ events' = events
  BY DEF ServiceAdd
<1>2. ip \in BOOLEAN /\ old \in BOOLEAN /\ Proper(R, <<s>>, ip) /\ ToSet(<<s>>) = {s}
  BY OneService
<1>3. own \in SUBSET Services
  BY InvFields
<1> HIDE DEF own, ip, old
<1>4. Alike(S, Z) /\ Z.host = S.host
  BY <1>3, InvFields, Owned
<1> HIDE DEF Z
<1>5. \A p \in Pcbs : Quiet(S, R, p)
  BY InvFields, MoreServices DEF AllQuiet
<1>6. Restarts(S, S', R)
  <2>1. Z.host
    BY <1>1, <1>4
  <2>2. Restarts(S, ProbeAll(Z, <<s>>, ip, old), R)
    BY <1>2, <1>4, <1>5, <2>1, ProbesAlike
  <2> QED BY <1>1, <2>2
<1>7. services' \in Seq(Services) /\ ToSet(services') = R /\ IsInjective(services')
  <2>1. <<s>> \in Seq(Services) /\ IsInjective(<<s>>) /\ ToSet(<<s>>) \cap ToSet(services) = {}
    BY <1>1, <1>2 DEF Proper
  <2> DEFINE a == <<s>>
             w == a \o services
  <2>2. w \in Seq(Services) /\ ToSet(w) = ToSet(a) \cup ToSet(services) /\ IsInjective(w)
    <3>1. a \in Seq(Services) /\ IsInjective(a) /\ ToSet(a) \cap ToSet(services) = {}
      BY <2>1
    <3> HIDE DEF a
    <3> QED BY <3>1, InvFields, Joined
  <2> QED BY <1>1, <1>2, <2>2 DEF Registered
<1>8. Registered' = R
  BY <1>7 DEF Registered
<1>9. Counts
  BY <1>1, <1>6, CountsRestart
<1>10. Stepped(S, S', Registered')
  BY <1>6, <1>8, RestartsStepped
<1> QED BY <1>1, <1>6, <1>7, <1>9, <1>10 DEF Legal, Restarts, ResponderInv

\* A registered service.
LEMMA MemberService ==
  ASSUME ResponderInv, NEW s \in ToSet(services)
  PROVE  s \in Services /\ s \in Registered /\ S.host
<1>1. s \in Services /\ s \in Registered
  BY InvFields DEF Registered
<1>2. services # <<>>
  BY Nothing
<1> QED BY <1>1, <1>2 DEF ResponderInv

\* mdns_service_instance_name_set is a legal step.
LEMMA ServiceInstanceNameSetLegal ==
  ASSUME ResponderInv, NEW s \in Services, ServiceInstanceNameSet(s)
  PROVE  Legal
<1> DEFINE own == S.own \cup {s}
           Z == [S EXCEPT !.own = own]
           ip == FALSE
           old == FALSE
<1>1. /\ s \in ToSet(services) /\ services' = services /\ events' \in 0 .. MaxEvents
      /\ S' = ProbeAll(Z, <<s>>, ip, old) /\ Renamed({s}) /\ inst' = inst
  BY Evented DEF ServiceInstanceNameSet
<1>2. ip \in BOOLEAN /\ old \in BOOLEAN /\ Proper(Registered, <<s>>, ip)
  BY <1>1, MemberService, OneService
<1>3. own \in SUBSET Services
  BY InvFields
<1> HIDE DEF own, ip, old
<1>4. Alike(S, Z) /\ Z.host
  BY <1>1, <1>3, InvFields, Owned, MemberService
<1> HIDE DEF Z
<1>5. Restarts(S, ProbeAll(Z, <<s>>, ip, old), Registered)
  BY <1>2, <1>4, InvFields, ProbesAlike DEF AllQuiet
<1>6. Restarts(S, S', Registered)
  BY <1>1, <1>5
<1>7. Counts
  BY <1>1, <1>6, CountsRestart
<1> QED BY <1>1, <1>6, <1>7, LegalRestart DEF ResponderInv

\* mdns_service_remove, _all and mdns_delegate_hostname_remove are legal steps.
LEMMA UnregisterLegal ==
  ASSUME ResponderInv, NEW gone, Unregister(gone)
  PROVE  Legal
<1>1. /\ events' \in 0 .. MaxEvents /\ inst' = inst /\ asked' = asked /\ services' = Without(services, gone)
      /\ S' = Loop(LAMBDA U, s : IF s \in gone THEN ForgetService(U, s) ELSE U, S, services)
  BY Evented DEF Unregister
<1>2. Shifted(S, Loop(LAMBDA U, s : IF s \in gone THEN ForgetService(U, s) ELSE U, S, services),
              ToSet(Without(services, gone)))
  <2>1. \A p \in Pcbs : Sane(S, ToSet(services), p)
    BY DEF ResponderInv, Registered
  <2> QED BY <2>1, InvFields, ForgetsAll
<1>3. Shifted(S, S', Registered')
  BY <1>1, <1>2 DEF Registered
<1>4. services' \in Seq(Services) /\ IsInjective(services') /\ ToSet(services') = ToSet(services) \ gone
  BY <1>1, InvFields, WithoutElements, WithoutInjective
<1>5. services' # <<>> => S'.host
  <2>1. services = <<>> => services' = <<>>
    BY <1>4, Nothing, NoElement
  <2> QED BY <1>3, <2>1 DEF Shifted, ResponderInv
<1>6. Counts
  BY <1>1, CountsKept
<1> QED BY <1>1, <1>3, <1>4, <1>5, <1>6, ShiftedStepped DEF Legal, ResponderInv

\* A step that changes the server but no name and no list.
LEMMA LegalMoved ==
  ASSUME ResponderInv, Moved(S, S', Registered), Counts, services' = services, inst' = inst,
         events' \in 0 .. MaxEvents
  PROVE  Legal
<1>1. Registered' = Registered
  BY DEF Registered
<1>2. \A p \in Pcbs : Sane(S, Registered, p)
  BY DEF ResponderInv
<1>3. Stepped(S, S', Registered')
  BY <1>1, <1>2, MovedStepped
<1> QED BY <1>3 DEF Legal, ResponderInv, Moved

\* ... and so is a step without news.
LEMMA LegalShifted ==
  ASSUME ResponderInv, Shifted(S, S', Registered), Counts, services' = services, inst' = inst,
         events' \in 0 .. MaxEvents
  PROVE  Legal
<1>1. Registered' = Registered
  BY DEF Registered
<1>2. Stepped(S, S', Registered')
  BY <1>1, ShiftedStepped
<1> QED BY <1>2 DEF Legal, ResponderInv, Shifted

\* _mdns_announce_all_pcbs for a service is a legal step.
LEMMA AnnounceLegal ==
  ASSUME ResponderInv, NEW s \in ToSet(services), NEW ip \in BOOLEAN, S' = AnnounceAll(S, <<s>>, ip),
         UNCHANGED <<services, inst, asked>>, events' \in 0 .. MaxEvents
  PROVE  Legal
<1>1. Proper(Registered, <<s>>, ip)
  BY MemberService, OneService
<1>2. Server(S) /\ \A p \in Pcbs : Sane(S, Registered, p)
  BY DEF ResponderInv
<1>3. Moved(S, AnnounceAll(S, <<s>>, ip), Registered)
  BY <1>1, <1>2, AnnouncesAll
<1>4. Counts
  BY CountsKept
<1> QED BY <1>3, <1>4, LegalMoved

\* mdns_service_port_set and the TXT calls are legal steps.
LEMMA ServiceSetLegal ==
  ASSUME ResponderInv, NEW s \in Services, ServicePortSet(s) \/ ServiceTxtSet(s)
  PROVE  Legal
<1>1. \E x \in BOOLEAN : S' = AnnounceAll(S, <<s>>, x)
  BY DEF ServicePortSet, ServiceTxtSet
<1>2. s \in ToSet(services) /\ UNCHANGED <<services, inst, asked>> /\ events' \in 0 .. MaxEvents
  BY Evented DEF ServicePortSet, ServiceTxtSet
<1> QED BY <1>1, <1>2, AnnounceLegal

\* An interface that comes up or goes down is a legal step.
LEMMA InterfaceLegal ==
  ASSUME ResponderInv, NEW p \in Pcbs, InterfaceUp(p) \/ InterfaceDown(p)
  PROVE  Legal
<1>1. /\ services' = services /\ inst' = inst /\ events' \in 0 .. MaxEvents /\ Renamed({})
      /\ \E joins \in BOOLEAN : S' = EnablePcb(S, p, joins, services) \/ S' = DisablePcb(S, p, joins, services)
  BY Evented DEF InterfaceUp, InterfaceDown
<1>2. PICK joins \in BOOLEAN : S' = EnablePcb(S, p, joins, services) \/ S' = DisablePcb(S, p, joins, services)
  BY <1>1
<1>3. Server(S) /\ \A o \in Pcbs : Sane(S, Registered, o)
  BY DEF ResponderInv
<1>4. Shifted(S, EnablePcb(S, p, joins, services), Registered)
  BY <1>3, InvFields, Enables
<1>5. Shifted(S, DisablePcb(S, p, joins, services), Registered)
  BY <1>3, InvFields, Disables
<1>6. Shifted(S, S', Registered)
  BY <1>2, <1>4, <1>5
<1>7. Counts
  BY <1>1, <1>6, InvFields, CountsSame DEF Shifted
<1> QED BY <1>1, <1>6, <1>7, LegalShifted

\* An interface that announces again is a legal step.
LEMMA InterfaceAnnounceLegal ==
  ASSUME ResponderInv, NEW p \in Pcbs, InterfaceAnnounce(p)
  PROVE  Legal
<1> DEFINE none == <<>>
           ip == TRUE
<1>1. UNCHANGED <<services, inst, asked>> /\ events' \in 0 .. MaxEvents /\ S' = AnnouncePcb(S, p, none, ip)
  BY Evented DEF InterfaceAnnounce
<1>2. Proper(Registered, none, ip)
  BY EmptySeq, Nothing DEF Proper
<1> HIDE DEF none, ip
<1>3. Server(S) /\ \A o \in Pcbs : Sane(S, Registered, o)
  BY DEF ResponderInv
<1>4. Announced(S, S', Registered, p)
  BY <1>1, <1>2, <1>3, Announces
<1>5. Moved(S, S, Registered)
  BY <1>3, MovedNot
<1>6. Moved(S, S', Registered)
  BY <1>4, <1>5, MovedOn
<1>7. Counts
  BY <1>1, CountsKept
<1> QED BY <1>1, <1>6, <1>7, LegalMoved

\* An interface that steps back for another one is a legal step.
LEMMA DuplicateLegal ==
  ASSUME ResponderInv, NEW p \in Pcbs, DuplicateFound(p)
  PROVE  Legal
<1>1. services' = services /\ inst' = inst /\ events' \in 0 .. MaxEvents /\ Renamed({})
      /\ S' = DupInterface(S, If(p))
  BY Evented DEF DuplicateFound
<1>2. Server(S) /\ \A o \in Pcbs : Sane(S, Registered, o)
  BY DEF ResponderInv
<1> DEFINE i == If(p)
<1>3. S' = DupInterface(S, i)
  BY <1>1
<1> HIDE DEF i
<1>4. Moved(S, S', Registered)
  BY <1>2, <1>3, Duplicates
<1>5. Counts
  BY <1>1, <1>4, InvFields, CountsSame DEF Moved
<1> QED BY <1>1, <1>4, <1>5, LegalMoved

-----------------------------------------------------------------------------
\* Packets of a PCB that does not probe come and go, but those that announce.
LEMMA LegalQueue ==
  ASSUME ResponderInv, NEW p \in Pcbs, p \in S.open, ~Live(S, p), NEW q \in Seq(Packets), Sorted(q),
         \A o \in Pcbs : o # p => Same(S.queue, q, o),
         \A i \in Mine(q, p) : PacketOK(q[i], S.pcb[p], Registered),
         \A i \in Mine(S.queue, p) : News(S.queue[i]) => Has(q, p, S.queue[i]),
         S' = WithQueue(S, q), UNCHANGED <<services, inst, asked>>, events' \in 0 .. MaxEvents
  PROVE  Legal
<1>1. Server(S) /\ \A o \in Pcbs : Sane(S, Registered, o)
  BY DEF ResponderInv
<1>2. Turn(S, S', p) /\ S'.pcb = S.pcb /\ S'.queue = q
  BY <1>1, QueueTurn
<1>3. ~Live(S', p) /\ p \in S'.open /\ S'.host = S.host
  BY <1>2 DEF Turn, Live
<1>4. Quiet(S', Registered, p)
  BY <1>1, <1>2, <1>3 DEF Sane, Quiet
<1>5. Loaded(S', Registered, p)
  <2>1. ASSUME Announcing(S'.pcb[p]) PROVE \E i \in Mine(q, p) : News(q[i])
    <3>1. PICK i \in Mine(S.queue, p) : News(S.queue[i])
      BY <1>1, <1>2, <2>1 DEF Sane, Loaded
    <3> QED BY <3>1 DEF Has, News, Like
  <2> QED BY <1>2, <1>3, <2>1 DEF Loaded
<1>6. Fresh(S, S', p) /\ NoNews(S, S', p)
  BY <1>2, <1>3 DEF Fresh, NoNews
<1>7. Shifted(S, S', Registered)
  BY <1>1, <1>2, <1>4, <1>5, <1>6, TurnShifted DEF Sane
<1> QED BY <1>7, CountsKept, LegalShifted

\* The answer to a query is a legal step.
LEMMA QueryLegal ==
  ASSUME ResponderInv, NEW p \in Pcbs, Query(p)
  PROVE  Legal
<1> DEFINE Answer(recs) == [pcb |-> p, kind |-> "answer", q |-> <<>>, names |-> {}, recs |-> recs,
                            host |-> IF recs = {} THEN "answers" ELSE "none", at |-> 0, lap |-> 0]
<1>1. /\ UNCHANGED <<services, inst, asked>> /\ events' \in 0 .. MaxEvents /\ p \in S.open
      /\ S.pcb[p].state > PROBE_3
  BY Evented DEF Query
<1>2. PICK recs \in {{}} \cup {{s} : s \in ToSet(services)} :
          S' = [S EXCEPT !.queue = Schedule(@, Answer(recs), 0)]
  BY DEF Query
<1> DEFINE k == Answer(recs)
           q == Schedule(S.queue, k, 0)
<1>3. recs \subseteq Registered /\ recs \subseteq Services
  BY InvFields DEF Registered
<1>4. k \in Packets /\ k.pcb = p /\ k.q = <<>> /\ k.recs = recs
  BY <1>3, EmptySeq DEF Packets, Long
<1>5. S' = WithQueue(S, q)
  BY <1>2 DEF WithQueue
<1> HIDE DEF k
<1>6. Server(S) /\ Sane(S, Registered, p) /\ S.queue \in Seq(Packets) /\ Sorted(S.queue)
  BY ServerFields DEF ResponderInv, Server
<1>7. Scheduled(S.queue, q, k)
  BY <1>4, <1>6, ScheduleQueue
<1> HIDE DEF q
<1>8. ~Live(S, p)
  <2>1. S.pcb[p].state \in States
    BY <1>6, ServerFields, PcbFields DEF Server
  <2> QED BY <1>1, <2>1, AllStates DEF Live, Probing, PROBE_3, ANNOUNCE_1
<1>9. ASSUME NEW i \in Mine(q, p) PROVE PacketOK(q[i], S.pcb[p], Registered)
  <2>1. Like(q[i], k) \/ Has(S.queue, p, q[i])
    BY <1>4, <1>7 DEF Scheduled
  <2>2. CASE Like(q[i], k)
    BY <1>3, <1>4, <2>2, Nothing DEF PacketOK, Like
  <2>3. CASE Has(S.queue, p, q[i])
    <3>1. PICK j \in Mine(S.queue, p) : Like(S.queue[j], q[i])
      BY <2>3 DEF Has
    <3>2. PacketOK(S.queue[j], S.pcb[p], Registered)
      BY <1>6 DEF Sane, Loaded
    <3> QED BY <3>1, <3>2 DEF PacketOK, Like
  <2> QED BY <2>1, <2>2, <2>3
<1>10. \A i \in Mine(S.queue, p) : Has(q, p, S.queue[i])
  BY <1>4, <1>7 DEF Scheduled
<1>11. q \in Seq(Packets) /\ Sorted(q) /\ \A o \in Pcbs : o # p => Same(S.queue, q, o)
  BY <1>4, <1>6, <1>7 DEF Scheduled
<1> QED BY <1>1, <1>5, <1>8, <1>9, <1>10, <1>11, LegalQueue

\* An answer that is dropped is a legal step.
LEMMA RemoveLegal ==
  ASSUME ResponderInv, NEW p \in Pcbs, RemoveScheduledAnswer(p)
  PROVE  Legal
<1>1. UNCHANGED <<services, inst, asked>> /\ events' \in 0 .. MaxEvents /\ p \in S.open
  BY Evented DEF RemoveScheduledAnswer
<1>2. PICK n \in DOMAIN S.queue :
          /\ S.queue[n].pcb = p /\ S.queue[n].kind = "answer"
          /\ S' = [S EXCEPT !.queue[n].recs = {}, !.queue[n].host = "none"]
  BY DEF RemoveScheduledAnswer
<1> DEFINE k == S.queue[n]
           e == [k EXCEPT !.recs = {}, !.host = "none"]
           q == [S.queue EXCEPT ![n] = e]
<1>3. Server(S) /\ Sane(S, Registered, p) /\ S.queue \in Seq(Packets) /\ Sorted(S.queue)
  BY ServerFields DEF ResponderInv, Server
<1>4. n \in 1 .. Len(S.queue) /\ k \in Packets /\ n \in Mine(S.queue, p)
  BY <1>2, <1>3, LenProperties DEF Mine
<1>5. S' = WithQueue(S, q)
  <2>1. S.queue = [i \in 1 .. Len(S.queue) |-> S.queue[i]]
    BY <1>3, LenProperties
  <2> QED BY <1>2, <1>3, <1>4, <2>1 DEF WithQueue, Server, Servers
<1>6. /\ e \in Packets /\ e.pcb = p /\ e.at = k.at /\ e.lap = k.lap /\ e.q = k.q /\ e.recs = {}
      /\ k.kind = "answer"
  BY <1>2, <1>4 DEF Packets
<1> HIDE DEF e, k
<1>7. /\ q \in Seq(Packets) /\ Sorted(q) /\ Len(q) = Len(S.queue) /\ q[n] = e
      /\ \A i \in 1 .. Len(S.queue) : i # n => q[i] = S.queue[i]
      /\ \A o : Mine(q, o) = Mine(S.queue, o)
      /\ \A o : o # p => Same(S.queue, q, o)
  <2>1. e.pcb = S.queue[n].pcb /\ e.at = S.queue[n].at /\ e.lap = S.queue[n].lap
    BY <1>2, <1>6 DEF k
  <2> QED BY <1>3, <1>4, <1>6, <2>1, ReplaceQueue
<1> HIDE DEF q
<1>8. ~Live(S, p)
  BY <1>3, <1>4, <1>6 DEF Sane, Loaded, ProbeFor, k
<1>9. ASSUME NEW i \in Mine(q, p) PROVE PacketOK(q[i], S.pcb[p], Registered)
  <2>1. i \in Mine(S.queue, p) /\ i \in 1 .. Len(S.queue) /\ PacketOK(S.queue[i], S.pcb[p], Registered)
    BY <1>3, <1>7 DEF Sane, Loaded, Mine
  <2>2. CASE i = n
    BY <1>6, <1>7, <2>1, <2>2 DEF PacketOK, k
  <2>3. CASE i # n
    BY <1>7, <2>1, <2>3
  <2> QED BY <2>2, <2>3
<1>10. ASSUME NEW i \in Mine(S.queue, p), News(S.queue[i]) PROVE Has(q, p, S.queue[i])
  <2>1. i # n /\ i \in 1 .. Len(S.queue)
    BY <1>6, <1>10 DEF News, k, Mine
  <2>2. i \in Mine(q, p) /\ q[i] = S.queue[i]
    BY <1>7, <2>1
  <2> QED BY <2>2, LikeSame DEF Has
<1> QED BY <1>1, <1>5, <1>7, <1>8, <1>9, <1>10, LegalQueue

\* The service a conflict is taken to be about is a registered one.
LEMMA ConflictWith ==
  ASSUME ResponderInv, NEW s \in ToSet(services)
  PROVE  ConflictTarget(s) \in ToSet(services)
<1> DEFINE same == {i \in DOMAIN services : TypeOf(services[i]) = TypeOf(s)}
<1>1. DOMAIN services = 1 .. Len(services)
  BY InvFields, LenProperties
<1>2. same # {} /\ same \in SUBSET (1 .. Len(services))
  BY <1>1 DEF ToSet
<1>3. ConflictTarget(s) = services[First(same)]
  BY DEF ConflictTarget
<1>4. First(same) \in same
  <2> HIDE DEF same
  <2> QED BY <1>2, FirstOf
<1> QED BY <1>3, <1>4 DEF ToSet

\* A PCB that does not probe starts to.
LEMMA LegalStart ==
  ASSUME ResponderInv, NEW p \in Pcbs, p \in S.open, S.host, ~S.pcb[p].running, NEW svcs, NEW ip,
         Proper(Registered, svcs, ip), S' = InitProbe(S, p, svcs, ip), UNCHANGED <<services, inst, asked>>,
         events' \in 0 .. MaxEvents
  PROVE  Legal
<1>1. Server(S) /\ \A o \in Pcbs : Sane(S, Registered, o)
  BY DEF ResponderInv
<1>2. Startable(S, Registered, p, svcs, ip)
  BY <1>1 DEF Startable, Proper, Sane, Quiet
<1>3. LET W == InitProbe(S, p, svcs, ip)
      IN  /\ Turn(S, W, p) /\ Sane(W, Registered, p)
          /\ W.pcb[p].state = IF S.host THEN PROBE_1 ELSE RUNNING
  BY <1>1, <1>2, Probes
<1>4. Turn(S, S', p) /\ Sane(S', Registered, p) /\ S'.pcb[p].state = PROBE_1
  BY <1>3
<1>5. Fresh(S, S', p) /\ NoNews(S, S', p)
  BY <1>4 DEF Fresh, NoNews, Announcing, PROBE_1, PROBE_3
<1>6. Shifted(S, S', Registered)
  BY <1>1, <1>4, <1>5, TurnShifted
<1> QED BY <1>6, CountsKept, LegalShifted

\* A conflict about a service is a legal step, however it ends.
LEMMA SrvConflictLegal ==
  ASSUME ResponderInv, NEW p \in Pcbs, NEW s \in Services, SrvConflict(p, s)
  PROVE  Legal
<1> DEFINE t == ConflictTarget(s)
           Z == [S EXCEPT !.pcb[p].failed = IF @ > FastProbes THEN @ ELSE @ + 1]
           ip == FALSE
           old == FALSE
<1>1. /\ services' = services /\ inst' = inst /\ events' \in 0 .. MaxEvents
      /\ p \in S.open /\ S.host /\ s \in ToSet(services)
  BY Evented DEF SrvConflict
<1>2. \/ S' = ProbeAll(Z, <<t>>, ip, old) /\ Renamed({t})
      \/ t \notin S.own /\ S' = RestartAllNoInstance(Z, services) /\ Renamed(ByInstance)
      \/ S' = RestartAll(Z, services) /\ Renamed(ByHost)
      \/ ~S.pcb[p].running /\ S' = InitProbe(S, p, <<t>>, ip) /\ UNCHANGED asked
  BY DEF SrvConflict, RenameHost
<1>3. t \in ToSet(services) /\ t \in Services /\ t \in Registered
  BY <1>1, ConflictWith, MemberService
<1>4. ip \in BOOLEAN /\ old \in BOOLEAN /\ Proper(Registered, <<t>>, ip)
  BY <1>3, OneService
<1> HIDE DEF t, ip, old
<1>5. Alike(S, Z) /\ Z.host /\ Z.own = S.own
  BY <1>1, InvFields, Failing
<1> HIDE DEF Z
<1>6. CASE S' = ProbeAll(Z, <<t>>, ip, old) /\ Renamed({t})
  <2>1. Restarts(S, ProbeAll(Z, <<t>>, ip, old), Registered)
    BY <1>4, <1>5, InvFields, ProbesAlike DEF AllQuiet
  <2>2. Restarts(S, S', Registered)
    BY <1>6, <2>1
  <2>3. Counts
    BY <1>6, <2>2, CountsRestart
  <2> QED BY <1>1, <2>2, <2>3, LegalRestart DEF ResponderInv
<1>7. CASE t \notin S.own /\ S' = RestartAllNoInstance(Z, services) /\ Renamed(ByInstance)
  <2>1. LET U == RestartAllNoInstance(Z, services)
        IN  IF ToSet(services) \subseteq Z.own THEN U = Z ELSE Restarts(S, U, Registered)
    BY <1>5, InvFields, RestartsNamed DEF AllQuiet
  <2>2. ~(ToSet(services) \subseteq Z.own)
    BY <1>3, <1>5, <1>7
  <2>3. Restarts(S, S', Registered)
    BY <1>7, <2>1, <2>2
  <2>4. Counts
    BY <1>7, <2>3, CountsRestart
  <2> QED BY <1>1, <2>3, <2>4, LegalRestart DEF ResponderInv
<1>8. CASE S' = RestartAll(Z, services) /\ Renamed(ByHost)
  <2>1. Restarts(S, RestartAll(Z, services), Registered)
    BY <1>5, InvFields, RestartsAlike DEF AllQuiet
  <2>2. Restarts(S, S', Registered)
    BY <1>8, <2>1
  <2>3. Counts
    BY <1>8, <2>2, CountsRestart
  <2> QED BY <1>1, <2>2, <2>3, LegalRestart DEF ResponderInv
<1>9. CASE ~S.pcb[p].running /\ S' = InitProbe(S, p, <<t>>, ip) /\ UNCHANGED asked
  <2> DEFINE svcs == <<t>>
  <2>1. Proper(Registered, svcs, ip) /\ S' = InitProbe(S, p, svcs, ip)
    BY <1>4, <1>9
  <2> HIDE DEF svcs
  <2> QED BY <1>1, <1>9, <2>1, LegalStart
<1> QED BY <1>2, <1>6, <1>7, <1>8, <1>9

\* A conflict about TXT data is a legal step.
LEMMA TxtConflictLegal ==
  ASSUME ResponderInv, NEW p \in Pcbs, NEW s \in Services, TxtConflict(p, s)
  PROVE  Legal
<1> DEFINE t == ConflictTarget(s)
           svcs == <<t>>
           ip == TRUE
<1>1. /\ UNCHANGED <<services, inst, asked>> /\ events' \in 0 .. MaxEvents
      /\ p \in S.open /\ S.host /\ s \in ToSet(services) /\ ~S.pcb[p].running
      /\ S' = InitProbe(S, p, svcs, ip)
  BY Evented DEF TxtConflict
<1>2. t \in Services /\ t \in Registered /\ ip \in BOOLEAN
  BY <1>1, ConflictWith, MemberService
<1> HIDE DEF t
<1>3. Proper(Registered, svcs, ip)
  BY <1>2, OneService
<1> HIDE DEF svcs, ip
<1> QED BY <1>1, <1>3, LegalStart

\* A conflict about an address is a legal step.
LEMMA AddressConflictLegal ==
  ASSUME ResponderInv, NEW p \in Pcbs, AddressConflict(p)
  PROVE  Legal
<1> DEFINE Z == [S EXCEPT !.pcb[p].failed = IF @ > FastProbes THEN @ ELSE @ + 1]
           none == <<>>
           ip == TRUE
<1>1. /\ services' = services /\ inst' = inst /\ events' \in 0 .. MaxEvents /\ p \in S.open /\ S.host
      /\ \/ S' = RestartAll(Z, services) /\ Renamed(ByHost)
         \/ ~S.pcb[p].running /\ S' = InitProbe(S, p, none, ip) /\ UNCHANGED asked
  BY Evented DEF AddressConflict, RenameHost
<1>2. Proper(Registered, none, ip)
  BY EmptySeq, Nothing DEF Proper
<1> HIDE DEF none, ip
<1>3. Alike(S, Z) /\ Z.host
  BY <1>1, InvFields, Failing
<1> HIDE DEF Z
<1>4. CASE S' = RestartAll(Z, services) /\ Renamed(ByHost)
  <2>1. Restarts(S, RestartAll(Z, services), Registered)
    BY <1>3, InvFields, RestartsAlike DEF AllQuiet
  <2>2. Restarts(S, S', Registered)
    BY <1>4, <2>1
  <2>3. Counts
    BY <1>4, <2>2, CountsRestart
  <2> QED BY <1>1, <2>2, <2>3, LegalRestart DEF ResponderInv
<1>5. CASE ~S.pcb[p].running /\ S' = InitProbe(S, p, none, ip) /\ UNCHANGED asked
  BY <1>1, <1>2, <1>5, LegalStart
<1> QED BY <1>1, <1>4, <1>5

-----------------------------------------------------------------------------
\* Time passes.
LEMMA TickLegal ==
  ASSUME ResponderInv, Tick
  PROVE  Legal
<1> DEFINE a == S.queue
           N == Len(a)
           now == Head(a).at
           q == [i \in 1 .. N |-> [a[i] EXCEPT !.at = Less(@, now)]]
<1>1. Server(S) /\ a \in Seq(Packets) /\ Sorted(a)
  BY ServerFields DEF ResponderInv, Server
<1>2. N \in Nat /\ DOMAIN a = 1 .. N /\ \A i \in 1 .. N : a[i] \in Packets /\ a[i].at \in 0 .. 2
  BY <1>1, LenProperties, PacketFields
<1>3. a # <<>> /\ UNCHANGED <<services, inst, asked, events>> /\ S' = WithQueue(S, q)
  <2>1. S' = [S EXCEPT !.queue = [i \in DOMAIN S.queue |-> [S.queue[i] EXCEPT !.at = Less(@, Head(S.queue).at)]]]
    BY DEF Tick
  <2>2. DOMAIN S.queue = 1 .. N
    BY <1>2
  <2>3. a # <<>> /\ UNCHANGED <<services, inst, asked, events>>
    BY DEF Tick
  <2> QED BY <2>1, <2>2, <2>3 DEF WithQueue
<1>4. 1 \in 1 .. N /\ now = a[1].at
  BY <1>1, <1>3, HeadTailProperties, EmptySeq, <1>2
<1>5. now \in 0 .. 2
  BY <1>2, <1>4
<1> HIDE DEF now
<1>6. ASSUME NEW i \in 1 .. N
      PROVE  /\ q[i] \in Packets /\ Like(q[i], a[i]) /\ q[i].lap = a[i].lap
             /\ q[i].at = Less(a[i].at, now)
  <2> DEFINE y == Less(a[i].at, now)
  <2>1. y \in 0 .. 2 /\ a[i] \in Packets
    BY <1>2, <1>5 DEF Less
  <2>2. q[i] = [a[i] EXCEPT !.at = y]
    OBVIOUS
  <2> HIDE DEF y, q
  <2>3. q[i] \in Packets /\ Like(q[i], a[i]) /\ q[i].lap = a[i].lap /\ q[i].at = y
    BY <2>1, <2>2 DEF Packets, Long, Like
  <2> QED BY <2>3 DEF y
<1>7. q \in Seq(Packets) /\ Len(q) = N
  <2>1. q \in [1 .. N -> Packets]
    BY <1>6
  <2> HIDE DEF q
  <2>2. q \in Seq(Packets)
    BY <1>2, <2>1, IsASeq
  <2> QED BY <1>2, <2>1, <2>2, LenProperties
<1> HIDE DEF q
<1>8. Sorted(q)
  <2>1. SUFFICES ASSUME NEW i \in 1 .. N, NEW j \in 1 .. N, i <= j PROVE NoLater(q[i], q[j])
    BY <1>7 DEF Sorted
  <2>2. NoLater(a[i], a[j])
    BY <1>1, <2>1 DEF Sorted
  <2>3. a[i].at \in 0 .. 2 /\ a[j].at \in 0 .. 2
    BY <1>2
  <2>4. Less(a[i].at, now) > Less(a[j].at, now) => a[i].at > a[j].at
    BY <1>5, <2>3 DEF Less
  <2>5. /\ q[i].lap = a[i].lap /\ q[j].lap = a[j].lap
        /\ q[i].at = Less(a[i].at, now) /\ q[j].at = Less(a[j].at, now)
    BY <1>6
  <2> QED BY <2>2, <2>4, <2>5 DEF NoLater, Greater
<1>9. ASSUME NEW o PROVE Same(a, q, o)
  <2>1. Mine(a, o) = Mine(q, o)
    BY <1>6, <1>7 DEF Mine, Like
  <2>2. \A i \in Mine(a, o) : Like(q[i], a[i])
    BY <1>6 DEF Mine
  <2> QED BY <2>1, <2>2, LikeSame DEF Same, Has, Sole
<1>10. OnlyQueue(S, S', q)
  BY <1>1, <1>3, <1>7, QueueSet DEF Server
<1>11. Server(S')
  BY <1>1, <1>8, <1>10 DEF Server, OnlyQueue
<1>12. ASSUME NEW p \in Pcbs PROVE Sane(S', Registered, p) /\ Fresh(S, S', p) /\ NoNews(S, S', p)
  <2>1. Kept(S, S', p)
    BY <1>9, <1>10 DEF Kept, OnlyQueue
  <2>2. Sane(S, Registered, p)
    BY DEF ResponderInv
  <2> QED BY <2>1, <2>2, KeptSane, KeptFresh DEF Sane, NoNews
<1>13. Shifted(S, S', Registered)
  BY <1>10, <1>11, <1>12 DEF Shifted, OnlyQueue
<1>14. Counts
  BY <1>3, CountsKept
<1> QED BY <1>3, <1>13, <1>14, LegalShifted DEF ResponderInv

-----------------------------------------------------------------------------
(* Sending.                                                                *)

\* The head of the queue leaves.
LEMMA Sends ==
  ASSUME NEW a \in Seq(Packets), Sorted(a), a # <<>>
  PROVE  LET k == Head(a)
             b == Tail(a)
         IN  /\ k \in Packets /\ k = a[1] /\ 1 \in Mine(a, k.pcb) /\ b \in Seq(Packets) /\ Sorted(b)
             /\ \A o : o # k.pcb => Same(a, b, o)
             /\ \A o : \A i \in Mine(b, o) : Has(a, o, b[i])
             /\ \A i \in Mine(a, k.pcb) : i = 1 \/ Has(b, k.pcb, a[i])
             /\ Sole(a, k.pcb) => Mine(b, k.pcb) = {}
<1> DEFINE k == Head(a)
           b == Tail(a)
           N == Len(a)
<1>1. N \in Nat /\ \A i \in 1 .. N : a[i] \in Packets
  BY LenProperties
<1>2. 1 \in 1 .. N /\ k = a[1] /\ b \in Seq(Packets) /\ Len(b) = N - 1
      /\ \A i \in 1 .. N - 1 : b[i] = a[i + 1]
  BY <1>1, HeadTailProperties, EmptySeq
<1> HIDE DEF k, b, N
<1>3. /\ \A i \in 1 .. N - 1 : i + 1 \in 1 .. N /\ i + 1 # 1 /\ b[i] = a[i + 1]
      /\ \A i \in 1 .. N : i # 1 => i - 1 \in 1 .. N - 1 /\ b[i - 1] = a[i]
  BY <1>1, <1>2
<1>4. Sorted(b)
  <2>1. SUFFICES ASSUME NEW i \in 1 .. N - 1, NEW j \in 1 .. N - 1, i <= j PROVE NoLater(b[i], b[j])
    BY <1>2 DEF Sorted
  <2>2. i + 1 <= j + 1
    BY <1>1, <2>1
  <2>3. NoLater(a[i + 1], a[j + 1])
    BY <1>3, <2>2 DEF Sorted, N
  <2> QED BY <1>3, <2>3
<1>5. ASSUME NEW o, NEW i \in Mine(b, o) PROVE i + 1 \in Mine(a, o) /\ i + 1 # 1 /\ b[i] = a[i + 1]
  BY <1>2, <1>3 DEF Mine, N
<1>6. ASSUME NEW o, NEW i \in Mine(a, o), i # 1 PROVE i - 1 \in Mine(b, o) /\ b[i - 1] = a[i]
  BY <1>2, <1>3, <1>6 DEF Mine, N
<1>7. \A o : \A i \in Mine(b, o) : Has(a, o, b[i])
  BY <1>5, LikeSame DEF Has
<1>8. \A o : \A i \in Mine(a, o) : i # 1 => Has(b, o, a[i])
  BY <1>6, LikeSame DEF Has
<1>9. 1 \in Mine(a, k.pcb)
  BY <1>2 DEF Mine, N
<1>10. ASSUME NEW o, o # k.pcb PROVE Same(a, b, o)
  <2>1. 1 \notin Mine(a, o)
    BY <1>2, <1>10 DEF Mine
  <2>2. \A i \in Mine(a, o) : Has(b, o, a[i])
    BY <1>8, <2>1
  <2>3. ASSUME Sole(a, o) PROVE Sole(b, o)
    <3>1. SUFFICES ASSUME NEW i \in Mine(b, o), NEW j \in Mine(b, o) PROVE i = j
      BY DEF Sole
    <3>2. i + 1 = j + 1
      BY <1>5, <2>3 DEF Sole
    <3>3. i \in Nat /\ j \in Nat
      BY DEF Mine
    <3> QED BY <3>2, <3>3
  <2> QED BY <1>7, <2>2, <2>3 DEF Same
<1>11. ASSUME Sole(a, k.pcb) PROVE Mine(b, k.pcb) = {}
  <2>1. SUFFICES ASSUME NEW i \in Mine(b, k.pcb) PROVE FALSE
    OBVIOUS
  <2>2. i + 1 \in Mine(a, k.pcb) /\ i + 1 # 1
    BY <1>5
  <2> QED BY <1>9, <1>11, <2>2 DEF Sole
<1>12. k \in Packets
  BY <1>1, <1>2
<1> QED BY <1>2, <1>4, <1>7, <1>8, <1>9, <1>10, <1>11, <1>12 DEF k, b

\* A probe that becomes an announcement.
LEMMA ProbeDone ==
  ASSUME NEW k \in Packets
  PROVE  LET e == AnnounceFromProbe(k)
         IN  /\ e \in Packets /\ e.pcb = k.pcb /\ e.kind = "announce" /\ e.q = <<>> /\ e.recs = k.recs
             /\ e.host = "answers"
<1>1. <<>> \in Seq(Services)
  BY EmptySeq
<1> QED BY <1>1 DEF AnnounceFromProbe, Packets

\* Sending a packet changes the queue and the PCB of the packet.
Sent(q, d) ==
  LET k == Head(S.queue)
  IN  /\ S' = WithPcb(WithQueue(S, q), k.pcb, d)
      /\ q \in Seq(Packets) /\ Sorted(q) /\ d \in PcbType
      /\ \A o \in Pcbs : o # k.pcb => Same(S.queue, q, o)

\* The head of the queue and its PCB.
Due(k, p) ==
  /\ k = Head(S.queue) /\ p = k.pcb /\ k \in Packets /\ p \in Pcbs /\ p \in S.open
  /\ S.queue # <<>> /\ 1 \in Mine(S.queue, p) /\ k = S.queue[1]
  /\ PacketOK(k, S.pcb[p], Registered) /\ S.pcb[p] \in PcbType /\ S.pcb[p].state \notin {OFF, DUP}

\* The head of the queue is a packet of an open PCB.
LEMMA DueHead ==
  ASSUME ResponderInv, S.queue # <<>>
  PROVE  Due(Head(S.queue), Head(S.queue).pcb)
<1> DEFINE k == Head(S.queue)
           p == k.pcb
<1>1. S.queue \in Seq(Packets) /\ Sorted(S.queue) /\ Server(S)
  BY ServerFields DEF ResponderInv, Server
<1>2. k \in Packets /\ k = S.queue[1] /\ 1 \in Mine(S.queue, p)
  BY <1>1, Sends
<1>3. p \in Pcbs
  BY <1>2, PacketFields
<1>4. Sane(S, Registered, p) /\ S.pcb[p] \in PcbType
  BY <1>1, <1>3, ServerFields DEF ResponderInv, Server
<1> HIDE DEF k
<1>5. PacketOK(k, S.pcb[p], Registered) /\ p \in S.open /\ S.pcb[p].state \notin {OFF, DUP}
  BY <1>2, <1>4 DEF Sane, Quiet, Loaded
<1> QED BY <1>2, <1>3, <1>4, <1>5 DEF Due, k

\* Sending is the turn of the packet's PCB.
LEMMA SentTurn ==
  ASSUME ResponderInv, NEW q, NEW d, Sent(q, d), NEW k, NEW p, Due(k, p)
  PROVE  Turn(S, S', p) /\ S'.pcb[p] = d /\ S'.queue = q /\ p \in S'.open
<1> DEFINE V == WithQueue(S, q)
<1>1. Server(S) /\ q \in Seq(Packets) /\ Sorted(q) /\ d \in PcbType /\ p \in Pcbs /\ p \in S.open
      /\ \A o \in Pcbs : o # p => Same(S.queue, q, o)
  BY DEF ResponderInv, Sent, Due
<1>2. S' = WithPcb(V, p, d)
  BY DEF Sent, Due
<1>3. Turn(S, V, p) /\ V.queue = q
  BY <1>1, QueueTurn
<1> HIDE DEF V
<1>4. Turn(V, S', p) /\ S'.pcb[p] = d /\ S'.queue = q
  BY <1>1, <1>2, <1>3, PcbTurn DEF Turn
<1>5. Turn(S, S', p)
  BY <1>3, <1>4, TurnTurn
<1> QED BY <1>1, <1>4, <1>5 DEF Turn

\* A PCB that does not probe before or after.
LEMMA SentRest ==
  ASSUME ResponderInv, NEW q, NEW d, Sent(q, d), NEW k, NEW p, Due(k, p), ~Live(S, p),
         d.services = <<>>, d.running = FALSE, ~Probing(d), d.state \notin {OFF, DUP},
         \A i \in Mine(q, p) : Has(S.queue, p, q[i]),
         Announcing(d) => Announcing(S.pcb[p]) /\ \A i \in Mine(S.queue, p) : Has(q, p, S.queue[i])
  PROVE  Sane(S', Registered, p) /\ ~Live(S', p)
<1>1. Turn(S, S', p) /\ S'.pcb[p] = d /\ S'.queue = q /\ p \in S'.open
  BY SentTurn
<1>2. Sane(S, Registered, p)
  BY DEF ResponderInv, Due
<1>3. ~Live(S', p)
  BY <1>1 DEF Live
<1>4. Quiet(S', Registered, p)
  BY <1>1, <1>3, Nothing DEF Quiet
<1>5. ASSUME Announcing(d) PROVE \E i \in Mine(q, p) : News(q[i])
  <2>1. PICK i \in Mine(S.queue, p) : News(S.queue[i])
    BY <1>2, <1>5 DEF Sane, Loaded
  <2>2. Has(q, p, S.queue[i])
    BY <1>5
  <2> QED BY <2>1, <2>2 DEF Has, News, Like
<1>6. ASSUME NEW i \in Mine(q, p) PROVE PacketOK(q[i], d, Registered)
  <2>1. PICK j \in Mine(S.queue, p) : Like(S.queue[j], q[i])
    BY DEF Has
  <2>2. PacketOK(S.queue[j], S.pcb[p], Registered) /\ S.pcb[p].services = <<>>
    BY <1>2 DEF Sane, Quiet, Loaded
  <2> QED BY <2>1, <2>2, Nothing DEF PacketOK, Like
<1>7. Loaded(S', Registered, p)
  BY <1>1, <1>3, <1>5, <1>6 DEF Loaded
<1> QED BY <1>3, <1>4, <1>7 DEF Sane

\* A probe that is sent again.
LEMMA SentProbe ==
  ASSUME ResponderInv, NEW q, NEW d, Sent(q, d), NEW k, NEW p, Due(k, p), Live(S, p),
         Probing(d), d.services = S.pcb[p].services, d.ip = S.pcb[p].ip, d.running = S.pcb[p].running,
         d.state \notin {OFF, DUP}, ~Announcing(d),
         Sole(q, p), Has(q, p, k), \A i \in Mine(q, p) : Like(q[i], k)
  PROVE  Sane(S', Registered, p)
<1>1. Turn(S, S', p) /\ S'.pcb[p] = d /\ S'.queue = q /\ p \in S'.open
  BY SentTurn
<1>2. Sane(S, Registered, p) /\ PacketOK(k, S.pcb[p], Registered) /\ ProbeFor(k, S.pcb[p])
  BY DEF ResponderInv, Due, Sane, Loaded
<1>3. Live(S', p)
  BY <1>1 DEF Live
<1>4. Quiet(S', Registered, p)
  BY <1>1, <1>2, <1>3 DEF Sane, Quiet, Turn
<1>5. ProbeFor(k, d) /\ PacketOK(k, d, Registered)
  BY <1>2 DEF ProbeFor, PacketOK, Live
<1>6. \A i \in Mine(q, p) : ProbeFor(q[i], d) /\ PacketOK(q[i], d, Registered)
  BY <1>5 DEF ProbeFor, PacketOK, Like
<1>7. Loaded(S', Registered, p)
  BY <1>1, <1>3, <1>6 DEF Loaded, Has
<1> QED BY <1>4, <1>7 DEF Sane

\* The probe that becomes an announcement.
LEMMA SentNews ==
  ASSUME ResponderInv, NEW q, NEW d, Sent(q, d), NEW k, NEW p, Due(k, p),
         d.services = <<>>, d.running = FALSE, d.state = ANNOUNCE_1,
         LET e == AnnounceFromProbe(k)
         IN  Has(q, p, e) /\ \A i \in Mine(q, p) : Like(q[i], e)
  PROVE  Sane(S', Registered, p) /\ ~Live(S', p)
<1> DEFINE e == AnnounceFromProbe(k)
<1>1. Turn(S, S', p) /\ S'.pcb[p] = d /\ S'.queue = q /\ p \in S'.open
  BY SentTurn
<1>2. PacketOK(k, S.pcb[p], Registered) /\ k \in Packets /\ d \in PcbType
  BY DEF Due, Sent
<1>3. ~Probing(d) /\ Announcing(d) /\ d.state \notin {OFF, DUP}
  BY <1>2, Phases
<1>4. e.kind = "announce" /\ e.q = <<>> /\ e.recs = k.recs /\ e.host = "answers"
  BY <1>2, ProbeDone
<1>5. Has(q, p, e) /\ \A i \in Mine(q, p) : Like(q[i], e)
  OBVIOUS
<1> HIDE DEF e
<1>6. ~Live(S', p)
  BY <1>1, <1>3 DEF Live
<1>7. Quiet(S', Registered, p)
  BY <1>1, <1>3, <1>6, Nothing DEF Quiet
<1>8. \A i \in Mine(q, p) : News(q[i])
  BY <1>4, <1>5 DEF News, Like
<1>9. \E i \in Mine(q, p) : News(q[i])
  BY <1>5, <1>8 DEF Has
<1>10. \A i \in Mine(q, p) : PacketOK(q[i], d, Registered)
  BY <1>2, <1>4, <1>5, Nothing DEF PacketOK, Like
<1>11. Loaded(S', Registered, p)
  BY <1>1, <1>6, <1>9, <1>10 DEF Loaded
<1> QED BY <1>6, <1>7, <1>11 DEF Sane

\* q is the queue with e in place of the head.
Replaced(q, e, p) ==
  /\ q \in Seq(Packets) /\ Sorted(q) /\ \A o \in Pcbs : o # p => Same(S.queue, q, o)
  /\ Has(q, p, e)
  /\ \A i \in Mine(q, p) : Like(q[i], e) \/ Has(S.queue, p, q[i])
  /\ \A i \in Mine(S.queue, p) : i = 1 \/ Has(q, p, S.queue[i])
  /\ Sole(S.queue, p) => Sole(q, p) /\ \A i \in Mine(q, p) : Like(q[i], e)

\* The packet that was sent goes back into the queue, as it was or as e.
LEMMA Replaces ==
  ASSUME ResponderInv, NEW k, NEW p, Due(k, p), NEW e \in Packets, e.pcb = p, NEW after \in 0 .. 2
  PROVE  Replaced(Schedule(Tail(S.queue), e, after), e, p)
<1> DEFINE a == S.queue
           b == Tail(S.queue)
           q == Schedule(b, e, after)
<1>1. a \in Seq(Packets) /\ Sorted(a) /\ a # <<>> /\ Head(a).pcb = p /\ p \in Pcbs
  BY ServerFields DEF ResponderInv, Server, Due
<1>2. /\ b \in Seq(Packets) /\ Sorted(b)
      /\ \A o : o # p => Same(a, b, o)
      /\ \A i \in Mine(b, p) : Has(a, p, b[i])
      /\ \A i \in Mine(a, p) : i = 1 \/ Has(b, p, a[i])
      /\ Sole(a, p) => Mine(b, p) = {}
  BY <1>1, Sends
<1> HIDE DEF a, b
<1>3. Scheduled(b, q, e)
  BY <1>2, ScheduleQueue
<1> HIDE DEF q
<1>4. q \in Seq(Packets) /\ Sorted(q) /\ Has(q, p, e)
  BY <1>2, <1>3 DEF Scheduled
<1>5. ASSUME NEW o \in Pcbs, o # p PROVE Same(a, q, o)
  <2>1. Same(a, b, o) /\ Same(b, q, o)
    BY <1>2, <1>3, <1>5 DEF Scheduled
  <2> QED BY <2>1, SameSame
<1>6. ASSUME NEW i \in Mine(q, p) PROVE Like(q[i], e) \/ Has(a, p, q[i])
  <2>1. Like(q[i], e) \/ Has(b, p, q[i])
    BY <1>3 DEF Scheduled
  <2>2. ASSUME Has(b, p, q[i]) PROVE Has(a, p, q[i])
    <3>1. PICK j \in Mine(b, p) : Like(b[j], q[i])
      BY <2>2 DEF Has
    <3>2. PICK m \in Mine(a, p) : Like(a[m], b[j])
      BY <1>2 DEF Has
    <3>3. Like(a[m], q[i])
      BY <3>1, <3>2, LikeSame
    <3> QED BY <3>3 DEF Has
  <2> QED BY <2>1, <2>2
<1>7. ASSUME NEW i \in Mine(a, p), i # 1 PROVE Has(q, p, a[i])
  <2>1. PICK j \in Mine(b, p) : Like(b[j], a[i])
    BY <1>2, <1>7 DEF Has
  <2>2. PICK m \in Mine(q, p) : Like(q[m], b[j])
    BY <1>3 DEF Scheduled, Has
  <2>3. Like(q[m], a[i])
    BY <2>1, <2>2, LikeSame
  <2> QED BY <2>3 DEF Has
<1>8. ASSUME Sole(a, p) PROVE Sole(q, p) /\ \A i \in Mine(q, p) : Like(q[i], e)
  <2>1. Mine(b, p) = {}
    BY <1>2, <1>8
  <2>2. \A i : ~Has(b, p, q[i])
    BY <2>1 DEF Has
  <2> QED BY <1>3, <2>1, <2>2 DEF Scheduled
<1> QED BY <1>4, <1>5, <1>6, <1>7, <1>8 DEF Replaced, a, q, b

-----------------------------------------------------------------------------
\* What the sending of a packet establishes.
Delivered(p) ==
  /\ Turn(S, S', p) /\ Sane(S', Registered, p)
  /\ Live(S', p) => /\ Live(S, p) /\ S'.pcb[p].services = S.pcb[p].services
                    /\ S'.pcb[p].state = S.pcb[p].state + 1

\* The first and the second probe are sent, and come again.
LEMMA TxProbing ==
  ASSUME ResponderInv, NEW k, NEW p, Due(k, p), S.pcb[p].state \in {PROBE_1, PROBE_2},
         S' = [S EXCEPT !.queue = Schedule(Tail(S.queue), k, Short), !.pcb[p].state = @ + 1]
  PROVE  Delivered(p)
<1> DEFINE c == S.pcb[p]
           x == c.state + 1
           d == InState(c, x)
           q == Schedule(Tail(S.queue), k, Short)
<1>1. c \in PcbType /\ k \in Packets /\ k.pcb = p /\ p \in S.open /\ k = Head(S.queue) /\ p \in Pcbs
  BY DEF Due
<1>2. x \in States /\ x \in {PROBE_2, PROBE_3}
  BY AllStates DEF PROBE_1, PROBE_2, PROBE_3
<1>3. /\ d \in PcbType /\ d.state = x /\ d.services = c.services /\ d.ip = c.ip /\ d.running = c.running
  BY <1>1, <1>2, StatePcb
<1>4. S' = WithPcb(WithQueue(S, q), p, d)
  BY DEF WithPcb, WithQueue, InState
<1>5. Short \in 0 .. 2
  BY DEF Short
<1>6. Replaced(q, k, p)
  BY <1>1, <1>5, Replaces
<1> HIDE DEF d, q
<1>7. Sent(q, d)
  BY <1>1, <1>3, <1>4, <1>6 DEF Sent, Replaced
<1>8. Probing(d) /\ ~Announcing(d) /\ d.state \notin {OFF, DUP} /\ Probing(c)
  BY <1>2, <1>3 DEF Probing, Announcing, PROBE_1, PROBE_2, PROBE_3, OFF, DUP, ANNOUNCE_1
<1>9. Live(S, p) /\ Sole(S.queue, p)
  BY <1>1, <1>8 DEF Live, ResponderInv, Sane, Loaded
<1>10. Sole(q, p) /\ Has(q, p, k) /\ \A i \in Mine(q, p) : Like(q[i], k)
  BY <1>6, <1>9 DEF Replaced
<1> HIDE DEF x
<1>11. Sane(S', Registered, p)
  BY <1>3, <1>7, <1>8, <1>9, <1>10, SentProbe DEF c
<1>12. Turn(S, S', p) /\ S'.pcb[p] = d
  BY <1>7, SentTurn
<1> QED BY <1>3, <1>9, <1>11, <1>12 DEF Delivered, x, c

\* The third probe is sent, and becomes the first announcement.
LEMMA TxProbed ==
  ASSUME ResponderInv, NEW k, NEW p, Due(k, p), S.pcb[p].state = PROBE_3,
         S' = [S EXCEPT !.queue = Schedule(Tail(S.queue), AnnounceFromProbe(k), Short),
                        !.pcb[p] = [state |-> ANNOUNCE_1, services |-> <<>>,
                                    ip |-> FALSE, running |-> FALSE, failed |-> 0]]
  PROVE  Delivered(p)
<1> DEFINE c == S.pcb[p]
           d == [state |-> ANNOUNCE_1, services |-> <<>>, ip |-> FALSE, running |-> FALSE, failed |-> 0]
           e == AnnounceFromProbe(k)
           q == Schedule(Tail(S.queue), e, Short)
<1>1. c \in PcbType /\ k \in Packets /\ k.pcb = p /\ p \in S.open /\ p \in Pcbs
  BY DEF Due
<1>2. e \in Packets /\ e.pcb = p
  BY <1>1, ProbeDone
<1>3. d \in PcbType /\ d.state = ANNOUNCE_1 /\ d.services = <<>> /\ d.running = FALSE
  <2>1. ANNOUNCE_1 \in States /\ <<>> \in Seq(Services)
    BY AllStates, EmptySeq
  <2> HIDE DEF States, ANNOUNCE_1
  <2> QED BY <2>1 DEF PcbType
<1>4. S' = WithPcb(WithQueue(S, q), p, d)
  BY DEF WithPcb, WithQueue
<1>5. Short \in 0 .. 2
  BY DEF Short
<1> HIDE DEF e, d
<1>6. Replaced(q, e, p)
  BY <1>2, <1>5, Replaces
<1> HIDE DEF q
<1>7. Sent(q, d)
  BY <1>1, <1>3, <1>4, <1>6 DEF Sent, Replaced, Due
<1>8. Probing(c)
  BY DEF Probing, PROBE_3, OFF, ANNOUNCE_1
<1>9. Sole(S.queue, p)
  BY <1>1, <1>8 DEF Live, ResponderInv, Sane, Loaded
<1>10. Has(q, p, e) /\ \A i \in Mine(q, p) : Like(q[i], e)
  BY <1>6, <1>9 DEF Replaced
<1>11. Sane(S', Registered, p) /\ ~Live(S', p)
  BY <1>3, <1>7, <1>10, SentNews DEF e
<1>12. Turn(S, S', p)
  BY <1>7, SentTurn
<1> QED BY <1>11, <1>12 DEF Delivered

\* The first two announcements are sent, and come again.
LEMMA TxAnnouncing ==
  ASSUME ResponderInv, NEW k, NEW p, Due(k, p), S.pcb[p].state \in {ANNOUNCE_1, ANNOUNCE_2},
         S' = [S EXCEPT !.queue = Schedule(Tail(S.queue), k, Long), !.pcb[p].state = @ + 1]
  PROVE  Delivered(p)
<1> DEFINE c == S.pcb[p]
           x == c.state + 1
           d == InState(c, x)
           q == Schedule(Tail(S.queue), k, Long)
<1>1. /\ c \in PcbType /\ k \in Packets /\ k.pcb = p /\ p \in S.open /\ p \in Pcbs
      /\ 1 \in Mine(S.queue, p) /\ k = S.queue[1] /\ k = Head(S.queue)
  BY DEF Due
<1>2. x \in States /\ x \in {ANNOUNCE_2, ANNOUNCE_3}
  BY AllStates DEF ANNOUNCE_1, ANNOUNCE_2, ANNOUNCE_3
<1>3. /\ d \in PcbType /\ d.state = x /\ d.services = c.services /\ d.ip = c.ip /\ d.running = c.running
  BY <1>1, <1>2, StatePcb
<1>4. S' = WithPcb(WithQueue(S, q), p, d)
  BY DEF WithPcb, WithQueue, InState
<1>5. Long \in 0 .. 2
  BY DEF Long
<1>6. Replaced(q, k, p)
  BY <1>1, <1>5, Replaces
<1> HIDE DEF d, q
<1>7. Sent(q, d)
  BY <1>1, <1>3, <1>4, <1>6 DEF Sent, Replaced
<1>8. ~Probing(d) /\ Announcing(c) /\ d.state \notin {OFF, DUP} /\ ~Probing(c)
  BY <1>2, <1>3 DEF Probing, Announcing, PROBE_3, OFF, DUP, ANNOUNCE_1, ANNOUNCE_2, ANNOUNCE_3, RUNNING
<1>9. ~Live(S, p) /\ c.services = <<>> /\ c.running = FALSE
  <2>1. ~Live(S, p) /\ Sane(S, Registered, p)
    BY <1>1, <1>8 DEF Live, ResponderInv
  <2> QED BY <1>1, <2>1, PcbFields DEF Sane, Quiet
<1>10. Like(k, k)
  BY LikeSame
<1>11. \A i \in Mine(S.queue, p) : Has(q, p, S.queue[i])
  BY <1>1, <1>6 DEF Replaced
<1>12. \A i \in Mine(q, p) : Has(S.queue, p, q[i])
  BY <1>1, <1>6, LikeSame DEF Replaced, Has
<1> HIDE DEF c, x
<1>13. Sane(S', Registered, p) /\ ~Live(S', p)
  BY <1>3, <1>7, <1>8, <1>9, <1>11, <1>12, SentRest DEF c
<1>14. Turn(S, S', p)
  BY <1>7, SentTurn
<1> QED BY <1>13, <1>14 DEF Delivered

\* The last announcement, or an answer, is sent and leaves.
LEMMA TxLast ==
  ASSUME ResponderInv, NEW k, NEW p, Due(k, p), NEW d, ~Live(S, p), d \in PcbType,
         d.services = <<>>, d.running = FALSE, d.state = RUNNING,
         S' = WithPcb(WithQueue(S, Tail(S.queue)), p, d)
  PROVE  Delivered(p)
<1> DEFINE q == Tail(S.queue)
<1>1. S.queue \in Seq(Packets) /\ Sorted(S.queue) /\ S.queue # <<>> /\ p = Head(S.queue).pcb
  BY ServerFields DEF ResponderInv, Server, Due
<1>2. /\ q \in Seq(Packets) /\ Sorted(q)
      /\ \A o : o # p => Same(S.queue, q, o)
      /\ \A i \in Mine(q, p) : Has(S.queue, p, q[i])
  BY <1>1, Sends
<1> HIDE DEF q
<1>3. Sent(q, d)
  BY <1>1, <1>2 DEF Sent, q
<1>4. ~Probing(d) /\ ~Announcing(d) /\ d.state \notin {OFF, DUP}
  BY Phases
<1>5. Sane(S', Registered, p) /\ ~Live(S', p)
  BY <1>2, <1>3, <1>4, SentRest
<1>6. Turn(S, S', p)
  BY <1>3, SentTurn
<1> QED BY <1>5, <1>6 DEF Delivered

\* Whatever the PCB does, its packet leaves or goes back into the queue.
LEMMA TxDelivered ==
  ASSUME ResponderInv, TxHandle
  PROVE  LET k == Head(S.queue)
             p == k.pcb
         IN  /\ Due(k, p) /\ Delivered(p) /\ UNCHANGED <<services, inst, events>>
             /\ asked' = [asked EXCEPT ![p] = [s \in Services |->
                             IF s \in ToSet(k.q) /\ @[s] < 3 THEN @[s] + 1 ELSE @[s]]]
<1> DEFINE k == Head(S.queue)
           p == k.pcb
           c == S.pcb[p]
           b == Tail(S.queue)
           T == [S EXCEPT !.queue = b]
           news == [state |-> ANNOUNCE_1, services |-> <<>>, ip |-> FALSE, running |-> FALSE, failed |-> 0]
<1>1. S.queue # <<>> /\ UNCHANGED <<services, inst, events>>
  BY DEF TxHandle
<1>2. Due(k, p)
  BY <1>1, DueHead
<1>3. c \in PcbType /\ c.state \notin {OFF, DUP} /\ p \in Pcbs /\ p \in S.open
  BY <1>2 DEF Due
<1>4. S' = CASE c.state \in {PROBE_1, PROBE_2} ->
                     [T EXCEPT !.queue = Schedule(Tail(S.queue), k, Short), !.pcb[p].state = @ + 1]
             [] c.state = PROBE_3 ->
                     [T EXCEPT !.queue = Schedule(Tail(S.queue), AnnounceFromProbe(k), Short), !.pcb[p] = news]
             [] c.state \in {ANNOUNCE_1, ANNOUNCE_2} ->
                     [T EXCEPT !.queue = Schedule(Tail(S.queue), k, Long), !.pcb[p].state = @ + 1]
             [] c.state = ANNOUNCE_3 -> [T EXCEPT !.pcb[p].state = RUNNING]
             [] OTHER -> T
  <2>1. T.queue = b
    BY ServerFields DEF ResponderInv, Server, Servers
  <2> QED BY <2>1 DEF TxHandle
<1>5. asked' = [asked EXCEPT ![p] = [s \in Services |->
                   IF s \in ToSet(k.q) /\ @[s] < 3 THEN @[s] + 1 ELSE @[s]]]
  BY <1>3 DEF TxHandle
<1>6. S \in Servers
  BY DEF ResponderInv, Server
<1> DEFINE q1 == Schedule(Tail(S.queue), k, Short)
           q2 == Schedule(Tail(S.queue), AnnounceFromProbe(k), Short)
           q3 == Schedule(Tail(S.queue), k, Long)
<1>7. /\ [T EXCEPT !.queue = q2, !.pcb[p] = news] = [S EXCEPT !.queue = q2, !.pcb[p] = news]
      /\ [T EXCEPT !.queue = q1, !.pcb[p].state = @ + 1] = [S EXCEPT !.queue = q1, !.pcb[p].state = @ + 1]
      /\ [T EXCEPT !.queue = q3, !.pcb[p].state = @ + 1] = [S EXCEPT !.queue = q3, !.pcb[p].state = @ + 1]
      /\ [T EXCEPT !.pcb[p].state = RUNNING] = WithPcb(WithQueue(S, b), p, InState(c, RUNNING))
      /\ T = WithPcb(WithQueue(S, b), p, c)
  <2> HIDE DEF q1, q2, q3, b, k, news
  <2>1. S \in Servers /\ p \in Pcbs
    BY <1>3, <1>6
  <2>2. [T EXCEPT !.queue = q2, !.pcb[p] = news] = [S EXCEPT !.queue = q2, !.pcb[p] = news]
    BY <2>1 DEF Servers
  <2>3. [T EXCEPT !.queue = q1, !.pcb[p].state = @ + 1] = [S EXCEPT !.queue = q1, !.pcb[p].state = @ + 1]
    BY <2>1 DEF Servers
  <2>4. [T EXCEPT !.queue = q3, !.pcb[p].state = @ + 1] = [S EXCEPT !.queue = q3, !.pcb[p].state = @ + 1]
    BY <2>1 DEF Servers
  <2>5. [T EXCEPT !.pcb[p].state = RUNNING] = WithPcb(WithQueue(S, b), p, InState(c, RUNNING))
    BY <2>1 DEF Servers, WithPcb, WithQueue, InState
  <2>6. T = WithPcb(WithQueue(S, b), p, c)
    BY <2>1 DEF Servers, WithPcb, WithQueue
  <2> QED BY <2>2, <2>3, <2>4, <2>5, <2>6
<1>8. \/ c.state \in {PROBE_1, PROBE_2} \/ c.state = PROBE_3 \/ c.state \in {ANNOUNCE_1, ANNOUNCE_2}
      \/ c.state = ANNOUNCE_3 \/ c.state = RUNNING
  BY <1>3, AllStates, PcbFields
<1>9. CASE c.state \in {PROBE_1, PROBE_2}
  <2>1. c.state # PROBE_3 /\ c.state \notin {ANNOUNCE_1, ANNOUNCE_2} /\ c.state # ANNOUNCE_3
    BY <1>9 DEF PROBE_1, PROBE_2, PROBE_3, ANNOUNCE_1, ANNOUNCE_2, ANNOUNCE_3
  <2> HIDE DEF T, k
  <2>2. S' = [S EXCEPT !.queue = Schedule(Tail(S.queue), k, Short), !.pcb[p].state = @ + 1]
    BY <1>4, <1>7, <1>9, <2>1
  <2>3. Delivered(p)
    BY <1>2, <1>9, <2>2, TxProbing
  <2> QED BY <1>1, <1>2, <1>5, <2>3 DEF k
<1>10. CASE c.state = PROBE_3
  <2>1. c.state \notin {PROBE_1, PROBE_2} /\ c.state \notin {ANNOUNCE_1, ANNOUNCE_2} /\ c.state # ANNOUNCE_3
    BY <1>10 DEF PROBE_1, PROBE_2, PROBE_3, ANNOUNCE_1, ANNOUNCE_2, ANNOUNCE_3
  <2> HIDE DEF T, k
  <2>2. S' = [S EXCEPT !.queue = Schedule(Tail(S.queue), AnnounceFromProbe(k), Short), !.pcb[p] = news]
    BY <1>4, <1>7, <1>10, <2>1
  <2>3. Delivered(p)
    BY <1>2, <1>10, <2>2, TxProbed
  <2> QED BY <1>1, <1>2, <1>5, <2>3 DEF k
<1>11. CASE c.state \in {ANNOUNCE_1, ANNOUNCE_2}
  <2>1. c.state \notin {PROBE_1, PROBE_2} /\ c.state # PROBE_3 /\ c.state # ANNOUNCE_3
    BY <1>11 DEF PROBE_1, PROBE_2, PROBE_3, ANNOUNCE_1, ANNOUNCE_2, ANNOUNCE_3
  <2> HIDE DEF T, k
  <2>2. S' = [S EXCEPT !.queue = Schedule(Tail(S.queue), k, Long), !.pcb[p].state = @ + 1]
    BY <1>4, <1>7, <1>11, <2>1
  <2>3. Delivered(p)
    BY <1>2, <1>11, <2>2, TxAnnouncing
  <2> QED BY <1>1, <1>2, <1>5, <2>3 DEF k
<1>12. ASSUME c.state = ANNOUNCE_3 \/ c.state = RUNNING PROVE ~Live(S, p) /\ c.services = <<>> /\ c.running = FALSE
  <2>1. ~Probing(c)
    BY <1>12 DEF Probing, ANNOUNCE_1, ANNOUNCE_3, RUNNING
  <2>2. ~Live(S, p) /\ Sane(S, Registered, p)
    BY <1>3, <2>1 DEF Live, ResponderInv
  <2> HIDE DEF k
  <2> QED BY <1>3, <2>2, PcbFields DEF Sane, Quiet
<1>13. CASE c.state = ANNOUNCE_3
  <2>1. c.state \notin {PROBE_1, PROBE_2} /\ c.state # PROBE_3 /\ c.state \notin {ANNOUNCE_1, ANNOUNCE_2}
    BY <1>13 DEF PROBE_1, PROBE_2, PROBE_3, ANNOUNCE_1, ANNOUNCE_2, ANNOUNCE_3
  <2> DEFINE d == InState(c, RUNNING)
  <2>2. /\ d \in PcbType /\ d.state = RUNNING /\ d.services = c.services /\ d.running = c.running
    <3>1. RUNNING \in States
      BY AllStates
    <3> HIDE DEF c
    <3> QED BY <1>3, <3>1, StatePcb
  <2> HIDE DEF T, k
  <2>3. S' = WithPcb(WithQueue(S, b), p, d)
    BY <1>4, <1>7, <1>13, <2>1
  <2> HIDE DEF d
  <2>4. Delivered(p)
    BY <1>2, <1>12, <1>13, <2>2, <2>3, TxLast
  <2> QED BY <1>1, <1>2, <1>5, <2>4 DEF k
<1>14. CASE c.state = RUNNING
  <2>1. c.state \notin {PROBE_1, PROBE_2} /\ c.state # PROBE_3 /\ c.state \notin {ANNOUNCE_1, ANNOUNCE_2}
        /\ c.state # ANNOUNCE_3
    BY <1>14 DEF PROBE_1, PROBE_2, PROBE_3, ANNOUNCE_1, ANNOUNCE_2, ANNOUNCE_3, RUNNING
  <2> HIDE DEF T, k
  <2>2. S' = WithPcb(WithQueue(S, b), p, c)
    BY <1>4, <1>7, <2>1
  <2> HIDE DEF c
  <2>3. Delivered(p)
    BY <1>2, <1>3, <1>12, <1>14, <2>2, TxLast
  <2> QED BY <1>1, <1>2, <1>5, <2>3 DEF k
<1> QED BY <1>8, <1>9, <1>10, <1>11, <1>13, <1>14

\* The names a PCB probes for are in the question of the packet that is sent.
LEMMA Questions ==
  ASSUME ResponderInv, NEW k, NEW p, Due(k, p), Live(S, p), NEW s \in ToSet(S.pcb[p].services)
  PROVE  s \in Services /\ (HasTwin(s) \/ s \in ToSet(k.q))
<1>1. Sane(S, Registered, p) /\ 1 \in Mine(S.queue, p) /\ k = S.queue[1] /\ S.pcb[p] \in PcbType
  BY DEF ResponderInv, Due
<1>2. ProbeFor(k, S.pcb[p])
  BY <1>1 DEF Sane, Loaded
<1>3. s \in Services
  BY <1>1, PcbFields, LenProperties DEF ToSet
<1> QED BY <1>2, <1>3 DEF ProbeFor

\* What sending counts.
LEMMA TxCounts ==
  ASSUME ResponderInv, NEW k, NEW p \in Pcbs,
         asked' = [asked EXCEPT ![p] = [s \in Services |->
                      IF s \in ToSet(k.q) /\ @[s] < 3 THEN @[s] + 1 ELSE @[s]]]
  PROVE  /\ asked' \in [Pcbs -> [Services -> 0 .. 3]]
         /\ \A o \in Pcbs : o # p => asked'[o] = asked[o]
         /\ \A s \in Services : asked'[p][s] = IF s \in ToSet(k.q) /\ asked[p][s] < 3
                                               THEN asked[p][s] + 1 ELSE asked[p][s]
<1> DEFINE Q == ToSet(k.q)
           row == [s \in Services |-> IF s \in Q /\ asked[p][s] < 3 THEN asked[p][s] + 1 ELSE asked[p][s]]
<1>1. asked \in [Pcbs -> [Services -> 0 .. 3]]
  BY DEF ResponderInv
<1>2. asked' = [asked EXCEPT ![p] = row]
  OBVIOUS
<1> HIDE DEF Q
<1>3. \A s \in Services : asked[p][s] \in 0 .. 3
  BY <1>1
<1>4. row \in [Services -> 0 .. 3]
  BY <1>3
<1>5. \A s \in Services : row[s] = IF s \in Q /\ asked[p][s] < 3 THEN asked[p][s] + 1 ELSE asked[p][s]
  OBVIOUS
<1> HIDE DEF row
<1>6. asked' \in [Pcbs -> [Services -> 0 .. 3]] /\ asked'[p] = row /\ \A o \in Pcbs : o # p => asked'[o] = asked[o]
  BY <1>1, <1>2, <1>4
<1> QED BY <1>5, <1>6 DEF Q

\* Sending keeps the invariant, ...
LEMMA TxInv ==
  ASSUME ResponderInv, TxHandle
  PROVE  ResponderInv'
<1> DEFINE k == Head(S.queue)
           p == k.pcb
<1>1. /\ Due(k, p) /\ Delivered(p) /\ UNCHANGED <<services, inst, events>>
      /\ asked' = [asked EXCEPT ![p] = [s \in Services |->
                      IF s \in ToSet(k.q) /\ @[s] < 3 THEN @[s] + 1 ELSE @[s]]]
  BY TxDelivered
<1> HIDE DEF k
<1>2. p \in Pcbs
  BY <1>1 DEF Due
<1>3. /\ asked' \in [Pcbs -> [Services -> 0 .. 3]]
      /\ \A o \in Pcbs : o # p => asked'[o] = asked[o]
      /\ \A s \in Services : asked'[p][s] = IF s \in ToSet(k.q) /\ asked[p][s] < 3
                                            THEN asked[p][s] + 1 ELSE asked[p][s]
  BY <1>1, <1>2, TxCounts
<1> HIDE DEF p
<1>4. Registered' = Registered
  BY <1>1 DEF Registered
<1>5. Server(S') /\ S'.host = S.host /\ \A o \in Pcbs : o # p => Kept(S, S', o)
  BY <1>1 DEF Delivered, Turn
<1>6. \A o \in Pcbs : Sane(S', Registered, o)
  <2>1. SUFFICES ASSUME NEW o \in Pcbs, o # p PROVE Sane(S', Registered, o)
    BY <1>1 DEF Delivered
  <2>2. Sane(S, Registered, o) /\ Kept(S, S', o)
    BY <1>5, <2>1 DEF ResponderInv
  <2> QED BY <2>2, KeptSane DEF Sane
<1>7. \A o \in Pcbs : Asked(o)'
  <2>1. SUFFICES ASSUME NEW o \in Pcbs, Live(S', o), NEW s \in ToSet(S'.pcb[o].services), ~HasTwin(s)
                 PROVE  asked'[o][s] + PROBE_1 >= S'.pcb[o].state
    BY DEF Asked
  <2>2. CASE o # p
    <3>1. S'.pcb[o] = S.pcb[o] /\ Live(S, o)
      BY <1>5, <2>1, <2>2, KeptFresh
    <3>2. asked[o][s] + PROBE_1 >= S.pcb[o].state
      BY <2>1, <3>1 DEF ResponderInv, Asked
    <3> QED BY <1>3, <2>2, <3>1, <3>2
  <2>3. CASE o = p
    <3>1. Live(S, p) /\ S'.pcb[p].services = S.pcb[p].services /\ S'.pcb[p].state = S.pcb[p].state + 1
      BY <1>1, <2>1, <2>3 DEF Delivered
    <3>2. s \in ToSet(S.pcb[p].services)
      BY <2>1, <2>3, <3>1
    <3>3. s \in Services /\ s \in ToSet(k.q)
      BY <1>1, <2>1, <3>1, <3>2, Questions
    <3>4. asked[p][s] + PROBE_1 >= S.pcb[p].state
      BY <1>2, <2>1, <3>1, <3>2 DEF ResponderInv, Asked
    <3>5. S'.pcb[p].state < ANNOUNCE_1 /\ S'.pcb[p].state \in Nat
      <4>1. S'.pcb[p] \in PcbType
        BY <1>2, <1>5, ServerFields DEF Server
      <4> QED BY <2>1, <2>3, <4>1, PcbFields, AllStates DEF Live, Probing
    <3>6. asked[p][s] \in 0 .. 3 /\ S.pcb[p].state \in Nat
      <4>1. asked \in [Pcbs -> [Services -> 0 .. 3]] /\ Server(S)
        BY DEF ResponderInv
      <4>2. S.pcb[p] \in PcbType
        BY <1>2, <4>1, ServerFields DEF Server
      <4> QED BY <1>2, <3>3, <4>1, <4>2, PcbFields, AllStates
    <3>7. asked'[p][s] = IF asked[p][s] < 3 THEN asked[p][s] + 1 ELSE asked[p][s]
      BY <1>3, <3>3
    <3> QED BY <2>3, <3>1, <3>4, <3>5, <3>6, <3>7 DEF PROBE_1, ANNOUNCE_1
  <2> QED BY <2>2, <2>3
<1>8. /\ services' \in Seq(Services) /\ IsInjective(services') /\ (services' # <<>> => S'.host)
      /\ inst' \in BOOLEAN /\ events' \in 0 .. MaxEvents
  BY <1>1, <1>5 DEF ResponderInv
<1> QED BY <1>3, <1>4, <1>5, <1>6, <1>7, <1>8 DEF ResponderInv

\* ... and begins to announce what was asked for three times.
LEMMA TxThree ==
  ASSUME ResponderInv, TxHandle, NEW p \in Pcbs, S.pcb[p].state = PROBE_3, S'.pcb[p].state = ANNOUNCE_1,
         NEW s \in ToSet(S.pcb[p].services)
  PROVE  HasTwin(s) \/ asked'[p][s] = 3
<1> DEFINE k == Head(S.queue)
           o == k.pcb
<1>1. /\ Due(k, o) /\ Delivered(o)
      /\ asked' = [asked EXCEPT ![o] = [x \in Services |->
                      IF x \in ToSet(k.q) /\ @[x] < 3 THEN @[x] + 1 ELSE @[x]]]
  BY TxDelivered
<1> HIDE DEF k
<1>2. o \in Pcbs
  BY <1>1 DEF Due
<1>3. /\ \A x \in Services : asked'[o][x] = IF x \in ToSet(k.q) /\ asked[o][x] < 3
                                            THEN asked[o][x] + 1 ELSE asked[o][x]
  BY <1>1, <1>2, TxCounts
<1> HIDE DEF o
<1>4. p = o
  <2>1. SUFFICES ASSUME p # o PROVE FALSE
    OBVIOUS
  <2>2. S'.pcb[p] = S.pcb[p]
    BY <1>1, <2>1 DEF Delivered, Turn, Kept
  <2> QED BY <2>2 DEF PROBE_3, ANNOUNCE_1
<1>5. Live(S, p)
  <2>1. p \in S.open
    BY <1>1, <1>4 DEF Due
  <2> QED BY <2>1 DEF Live, Probing, PROBE_3, OFF, ANNOUNCE_1
<1>6. s \in Services /\ (HasTwin(s) \/ s \in ToSet(k.q))
  BY <1>1, <1>4, <1>5, Questions
<1>7. HasTwin(s) \/ asked[p][s] + PROBE_1 >= S.pcb[p].state
  BY <1>5 DEF ResponderInv, Asked
<1>8. asked[p][s] \in 0 .. 3
  BY <1>6 DEF ResponderInv
<1> QED BY <1>3, <1>4, <1>6, <1>7, <1>8 DEF PROBE_1, PROBE_3

-----------------------------------------------------------------------------
(* The theorems.                                                           *)

\* The initial state.
LEMMA InitInv ==
  ASSUME Init
  PROVE  ResponderInv
<1> DEFINE none == <<>>
           no == FALSE
           nobody == {}
           T == [pcb |-> [p \in Pcbs |-> PcbInit], queue |-> none, open |-> nobody,
                 main |-> no, host |-> no, own |-> Named]
<1>1. S = T /\ services = none /\ inst = no /\ asked = [p \in Pcbs |-> [s \in Services |-> 0]] /\ events = 0
  BY DEF Init
<1>2. PcbInit \in PcbType /\ PcbInit.state = OFF /\ PcbInit.services = none /\ PcbInit.running = no
  <2>1. OFF \in States /\ <<>> \in Seq(Services)
    BY AllStates, EmptySeq
  <2> HIDE DEF OFF, States
  <2> QED BY <2>1 DEF PcbInit, PcbType
<1>3. /\ none \in Seq(Packets) /\ none \in Seq(Services) /\ Sorted(none) /\ \A p : Mine(none, p) = {}
      /\ ToSet(none) = {} /\ IsInjective(none)
  <2>1. Len(none) = 0 /\ 1 .. 0 = {} /\ none \in Seq(Packets) /\ none \in Seq(Services)
    BY EmptySeq
  <2>2. ToSet(none) = {} /\ IsInjective(none)
    BY Nothing
  <2> HIDE DEF none
  <2> QED BY <2>1, <2>2 DEF Sorted, Mine
<1>4. no \in BOOLEAN /\ ~no /\ nobody \subseteq Pcbs /\ Named \subseteq Services /\ 0 \in 0 .. MaxEvents
      /\ \A p : p \notin nobody
  BY ResponderAssumption
<1> HIDE DEF none, no, PcbInit
<1>5. T \in Servers /\ T.queue = none /\ T.open = nobody /\ T.main = no /\ T.host = no
      /\ \A p \in Pcbs : T.pcb[p] = PcbInit
  <2> HIDE DEF nobody
  <2> QED BY <1>2, <1>3, <1>4 DEF Servers
<1>6. Server(S)
  BY <1>1, <1>3, <1>4, <1>5 DEF Server
<1> HIDE DEF T
<1>7. ASSUME NEW p \in Pcbs PROVE Sane(S, Registered, p) /\ Asked(p)
  <2>1. S.pcb[p] = PcbInit /\ p \notin S.open /\ Mine(S.queue, p) = {}
    BY <1>1, <1>3, <1>4, <1>5
  <2>2. ~Live(S, p) /\ ~Announcing(S.pcb[p])
    BY <1>2, <2>1 DEF Live, Announcing, OFF, PROBE_3
  <2>3. Quiet(S, Registered, p)
    <3>1. S.pcb[p].services = none /\ S.pcb[p].state \in {OFF, DUP} /\ ~S.pcb[p].running
      BY <1>2, <1>4, <2>1
    <3>2. ToSet(S.pcb[p].services) \subseteq Registered /\ IsInjective(S.pcb[p].services)
      BY <1>3, <3>1
    <3> QED BY <2>1, <2>2, <3>1, <3>2 DEF Quiet, none
  <2>4. Loaded(S, Registered, p)
    BY <2>1, <2>2 DEF Loaded
  <2> QED BY <2>2, <2>3, <2>4 DEF Sane, Asked
<1>8. asked \in [Pcbs -> [Services -> 0 .. 3]]
  BY <1>1
<1>9. services \in Seq(Services) /\ IsInjective(services) /\ services = none
  BY <1>1, <1>3
<1> QED BY <1>1, <1>4, <1>6, <1>7, <1>8, <1>9 DEF ResponderInv, none

\* Every call of the application is a legal step.
LEMMA ApiLegal ==
  ASSUME ResponderInv, Api
  PROVE  Legal
<1>1. CASE HostnameSet \/ InstanceNameSet
  BY <1>1, HostnameSetLegal, InstanceNameSetLegal
<1>2. CASE ServiceRemoveAll \/ DelegateHostnameRemove
  BY <1>2, UnregisterLegal DEF ServiceRemoveAll, DelegateHostnameRemove
<1>3. ASSUME NEW s \in Services, ServiceAdd(s) \/ ServiceInstanceNameSet(s) \/ ServiceRemove(s)
                                 \/ ServicePortSet(s) \/ ServiceTxtSet(s)
      PROVE  Legal
  BY <1>3, ServiceAddLegal, ServiceInstanceNameSetLegal, UnregisterLegal, ServiceSetLegal DEF ServiceRemove
<1> QED BY <1>1, <1>2, <1>3 DEF Api

\* Every event of the interfaces and of the network is a legal step.
LEMMA NetworkLegal ==
  ASSUME ResponderInv, Network
  PROVE  Legal
<1>1. PICK p \in Pcbs : \/ InterfaceUp(p) \/ InterfaceDown(p) \/ InterfaceAnnounce(p)
                        \/ Query(p) \/ RemoveScheduledAnswer(p)
                        \/ AddressConflict(p) \/ DuplicateFound(p)
                        \/ \E s \in Services : SrvConflict(p, s) \/ TxtConflict(p, s)
  BY DEF Network
<1>2. CASE InterfaceUp(p) \/ InterfaceDown(p) \/ InterfaceAnnounce(p)
  BY <1>2, InterfaceLegal, InterfaceAnnounceLegal
<1>3. CASE Query(p) \/ RemoveScheduledAnswer(p)
  BY <1>3, QueryLegal, RemoveLegal
<1>4. CASE AddressConflict(p) \/ DuplicateFound(p)
  BY <1>4, AddressConflictLegal, DuplicateLegal
<1>5. CASE \E s \in Services : SrvConflict(p, s) \/ TxtConflict(p, s)
  BY <1>5, SrvConflictLegal, TxtConflictLegal
<1> QED BY <1>1, <1>2, <1>3, <1>4, <1>5

\* The clock comes near its wrap: nothing moves.
LEMMA WrapLegal ==
  ASSUME ResponderInv, WrapNears
  PROVE  Legal
<1>1. S' = S /\ services' = services /\ inst' = inst /\ asked' = asked /\ events' \in 0 .. MaxEvents
  BY Evented DEF WrapNears
<1>2. inst' \in BOOLEAN
  BY <1>1 DEF ResponderInv
<1> QED BY <1>1, <1>2, CountsKept, LegalIdle

\* A stuttering step.
LEMMA UnchangedInv ==
  ASSUME ResponderInv, UNCHANGED vars
  PROVE  ResponderInv'
<1>1. S' = S /\ services' = services /\ inst' = inst /\ asked' = asked /\ events' = events
  BY DEF vars
<1>2. Registered' = Registered
  BY <1>1 DEF Registered
<1>3. \A p \in Pcbs : Asked(p)' <=> Asked(p)
  BY <1>1 DEF Asked
<1> QED BY <1>1, <1>2, <1>3 DEF ResponderInv

\* The invariant is inductive.
LEMMA NextInv ==
  ASSUME ResponderInv, [Next]_vars
  PROVE  ResponderInv'
<1>1. CASE Api
  BY <1>1, ApiLegal, LegalInv
<1>2. CASE Network
  BY <1>2, NetworkLegal, LegalInv
<1>3. CASE TxHandle
  BY <1>3, TxInv
<1>4. CASE Tick
  BY <1>4, TickLegal, LegalInv
<1>5. CASE WrapNears
  BY <1>5, WrapLegal, LegalInv
<1>6. CASE UNCHANGED vars
  BY <1>6, UnchangedInv
<1> QED BY <1>1, <1>2, <1>3, <1>4, <1>5, <1>6 DEF Next

\* The packets of p and the places of the queue.
LEMMA Places ==
  ASSUME ResponderInv
  PROVE  /\ S.queue \in Seq(Packets) /\ DOMAIN S.queue = 1 .. Len(S.queue)
         /\ \A i \in DOMAIN S.queue : S.queue[i].pcb \in Pcbs /\ i \in Mine(S.queue, S.queue[i].pcb)
         /\ \A p : \A i \in Mine(S.queue, p) : i \in DOMAIN S.queue /\ S.queue[i].pcb = p
<1>1. S.queue \in Seq(Packets)
  BY ServerFields DEF ResponderInv, Server
<1>2. DOMAIN S.queue = 1 .. Len(S.queue)
  BY <1>1, LenProperties
<1>3. \A i \in DOMAIN S.queue : S.queue[i].pcb \in Pcbs
  <2>1. \A i \in 1 .. Len(S.queue) : S.queue[i] \in Packets
    BY <1>1, LenProperties
  <2> QED BY <1>2, <2>1, PacketFields
<1> QED BY <1>1, <1>2, <1>3 DEF Mine

\* The clock.
LEMMA ClockStep ==
  ASSUME ResponderInv, wrap \in 0 .. Far, [Next]_vars
  PROVE  wrap' \in 0 .. Far
<1> USE DEF Far, Long
<1>1. CASE Api
  <2>1. CASE HostnameSet \/ InstanceNameSet
    BY <2>1 DEF HostnameSet, InstanceNameSet
  <2>2. CASE ServiceRemoveAll \/ DelegateHostnameRemove
    BY <2>2 DEF ServiceRemoveAll, DelegateHostnameRemove, Unregister
  <2>3. CASE \E s \in Services : ServiceAdd(s) \/ ServiceInstanceNameSet(s)
    BY <2>3 DEF ServiceAdd, ServiceInstanceNameSet
  <2>4. CASE \E s \in Services : ServiceRemove(s) \/ ServicePortSet(s) \/ ServiceTxtSet(s)
    BY <2>4 DEF ServiceRemove, ServicePortSet, ServiceTxtSet, Unregister
  <2> QED BY <1>1, <2>1, <2>2, <2>3, <2>4 DEF Api
<1>2. CASE Network
  BY <1>2 DEF Network, InterfaceUp, InterfaceDown, InterfaceAnnounce, Query, RemoveScheduledAnswer,
              AddressConflict, DuplicateFound, SrvConflict, TxtConflict
<1>3. CASE TxHandle
  <2>1. UNCHANGED <<services, inst, events, wrap>>
    BY <1>3, Zenon DEF TxHandle
  <2> QED BY <2>1
<1>4. CASE Tick
  <2> DEFINE ticks == Head(S.queue).at
  <2>1. S.queue # <<>> /\ wrap' = IF wrap = Far THEN Far ELSE Less(wrap, ticks)
    BY <1>4 DEF Tick
  <2>2. Head(S.queue) \in Packets
    BY <2>1, Sends, Places DEF ResponderInv, Server
  <2>3. ticks \in 0 .. 2
    BY <2>2, PacketFields
  <2> HIDE DEF ticks
  <2> QED BY <2>1, <2>3 DEF Less
<1>5. CASE WrapNears
  BY <1>5 DEF WrapNears
<1>6. CASE UNCHANGED vars
  BY <1>6 DEF vars
<1> QED BY <1>1, <1>2, <1>3, <1>4, <1>5, <1>6 DEF Next

\* Only sending turns a probe into an announcement.
LEMMA NextThree ==
  ASSUME ResponderInv, Next, NEW p \in Pcbs, S.pcb[p].state = PROBE_3, S'.pcb[p].state = ANNOUNCE_1,
         NEW s \in ToSet(S.pcb[p].services)
  PROVE  HasTwin(s) \/ asked'[p][s] = 3
<1>1. ~Legal
  BY DEF Legal, Stepped
<1>2. TxHandle
  BY <1>1, ApiLegal, NetworkLegal, TickLegal, WrapLegal DEF Next
<1> QED BY <1>2, TxThree

\* The invariant: whatever the application, the interfaces and the network do, every PCB is
\* sane (its flags agree with its socket and its state, its one probe asks for what it
\* counts as probed, its announcement is on the way) and has asked as often as it counts.
THEOREM ResponderKept == Spec => []ResponderInv
<1>1. Init => ResponderInv
  BY InitInv
<1>2. ResponderInv /\ [Next]_vars => ResponderInv'
  BY NextInv
<1> QED BY <1>1, <1>2, PTL DEF Spec

\* Every field holds what the C types may hold; a closed PCB is off or a duplicate, "running"
\* is set exactly while an open PCB probes, and the shared socket lives while a PCB is open.
THEOREM ResponderTyped == Spec => []TypeOK
<1>1. ResponderInv /\ wrap \in 0 .. Far => TypeOK
  <2> SUFFICES ASSUME ResponderInv, wrap \in 0 .. Far PROVE TypeOK
    OBVIOUS
  <2>1. ASSUME NEW p \in Pcbs
        PROVE  /\ S.pcb[p] \in [state : States, services : Seq(Services), ip : BOOLEAN,
                                running : BOOLEAN, failed : Nat]
               /\ S.pcb[p].running <=> p \in S.open /\ Probing(S.pcb[p])
               /\ p \in S.open <=> S.pcb[p].state \notin {OFF, DUP}
    <3>1. S.pcb[p] \in PcbType /\ Quiet(S, Registered, p)
      BY ServerFields DEF ResponderInv, Server, Sane
    <3> QED BY <3>1 DEF PcbType, Quiet, Live
  <2>2. /\ S.queue \in Seq(Packets) /\ S.host \in BOOLEAN /\ (S.main <=> S.open # {})
        /\ S.open \subseteq Pcbs /\ S.own \subseteq Services
    BY ServerFields DEF ResponderInv, Server
  <2> QED BY <2>1, <2>2 DEF ResponderInv, TypeOK
<1>2. Init => wrap \in 0 .. Far
  BY DEF Init, Far, Long
<1>3. ResponderInv /\ wrap \in 0 .. Far /\ [Next]_vars => (wrap \in 0 .. Far)'
  BY ClockStep
<1> QED BY <1>1, <1>2, <1>3, ResponderKept, PTL DEF Spec

\* A PCB that probes or announces always has a packet in the queue that carries it on: no
\* removal, restart, rename, conflict or interface event leaves it waiting for nothing.
THEOREM ProbesGoOn == Spec => []ProgressPacket
<1>1. ResponderInv => ProgressPacket
  <2> SUFFICES ASSUME ResponderInv, NEW p \in S.open, Probing(S.pcb[p]) \/ Announcing(S.pcb[p])
               PROVE  \E i \in DOMAIN S.queue : S.queue[i].pcb = p
    BY DEF ProgressPacket
  <2>1. Loaded(S, Registered, p)
    BY ServerFields DEF ResponderInv, Server, Sane
  <2>2. \E i \in Mine(S.queue, p) : TRUE
    BY <2>1 DEF Loaded, Live
  <2> QED BY <2>2, Places
<1> QED BY <1>1, ResponderKept, PTL

\* The pending probe of a PCB claims exactly the services, and the host, that the PCB will
\* count as probed when the third one is sent.
THEOREM ProbesMatch == Spec => []ProbeMatchesPcb
<1>1. ResponderInv => ProbeMatchesPcb
  <2> SUFFICES ASSUME ResponderInv, NEW p \in S.open, Probing(S.pcb[p]), NEW i \in DOMAIN S.queue,
                      S.queue[i].pcb = p
               PROVE  /\ S.queue[i].kind = "probe"
                      /\ S.queue[i].recs = ToSet(S.pcb[p].services)
                      /\ S.pcb[p].ip <=> S.queue[i].host = "servers"
    BY DEF ProbeMatchesPcb
  <2>1. p \in Pcbs /\ S.pcb[p] \in PcbType
    BY ServerFields DEF ResponderInv, Server
  <2>2. Loaded(S, Registered, p) /\ Live(S, p) /\ i \in Mine(S.queue, p)
    BY <2>1, Places DEF ResponderInv, Sane, Live
  <2>3. ProbeFor(S.queue[i], S.pcb[p])
    BY <2>2 DEF Loaded
  <2> QED BY <2>1, <2>3, PcbFields DEF ProbeFor
<1> QED BY <1>1, ResponderKept, PTL

\* No record of a scheduled packet and no probe list refers to a service that was removed and
\* freed, and no question does but for services that share their type.
THEOREM NothingFreedReferred == Spec => []NoStaleServices
<1>1. ResponderInv => NoStaleServices
  <2> SUFFICES ASSUME ResponderInv PROVE NoStaleServices
    OBVIOUS
  <2>1. \A p \in Pcbs : ToSet(S.pcb[p].services) \subseteq ToSet(services)
    BY DEF ResponderInv, Sane, Quiet, Registered
  <2>2. ASSUME NEW i \in DOMAIN S.queue
        PROVE  /\ S.queue[i].recs \subseteq ToSet(services)
               /\ \A s \in ToSet(S.queue[i].q) : HasTwin(s) \/ s \in ToSet(services)
    <3> DEFINE p == S.queue[i].pcb
    <3>1. p \in Pcbs /\ i \in Mine(S.queue, p)
      BY Places
    <3> HIDE DEF p
    <3>2. PacketOK(S.queue[i], S.pcb[p], Registered)
      BY <3>1 DEF ResponderInv, Sane, Loaded
    <3> QED BY <2>1, <3>1, <3>2 DEF PacketOK, Registered
  <2> QED BY <2>1, <2>2 DEF NoStaleServices
<1> QED BY <1>1, ResponderKept, PTL

\* The transmit queue is sorted by the time packets are due, but for packets whose time lies
\* past the wrap of the clock, which stand before all others, whatever is scheduled, cleared,
\* sent or dropped; and it holds nothing for a PCB that is down.
THEOREM QueueSorted == Spec => []QueueOrdered
<1>1. ResponderInv => QueueOrdered
  <2> SUFFICES ASSUME ResponderInv PROVE QueueOrdered
    OBVIOUS
  <2>1. ASSUME NEW i \in DOMAIN S.queue, NEW j \in DOMAIN S.queue, i <= j
        PROVE  \/ S.queue[i].lap = S.queue[j].lap /\ S.queue[i].at <= S.queue[j].at
               \/ S.queue[i].lap > S.queue[j].lap
    <3> DEFINE k == S.queue[i]
               l == S.queue[j]
    <3>1. NoLater(k, l)
      BY <2>1, Places DEF ResponderInv, Server, Sorted
    <3>2. k \in Packets /\ l \in Packets
      BY Places, LenProperties
    <3> HIDE DEF k, l
    <3>3. k.at \in 0 .. 2 /\ l.at \in 0 .. 2 /\ k.lap \in {0, 1} /\ l.lap \in {0, 1}
      BY <3>2, PacketFields
    <3>4. (k.lap = l.lap /\ k.at <= l.at) \/ k.lap > l.lap
      BY <3>1, <3>3 DEF NoLater, Greater
    <3> QED BY <3>4 DEF k, l
  <2>2. ASSUME NEW i \in DOMAIN S.queue PROVE S.queue[i].pcb \in S.open
    <3> DEFINE p == S.queue[i].pcb
    <3>1. p \in Pcbs /\ i \in Mine(S.queue, p)
      BY Places
    <3> HIDE DEF p
    <3>2. Quiet(S, Registered, p)
      BY <3>1 DEF ResponderInv, Sane
    <3> QED BY <3>1, <3>2 DEF Quiet, p
  <2> QED BY <2>1, <2>2 DEF QueueOrdered
<1> QED BY <1>1, ResponderKept, PTL

\* A PCB begins to announce a service only when it was asked for three times on that link
\* under its present name, whatever joined or left its probe meanwhile.
THEOREM AskedThreeTimes == Spec => ThreeProbesFirst
<1>1. ResponderInv /\ [Next]_vars =>
        [\A p \in Pcbs : S.pcb[p].state = PROBE_3 /\ S'.pcb[p].state = ANNOUNCE_1
            => \A s \in ToSet(S.pcb[p].services) : HasTwin(s) \/ asked'[p][s] = 3]_vars
  BY NextThree
<1> QED BY <1>1, ResponderKept, PTL DEF Spec, ThreeProbesFirst

=============================================================================
