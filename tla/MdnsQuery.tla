------------------------------ MODULE MdnsQuery ------------------------------
(***************************************************************************)
(* What the mDNS component makes of the answers of other hosts (mdns.c):   *)
(* the results of searches and of a browse, put together from PTR, SRV,    *)
(* TXT and A records that arrive in any order, cut off at the end of a     *)
(* packet, lost or repeated, on several links.                             *)
(*                                                                         *)
(* A link is <<interface, protocol>>. Receive parses one packet, under the *)
(* service lock in the code; a packet that is lost is one that is never    *)
(* received. What a packet changes in the browse waits as an action in the *)
(* queue of the service task, unless the queue is full; Notify is the      *)
(* execution of that action. AAAA records are handled as A records are,    *)
(* and are left out, as are questions, and our own records otherwise than  *)
(* by what they do to results (MdnsResponder has the rest). Nothing is     *)
(* browsed or searched for by subtype, and allocation succeeds.            *)
(***************************************************************************)
EXTENDS MdnsRecords, Lists, FiniteSets

CONSTANTS
    QueueLen, \* length of the action queue
    Setups  \* what the application has asked for; our own instances; the links; and the
            \* packets of other hosts: at most "most" of the "records" behind others that
            \* leave so many bytes ("rooms")

\* how the packets of each setup are read
Packets == [s \in Setups |-> AsRead(s.records, s.most, s.rooms)]

Said(s, name, type, data) ==
    \E r \in s.records : r.type = type /\ ParseName(r.name).host = name /\ data = r.data

\* A record says of its name what somebody has announced of that name, the target of an
\* SRV record is a host, and a service that is searched for has instances.
Truthful(s, r) ==
    LET n == ParseName(r.name)
        SoughtType(q) == q.type = "PTR" /\ q.svc = n.svc
    IN  CASE r.type = "PTR" -> ParseName(r.data).host # None \/ ~ \E q \in ToSet(s.searches) : SoughtType(q)
          [] r.type = "SRV" -> LET host == ParseName(r.data[2]).host
                               IN  host # None /\ Said(s, n.host, "SRV", <<r.data[1], <<host, "local">> >>)
          [] r.type = "TXT" -> /\ r.data \in Seq(ToSet(r.data))
                               /\ r.data # <<>> => Said(s, n.host, "TXT", r.data)
          [] r.type = "A"   -> Said(s, n.host, "A", r.data)
          [] OTHER -> FALSE

\* The records of other hosts are well formed and true, and so is what a record seems to
\* say that was cut off by the end of its packet.
ASSUME QueryAssumption ==
    /\ QueueLen \in Nat \ {0}
    /\ \A s \in Setups :
          /\ s.searches \in Seq([type : {"PTR", "SRV", "TXT", "A", "ANY"}, inst : STRING, svc : Seq(STRING),
                                 max : Nat, on : BOOLEAN, res : {<<>>}])
          /\ s.most \in Nat /\ s.rooms \subseteq 0 .. MaxPacket
          /\ \A r \in s.records : IsRecord(r) /\ Truthful(s, r)
          /\ \A p \in Packets[s] : \A r \in p.cut : Truthful(s, r)

VARIABLES
    setup,     \* the member of Setups
    searches,  \* the running searches, newest first, each with its results
    browse,    \* the browsed service and its results
    news,      \* the actions that wait: of each, the results to call the notifier for
    down       \* the service task waits for its own lock, or read through a null pointer

\* History, read by properties only.
VARIABLES
    asWritten, \* was every packet read as it had been written?
    owed,      \* the results of the browse that the notifier has to be called for
    mixed,     \* has a record of ours met the search or browse of the record before it?
    moved      \* the hosts that browsed instances moved to

vars == <<setup, searches, browse, news, down, asWritten, owed, mixed, moved>>

Blank(via, ttl) ==
    [inst |-> None, host |-> None, port |-> 0, txt |-> <<>>, addr |-> {}, ttl |-> ttl, via |-> via]

Init ==
    /\ setup \in Setups
    /\ searches = [i \in DOMAIN setup.searches |->
                      [setup.searches[i] EXCEPT !.on = TRUE, !.res = <<>>]]
    /\ browse = [svc |-> setup.browse, res |-> <<>>]
    /\ news = <<>> /\ down = FALSE
    /\ asWritten = TRUE /\ owed = {} /\ mixed = FALSE /\ moved = {}

Lower(ttl, new) == IF ttl < new THEN ttl ELSE new
Has(r, inst, via) == r.via = via /\ r.inst = inst /\ inst # None
On(r, host, via) == r.via = via /\ r.host = host /\ host # None

-----------------------------------------------------------------------------
(* Results of a search. Each is new at the head of the list, as long as     *)
(* there is room for it.                                                    *)

NewResult(s, r) ==
    IF s.max = 0 \/ Len(s.res) < s.max THEN [s EXCEPT !.res = <<r>> \o @] ELSE s

OfInstance(s, inst, via) == SelectInSeq(s.res, LAMBDA r : Has(r, inst, via))
OfHost(s, host, via) == SelectInSeq(s.res, LAMBDA r : On(r, host, via))
OfLink(s, via) == SelectInSeq(s.res, LAMBDA r : r.via = via)

AddPtr(s, inst, via, ttl) ==
    LET i == OfInstance(s, inst, via)
    IN  IF i # 0 THEN [s EXCEPT !.res[i].ttl = Lower(@, ttl)]
                 ELSE NewResult(s, [Blank(via, ttl) EXCEPT !.inst = inst])

AddSrv(s, host, port, via, ttl) ==
    LET i == OfHost(s, host, via)
    IN  IF i # 0 THEN [s EXCEPT !.res[i].ttl = Lower(@, ttl)]
                 ELSE NewResult(s, [Blank(via, ttl) EXCEPT !.inst = s.inst, !.host = host, !.port = port])

AddTxt(s, txt, via, ttl) ==
    LET i == OfLink(s, via)
    IN  CASE i = 0 -> NewResult(s, [Blank(via, ttl) EXCEPT !.txt = txt])
          [] i # 0 /\ s.res[i].txt # <<>> -> s
          [] i # 0 /\ s.res[i].txt = <<>> ->
                [s EXCEPT !.res[i].txt = txt, !.res[i].ttl = Lower(@, ttl)]

\* mutant: the address of any host
AnyHost(s, host, via) == SelectInSeq(s.res, LAMBDA r : r.via = via)

\* a search for addresses collects them in one result; others need the host known
\* before, and only the first result of the host gets the address
AddressOf(s, host, via) ==
    SelectInSeq(s.res, LAMBDA r : IF s.type \in {"A", "ANY"} THEN r.via = via ELSE On(r, host, via))

AddIp(s, host, a, via, ttl) ==
    LET i == AddressOf(s, host, via)
    IN  CASE i # 0 -> [s EXCEPT !.res[i].addr = @ \cup {a}, !.res[i].ttl = Lower(@, ttl)]
          [] i = 0 /\ s.type \in {"A", "ANY"} ->
                NewResult(s, [Blank(via, ttl) EXCEPT !.host = host, !.addr = {a}])
          [] OTHER -> s

-----------------------------------------------------------------------------
(* Results of the browse, each known by its key.                            *)

Key(r) == <<r.inst, r.via>>
Renewed(ttl, new) == IF ttl = 0 THEN new ELSE Lower(ttl, new)

NewBrowsed(A, r) == [A EXCEPT !.br.res = <<r>> \o @, !.told = @ \cup {Key(r)}]

Browsed(A, via) == SelectInSeq(A.br.res, LAMBDA r : Has(r, A.bi, via))

\* the addresses of a result that has the host, on any interface of the protocol
CopiedAddress(rs, r, host) ==
    LET j == SelectInSeq(rs, LAMBDA q : q.host = host /\ q.via[2] = r.via[2] /\ q.addr # {})
    IN  IF r.addr = {} /\ j # 0 THEN rs[j].addr ELSE r.addr

\* a new host brings its port, but the addresses found for the old one stay
BrowseSrv(A, host, port, via, ttl) ==
    LET i == Browsed(A, via)
        old == A.br.res[i]
        at == IF old.host = host THEN old
              ELSE [old EXCEPT !.host = host, !.port = port, !.addr = CopiedAddress(A.br.res, old, host)]
        new == [at EXCEPT !.ttl = Renewed(@, ttl)]
    IN  IF i = 0
        THEN NewBrowsed(A, [Blank(via, ttl) EXCEPT !.inst = A.bi, !.host = host, !.port = port])
        ELSE [A EXCEPT !.br.res[i] = new,
                       !.told = IF new # old THEN @ \cup {Key(old)} ELSE @,
                       !.moved = IF old.host \notin {None, host} THEN @ \cup {host} ELSE @]

\* mutant: as many other items pass for the same
LengthChanged(old, txt) == old # <<>> /\ Len(old) # Len(txt)

\* the first TXT data of a known result are no change, nor is another order
TxtChanged(old, txt) ==
    old # <<>> /\ (Len(old) # Len(txt) \/ ~(ToSet(txt) \subseteq ToSet(old)))

BrowseTxt(A, txt, via, ttl) ==
    LET i == Browsed(A, via)
        old == A.br.res[i]
        new == [old EXCEPT !.txt = txt, !.ttl = Renewed(@, ttl)]
    IN  IF i = 0 THEN NewBrowsed(A, [Blank(via, ttl) EXCEPT !.inst = A.bi, !.txt = txt])
        ELSE [A EXCEPT !.br.res[i] = new,
                       !.told = IF TxtChanged(old.txt, txt) \/ new.ttl # old.ttl
                                THEN @ \cup {Key(old)} ELSE @]

\* only the first result of the host that lacks the address gets it
BrowseIp(A, host, a, via, ttl) ==
    LET i == SelectInSeq(A.br.res, LAMBDA r : On(r, host, via) /\ a \notin r.addr)
        old == A.br.res[i]
        new == [old EXCEPT !.addr = @ \cup {a}, !.ttl = Renewed(@, ttl)]
    IN  IF i = 0 THEN A ELSE [A EXCEPT !.br.res[i] = new, !.told = @ \cup {Key(old)}]

-----------------------------------------------------------------------------
(* Who wants a record.                                                      *)

Wants(s, n, type, via) ==
    CASE type = "PTR" -> s.type = "PTR" /\ s.svc = n.svc
      [] type = "A" /\ s.type \in {"PTR", "SRV"} -> \E i \in DOMAIN s.res : On(s.res[i], n.host, via)
      [] type = "A" /\ s.type \in {"A", "ANY"} -> s.svc = <<>> /\ s.inst = n.host
      [] type \in {"SRV", "TXT"} /\ s.svc # <<>> ->
            s.svc = n.svc /\ (s.type = "PTR" \/ (s.type \in {type, "ANY"} /\ s.inst = n.host))
      [] OTHER -> FALSE

\* the first search, from number i on; another one that wants the record gets nothing,
\* but for addresses
SearchFrom(ss, i, n, type, via) ==
    LET all == {j \in i .. Len(ss) : ss[j].on /\ Wants(ss[j], n, type, via)}
    IN  IF all = {} THEN 0 ELSE CHOOSE j \in all : \A k \in all : j <= k

BrowseWants(br, n, type, via) ==
    CASE type \in {"SRV", "TXT"} -> br.svc # <<>> /\ br.svc = n.svc
      [] type = "A" -> \E i \in DOMAIN br.res : On(br.res[i], n.host, via)
      [] OTHER -> FALSE

Ours(n) == /\ setup.own # {} /\ n.svc = setup.svc
           /\ n.host \in setup.own \cup {None}

-----------------------------------------------------------------------------
(* Parsing: A holds the searches "ss", the browse "br", "told" and the      *)
(* history, and what the record before has left: the search "sr" (0: none), *)
(* whether the browse was meant "bf", and which instance of it "bi".        *)

\* a record of ours leaves search and browse where they were
LookUp(A, n, type, via) ==
    LET wanted == BrowseWants(A.br, n, type, via)
    IN  IF Ours(n) THEN [A EXCEPT !.mixed = @ \/ A.sr # 0 \/ A.bf]
        ELSE [A EXCEPT !.sr = SearchFrom(A.ss, 1, n, type, via),
                       !.bf = wanted,
                       !.bi = IF wanted /\ type \in {"SRV", "TXT"} THEN n.host ELSE @]

ParsePtr(A, r, via) ==
    IF A.sr = 0 THEN A
    ELSE [A EXCEPT !.ss[A.sr] = AddPtr(@, ParseName(r.data).host, via, r.ttl)]

\* a search for instances makes a result of any record that names one
Entry(s, n, via, ttl) ==
    IF s.type = "PTR" /\ OfInstance(s, n.host, via) = 0 THEN AddPtr(s, n.host, via, ttl) ELSE s

\* after an address and then a record of ours the instance is a null pointer
Browse(A, updated) ==
    CASE ~A.bf -> A
      [] A.bf /\ A.bi = None -> [A EXCEPT !.down = TRUE]
      [] A.bf /\ A.bi # None -> updated

\* a full search keeps an SRV record from the browse, too
ParseSrv(A, r, via) ==
    LET n == ParseName(r.name)
        host == ParseName(r.data[2]).host
        port == r.data[1]
        s == Entry(A.ss[A.sr], n, via, r.ttl)
        i == OfInstance(s, n.host, via)
        B == Browse(A, BrowseSrv(A, host, port, via, r.ttl))
    IN  CASE A.sr = 0 -> B
          [] A.sr # 0 /\ s.type = "PTR" /\ i = 0 -> A
          [] A.sr # 0 /\ s.type = "PTR" /\ i # 0 ->
                [B EXCEPT !.ss[A.sr] = IF s.res[i].host # None THEN s
                                       ELSE [s EXCEPT !.res[i].host = host, !.res[i].port = port]]
          [] A.sr # 0 /\ s.type # "PTR" -> [B EXCEPT !.ss[A.sr] = AddSrv(s, host, port, via, r.ttl)]

ParseTxt(A, r, via) ==
    LET n == ParseName(r.name)
        s == Entry(A.ss[A.sr], n, via, r.ttl)
        i == OfInstance(s, n.host, via)
        B == Browse(A, BrowseTxt(A, r.data, via, r.ttl))
    IN  CASE A.sr = 0 \/ (s.type = "PTR" /\ i = 0) -> B
          [] A.sr # 0 /\ s.type = "PTR" /\ i # 0 ->
                [B EXCEPT !.ss[A.sr] = IF s.res[i].txt # <<>> THEN s
                                       ELSE [s EXCEPT !.res[i].txt = r.data]]
          [] A.sr # 0 /\ s.type # "PTR" /\ r.data = <<>> -> B
          [] A.sr # 0 /\ s.type # "PTR" /\ r.data # <<>> ->
                [B EXCEPT !.ss[A.sr] = AddTxt(s, r.data, via, r.ttl)]

\* every search that wants the address gets it, and none is left for the next record
ParseA(A, r, via) ==
    LET n == ParseName(r.name)
        B == IF A.bf THEN BrowseIp(A, n.host, r.data, via, r.ttl) ELSE A
        for == {j \in A.sr .. Len(A.ss) : j = A.sr \/ (A.ss[j].on /\ Wants(A.ss[j], n, "A", via))}
        given == [j \in DOMAIN A.ss |-> IF j \in for THEN AddIp(A.ss[j], n.host, r.data, via, r.ttl)
                                                    ELSE A.ss[j]]
    IN  IF A.sr = 0 THEN B ELSE [B EXCEPT !.sr = 0, !.ss = given]

ParseRecord(A, r, via) ==
    LET B == LookUp(A, ParseName(r.name), r.type, via)
    IN  CASE r.type = "PTR" -> ParsePtr(B, r, via)
          [] r.type = "SRV" -> ParseSrv(B, r, via)
          [] r.type = "TXT" -> ParseTxt(B, r, via)
          [] r.type = "A"   -> ParseA(B, r, via)

ParseRecords(A, records, via) == Loop(LAMBDA a, r : ParseRecord(a, r, via), A, records)

\* a packet begins with no search and no browse in hand
Start == [ss |-> searches, br |-> browse, told |-> {}, sr |-> 0, bf |-> FALSE, bi |-> None,
          down |-> FALSE, mixed |-> mixed, moved |-> moved]

\* searches with all the results they asked for are finished
FinishDone(ss) ==
    [i \in DOMAIN ss |-> [ss[i] EXCEPT !.on = @ /\ (ss[i].max = 0 \/ Len(ss[i].res) < ss[i].max)]]

OldResults(r) == {q \in ToSet(browse.res) : Key(q) = Key(r)}

\* no news: the first TXT data, or as many items that were all there, in any order
NoNews(old, new) == old = <<>> \/ (Len(new) = Len(old) /\ ToSet(new) \subseteq ToSet(old))

\* the results of br that are new, or that changed in a way that is news
Changed(br) ==
    {Key(r) : r \in {x \in ToSet(br.res) :
                        /\ x \notin ToSet(browse.res)
                        /\ ~ \E q \in OldResults(x) : NoNews(q.txt, x.txt) /\ x = [q EXCEPT !.txt = x.txt]}}

\* A packet that cannot be read to its end changes results, but finishes no search and
\* leaves no action; and an action is dropped when the queue is full, of these or others.
Receive ==
    /\ ~down
    /\ \E p \in Packets[setup], via \in setup.links :
          LET read == p.read
              A == ParseRecords(Start, read.records, via)
          IN  /\ searches' = IF read.clean THEN FinishDone(A.ss) ELSE A.ss
              /\ browse' = A.br
              /\ \/ /\ read.clean /\ A.told = {}
                    /\ owed' = owed \cup Changed(A.br) /\ UNCHANGED news
                 \/ /\ read.clean /\ A.told # {} /\ Len(news) < QueueLen
                    /\ owed' = owed \cup Changed(A.br) /\ news' = Append(news, A.told)
                 \/ /\ read.clean => A.told # {}
                    /\ UNCHANGED <<news, owed>>
              /\ down' = A.down
              /\ asWritten' = (asWritten /\ p.asWritten)
              /\ mixed' = A.mixed /\ moved' = A.moved
    /\ UNCHANGED setup

\* The notifier is called for the results of the action, one by one; the first whose TTL is
\* 0 is then to be freed, for which the task waits for the lock it holds.
Notify ==
    /\ ~down /\ news # <<>>
    /\ LET results == Head(news)
           gone == {Key(r) : r \in {q \in ToSet(browse.res) : q.ttl = 0}} \cap results
       IN  \/ gone = {} /\ owed' = owed \ results /\ UNCHANGED down
          \/ /\ down' = TRUE
             /\ \E k \in gone, before \in SUBSET (results \ gone) : owed' = owed \ ({k} \cup before)
    /\ news' = Tail(news)
    /\ UNCHANGED <<setup, searches, browse, asWritten, mixed, moved>>

Next == Receive \/ Notify
Spec == Init /\ [][Next]_vars

-----------------------------------------------------------------------------
(* Properties.                                                             *)

Announced(name, type, data) == Said(setup, name, type, data)

\* what a result says of an instance is what somebody announced of that instance, and
\* its addresses are those of its host
Consistent(inst, r) ==
    /\ inst # None /\ r.host # None => Announced(inst, "SRV", <<r.port, <<r.host, "local">> >>)
    /\ inst # None /\ r.txt # <<>> => Announced(inst, "TXT", r.txt)
    /\ \A a \in r.addr : Announced(r.host, "A", a)

Subject(s, r) == IF s.type = "PTR" THEN r.inst ELSE IF s.svc # <<>> THEN s.inst ELSE None
Distinct(rs) == \A i, j \in DOMAIN rs : Key(rs[i]) = Key(rs[j]) => i = j

\* A packet is read back as it was written, at every length of its records and at every
\* point where it ends: compression never joins the wrong names, and a record that
\* did not fit is never taken for another (_mdns_append_fqdn, _mdns_dispatch_tx_packet).
\* TXT data with an item without a value before others are the exception (AsWritten).
ReadBack == asWritten

\* Whatever the order, the loss and the repetition of records: a search and a browse have
\* one result for an instance and link, no more than they asked for, and never the data
\* of one instance or host in the result of another. Two exceptions: addresses under
\* a host that a browsed instance moved to, and packets that mix our own records with
\* those of others.
OwnData ==
    ~mixed =>
    /\ \A i \in DOMAIN searches :
          LET s == searches[i]
          IN  /\ s.max # 0 => Len(s.res) <= s.max
              /\ s.type = "PTR" => Distinct(s.res)
              /\ \A j \in DOMAIN s.res : Consistent(Subject(s, s.res[j]), s.res[j])
    /\ Distinct(browse.res)
    /\ \A j \in DOMAIN browse.res :
          LET r == browse.res[j]
          IN  Consistent(r.inst, IF r.host \in moved THEN [r EXCEPT !.addr = {}] ELSE r)

\* A result of the browse that is new or has changed since the notifier was last called
\* for it has an action in the queue that will call it, whatever packets and actions came
\* between. Nothing is owed if only the first TXT data of the instance arrived or its
\* items came in another order (_mdns_browse_result_add_txt), nor, as the code gives these
\* up, for a packet that could not be read to its end and for an action that the full queue
\* refused (_mdns_sync_browse_action). Once a result with TTL 0 has been reported the task
\* is down, and no action is executed any more (_mdns_browse_sync).
ChangesReported == down \/ owed \subseteq UNION ToSet(news)
=============================================================================
