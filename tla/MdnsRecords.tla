----------------------------- MODULE MdnsRecords -----------------------------
(***************************************************************************)
(* How the mDNS component writes resource records into a packet and reads  *)
(* them back (mdns.c): names are compressed by pointers to an earlier      *)
(* occurrence, a packet has a maximal size, and a record that does not fit *)
(* is not counted but leaves behind what was written of it.                *)
(*                                                                         *)
(* A packet is [cells, len]: a sequence of labels, pointers, ends of names,*)
(* record fields and data, and its length in bytes. A name is the sequence *)
(* of its labels, which differ from each other, as those of a service do,  *)
(* and of which the last one is the domain.                                *)
(* Bytes are not modelled: a name that runs into the fields of a record is *)
(* not readable. (The code reads the high byte of the type as the end of   *)
(* the name, the rest shifted by one as a record of a type that nobody     *)
(* knows and of a length behind the end of the packet, and gives up.)      *)
(***************************************************************************)
EXTENDS Naturals, Sequences, SequencesExt, Lists

CONSTANTS
    Size(_),    \* length of a label
    ItemSize(_),\* length of a TXT item
    MaxPacket   \* MDNS_MAX_PACKET_SIZE

ASSUME PacketAssumption == MaxPacket \in Nat

Domain == "local"   \* MDNS_DEFAULT_DOMAIN, the last label of every name

IsName(name) ==
    /\ name \in Seq(STRING) /\ name # <<>>
    /\ \A i \in 1 .. Len(name) : Size(name[i]) \in Nat /\ (name[i] = Domain <=> i = Len(name))

-----------------------------------------------------------------------------
(* Reading names.                                                           *)

\* the first cell from i on that is not a label
Stop(cells, i) == Min({j \in i .. Len(cells) : cells[j].k # "label"} \cup {Len(cells) + 1})

\* The labels of the name that begins at cell i, the cell behind it, and whether it is
\* readable, given the same (R) of the cells before i: a name that is not at its end with
\* a "ptr" goes on there. A name also ends with the packet.
NameAt(cells, R, i) ==
    LET stop == Stop(cells, i)
        labels == [j \in 1 .. stop - i |-> cells[i + j - 1].v]
        Is(kind) == stop <= Len(cells) /\ cells[stop].k = kind
        rest == R[cells[stop].v]
    IN  IF stop > Len(cells) THEN [labels |-> labels, next |-> stop, ok |-> TRUE]
        ELSE IF Is("end") THEN [labels |-> labels, next |-> stop + 1, ok |-> TRUE]
        ELSE IF Is("ptr") /\ cells[stop].v < i
             THEN [labels |-> labels \o rest.labels, next |-> stop + 1, ok |-> rest.ok]
        ELSE [labels |-> labels, next |-> stop, ok |-> FALSE]

ReadName(cells) ==
    LET R[i \in 1 .. Len(cells) + 1] == NameAt(cells, R, i) IN R

-----------------------------------------------------------------------------
(* Writing names.                                                           *)

\* a number may fill the packet, a label or the fields of a record may not
Fits(P, n) == P.len + n <= MaxPacket
FitsBelow(P, n) == P.len + n < MaxPacket
Write(P, kind, value, n) == [cells |-> Append(P.cells, [k |-> kind, v |-> value]), len |-> P.len + n]

\* mutant: only the first label and the number of labels are compared
PlacesOfLabel(P, name) ==
    {i \in DOMAIN P.cells : /\ name # <<>> /\ P.cells[i].k = "label" /\ P.cells[i].v = name[1]
                            /\ Len(ReadName(P.cells)[i].labels) = Len(name)}

\* where this very name was written before
Places(P, name) ==
    {i \in DOMAIN P.cells : /\ name # <<>> /\ P.cells[i].k = "label" /\ P.cells[i].v = name[1]
                            /\ LET r == ReadName(P.cells)[i] IN r.ok /\ r.labels = name}

\* the first of them, 0 if there is none
Found(P, name) ==
    LET places == Places(P, name) IN IF places = {} THEN 0 ELSE Min(places)

Part(name, k) == SubSeq(name, k, Len(name))

\* where the first part of the name begins that can be a pointer
PointerAt(P, name) ==
    CHOOSE k \in 1 .. Len(name) + 1 :
       /\ k <= Len(name) => Found(P, Part(name, k)) # 0
       /\ \A j \in 1 .. k - 1 : Found(P, Part(name, j)) = 0

\* a label that does not fit ends the name
AppendLabels(P, labels) ==
    Loop(LAMBDA a, s : IF a.whole /\ FitsBelow(a.p, Size(s) + 1)
                       THEN [a EXCEPT !.p = Write(@, "label", s, Size(s) + 1)]
                       ELSE [a EXCEPT !.whole = FALSE],
         [p |-> P, whole |-> TRUE], labels)

\* a pointer to the place, or the end of the name
EndName(a, place) ==
    CASE a.whole /\ place # 0 /\ Fits(a.p, 2) -> [a EXCEPT !.p = Write(@, "ptr", place, 2)]
      [] a.whole /\ place = 0 /\ Fits(a.p, 1) -> [a EXCEPT !.p = Write(@, "end", "", 1)]
      [] OTHER -> [a EXCEPT !.whole = FALSE]

\* a name counts as written if anything of it was
Written(P, a) == [p |-> a.p, whole |-> a.whole, ok |-> a.p.len > P.len]

AppendUpTo(P, name, k) ==
    Written(P, EndName(AppendLabels(P, SubSeq(name, 1, k - 1)), Found(P, Part(name, k))))

AppendName(P, name) == AppendUpTo(P, name, PointerAt(P, name))

-----------------------------------------------------------------------------
(* Records: [name, type, ttl, data], where data is the name a PTR points to, *)
(* <<port, name of the host>> for SRV, a value for A, and for TXT a sequence *)
(* of items [key, value], of which a value may be missing ("key").           *)

IsRecord(r) ==
    /\ r = [name |-> r.name, type |-> r.type, ttl |-> r.ttl, data |-> r.data] /\ IsName(r.name)
    /\ \/ r.type = "PTR" /\ IsName(r.data)
       \/ r.type = "SRV" /\ r.data = <<r.data[1], r.data[2]>> /\ IsName(r.data[2])
       \/ /\ r.type = "TXT" /\ r.data \in Seq([key : STRING, value : STRING])
          /\ \A i \in DOMAIN r.data : ItemSize(r.data[i]) \in Nat
       \/ r.type = "A"

\* the length of the data, in cells, comes last
Fields(P, r) == Write(P, "fields", [type |-> r.type, ttl |-> r.ttl, len |-> 0], 10)
SetLength(P, i) == [P EXCEPT !.cells[i].v.len = Len(P.cells) - i]

None == "none"

\* item by item, up to the first that does not fit; no item is one byte
AppendItems(P, items) ==
    Loop(LAMBDA a, t : IF a.ok /\ FitsBelow(a.p, ItemSize(t) + 1)
                       THEN [a EXCEPT !.p.len = @ + ItemSize(t) + 1]
                       ELSE [a EXCEPT !.ok = FALSE, !.whole = FALSE],
         [p |-> Write(P, "data", items, IF items = <<>> THEN 1 ELSE 0), ok |-> TRUE, whole |-> TRUE],
         items)

Refused(P) == [p |-> P, ok |-> FALSE, whole |-> FALSE]

AppendPtr(P, name) == AppendName(P, name)

AppendSrv(P, port, host) ==
    IF Fits(P, 6) THEN AppendName(Write(P, "data", port, 6), host) ELSE Refused(P)

AppendIp(P, ip) ==
    IF Fits(P, 4) THEN [p |-> Write(P, "data", ip, 4), ok |-> TRUE, whole |-> TRUE] ELSE Refused(P)

AppendData(P, r) ==
    CASE r.type = "PTR" -> AppendPtr(P, r.data)
      [] r.type = "SRV" -> AppendSrv(P, r.data[1], r.data[2])
      [] r.type = "TXT" -> AppendItems(P, r.data)
      [] r.type = "A"   -> AppendIp(P, r.data)

Discovery == <<"_services", "_dns-sd", "_udp", Domain>>

\* the length is set when there are data
Finish(name, data) ==
    [p |-> IF data.ok THEN SetLength(data.p, Len(name.p.cells) + 1) ELSE data.p,
     ok |-> data.ok, whole |-> data.ok /\ name.whole /\ data.whole]

\* for the service types (_mdns_append_sdptr_record) nobody asks whether the name fitted
AppendBehind(name, r) ==
    IF (name.ok \/ r.name = Discovery) /\ FitsBelow(name.p, 10)
    THEN Finish(name, AppendData(Fields(name.p, r), r))
    ELSE Refused(name.p)

AppendRecord(P, r) == AppendBehind(AppendName(P, r.name), r)

\* the packet, the records counted in its header, each with whether it is there as a
\* whole, and how many are there before the first that is not
Count(a, r, w) ==
    [p |-> w.p,
     counted |-> IF w.ok THEN Append(a.counted, [record |-> r, whole |-> w.whole]) ELSE a.counted,
     intact |-> a.intact + (IF w.whole /\ a.whole THEN 1 ELSE 0),
     whole |-> a.whole /\ w.whole]

Dispatch(P, records) ==
    Loop(LAMBDA a, r : Count(a, r, AppendRecord(a.p, r)),
         [p |-> P, counted |-> <<>>, intact |-> 0, whole |-> TRUE], records)

-----------------------------------------------------------------------------
(* Reading records: the loop of mdns_parse_packet.                           *)

\* Behind an item without a value the next one is looked for a byte too far: a letter is
\* taken for its length, which is more than is left, and then no item is kept.
Misread(items) == \E i \in DOMAIN items : items[i].value = None /\ i < Len(items)
ReadItems(items) == IF Misread(items) THEN <<>> ELSE items

\* the data behind the fields; a name may read on behind its data
ReadData(cells, i, type) ==
    CASE type = "PTR" -> ReadName(cells)[i].labels
      [] type = "SRV" -> <<cells[i].v, ReadName(cells)[i + 1].labels>>
      [] type = "TXT" -> ReadItems(cells[i].v)
      [] type = "A"   -> cells[i].v

RecordOf(cells, name) ==
    LET fields == cells[name.next].v
    IN  [name |-> name.labels, type |-> fields.type, ttl |-> fields.ttl,
         data |-> ReadData(cells, name.next + 1, fields.type)]

\* an unreadable name, a record that ends with the packet and one without data end the
\* reading; what was read before stays
ReadNext(cells, a) ==
    LET name == ReadName(cells)[a.at]
        fields == cells[name.next]
        There == name.ok /\ name.next <= Len(cells) /\ fields.k = "fields" /\ fields.v.len # 0
    IN  IF a.at > Len(cells) THEN a
        ELSE IF There THEN [a EXCEPT !.at = name.next + 1 + fields.v.len,
                                     !.records = Append(@, RecordOf(cells, name))]
        ELSE [a EXCEPT !.at = Len(cells) + 1, !.clean = FALSE]

\* (there are no more records than cells)
ReadRecords(cells) ==
    LET a == Loop(LAMBDA b, c : ReadNext(cells, b),
                  [at |-> 1, records |-> <<>>, clean |-> TRUE], cells)
    IN  [records |-> a.records, clean |-> a.clean]

\* What is written before anything that is not there as a whole is read. What is read
\* is what was counted: a record that is there as a whole is read as it was written, but
\* without its TXT data if an item of them that is not the last has no value, and of one
\* that is not at least name, type and TTL are right.
AsWritten(w) ==
    LET read == ReadRecords(w.p.cells).records
        About(r) == <<r.name, r.type, r.ttl>>
    IN  /\ w.intact <= Len(read) /\ Len(read) <= Len(w.counted)
        /\ \A i \in 1 .. Len(read) :
              LET r == w.counted[i].record
              IN  /\ About(read[i]) = About(r)
                  /\ w.counted[i].whole =>
                        read[i] = r \/ (r.type = "TXT" /\ Misread(r.data) /\ read[i].data = <<>>)

\* How a packet is read; "cut" are the records read of those that are not there as a whole.
\* AsRead: of the packets of at most "most" records behind others that leave so many
\* bytes ("rooms").
Read(w) ==
    LET read == ReadRecords(w.p.cells)
    IN  [read |-> read, asWritten |-> AsWritten(w),
         cut |-> {read.records[i] : i \in {j \in DOMAIN read.records : ~w.counted[j].whole}}]
AsRead(records, most, rooms) ==
    {Read(Dispatch([cells |-> <<>>, len |-> MaxPacket - room], rs)) :
        rs \in SeqOf(records, most), room \in rooms}

\* [host, svc] of a name: 4 labels name an instance of a service, 3 a service, and
\* 2 a host
ParseName(labels) ==
    CASE Len(labels) = 4 -> [host |-> labels[1], svc |-> SubSeq(labels, 2, 3)]
      [] Len(labels) = 3 -> [host |-> None, svc |-> SubSeq(labels, 1, 2)]
      [] Len(labels) \in {1, 2} -> [host |-> labels[1], svc |-> <<>>]
      [] OTHER -> [host |-> None, svc |-> <<>>]
=============================================================================
