---------------------------- MODULE MdnsResponder ----------------------------
(***************************************************************************)
(* The responder of the mDNS component (mdns.c): one protocol control      *)
(* block (PCB) per interface and IP protocol, which probes for its names,  *)
(* announces them and then runs; the queue of packets scheduled for        *)
(* sending; the registered services; and what moves them: the interface    *)
(* events, the service API, the queries and conflicts that packets bring.  *)
(*                                                                         *)
(* Every action holds the service lock in the code and is one step here.   *)
(* Several PCBs change in one step, so the functions of the code become    *)
(* operators from a state record S to a state record:                      *)
(*   S.pcb    state, probed services, flags of each PCB (mdns_pcb_t)       *)
(*   S.queue  the packets, sorted by the time they are due                 *)
(*   S.open   the PCBs whose network side is up; S.main the shared socket  *)
(*   S.host   whether the host name is set; S.own the services that have   *)
(*            an instance name of their own                                *)
(* Time is relative: "at" counts ticks until a packet is due, 0 for one    *)
(* that is overdue, and Tick jumps to the time of the head. A shared answer *)
(* (25..100 ms) is due at once, Short stands for 120..250 ms and Long for  *)
(* 1000 ms. The time of a packet is a number of 32 bits in the code: "lap" *)
(* says whether it lies past the wrap of the clock, which comes at most    *)
(* once in a run. Allocation is taken to succeed.                          *)
(***************************************************************************)
EXTENDS Naturals, Sequences, SequencesExt, FiniteSets, Lists

CONSTANTS
    PcbOrder,    \* the PCBs, <<interface, protocol>>, in the order of the loops
    Other(_),    \* the duplicate interface of an interface, or itself if none
    Services,    \* every service the application may register
    Named,       \* the services registered with an instance name of their own
    Delegated,   \* the services registered for a delegated host
    TypeOf(_),   \* the service type ("_http._tcp"), of which several may exist
    FastProbes,  \* failed probes after which probing slows down
    MaxQueue,    \* bound: packets scheduled at once
    MaxEvents    \* bound: calls, interface events and conflicts in a run

Pcbs == {PcbOrder[i] : i \in DOMAIN PcbOrder}
If(p) == p[1]
Twin(p) == <<Other(If(p)), p[2]>>
Short == 1
Long == 2
Far == Long + 1

ASSUME ResponderAssumption ==
    /\ PcbOrder \in Seq(Pcbs) /\ Pcbs # {} /\ \A p \in Pcbs : p = <<p[1], p[2]>>
    /\ Named \subseteq Services /\ Delegated \subseteq Services
    /\ FastProbes \in Nat /\ MaxQueue \in Nat /\ MaxEvents \in Nat

\* mdns_pcb_state_t, in the order the comparisons of the code rely on; PCB_INIT is never set
OFF == 0   DUP == 1   PROBE_1 == 3   PROBE_2 == 4   PROBE_3 == 5
ANNOUNCE_1 == 6   ANNOUNCE_2 == 7   ANNOUNCE_3 == 8   RUNNING == 9

VARIABLES
    S,         \* the server: see above
    services,  \* the registered services, newest first
    inst,      \* is the default instance name set?
    asked,     \* [PCB][service]: probes sent for the service's present name
    events,    \* calls, interface events and conflicts so far
    wrap       \* ticks until the clock wraps: Far for any longer time, 0 once it has

vars == <<S, services, inst, asked, events, wrap>>

PcbInit == [state |-> OFF, services |-> <<>>, ip |-> FALSE,
            running |-> FALSE, failed |-> 0]

Init == /\ S = [pcb |-> [p \in Pcbs |-> PcbInit], queue |-> <<>>, open |-> {},
                main |-> FALSE, host |-> FALSE, own |-> Named]
        /\ services = <<>>
        /\ inst = FALSE
        /\ asked = [p \in Pcbs |-> [s \in Services |-> 0]]
        /\ events = 0
        /\ wrap = Far

Probing(c) == c.state > OFF /\ c.state < ANNOUNCE_1
Announcing(c) == c.state > PROBE_3 /\ c.state < RUNNING

-----------------------------------------------------------------------------
(* The transmit queue. *)

First(indices) == CHOOSE i \in indices : \A j \in indices : i <= j

Timed(packet, after) ==
    [packet EXCEPT !.at = after, !.lap = IF wrap <= after THEN 1 ELSE 0]

\* send_at of k is greater than that of l, as plain numbers: one past the wrap is smaller
Greater(k, l) == IF k.lap = l.lap THEN k.at > l.at ELSE k.lap < l.lap

\* mutant: behind the whole queue
AppendLast(queue, packet, after) == Append(queue, Timed(packet, after))

\* a packet goes before the first one whose send_at is greater
Schedule(queue, packet, after) ==
    LET new == Timed(packet, after)
        behind == {i \in DOMAIN queue : Greater(queue[i], new)}
    IN  InsertAt(queue, First(behind \cup {Len(queue) + 1}), new)

\* mutant: the packets of every PCB
ClearAllQueues(queue, p) == <<>>

ClearPcbQueue(queue, p) == Without(queue, {k \in ToSet(queue) : k.pcb = p})

\* mutant: include_ip not handed on
ProbeWithoutHost(p, svcs, ip) ==
    [pcb |-> p, kind |-> "probe", q |-> svcs, names |-> {}, recs |-> ToSet(svcs),
     host |-> "none", at |-> 0, lap |-> 0]

\* each service has a copy of its host's name, which its own question borrows ("names"):
\* questions are compared by the address of the name
\* "host": the host's addresses, in the authority section ("servers") of a probe
\* or an announcement, in the answers, or nowhere
ProbePacket(p, svcs, ip) ==
    [pcb |-> p, kind |-> "probe", q |-> svcs, names |-> IF ip THEN ToSet(svcs) ELSE {},
     recs |-> ToSet(svcs), host |-> IF ip THEN "servers" ELSE "none", at |-> 0, lap |-> 0]

AnnouncePacket(p, svcs, ip) ==
    [pcb |-> p, kind |-> "announce", q |-> <<>>, names |-> {}, recs |-> ToSet(svcs),
     host |-> IF ip THEN "servers" ELSE "none", at |-> 0, lap |-> 0]

\* each service of the probe brings its host's addresses into the answers
AnnounceFromProbe(k) ==
    [k EXCEPT !.kind = "announce", !.q = <<>>, !.names = {}, !.host = "answers"]

\* records join the answers of a packet
WithAnswers(k, svcs, ip) ==
    [k EXCEPT !.recs = @ \cup ToSet(svcs), !.host = IF ip THEN "answers" ELSE @]

HasAnswers(k) == k.kind # "probe" /\ (k.recs # {} \/ k.host = "answers")
IsEmpty(k) == k.q = <<>> /\ k.recs = {} /\ k.host = "none"

-----------------------------------------------------------------------------
(* Probing and announcing. *)

\* mutant: a PCB that probes already goes on where it was
ProbeKeepsState(T, p, svcs, ip) ==
    LET c == T.pcb[p]
        all == svcs \o (IF Probing(c) THEN c.services ELSE <<>>)
    IN  [T EXCEPT
            !.pcb[p] = [@ EXCEPT !.state = IF Probing(c) THEN @ ELSE PROBE_1,
                                 !.services = all, !.ip = @ \/ ip, !.running = TRUE],
            !.queue = Schedule(@, ProbePacket(p, all, c.ip \/ ip), Short)]

\* probe for these services and, when it is probing already, for the ones it had
ProbeNewService(T, p, svcs, ip) ==
    LET c == T.pcb[p]
        all == svcs \o (IF Probing(c) THEN c.services ELSE <<>>)
        withIp == c.ip \/ ip
        delay == IF c.failed > FastProbes THEN Long ELSE Short
    IN  [T EXCEPT
            !.pcb[p] = [@ EXCEPT !.state = PROBE_1, !.services = all,
                                 !.ip = withIp, !.running = TRUE],
            !.queue = Schedule(@, ProbePacket(p, all, withIp), delay)]

InitProbe(T, p, svcs, ip) ==
    LET U == [T EXCEPT !.queue = ClearPcbQueue(@, p)]
        c == T.pcb[p]
        new == IF Probing(c) THEN Without(svcs, ToSet(c.services)) ELSE svcs
    IN  IF ~T.host THEN [U EXCEPT !.pcb[p].state = RUNNING]
                   ELSE ProbeNewService(U, p, new, ip)

RestartPcb(T, p, svcs) == InitProbe(T, p, svcs, TRUE)

ProbePcb(T, p, svcs, ip, clearOld) ==
    LET U == IF clearOld THEN [T EXCEPT !.pcb[p].services = <<>>, !.pcb[p].running = FALSE]
                         ELSE T
    IN  IF p \in T.open THEN InitProbe(U, p, svcs, ip) ELSE T

ProbeAll(T, svcs, ip, clearOld) ==
    Loop(LAMBDA U, p : ProbePcb(U, p, svcs, ip, clearOld), T, PcbOrder)

RestartAll(T, svcs) == ProbeAll([T EXCEPT !.queue = <<>>], svcs, TRUE, TRUE)

NoInstance(T, svcs) == Without(svcs, T.own)

RestartAllNoInstance(T, svcs) ==
    IF NoInstance(T, svcs) = <<>> THEN T ELSE ProbeAll(T, NoInstance(T, svcs), FALSE, TRUE)

\* the first packet of the PCB carries the records while it announces, whatever
\* that packet is
AnnouncePcb(T, p, svcs, ip) ==
    LET c == T.pcb[p]
        mine == {i \in DOMAIN T.queue : T.queue[i].pcb = p}
    IN  CASE p \notin T.open -> T
          [] p \in T.open /\ Probing(c) -> InitProbe(T, p, svcs, ip)
          [] p \in T.open /\ Announcing(c) ->
                IF mine = {} THEN T
                ELSE [T EXCEPT !.queue[First(mine)] = WithAnswers(@, svcs, ip),
                               !.pcb[p].state = ANNOUNCE_1]
          [] p \in T.open /\ c.state = RUNNING /\ T.host ->
                [T EXCEPT !.pcb[p].state = ANNOUNCE_1,
                          !.queue = Schedule(@, AnnouncePacket(p, svcs, ip), 0)]
          [] OTHER -> T

AnnounceAll(T, svcs, ip) ==
    Loop(LAMBDA U, p : AnnouncePcb(U, p, svcs, ip), T, PcbOrder)

-----------------------------------------------------------------------------
(* Forgetting a service: its records leave every packet, and a packet      *)
(* left empty leaves the queue.                                            *)

\* mutants: the flag, or the state, stays; the question stays
StoppedKeepsFlag(c) == [c EXCEPT !.state = RUNNING]
KeepsQuestion(q, s) == q

\* the PCB has nothing left to probe for
Stopped(c) == [c EXCEPT !.running = FALSE, !.state = RUNNING]

DropQuestion(q, s) ==
    LET same == {i \in DOMAIN q : TypeOf(q[i]) = TypeOf(s)}
    IN  IF same = {} THEN q ELSE RemoveAt(q, First(same))

ForgetInPacket(acc, k, s) ==
    LET c == acc.pcb[k.pcb]
        left == [k EXCEPT !.recs = @ \ {s},
                          !.q = IF Probing(c) /\ s \in ToSet(c.services)
                                THEN DropQuestion(@, s) ELSE @]
        probed == Without(c.services, {s})
        done == probed = <<>> /\ ~c.ip
        next == CASE Probing(c) /\ s \in ToSet(c.services) ->
                        [(IF done THEN Stopped(c) ELSE c) EXCEPT !.services = probed]
                  [] Announcing(c) /\ HasAnswers(k) /\ ~HasAnswers(left) ->
                        [c EXCEPT !.state = RUNNING]
                  [] OTHER -> c
    IN  [pcb |-> [acc.pcb EXCEPT ![k.pcb] = next],
         queue |-> IF IsEmpty(left) THEN acc.queue ELSE Append(acc.queue, left)]

ForgetService(T, s) ==
    LET r == Loop(LAMBDA acc, k : ForgetInPacket(acc, k, s),
                  [pcb |-> T.pcb, queue |-> <<>>], T.queue)
    IN  [T EXCEPT !.pcb = r.pcb, !.queue = r.queue]

-----------------------------------------------------------------------------
(* Interfaces. *)

\* _udp_pcb_init / _udp_pcb_deinit: the shared socket lives while a PCB is open
NetOpen(T, p) == [T EXCEPT !.open = @ \cup {p}, !.main = TRUE]

NetClose(T, p) ==
    [T EXCEPT !.open = @ \ {p},
              !.main = IF \E o \in T.open : o # p /\ If(o) = If(p)
                       THEN @ ELSE T.open # {p} /\ @]

DeinitLocal(T, p) == [NetClose(T, p) EXCEPT !.pcb[p] = PcbInit]

\* joining the multicast group fails when the interface went down meanwhile
EnablePcb(T, p, joins, svcs) ==
    IF p \in T.open THEN RestartPcb(T, p, svcs)
    ELSE IF joins THEN RestartPcb(NetOpen(T, p), p, svcs)
    ELSE [T EXCEPT !.pcb[p].failed = 0]

DisablePcb(T, p, joins, svcs) ==
    LET closed == DeinitLocal([T EXCEPT !.queue = ClearPcbQueue(@, p)], p)
        o == Twin(p)
        freed == IF o # p /\ o \in Pcbs /\ T.pcb[o].state = DUP
                 THEN EnablePcb([closed EXCEPT !.pcb[o].state = OFF], o, joins, svcs)
                 ELSE closed
        U == IF p \in T.open THEN freed ELSE T
    IN  [U EXCEPT !.pcb[p].state = OFF]

\* the address in a conflict is our other interface's: this one steps back
DupPcb(T, p) ==
    LET U == IF p \in T.open THEN DeinitLocal([T EXCEPT !.queue = ClearPcbQueue(@, p)], p)
                             ELSE T
    IN  IF Twin(p) \in T.open
        THEN AnnouncePcb([U EXCEPT !.pcb[p].state = DUP], Twin(p), <<>>, TRUE)
        ELSE T

DupInterface(T, f) == Loop(LAMBDA U, p : IF If(p) = f THEN DupPcb(U, p) ELSE U, T, PcbOrder)

-----------------------------------------------------------------------------
(* Sending: the timer and the service task.                                *)

\* the packet at the head is due: send it and move the PCB of that packet
TxHandle ==
    /\ S.queue # <<>> /\ Head(S.queue).at = 0
    /\ LET k == Head(S.queue)
           p == k.pcb
           c == S.pcb[p]
           T == [S EXCEPT !.queue = Tail(@)]
       IN  /\ S' = CASE c.state \in {PROBE_1, PROBE_2} ->
                            [T EXCEPT !.queue = Schedule(@, k, Short),
                                      !.pcb[p].state = @ + 1]
                     [] c.state = PROBE_3 ->
                            [T EXCEPT !.queue = Schedule(@, AnnounceFromProbe(k), Short),
                                      !.pcb[p] = [state |-> ANNOUNCE_1, services |-> <<>>,
                                                  ip |-> FALSE, running |-> FALSE, failed |-> 0]]
                     [] c.state \in {ANNOUNCE_1, ANNOUNCE_2} ->
                            [T EXCEPT !.queue = Schedule(@, k, Long),
                                      !.pcb[p].state = @ + 1]
                     [] c.state = ANNOUNCE_3 -> [T EXCEPT !.pcb[p].state = RUNNING]
                     [] OTHER -> T
           /\ asked' = IF c.state = OFF THEN asked
                       ELSE [asked EXCEPT ![p] = [s \in Services |->
                                IF s \in ToSet(k.q) /\ @[s] < 3 THEN @[s] + 1 ELSE @[s]]]
    /\ UNCHANGED <<services, inst, events, wrap>>

Less(time, ticks) == IF time > ticks THEN time - ticks ELSE 0

Tick ==
    /\ S.queue # <<>> /\ Head(S.queue).at > 0
    /\ LET queue == S.queue
           ticks == Head(queue).at
       IN  /\ S' = [S EXCEPT !.queue = [i \in DOMAIN queue |->
                                           [queue[i] EXCEPT !.at = Less(@, ticks)]]]
           /\ wrap' = IF wrap = Far THEN Far ELSE Less(wrap, ticks)
    /\ UNCHANGED <<services, inst, asked, events>>

-----------------------------------------------------------------------------
(* What the application, the interfaces and the network do. A goodbye packet *)
(* is sent at once and changes nothing here.                                 *)

Event == /\ events < MaxEvents
         /\ events' = events + 1

\* the wrap of the clock is near, behind all packets that wait
WrapNears ==
    /\ Event /\ wrap = Far
    /\ wrap' \in {w \in 1 .. Long : \A i \in DOMAIN S.queue : S.queue[i].at < w}
    /\ UNCHANGED <<S, services, inst, asked>>

\* services that get a new name have not been probed under it, nor has any on a
\* PCB that is down
Renamed(who) == asked' = [p \in Pcbs |-> [s \in Services |->
                    IF s \in who \/ p \notin S'.open THEN 0 ELSE asked[p][s]]]

\* a service is named by its own instance, else the default one, else the host
ByInstance == {s \in Services : s \notin S.own}
ByHost == IF inst THEN {} ELSE ByInstance

HostnameSet ==
    /\ IF S.host THEN Event ELSE UNCHANGED events
    /\ S' = RestartAll([S EXCEPT !.host = TRUE], services)
    /\ Renamed(ByHost)
    /\ UNCHANGED <<services, inst, wrap>>

InstanceNameSet ==
    /\ Event /\ S.host
    /\ inst' = TRUE
    /\ S' = RestartAllNoInstance(S, services)
    /\ Renamed(ByInstance)
    /\ UNCHANGED <<services, wrap>>

ServiceAdd(s) ==
    /\ S.host /\ s \notin ToSet(services)
    /\ services' = <<s>> \o services
    /\ LET own == (S.own \ {s}) \cup (Named \cap {s})
       IN  S' = ProbeAll([S EXCEPT !.own = own], <<s>>, FALSE, FALSE)
    /\ Renamed({s})
    /\ UNCHANGED <<inst, events, wrap>>

ServiceInstanceNameSet(s) ==
    /\ Event /\ s \in ToSet(services)
    /\ S' = ProbeAll([S EXCEPT !.own = @ \cup {s}], <<s>>, FALSE, FALSE)
    /\ Renamed({s})
    /\ UNCHANGED <<services, inst, wrap>>

Unregister(gone) ==
    /\ Event
    /\ S' = Loop(LAMBDA U, s : IF s \in gone THEN ForgetService(U, s) ELSE U, S, services)
    /\ services' = Without(services, gone)
    /\ UNCHANGED <<inst, asked, wrap>>

ServiceRemove(s) == s \in ToSet(services) /\ Unregister({s})
ServiceRemoveAll == services # <<>> /\ Unregister(ToSet(services))
DelegateHostnameRemove == Delegated # {} /\ Unregister(Delegated)

\* the port is announced with the addresses, TXT items and subtypes without
ServicePortSet(s) ==
    /\ Event /\ s \in ToSet(services)
    /\ S' = AnnounceAll(S, <<s>>, TRUE)
    /\ UNCHANGED <<services, inst, asked, wrap>>

ServiceTxtSet(s) ==
    /\ Event /\ s \in ToSet(services)
    /\ S' = AnnounceAll(S, <<s>>, FALSE)
    /\ UNCHANGED <<services, inst, asked, wrap>>

InterfaceUp(p) ==
    /\ IF S.pcb[p].state # OFF THEN Event ELSE UNCHANGED events
    /\ \E joins \in BOOLEAN : S' = EnablePcb(S, p, joins, services)
    /\ Renamed({})
    /\ UNCHANGED <<services, inst, wrap>>

InterfaceDown(p) ==
    /\ Event
    /\ \E joins \in BOOLEAN : S' = DisablePcb(S, p, joins, services)
    /\ Renamed({})
    /\ UNCHANGED <<services, inst, wrap>>

\* an address was added: IPv4 got one, so IPv6 announces again, and vice versa
InterfaceAnnounce(p) ==
    /\ Event
    /\ S' = AnnouncePcb(S, p, <<>>, TRUE)
    /\ UNCHANGED <<services, inst, asked, wrap>>

\* a query for a service, or for the host's addresses; the shared answer waits a little
Query(p) ==
    /\ Event /\ p \in S.open /\ S.host /\ S.pcb[p].state > PROBE_3
    /\ Len(S.queue) < MaxQueue
    /\ \E recs \in {{}} \cup {{s} : s \in ToSet(services)} :
          LET k == [pcb |-> p, kind |-> "answer", q |-> <<>>, names |-> {}, recs |-> recs,
                    host |-> IF recs = {} THEN "answers" ELSE "none", at |-> 0, lap |-> 0]
          IN  S' = [S EXCEPT !.queue = Schedule(@, k, 0)]
    /\ UNCHANGED <<services, inst, asked, wrap>>

\* another host has given an answer of ours: it leaves a shared answer to a truncated query
RemoveScheduledAnswer(p) ==
    /\ Event /\ p \in S.open
    /\ \E i \in DOMAIN S.queue :
          /\ S.queue[i].pcb = p /\ S.queue[i].kind = "answer"
          /\ S' = [S EXCEPT !.queue[i].recs = {}, !.queue[i].host = "none"]
    /\ UNCHANGED <<services, inst, asked, wrap>>

\* a record with the name of s is looked up by its type: the newest service of it
ConflictTarget(s) == services[First({i \in DOMAIN services : TypeOf(services[i]) = TypeOf(s)})]

RenameHost(T) == RestartAll(T, services)

\* a probe or an authoritative answer of another host has our SRV with better data
SrvConflict(p, s) ==
    /\ Event /\ p \in S.open /\ S.host /\ s \in ToSet(services)
    /\ LET t == ConflictTarget(s)
           lost == [S EXCEPT !.pcb[p].failed = IF @ > FastProbes THEN @ ELSE @ + 1]
       IN  /\ t \notin Delegated
           /\ \/ /\ S.pcb[p].running /\ t \in S.own
                 /\ S' = ProbeAll(lost, <<t>>, FALSE, FALSE)
                 /\ Renamed({t})
              \/ /\ S.pcb[p].running /\ t \notin S.own /\ inst
                 /\ S' = RestartAllNoInstance(lost, services)
                 /\ Renamed(ByInstance)
              \/ /\ S.pcb[p].running /\ t \notin S.own /\ ~inst
                 /\ S' = RenameHost(lost)
                 /\ Renamed(ByHost)
              \/ /\ ~S.pcb[p].running
                 /\ S' = InitProbe(S, p, <<t>>, FALSE)
                 /\ UNCHANGED asked
    /\ UNCHANGED <<services, inst, wrap>>

\* other TXT data: only a PCB that does not probe starts to
TxtConflict(p, s) ==
    /\ Event /\ p \in S.open /\ S.host /\ s \in ToSet(services)
    /\ ConflictTarget(s) \notin Delegated /\ ~S.pcb[p].running
    /\ S' = InitProbe(S, p, <<ConflictTarget(s)>>, TRUE)
    /\ UNCHANGED <<services, inst, asked, wrap>>

\* another host has our name and a higher address
AddressConflict(p) ==
    /\ Event /\ p \in S.open /\ S.host
    /\ \/ /\ S.pcb[p].running
          /\ S' = RenameHost([S EXCEPT !.pcb[p].failed = IF @ > FastProbes THEN @ ELSE @ + 1])
          /\ Renamed(ByHost)
       \/ /\ ~S.pcb[p].running
          /\ S' = InitProbe(S, p, <<>>, TRUE)
          /\ UNCHANGED asked
    /\ UNCHANGED <<services, inst, wrap>>

\* the higher address is the one of our other interface
DuplicateFound(p) ==
    /\ Event /\ p \in S.open /\ S.host /\ Twin(p) # p
    /\ S' = DupInterface(S, If(p))
    /\ Renamed({})
    /\ UNCHANGED <<services, inst, wrap>>

Api == \/ HostnameSet \/ InstanceNameSet \/ ServiceRemoveAll \/ DelegateHostnameRemove
       \/ \E s \in Services :
             \/ ServiceAdd(s) \/ ServiceInstanceNameSet(s) \/ ServiceRemove(s)
             \/ ServicePortSet(s) \/ ServiceTxtSet(s)

Network == \E p \in Pcbs :
              \/ InterfaceUp(p) \/ InterfaceDown(p) \/ InterfaceAnnounce(p)
              \/ Query(p) \/ RemoveScheduledAnswer(p)
              \/ AddressConflict(p) \/ DuplicateFound(p)
              \/ \E s \in Services : SrvConflict(p, s) \/ TxtConflict(p, s)

Next == Api \/ Network \/ TxHandle \/ Tick \/ WrapNears

\* the service task and the timer keep running; nobody has to call or to conflict
Spec == Init /\ [][Next]_vars /\ WF_vars(TxHandle) /\ WF_vars(Tick)

-----------------------------------------------------------------------------
(* Properties.                                                             *)

Packets == [pcb : Pcbs, kind : {"probe", "announce", "answer"}, q : Seq(Services),
            names : SUBSET Services, recs : SUBSET Services, host : {"none", "servers", "answers"},
            at : 0 .. Long, lap : {0, 1}]
States == {OFF, DUP} \cup PROBE_1 .. RUNNING

\* Every field holds what mdns_pcb_t, the queue and the service list may hold; a
\* closed PCB is off or a duplicate, it has the "running" flag exactly while it
\* probes (the flag the conflict handlers test), and the shared socket lives while
\* a PCB is open, in whatever order interfaces and protocols go.
TypeOK ==
    /\ \A p \in Pcbs :
          /\ S.pcb[p] \in [state : States, services : Seq(Services), ip : BOOLEAN,
                           running : BOOLEAN, failed : Nat]
          /\ S.pcb[p].running <=> p \in S.open /\ Probing(S.pcb[p])
          /\ p \in S.open <=> S.pcb[p].state \notin {OFF, DUP}
    /\ S.queue \in Seq(Packets)
    /\ S.host \in BOOLEAN /\ (S.main <=> S.open # {}) /\ S.open \subseteq Pcbs /\ S.own \subseteq Services
    /\ services \in Seq(Services) /\ inst \in BOOLEAN
    /\ events \in 0 .. MaxEvents /\ wrap \in 0 .. Far

\* A PCB that probes or announces has a packet in the queue that carries it on: no
\* removal, restart, rename or interface event leaves it waiting for nothing.
ProgressPacket ==
    \A p \in S.open : Probing(S.pcb[p]) \/ Announcing(S.pcb[p])
                        => \E i \in DOMAIN S.queue : S.queue[i].pcb = p

\* What a PCB believes it probes for (probe_services, probe_ip) is what its pending
\* probe proposes: a probe never claims less, or more, than the PCB counts as tested.
ProbeMatchesPcb ==
    \A p \in S.open : Probing(S.pcb[p]) =>
        \A i \in DOMAIN S.queue : S.queue[i].pcb = p =>
            /\ S.queue[i].kind = "probe"
            /\ S.queue[i].recs = ToSet(S.pcb[p].services)
            /\ S.pcb[p].ip <=> S.queue[i].host = "servers"

\* No record of a packet, no question and no probe list refers to a service that was
\* removed and freed (_mdns_remove_scheduled_service_packets). A service that shares its
\* type with another one is left out for the questions: removing either drops the first
\* question of the type.
HasTwin(s) == \E t \in Services : t # s /\ TypeOf(t) = TypeOf(s)
NoStaleServices ==
    /\ \A i \in DOMAIN S.queue :
          /\ S.queue[i].recs \subseteq ToSet(services)
          /\ \A s \in ToSet(S.queue[i].q) : HasTwin(s) \/ s \in ToSet(services)
    /\ \A p \in Pcbs : ToSet(S.pcb[p].services) \subseteq ToSet(services)

\* "Fix exception when service is removed while there are pending packets that depend on
\* it": neither does a question for a service, or for its host name.
NoStaleQuestions ==
    \A i \in DOMAIN S.queue : ToSet(S.queue[i].q) \cup S.queue[i].names \subseteq ToSet(services)

\* The queue is sorted by the time packets are due and holds nothing for a PCB that is
\* down: the head is the next packet to send. The wrap of the clock is the exception: a
\* packet whose time lies past it is put before all whose time does not, due or not
\* (_mdns_schedule_tx_packet compares plain numbers of 32 bits).
QueueOrdered ==
    /\ \A i, j \in DOMAIN S.queue : i <= j =>
          \/ S.queue[i].lap = S.queue[j].lap /\ S.queue[i].at <= S.queue[j].at
          \/ S.queue[i].lap > S.queue[j].lap
    /\ \A i \in DOMAIN S.queue : S.queue[i].pcb \in S.open

\* A probe turns into an announcement only when every service it claims was asked for
\* three times on that link under its present name, but for one that shares its type.
ThreeProbesFirst ==
    [][\A p \in Pcbs :
          S.pcb[p].state = PROBE_3 /\ S'.pcb[p].state = ANNOUNCE_1
            => \A s \in ToSet(S.pcb[p].services) : HasTwin(s) \/ asked'[p][s] = 3]_vars

=============================================================================
