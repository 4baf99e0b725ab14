----------------------------- MODULE MdnsService -----------------------------
(***************************************************************************)
(* The tasks of the mDNS component (mdns.c) and what passes between them:   *)
(* the bounded action queue, into which nobody waits to send; the service   *)
(* task, which receives an action and then takes the lock to execute it;    *)
(* the timer callback, which holds the lock while it turns due packets and  *)
(* searches into actions; and the application, which waits for searches     *)
(* and host names, browses, changes services and frees the component.       *)
(*                                                                         *)
(* What a packet is for is the matter of MdnsResponder: here an operation   *)
(* removes any packets from the transmit queue and schedules another. A     *)
(* received packet brings an answer, news for a browse, or a change of the  *)
(* transmit queue; one that brings several acts as several packets. A       *)
(* search and a browse are identified by their memory, which is used once;  *)
(* the memory of packets is reused.                                         *)
(*                                                                         *)
(* The times of packets and searches are 32-bit milliseconds, which wrap    *)
(* after 49.7 days: once in a run, at any moment. Nothing is modelled of    *)
(* what a callback does in memory and with a lock that mdns_free has freed. *)
(***************************************************************************)
EXTENDS Naturals, Sequences, SequencesExt, FiniteSets, Lists

CONSTANTS
    Packets,    \* memory for packets to transmit
    Searches,   \* search objects
    Browses,    \* browse objects, all for one service type
    Callers,    \* threads that set a host name, or add a delegated one
    QueueLen,   \* MDNS_ACTION_QUEUE_LEN
    MaxCalls    \* bound: calls, packets received and repeated, and the wrap of the clock, in a run

ASSUME ServiceAssumption == QueueLen \in Nat \ {0} /\ MaxCalls \in Nat

VARIABLES
    actions,    \* _mdns_server->action_queue
    hand,       \* the action the service task has received and not executed
    lock,       \* who holds _mdns_service_semaphore
    timer,      \* the timer callback: where it is and what is left of its loop
    tx,         \* packets to transmit, by the 32-bit time they are due
    due,        \* those whose time has come
    queued,     \* the packets with the flag "queued"
    clock,      \* of 32 bits: is its wrap "far", "near", or has it "wrapped"?
    beyond,     \* packets and searches whose time lies behind the wrap
    search,     \* state of each search object
    async,      \* the searches of mdns_query_async_new; the callers of the others block
    listed,     \* _mdns_server->search_once, newest first
    past,       \* searches whose time is over
    full,       \* searches with max_results results
    done,       \* searches whose semaphore has been given
    deleting,   \* deletions that have passed their check and wait for the lock
    browse,     \* state of each browse object
    bye,        \* browses with a result whose TTL is 0
    waiting,    \* the callers that wait for action_sema
    sema,       \* action_sema, a binary semaphore
    phase,      \* of mdns_free
    calls       \* of all those so far

\* History, read by properties only.
VARIABLES
    overtaken,  \* packets handed over, with one before them that was not, or was overtaken
    hasty,      \* searches that passed the check of a deletion while listed
    late,       \* searches finished by an answer while their END was pending
    crossed,    \* browses ended while news of them were pending
    overlapped, \* callers that waited while another one did
    midway      \* was a callback of the timer under way when mdns_free stopped it?

txVars     == <<tx, due, queued, overtaken, clock, beyond>>
searchVars == <<search, async, listed, past, full, done, deleting, hasty, late>>
browseVars == <<browse, bye, crossed>>
hostVars   == <<waiting, sema, overlapped>>
vars == <<actions, hand, lock, timer, txVars, searchVars, browseVars, hostVars, phase, midway,
          calls>>

Action(type, of) == [type |-> type, of |-> of]
None == Action("none", "none")
Idle == [at |-> "idle", pos |-> 0, todo |-> <<>>]

Init ==
    /\ actions = <<>> /\ hand = None /\ lock = "free" /\ timer = Idle
    /\ tx = <<>> /\ due = {} /\ queued = {} /\ clock = "far" /\ beyond = {}
    /\ search = [s \in Searches |-> "none"] /\ async = {} /\ listed = <<>>
    /\ past = {} /\ full = {} /\ done = {} /\ deleting = {}
    /\ browse = [b \in Browses |-> "none"] /\ bye = {}
    /\ waiting = {} /\ sema = FALSE /\ phase = "running" /\ calls = 0
    /\ overtaken = {} /\ hasty = {} /\ late = {} /\ crossed = {} /\ overlapped = {}
    /\ midway = FALSE

\* xQueueSend with no time to wait: a full queue refuses the action
Room == Len(actions) < QueueLen
Send(a) == actions' = IF Room THEN Append(actions, a) ELSE actions
Pending(a) == a = hand \/ a \in ToSet(actions)

Call == /\ calls < MaxCalls /\ calls' = calls + 1
        /\ phase = "running"

-----------------------------------------------------------------------------
(* The transmit queue.                                                      *)

Wrapped == clock = "wrapped"

\* may a time that is set now lie behind the wrap?
Laps == IF clock = "near" THEN BOOLEAN ELSE {Wrapped}

\* the fresh packet goes to a place i behind what is due before it; by its 32-bit time
\* a packet whose time lies behind the wrap goes in front of all whose time does not
Fits(rest, i, later) ==
    \A j \in 1 .. Len(rest) :
        IF (rest[j] \in beyond) = later THEN rest[j] \in due => j < i ELSE later <=> i <= j

Kept(rest) == beyond \ (Packets \ ToSet(rest))

\* packets are freed, and one is scheduled or none
MaySchedule(rest) ==
    /\ due' = due \cap ToSet(rest) /\ queued' = queued \cap ToSet(rest) /\ UNCHANGED clock
    /\ \/ tx' = rest /\ beyond' = Kept(rest) /\ overtaken' = overtaken \cap ToSet(rest)
       \/ \E p \in Packets \ ToSet(rest), i \in 1 .. Len(rest) + 1, later \in Laps :
             /\ Fits(rest, i, later) /\ tx' = InsertAt(rest, i, p)
             /\ beyond' = IF later THEN Kept(rest) \cup {p} ELSE Kept(rest)
             /\ overtaken' = ToSet(rest) \cap
                    (overtaken \cup {q \in queued : \E j \in i .. Len(rest) : rest[j] = q})

Replan(gone) == MaySchedule(Without(tx, gone))

\* a service, an interface or a name changes: packets are freed and scheduled
Change ==
    /\ Call /\ lock = "free"
    /\ \E gone \in SUBSET ToSet(tx) : Replan(gone)
    /\ UNCHANGED <<actions, hand, lock, timer, searchVars, browseVars, hostVars, phase, midway>>

\* in the order of the queue, but for packets whose time lies behind the wrap
PacketDue ==
    /\ \E i \in 1 .. Len(tx) :
          /\ tx[i] \notin due /\ (tx[i] \in beyond => Wrapped)
          /\ \A j \in 1 .. i - 1 : tx[j] \in due \/ (tx[j] \in beyond /\ tx[i] \notin beyond)
          /\ due' = due \cup {tx[i]}
    /\ UNCHANGED <<actions, hand, lock, timer, tx, queued, overtaken, clock, beyond, searchVars,
                   browseVars, hostVars, phase, midway, calls>>

\* the wrap comes within the delays of packets and searches
WrapNears ==
    /\ clock = "far" /\ clock' = "near" /\ calls < MaxCalls /\ calls' = calls + 1
    /\ UNCHANGED <<actions, hand, lock, timer, tx, due, queued, overtaken, beyond, searchVars,
                   browseVars, hostVars, phase, midway>>

\* whatever was to happen before the wrap has come to pass
TickWraps ==
    /\ clock = "near" /\ clock' = "wrapped"
    /\ ToSet(tx) \subseteq due \cup beyond
    /\ {s \in Searches : search[s] \in {"init", "running"}} \subseteq past \cup beyond
    /\ UNCHANGED <<actions, hand, lock, timer, tx, due, queued, overtaken, beyond, searchVars,
                   browseVars, hostVars, phase, midway, calls>>

-----------------------------------------------------------------------------
(* The timer callback: _mdns_scheduler_run, then _mdns_search_run.           *)

FirstUnqueued == CHOOSE i \in 1 .. Len(tx) + 1 :
                    /\ i <= Len(tx) => tx[i] \notin queued
                    /\ \A j \in 1 .. i - 1 : tx[j] \in queued

\* mutant: nothing stops the timer
TicksOn == phase # "freed"

\* mdns_free stops the timer
Ticking == phase = "running"

\* a callback that waits for the lock, or comes now
Called == /\ timer.at = "called" \/ (timer.at = "idle" /\ Ticking)
          /\ lock = "free" /\ phase # "freed"

\* mutant: the loop takes packets whose time has not come
ReadyOrNot(i) == i <= Len(tx)

Ready(i) == i <= Len(tx) /\ tx[i] \in due

TimerStart ==
    /\ Called /\ Ready(FirstUnqueued)
    /\ lock' = "timer"
    /\ timer' = [timer EXCEPT !.at = "packets", !.pos = FirstUnqueued]
    /\ UNCHANGED <<actions, hand, txVars, searchVars, browseVars, hostVars, phase, midway, calls>>

\* mutant: a packet the queue refused stays flagged
KeepsFlag(p) == queued \cup {p}

Flagged(p) == IF Room THEN queued \cup {p} ELSE queued \ {p}

\* the loop goes on behind a packet that the queue refused, and over packets
\* that are queued already
TimerPacket ==
    /\ timer.at = "packets" /\ phase # "freed"
    /\ LET p == tx[timer.pos]
           behind == \E j \in 1 .. timer.pos - 1 : tx[j] \notin queued \ overtaken
       IN  /\ Send(Action("tx", p))
           /\ queued' = Flagged(p)
           /\ overtaken' = IF Room /\ behind THEN overtaken \cup {p} ELSE overtaken \ {p}
    /\ IF Ready(timer.pos + 1)
       THEN timer' = [timer EXCEPT !.pos = @ + 1] /\ UNCHANGED lock
       ELSE timer' = [Idle EXCEPT !.at = "between"] /\ lock' = "free"
    /\ UNCHANGED <<hand, tx, due, clock, beyond, searchVars, browseVars, hostVars, phase,
                   midway, calls>>

\* a callback that finds nothing due goes to the searches at once
TimerSearches ==
    /\ \/ timer.at = "between" /\ lock = "free" /\ phase # "freed"
       \/ Called /\ ~Ready(FirstUnqueued) /\ (timer.at = "called" \/ listed # <<>>)
    /\ IF listed = <<>> THEN timer' = Idle /\ UNCHANGED lock
       ELSE /\ lock' = "timer"
            /\ timer' = [Idle EXCEPT !.at = "searches", !.todo = listed]
    /\ UNCHANGED <<actions, hand, txVars, searchVars, browseVars, hostVars, phase, midway, calls>>

\* now > started_at + timeout in 32 bits: true at once for an end that lies behind the
\* wrap, and false after the wrap for one that lay before it
TimedOut(s) == IF Wrapped = (s \in beyond) THEN s \in past ELSE s \in beyond

Todo == Head(timer.todo)
NextSearch ==
    IF Len(timer.todo) = 1
    THEN timer' = Idle /\ lock' = "free"
    ELSE timer' = [timer EXCEPT !.at = "searches", !.todo = Tail(@)] /\ UNCHANGED lock

\* off, or sent less than a second ago
TimerSkip ==
    /\ timer.at = "searches" /\ phase # "freed"
    /\ search[Todo] = "init" => TimedOut(Todo)
    /\ search[Todo] \in {"init", "running"} => ~TimedOut(Todo)
    /\ NextSearch
    /\ UNCHANGED <<actions, hand, txVars, searchVars, browseVars, hostVars, phase, midway, calls>>

TimerSend ==
    /\ timer.at = "searches" /\ phase # "freed"
    /\ search[Todo] \in {"init", "running"} /\ ~TimedOut(Todo)
    /\ search' = [search EXCEPT ![Todo] = "running"]
    /\ Send(Action("search_send", Todo))
    /\ NextSearch
    /\ UNCHANGED <<hand, txVars, async, listed, past, full, done, deleting, hasty, late,
                   browseVars, hostVars, phase, midway, calls>>

\* the state says OFF before the END is in the queue, where a deletion reads it
TimerExpire ==
    /\ timer.at = "searches" /\ phase # "freed"
    /\ search[Todo] \in {"init", "running"} /\ TimedOut(Todo)
    /\ search' = [search EXCEPT ![Todo] = "off"]
    /\ timer' = [timer EXCEPT !.at = "end"]
    /\ UNCHANGED <<actions, hand, lock, txVars, async, listed, past, full, done, deleting, hasty,
                   late, browseVars, hostVars, phase, midway, calls>>

\* mutant: the state is left OFF, and the search is not looked at again
KeepOff(s) == search' = search

\* a search that could not be ended is taken up again
Revert(s) == search' = [search EXCEPT ![s] = IF Room \/ @ = "freed" THEN @ ELSE "running"]

TimerEnd ==
    /\ timer.at = "end" /\ phase # "freed"
    /\ Send(Action("search_end", Todo))
    /\ Revert(Todo)
    /\ NextSearch
    /\ UNCHANGED <<hand, txVars, async, listed, past, full, done, deleting, hasty, late,
                   browseVars, hostVars, phase, midway, calls>>

\* time passes
Timeout(s) ==
    /\ search[s] \in {"init", "running"} /\ s \notin past
    /\ (s \in beyond) = Wrapped
    /\ past' = past \cup {s}
    /\ UNCHANGED <<actions, hand, lock, timer, txVars, search, async, listed, full, done,
                   deleting, hasty, late, browseVars, hostVars, phase, midway, calls>>

Timer == \/ TimerStart \/ TimerPacket \/ TimerSearches
         \/ TimerSkip \/ TimerSend \/ TimerExpire \/ TimerEnd

-----------------------------------------------------------------------------
(* The service task.                                                        *)

Receive ==
    /\ hand = None /\ phase \in {"running", "stopping"} /\ actions # <<>>
    /\ actions' = Tail(actions)
    /\ IF Head(actions).type = "task_stop"
       THEN phase' = "stopped" /\ UNCHANGED hand
       ELSE hand' = Head(actions) /\ UNCHANGED phase
    /\ UNCHANGED <<lock, timer, txVars, searchVars, browseVars, hostVars, calls, midway>>

\* the task has received such an action and gets the lock
Executes(type) == /\ hand.type = type /\ lock = "free"
                  /\ phase \in {"running", "stopping"}
Executed == hand' = None

\* mutant: an action stands for its packet wherever it is now
AnyQueued(p) == tx # <<>> /\ Head(tx) = p

Expected(p) == tx # <<>> /\ Head(tx) = p /\ p \in queued

\* a packet is scheduled again at most five times, which the bound of calls stands for
TxHandle ==
    /\ Executes("tx") /\ Executed
    /\ IF Expected(hand.of)
       THEN /\ MaySchedule(Tail(tx))
            /\ calls' = IF tx' = Tail(tx) THEN calls ELSE calls + 1
            /\ calls' <= MaxCalls
       ELSE UNCHANGED <<txVars, calls>>
    /\ UNCHANGED <<actions, lock, timer, searchVars, browseVars, hostVars, phase, midway>>

\* mutant: the search stays in the list
FinishListed(ends) ==
    /\ search' = [s \in Searches |-> IF s \in ends /\ search[s] # "freed" THEN "off" ELSE search[s]]
    /\ listed' = listed
    /\ done' = done \cup ends

Finish(ends) ==
    /\ search' = [s \in Searches |-> IF s \in ends /\ search[s] # "freed" THEN "off" ELSE search[s]]
    /\ listed' = Without(listed, ends)
    /\ done' = done \cup ends

\* results reach any running search; an authoritative packet finishes the full ones
RxAnswer ==
    /\ Executes("rx") /\ Executed
    /\ \E hit \in SUBSET {s \in ToSet(listed) : search[s] \in {"init", "running"}},
          authoritative \in BOOLEAN :
          LET ends == IF authoritative THEN ToSet(listed) \cap (full \cup hit) ELSE {}
          IN  /\ full' = full \cup hit
              /\ Finish(ends)
              /\ late' = late \cup {s \in ends : Pending(Action("search_end", s))}
    /\ UNCHANGED <<actions, lock, timer, txVars, async, past, deleting, hasty, browseVars,
                   hostVars, phase, midway, calls>>

\* a record of the browsed type, or a goodbye (TTL 0), for the running browse
RxNews ==
    /\ Executes("rx") /\ Executed
    /\ \E b \in {x \in Browses : browse[x] = "running"} :
          /\ bye' \in {bye \ {b}, bye \cup {b}}
          /\ Send(Action("browse_sync", b))
    /\ UNCHANGED <<lock, timer, txVars, searchVars, browse, crossed, hostVars, phase, midway,
                   calls>>

RxQuery ==
    /\ Executes("rx") /\ Executed
    /\ \E gone \in {{}, ToSet(tx)} : Replan(gone)
    /\ UNCHANGED <<actions, lock, timer, searchVars, browseVars, hostVars, phase, midway, calls>>

SearchAdd ==
    /\ Executes("search_add") /\ Executed
    /\ listed' = <<hand.of>> \o listed
    /\ UNCHANGED <<actions, lock, timer, txVars, search, async, past, full, done, deleting, hasty,
                   late, browseVars, hostVars, phase, midway, calls>>

\* the question goes out at once, if the search is still listed
SearchSend ==
    /\ Executes("search_send") /\ Executed
    /\ UNCHANGED <<actions, lock, timer, txVars, searchVars, browseVars, hostVars, phase, midway,
                   calls>>

SearchEnd ==
    /\ Executes("search_end") /\ Executed
    /\ Finish({hand.of} \ {s \in Searches : search[s] = "freed"})
    /\ UNCHANGED <<actions, lock, timer, txVars, async, past, full, deleting, hasty, late,
                   browseVars, hostVars, phase, midway, calls>>

Running == {b \in Browses : browse[b] = "running"}

\* a second browse of the type only repeats the question
BrowseAdd ==
    /\ Executes("browse_add") /\ Executed
    /\ browse' = [browse EXCEPT ![hand.of] = IF Running = {} THEN "running" ELSE "freed"]
    /\ UNCHANGED <<actions, lock, timer, txVars, searchVars, bye, crossed, hostVars, phase,
                   midway, calls>>

\* the notifier is called; to free a result whose TTL is 0 the task then waits for
\* the lock it holds itself
SyncResult(b) ==
    /\ UNCHANGED bye
    /\ IF b \in bye /\ browse[b] # "freed" THEN lock' = "service" /\ UNCHANGED hand
                                           ELSE lock' = "free" /\ hand' = None

BrowseSync ==
    /\ Executes("browse_sync")
    /\ SyncResult(hand.of)
    /\ UNCHANGED <<actions, timer, txVars, searchVars, browse, crossed, hostVars, phase, midway,
                   calls>>

BrowseEnd ==
    /\ Executes("browse_end") /\ Executed
    /\ browse' = [b \in Browses |-> IF b \in Running THEN "freed" ELSE browse[b]]
    /\ crossed' = crossed \cup {b \in Running : Pending(Action("browse_sync", b))}
    /\ UNCHANGED <<actions, lock, timer, txVars, searchVars, bye, hostVars, phase, midway, calls>>

\* mutants: the signal is not given, or not taken
GiveLost == UNCHANGED sema
TakeLost == UNCHANGED sema

Give == sema' = TRUE
Take == sema' = FALSE

\* a new host name restarts every PCB; then the semaphore lets one caller go on
HostnameSet ==
    /\ Executes("hostname_set") /\ Executed
    /\ Replan(ToSet(tx))
    /\ Give
    /\ UNCHANGED <<actions, lock, timer, searchVars, browseVars, waiting, overlapped, phase,
                   midway, calls>>

Execute == \/ TxHandle \/ RxAnswer \/ RxNews \/ RxQuery \/ SearchAdd \/ SearchSend \/ SearchEnd
           \/ BrowseAdd \/ BrowseSync \/ BrowseEnd \/ HostnameSet

-----------------------------------------------------------------------------
(* The application, and the network.                                        *)

RxArrive ==
    /\ calls < MaxCalls /\ calls' = calls + 1 /\ phase # "freed"
    /\ Send(Action("rx", "packet"))
    /\ UNCHANGED <<hand, lock, timer, txVars, searchVars, browseVars, hostVars, phase, midway>>

\* with no room in the queue the search is freed again and the call fails
QueryNew(s) ==
    /\ Call /\ search[s] = "none" /\ Room
    /\ Send(Action("search_add", s))
    /\ search' = [search EXCEPT ![s] = "init"]
    /\ async' \in {async, async \cup {s}}
    /\ \E later \in Laps : beyond' = IF later THEN beyond \cup {s} ELSE beyond
    /\ UNCHANGED <<hand, lock, timer, tx, due, queued, overtaken, clock, listed, past, full,
                   done, deleting, hasty, late, browseVars, hostVars, phase, midway>>

QueryReturn(s) ==
    /\ s \notin async /\ s \in done
    /\ done' = done \ {s} /\ search' = [search EXCEPT ![s] = "freed"]
    /\ UNCHANGED <<actions, hand, lock, timer, txVars, async, listed, past, full, deleting, hasty,
                   late, browseVars, hostVars, phase, midway, calls>>

\* the state is read before the lock is taken
DeleteCheck(s) ==
    /\ s \in async /\ search[s] = "off" /\ s \notin deleting
    /\ deleting' = deleting \cup {s}
    /\ hasty' = IF s \in ToSet(listed) THEN hasty \cup {s} ELSE hasty
    /\ UNCHANGED <<actions, hand, lock, timer, txVars, search, async, listed, past, full, done,
                   late, browseVars, hostVars, phase, midway, calls>>

DeleteFree(s) ==
    /\ s \in deleting /\ lock = "free" /\ search[s] # "freed"
    /\ search' = [search EXCEPT ![s] = "freed"]
    /\ UNCHANGED <<actions, hand, lock, timer, txVars, async, listed, past, full, done, deleting,
                   hasty, late, browseVars, hostVars, phase, midway, calls>>

BrowseNew(b) ==
    /\ Call /\ browse[b] = "none" /\ Room
    /\ Send(Action("browse_add", b))
    /\ browse' = [browse EXCEPT ![b] = "init"]
    /\ UNCHANGED <<hand, lock, timer, txVars, searchVars, bye, crossed, hostVars, phase, midway>>

BrowseDelete ==
    /\ Call /\ Room
    /\ Send(Action("browse_end", "type"))
    /\ UNCHANGED <<hand, lock, timer, txVars, searchVars, browseVars, hostVars, phase, midway>>

HostnameCall(c) ==
    /\ Call /\ c \notin waiting /\ Room
    /\ Send(Action("hostname_set", c))
    /\ waiting' = waiting \cup {c}
    /\ overlapped' = IF waiting = {} THEN overlapped ELSE overlapped \cup waiting'
    /\ UNCHANGED <<hand, lock, timer, txVars, searchVars, browseVars, sema, phase, midway>>

HostnameReturn(c) ==
    /\ c \in waiting /\ sema
    /\ Take /\ waiting' = waiting \ {c}
    /\ UNCHANGED <<actions, hand, lock, timer, txVars, searchVars, browseVars, overlapped, phase,
                   midway, calls>>

\* mdns_free stops the timer, but does not wait for a callback that has been called, and
\* then the task; a full queue refuses the stop, and the task is deleted where it is
TaskStop ==
    /\ Call
    /\ timer' = timer \/ (timer.at = "idle" /\ timer' = [Idle EXCEPT !.at = "called"])
    /\ midway' = (timer'.at # "idle")
    /\ Send(Action("task_stop", "task"))
    /\ phase' = IF Room THEN "stopping" ELSE "killed"
    /\ UNCHANGED <<hand, lock, txVars, searchVars, browseVars, hostVars>>

\* what the actions left in the queue refer to
Referenced == {a.of : a \in ToSet(actions)}

\* the actions left are freed with what they refer to, then all that is listed
FreeAll ==
    /\ phase \in {"stopped", "killed"}
    /\ phase' = "freed" /\ actions' = <<>>
    /\ tx' = <<>> /\ due' = {} /\ queued' = {} /\ overtaken' = {} /\ listed' = <<>>
    /\ search' = [s \in Searches |-> IF s \in ToSet(listed) \cup Referenced
                                     THEN "freed" ELSE search[s]]
    /\ browse' = [b \in Browses |-> IF browse[b] = "none" THEN "none" ELSE "freed"]
    /\ UNCHANGED <<hand, lock, timer, clock, beyond, async, past, full, done, deleting, hasty,
                   late, bye, crossed, hostVars, calls, midway>>

Application ==
    \/ Change \/ BrowseDelete \/ TaskStop \/ FreeAll
    \/ \E s \in Searches : QueryNew(s) \/ QueryReturn(s) \/ DeleteCheck(s) \/ DeleteFree(s)
    \/ \E b \in Browses : BrowseNew(b)
    \/ \E c \in Callers : HostnameCall(c) \/ HostnameReturn(c)

Next == \/ Timer \/ Receive \/ Execute \/ Application \/ RxArrive
        \/ PacketDue \/ WrapNears \/ TickWraps
        \/ \E s \in Searches : Timeout(s)

\* The timer fires for ever, time passes, and a task that is ready to run gets to
\* run; the lock goes to a task that waits for it before it is taken again for ever.
Spec == /\ Init /\ [][Next]_vars
        /\ WF_vars(Timer) /\ WF_vars(Receive) /\ SF_vars(Execute) /\ WF_vars(PacketDue)
        /\ \A s \in Searches : WF_vars(Timeout(s)) /\ WF_vars(QueryReturn(s))
        /\ \A c \in Callers : WF_vars(HostnameReturn(c))

-----------------------------------------------------------------------------
(* Properties.                                                             *)

Actions == [type : {"tx"}, of : Packets]
           \cup [type : {"search_add", "search_send", "search_end"}, of : Searches]
           \cup [type : {"browse_add", "browse_sync"}, of : Browses]
           \cup [type : {"hostname_set"}, of : Callers]
           \cup {Action("rx", "packet"), Action("browse_end", "type"), Action("task_stop", "task")}

\* Every variable holds what its type allows: the queue never exceeds its length, a
\* packet is queued at most once, only packets whose time has come are flagged, and the
\* timer holds the lock exactly inside its two loops.
TypeOK ==
    /\ actions \in Seq(Actions) /\ Len(actions) <= QueueLen
    /\ hand \in Actions \cup {None}
    /\ lock \in {"free", "timer", "service"}
    /\ lock = "timer" <=> timer.at \in {"packets", "searches", "end"}
    /\ tx \in Seq(Packets) /\ IsInjective(tx) /\ due \subseteq ToSet(tx)
    /\ queued \subseteq due /\ overtaken \subseteq queued
    /\ clock \in {"far", "near", "wrapped"} /\ beyond \subseteq Packets \cup Searches
    /\ search \in [Searches -> {"none", "init", "running", "off", "freed"}]
    /\ listed \in Seq(Searches) /\ IsInjective(listed)
    /\ browse \in [Browses -> {"none", "init", "running", "freed"}]
    /\ waiting \subseteq Callers /\ sema \in BOOLEAN
    /\ phase \in {"running", "stopping", "stopped", "killed", "freed"}
    /\ calls \in 0 .. MaxCalls /\ midway \in BOOLEAN

\* A packet flagged as queued has its action on the way, or it would block the
\* transmit queue for ever. It loses the action only where another packet gets in front
\* of it: one the action queue had refused, past which the loop of _mdns_scheduler_run
\* went, or one that the wrap of the clock puts there.
QueuedHasAction ==
    phase \in {"running", "stopping"} =>
        \A p \in queued : Pending(Action("tx", p)) \/ p \in overtaken

\* A packet is sent only when it is due, whatever stale actions of an earlier packet
\* in the same memory are still in the queue (_mdns_execute_action).
SentWhenDue ==
    [][hand.type = "tx" /\ hand' = None /\ tx' # tx => hand.of \in due]_vars

\* What a pending action refers to is not freed, and a freed search is in no list,
\* with three exceptions: a deletion that saw OFF before the END was executed, an
\* answer that finished a search between its timeout and its END, and a browse
\* deleted while news of it were in the queue.
PendingAlive ==
    phase # "freed" =>
    /\ \A s \in Searches : search[s] = "freed" =>
          \/ s \notin ToSet(listed) /\ ~Pending(Action("search_end", s))
          \/ s \in hasty \cup late
    /\ \A b \in Browses : browse[b] = "freed" /\ Pending(Action("browse_sync", b)) =>
          b \in crossed

\* When the task has stopped, no action of the timer is left in the queue: mdns_free
\* frees what such an action refers to, and frees it again with the lists. Only a callback
\* that was under way when the timer was stopped, which nobody waits for, leaves one. (A
\* task that is killed, as the full queue refused its stop, leaves whatever is in there.)
FreedOnce ==
    phase = "stopped" =>
        midway \/ \A a \in ToSet(actions) : a.type \notin {"tx", "search_send", "search_end"}

\* A call that sets a host name returns when its own name is set, unless another
\* call waited for the same semaphore (action_sema) meanwhile.
ReturnsWhenSet ==
    [][\A c \in waiting \ waiting' : c \in overlapped \/ ~Pending(Action("hostname_set", c))]_vars

Gone == lock = "service" \/ phase # "running"

\* The clock wrapped before a callback saw that the time of s was over: s waits for
\* another 49.7 days.
Missed(s) == Wrapped /\ s \notin beyond

\* A search is finished and signalled, however full the queue was when its time was
\* over: only mdns_free, a task that waits for its own lock, a packet overtaken by
\* another, whose actions may fill the queue each time, or a wrap of the clock between
\* the end of the search and the next callback prevents it.
SearchEnds ==
    \A s \in Searches :
        search[s] = "init" ~>
            s \in done \/ search[s] = "freed" \/ Missed(s) \/ overtaken # {} \/ Gone

\* A caller that waits for its host name gets on; two that wait for the one binary
\* semaphore at once may lose a signal (mdns_hostname_set, mdns_delegate_hostname_add).
CallerGetsOn == \A c \in Callers : c \in waiting ~> c \notin waiting \/ c \in overlapped \/ Gone

\* The notifier is called when the browsed service changes (mdns.h): news of a running
\* browse are delivered.
NewsDelivered ==
    \A b \in Browses : Pending(Action("browse_sync", b)) ~>
        ~Pending(Action("browse_sync", b)) \/ phase # "running"
=============================================================================
