-------------------------- MODULE MdnsServiceProofs --------------------------
(***************************************************************************)
(* The safety properties of MdnsService hold for any queue length, any      *)
(* packets, searches, browses and callers, and any number of calls.         *)
(*                                                                          *)
(* FreedOnce and ReturnsWhenSet need little: most actions only add          *)
(* something harmless to the action queue. Two lemmas say so once           *)
(* (CalmActions, TimerActions), and StopInv and CallerInv are proved over   *)
(* what is left.                                                            *)
(*                                                                          *)
(* TypeOK, QueuedHasAction, PendingAlive and SentWhenDue rest on            *)
(* ServiceInv, which says of every search, browse and packet what may be    *)
(* on the way for it. An action is looked up by its place: 0 is the task's  *)
(* hand, and i is the i-th of the queue. SendingWhat says what each step    *)
(* sends, NothingNew that nothing else is on the way after it.              *)
(***************************************************************************)
EXTENDS MdnsService, ListLemmas

AnyQueue == \E S : actions \in Seq(S)

\* What the timer sends, and what neither invariant cares about.
Swept == {"tx", "search_send", "search_end"}
Harmless == {"rx", "search_add", "browse_add", "browse_sync", "browse_end"}

Sends(types) ==
  \/ actions' = actions
  \/ \E o : \E t \in types : actions' = Append(actions, Action(t, o))

Calm ==
  /\ UNCHANGED <<timer, phase, midway, waiting, sema, overlapped>>
  /\ hand' = hand \/ (hand' = None /\ hand.type # "hostname_set")
  /\ Sends(Harmless)

TimerSends ==
  /\ UNCHANGED <<hand, phase, midway, waiting, sema, overlapped>>
  /\ phase = "running" \/ timer.at # "idle"
  /\ Sends(Swept)

-----------------------------------------------------------------------------
(* The action queue.                                                       *)

\* A queue grows at its end.
LEMMA Appended ==
  ASSUME AnyQueue, NEW a, actions' = Append(actions, a)
  PROVE  /\ AnyQueue'
         /\ Len(actions) \in Nat /\ Len(actions') = Len(actions) + 1
         /\ \A i \in 1..Len(actions) : actions'[i] = actions[i]
         /\ actions'[Len(actions) + 1] = a
<1> PICK S : actions \in Seq(S)
  BY DEF AnyQueue
<1> DEFINE T == S \union {a}
<1> actions \in Seq(T) /\ a \in T
  BY SeqMonotonic
<1> HIDE DEF T
<1> actions' \in Seq(T)
  BY AppendProperties
<1> QED
  BY AppendProperties, LenProperties DEF AnyQueue

\* It shrinks at its head.
LEMMA Received ==
  ASSUME AnyQueue, actions # <<>>, actions' = Tail(actions)
  PROVE  /\ AnyQueue'
         /\ Len(actions) \in Nat \ {0} /\ Len(actions') = Len(actions) - 1
         /\ \A i \in 1..Len(actions') : actions'[i] = actions[i + 1]
         /\ Head(actions) = actions[1]
<1> PICK S : actions \in Seq(S)
  BY DEF AnyQueue
<1> actions' \in Seq(S)
  BY HeadTailProperties
<1> Head(actions) = actions[1]
  OBVIOUS
<1> QED
  BY HeadTailProperties, LenProperties, EmptySeq DEF AnyQueue

LEMMA QueueLength ==
  ASSUME AnyQueue
  PROVE  Len(actions) \in Nat /\ DOMAIN actions = 1..Len(actions)
  BY LenProperties DEF AnyQueue

\* The service task, but for the host name, and everything that leaves the queue alone.
LEMMA CalmActions ==
  ASSUME \/ Change \/ PacketDue \/ WrapNears \/ TickWraps \/ RxArrive \/ BrowseDelete
         \/ TxHandle \/ RxAnswer \/ RxNews \/ RxQuery
         \/ SearchAdd \/ SearchSend \/ SearchEnd
         \/ BrowseAdd \/ BrowseSync \/ BrowseEnd
         \/ \E s \in Searches : \/ Timeout(s) \/ QueryNew(s) \/ QueryReturn(s)
                                \/ DeleteCheck(s) \/ DeleteFree(s)
         \/ \E b \in Browses : BrowseNew(b)
  PROVE  Calm
<1> USE DEF Calm, hostVars, searchVars, browseVars
<1>1. CASE Change \/ PacketDue \/ WrapNears \/ TickWraps
  BY <1>1 DEF Change, PacketDue, WrapNears, TickWraps, Sends
<1>2. CASE RxArrive \/ BrowseDelete
  BY <1>2 DEF RxArrive, BrowseDelete, Send, Sends, Harmless
<1>3. CASE TxHandle \/ RxAnswer \/ RxQuery \/ SearchAdd \/ SearchSend \/ SearchEnd
  BY <1>3 DEF TxHandle, RxAnswer, RxQuery, SearchAdd, SearchSend, SearchEnd, Executes,
              Executed, Sends
<1>4. CASE RxNews
  BY <1>4 DEF RxNews, Executes, Executed, Send, Sends, Harmless
<1>5. CASE BrowseAdd \/ BrowseSync \/ BrowseEnd
  BY <1>5 DEF BrowseAdd, BrowseSync, BrowseEnd, SyncResult, Executes, Executed, Sends
<1>6. ASSUME NEW s \in Searches,
             Timeout(s) \/ QueryNew(s) \/ QueryReturn(s) \/ DeleteCheck(s) \/ DeleteFree(s)
      PROVE  Calm
  BY <1>6 DEF Timeout, QueryNew, QueryReturn, DeleteCheck, DeleteFree, Send, Sends, Harmless
<1>7. ASSUME NEW b \in Browses, BrowseNew(b) PROVE Calm
  BY <1>7 DEF BrowseNew, Send, Sends, Harmless
<1> QED
  BY <1>1, <1>2, <1>3, <1>4, <1>5, <1>6, <1>7

\* The timer starts a loop only while the component runs.
LEMMA TimerActions == ASSUME Timer PROVE TimerSends
<1> USE DEF TimerSends, hostVars
<1>1. CASE TimerStart \/ TimerSearches \/ TimerSkip \/ TimerExpire
  BY <1>1 DEF TimerStart, TimerSearches, TimerSkip, TimerExpire, Called, Ticking, Sends
<1>2. CASE TimerPacket \/ TimerSend \/ TimerEnd
  BY <1>2 DEF TimerPacket, TimerSend, TimerEnd, Send, Sends, Swept
<1> QED
  BY <1>1, <1>2 DEF Timer

\* Every step is one of these.
LEMMA StepKinds ==
  ASSUME [Next]_vars
  PROVE  \/ Calm \/ TimerSends \/ Receive \/ HostnameSet \/ TaskStop \/ FreeAll
         \/ \E c \in Callers : HostnameCall(c) \/ HostnameReturn(c)
<1>1. CASE UNCHANGED vars
  BY <1>1 DEF vars, hostVars, Calm, Sends
<1> QED
  BY <1>1, CalmActions, TimerActions DEF Next, Execute, Application

-----------------------------------------------------------------------------
(* What mdns_free finds in the queue.                                      *)

\* mdns_free stops the timer before it asks the task to stop: behind the request
\* only a callback that was under way has sent anything.
StopInv ==
  /\ AnyQueue
  /\ phase # "running" => midway \/ timer.at = "idle"
  /\ \A i \in 1..Len(actions) : actions[i].type = "task_stop" =>
        /\ phase # "running"
        /\ midway \/ \A j \in i + 1..Len(actions) : actions[j].type \notin Swept
  /\ phase = "stopped" =>
        midway \/ \A i \in 1..Len(actions) : actions[i].type \notin Swept

LEMMA StopInit == Init => StopInv
<1> SUFFICES ASSUME Init PROVE StopInv
  OBVIOUS
<1> actions = <<>> /\ <<>> \in Seq({})
  BY EmptySeq DEF Init
<1> Len(actions) = 0
  BY EmptySeq
<1> QED
  BY DEF Init, StopInv, AnyQueue, Idle

\* Anything harmless, the task's request included, may be added at any time.
LEMMA HarmlessKeepsStop ==
  ASSUME StopInv, Sends(Harmless \union {"hostname_set"}), UNCHANGED <<timer, phase, midway>>
  PROVE  StopInv'
<1>1. CASE actions' = actions
  BY <1>1 DEF StopInv, AnyQueue
<1>2. ASSUME NEW t \in Harmless \union {"hostname_set"}, NEW o,
             actions' = Append(actions, Action(t, o))
      PROVE  StopInv'
  <2> Action(t, o).type = t /\ t # "task_stop" /\ t \notin Swept
    BY DEF Action, Harmless, Swept
  <2> QED
    BY <1>2, Appended DEF StopInv
<1> QED
  BY <1>1, <1>2 DEF Sends

\* While the component runs no stop is in the queue; later only a callback that was
\* under way sends.
LEMMA TimerKeepsStop ==
  ASSUME StopInv, TimerSends
  PROVE  StopInv'
<1>1. phase' = phase /\ midway' = midway /\ (phase = "running" \/ midway)
  BY DEF StopInv, TimerSends
<1>2. CASE actions' = actions
  BY <1>1, <1>2 DEF StopInv, AnyQueue
<1>3. ASSUME NEW t \in Swept, NEW o, actions' = Append(actions, Action(t, o))
      PROVE  StopInv'
  <2>1. Action(t, o).type # "task_stop"
    BY DEF Action, Swept
  <2>2. /\ AnyQueue' /\ Len(actions) \in Nat /\ Len(actions') = Len(actions) + 1
        /\ \A i \in 1..Len(actions) : actions'[i] = actions[i]
        /\ actions'[Len(actions) + 1].type # "task_stop"
    BY <1>3, <2>1, Appended DEF StopInv
  <2>3. \A i \in 1..Len(actions') : actions'[i].type = "task_stop" =>
           i \in 1..Len(actions) /\ actions[i].type = "task_stop"
    BY <2>2
  <2>4. CASE midway
    BY <1>1, <2>2, <2>3, <2>4 DEF StopInv
  <2>5. CASE phase = "running"
    BY <1>1, <2>2, <2>3, <2>5 DEF StopInv
  <2> QED
    BY <1>1, <2>4, <2>5
<1> QED
  BY <1>2, <1>3 DEF TimerSends, Sends

LEMMA StopStep == StopInv /\ [Next]_vars => StopInv'
<1> SUFFICES ASSUME StopInv, [Next]_vars PROVE StopInv'
  OBVIOUS
<1>1. CASE Calm
  <2> Sends(Harmless \union {"hostname_set"})
    BY <1>1 DEF Calm, Sends
  <2> QED
    BY <1>1, HarmlessKeepsStop DEF Calm
<1>2. CASE TimerSends
  BY <1>2, TimerKeepsStop
<1>3. CASE Receive
  <2> DEFINE n == Len(actions)
  <2>1. /\ AnyQueue' /\ n \in Nat \ {0} /\ Len(actions') = n - 1
        /\ \A i \in 1..n - 1 : actions'[i] = actions[i + 1]
        /\ Head(actions) = actions[1]
    BY <1>3, Received DEF Receive, StopInv
  <2>2. timer' = timer /\ midway' = midway /\ phase \in {"running", "stopping"}
    BY <1>3 DEF Receive
  <2>3. CASE actions[1].type = "task_stop"
    <3> phase' = "stopped"
      BY <1>3, <2>1, <2>3 DEF Receive
    <3> phase # "running" /\ (midway \/ \A j \in 2..n : actions[j].type \notin Swept)
      BY <2>1, <2>3 DEF StopInv
    <3> midway \/ \A i \in 1..n - 1 : actions'[i].type \notin Swept
      BY <2>1
    <3> QED
      BY <2>1, <2>2 DEF StopInv
  <2>4. CASE actions[1].type # "task_stop"
    <3> phase' = phase
      BY <1>3, <2>1, <2>4 DEF Receive
    <3> ASSUME NEW i \in 1..n - 1, actions'[i].type = "task_stop"
        PROVE  /\ phase # "running"
               /\ midway \/ \A j \in i + 1..n - 1 : actions'[j].type \notin Swept
      <4> i + 1 \in 1..n /\ actions[i + 1].type = "task_stop"
        BY <2>1
      <4> phase # "running" /\ (midway \/ \A j \in i + 2..n : actions[j].type \notin Swept)
        BY DEF StopInv
      <4> QED
        BY <2>1
    <3> QED
      BY <2>1, <2>2 DEF StopInv
  <2> QED
    BY <2>3, <2>4
<1>4. CASE HostnameSet
  <2> Sends(Harmless \union {"hostname_set"})
    BY <1>4 DEF HostnameSet, Sends
  <2> QED
    BY <1>4, HarmlessKeepsStop DEF HostnameSet
<1>5. CASE TaskStop
  <2>1. phase = "running" /\ phase' \in {"stopping", "killed"}
        /\ (midway' \/ timer'.at = "idle")
    BY <1>5 DEF TaskStop, Call
  <2>2. \A i \in 1..Len(actions) : actions[i].type # "task_stop"
    BY <2>1 DEF StopInv
  <2>3. CASE Room
    <3> actions' = Append(actions, Action("task_stop", "task"))
      BY <1>5, <2>3 DEF TaskStop, Send
    <3>1. /\ AnyQueue' /\ Len(actions) \in Nat /\ Len(actions') = Len(actions) + 1
          /\ \A i \in 1..Len(actions) : actions'[i] = actions[i]
      BY Appended DEF StopInv
    <3>2. \A i \in 1..Len(actions') : actions'[i].type = "task_stop" => i = Len(actions')
      BY <2>2, <3>1
    <3>3. \A j \in Len(actions') + 1..Len(actions') : FALSE
      BY <3>1
    <3> QED
      BY <2>1, <3>1, <3>2, <3>3 DEF StopInv
  <2>4. CASE ~Room
    <3> actions' = actions
      BY <1>5, <2>4 DEF TaskStop, Send
    <3> QED
      BY <2>1, <2>2 DEF StopInv, AnyQueue
  <2> QED
    BY <2>3, <2>4
<1>6. CASE FreeAll
  <2> actions' = <<>> /\ <<>> \in Seq({}) /\ Len(actions') = 0
    BY <1>6, EmptySeq DEF FreeAll
  <2> phase # "running" /\ timer' = timer /\ midway' = midway
    BY <1>6 DEF FreeAll
  <2> phase' = "freed"
    BY <1>6 DEF FreeAll
  <2> QED
    BY DEF StopInv, AnyQueue
<1>7. ASSUME NEW c \in Callers, HostnameCall(c) \/ HostnameReturn(c) PROVE StopInv'
  <2> /\ Sends(Harmless \union {"hostname_set"}) /\ UNCHANGED <<timer, phase, midway>>
    BY <1>7 DEF HostnameCall, HostnameReturn, Send, Sends, Call
  <2> QED
    BY HarmlessKeepsStop
<1> QED
  BY <1>1, <1>2, <1>3, <1>4, <1>5, <1>6, <1>7, StepKinds

\* Nothing the timer sent is left when mdns_free frees queue and lists
\* (mdns.c:5535, 5764), however long the queue and however full, unless a callback was
\* under way when the timer was stopped (mdns.c:5461).
THEOREM NothingFreedTwice == Spec => []FreedOnce
<1>1. StopInv => FreedOnce
  <2> SUFFICES ASSUME StopInv, phase = "stopped", ~midway, NEW a \in ToSet(actions)
               PROVE  a.type \notin {"tx", "search_send", "search_end"}
    BY DEF FreedOnce
  <2> DOMAIN actions = 1..Len(actions)
    BY QueueLength DEF StopInv
  <2> PICK i \in 1..Len(actions) : a = actions[i]
    BY DEF ToSet
  <2> QED
    BY DEF StopInv, Swept
<1> QED
  BY <1>1, StopInit, StopStep, PTL DEF Spec

-----------------------------------------------------------------------------
(* The callers that share action_sema.                                     *)

\* Every name that is still to be set, in the task's hand (0) or in the queue, and
\* every signal that is still to be taken (-1), has a caller of its own that waits.
Owed == {i \in 0..Len(actions) : IF i = 0 THEN hand.type = "hostname_set"
                                 ELSE actions[i].type = "hostname_set"}
Tokens == Owed \union (IF sema THEN {-1} ELSE {})

OneEach(T, W) == \E f \in [T -> W] : \A i, j \in T : f[i] = f[j] => i = j

CallerInv ==
  /\ AnyQueue
  /\ OneEach(Tokens, waiting)
  /\ \A c, d \in waiting : c \notin overlapped => d = c

LEMMA CallerInit == Init => CallerInv
<1> SUFFICES ASSUME Init PROVE CallerInv
  OBVIOUS
<1> actions = <<>> /\ <<>> \in Seq({}) /\ Len(actions) = 0
  BY EmptySeq DEF Init
<1> hand.type # "hostname_set" /\ sema = FALSE
  BY DEF Init, None, Action
<1> Tokens = {}
  BY DEF Tokens, Owed
<1> [i \in {} |-> "none"] \in [{} -> waiting]
  OBVIOUS
<1> OneEach(Tokens, waiting)
  BY DEF OneEach
<1> QED
  BY DEF Init, CallerInv, AnyQueue

\* Fewer names and signals have callers of their own, too.
LEMMA FewerTokens ==
  ASSUME CallerInv, AnyQueue', Tokens' \subseteq Tokens, UNCHANGED <<waiting, overlapped>>
  PROVE  CallerInv'
<1>1. ASSUME NEW T, NEW W, NEW U \in SUBSET T, OneEach(T, W) PROVE OneEach(U, W)
  <2> PICK f \in [T -> W] : \A i, j \in T : f[i] = f[j] => i = j
    BY <1>1 DEF OneEach
  <2> DEFINE g == [i \in U |-> f[i]]
  <2> g \in [U -> W] /\ \A i, j \in U : g[i] = g[j] => i = j
    OBVIOUS
  <2> QED
    BY DEF OneEach
<1> OneEach(Tokens', waiting')
  BY <1>1 DEF CallerInv
<1> QED
  BY DEF CallerInv

\* What is sent owes nothing unless it is a name to be set.
LEMMA OwedKept ==
  ASSUME AnyQueue, NEW types, "hostname_set" \notin types, Sends(types),
         hand' = hand \/ hand' = None
  PROVE  AnyQueue' /\ Owed' \subseteq Owed
<1> None.type # "hostname_set"
  BY DEF None, Action
<1>1. CASE actions' = actions
  BY <1>1 DEF AnyQueue, Owed
<1>2. ASSUME NEW t \in types, NEW o, actions' = Append(actions, Action(t, o))
      PROVE  AnyQueue' /\ Owed' \subseteq Owed
  <2> Action(t, o).type # "hostname_set"
    BY DEF Action
  <2> /\ AnyQueue' /\ Len(actions) \in Nat /\ Len(actions') = Len(actions) + 1
      /\ \A i \in 1..Len(actions) : actions'[i] = actions[i]
      /\ actions'[Len(actions) + 1].type # "hostname_set"
    BY <1>2, Appended
  <2> QED
    BY DEF Owed
<1> QED
  BY <1>1, <1>2 DEF Sends

\* A received action moves from the head of the queue into the task's hand.
LEMMA ReceiveMoves ==
  ASSUME CallerInv, Receive
  PROVE  CallerInv'
<1> DEFINE n == Len(actions)
           old(i) == IF i = -1 THEN -1 ELSE i + 1
<1>1. /\ AnyQueue' /\ n \in Nat \ {0} /\ Len(actions') = n - 1
      /\ \A i \in 1..n - 1 : actions'[i] = actions[i + 1]
      /\ Head(actions) = actions[1]
  BY Received DEF Receive, CallerInv
<1>2. UNCHANGED <<waiting, sema, overlapped>> /\ hand = None
  BY DEF Receive, hostVars
<1>3. hand'.type = "hostname_set" => actions[1].type = "hostname_set"
  BY <1>1 DEF Receive, None, Action
<1>4. \A i \in Tokens' : i \in -1..n /\ old(i) \in Tokens
  BY <1>1, <1>2, <1>3 DEF Tokens, Owed
<1>5. PICK f \in [Tokens -> waiting] : \A i, j \in Tokens : f[i] = f[j] => i = j
  BY DEF CallerInv, OneEach
<1>6. OneEach(Tokens', waiting')
  <2>1. \A i \in Tokens' : f[old(i)] \in waiting'
    BY <1>2, <1>4, <1>5
  <2>2. ASSUME NEW i \in Tokens', NEW j \in Tokens', f[old(i)] = f[old(j)] PROVE i = j
    <3> old(i) = old(j) /\ i \in -1..n /\ j \in -1..n
      BY <1>4, <1>5, <2>2
    <3> QED
      BY <1>1
  <2> DEFINE g == [i \in Tokens' |-> f[old(i)]]
  <2> HIDE DEF old
  <2> g \in [Tokens' -> waiting'] /\ \A i, j \in Tokens' : g[i] = g[j] => i = j
    BY <2>1, <2>2
  <2> HIDE DEF g
  <2> QED
    BY DEF OneEach
<1> QED
  BY <1>1, <1>2, <1>6 DEF CallerInv

\* The signal goes to the caller whose name has just been set.
LEMMA SignalReplacesName ==
  ASSUME CallerInv, HostnameSet
  PROVE  CallerInv'
<1>1. /\ hand.type = "hostname_set" /\ hand' = None /\ sema' = TRUE
      /\ UNCHANGED <<actions, waiting, overlapped>>
  BY DEF HostnameSet, Executes, Executed, Give
<1>2. None.type # "hostname_set"
  BY DEF None, Action
<1>3. Len(actions) \in Nat
  BY QueueLength DEF CallerInv
<1>4. 0 \in Tokens
  BY <1>1, <1>3 DEF Tokens, Owed
<1>5. Tokens' \subseteq (Tokens \ {0}) \union {-1}
  BY <1>1, <1>2, <1>3 DEF Tokens, Owed
<1>6. PICK f \in [Tokens -> waiting] : \A i, j \in Tokens : f[i] = f[j] => i = j
  BY DEF CallerInv, OneEach
<1>7. OneEach(Tokens', waiting)
  <2> DEFINE g == [i \in Tokens' |-> IF i = -1 THEN f[0] ELSE f[i]]
  <2>1. \A i \in Tokens' : i = -1 \/ i \in Tokens \ {0}
    BY <1>5
  <2>2. g \in [Tokens' -> waiting]
    BY <1>4, <2>1
  <2>3. \A i, j \in Tokens' : g[i] = g[j] => i = j
    BY <1>4, <1>6, <2>1
  <2> HIDE DEF g
  <2> QED
    BY <2>2, <2>3 DEF OneEach
<1> QED
  BY <1>1, <1>7 DEF CallerInv, AnyQueue

\* A new caller brings the name it waits for.
LEMMA CallAddsBoth ==
  ASSUME CallerInv, NEW c \in Callers, HostnameCall(c)
  PROVE  CallerInv'
<1> DEFINE n == Len(actions)
<1>1. /\ c \notin waiting /\ waiting' = waiting \union {c}
      /\ actions' = Append(actions, Action("hostname_set", c))
      /\ UNCHANGED <<hand, sema>>
      /\ overlapped' = IF waiting = {} THEN overlapped ELSE overlapped \union waiting'
  BY DEF HostnameCall, Send
<1>2. /\ AnyQueue' /\ n \in Nat /\ Len(actions') = n + 1
      /\ \A i \in 1..n : actions'[i] = actions[i]
  BY <1>1, Appended DEF CallerInv
<1>3. Tokens' \subseteq Tokens \union {n + 1}
  BY <1>1, <1>2 DEF Tokens, Owed
<1>4. n + 1 \notin Tokens
  BY <1>2 DEF Tokens, Owed
<1>5. PICK f \in [Tokens -> waiting] : \A i, j \in Tokens : f[i] = f[j] => i = j
  BY DEF CallerInv, OneEach
<1>6. OneEach(Tokens', waiting')
  <2> DEFINE g == [i \in Tokens' |-> IF i = n + 1 THEN c ELSE f[i]]
  <2> HIDE DEF n
  <2>1. \A i \in Tokens' : i = n + 1 \/ i \in Tokens
    BY <1>3
  <2>2. \A i \in Tokens : f[i] \in waiting /\ f[i] # c
    BY <1>1, <1>5
  <2>3. g \in [Tokens' -> waiting']
    BY <1>1, <2>1, <2>2
  <2>4. \A i, j \in Tokens' : g[i] = g[j] => i = j
    BY <1>4, <1>5, <2>1, <2>2
  <2> HIDE DEF g
  <2> QED
    BY <2>3, <2>4 DEF OneEach
<1>7. \A a, d \in waiting' : a \notin overlapped' => d = a
  BY <1>1 DEF CallerInv
<1> QED
  BY <1>2, <1>6, <1>7 DEF CallerInv

\* A caller that takes a signal meant for another leaves its own name to that one.
LEMMA ReturnTakesBoth ==
  ASSUME CallerInv, NEW c \in Callers, HostnameReturn(c)
  PROVE  CallerInv'
<1>1. /\ c \in waiting /\ sema /\ sema' = FALSE /\ waiting' = waiting \ {c}
      /\ UNCHANGED <<actions, hand, overlapped>>
  BY DEF HostnameReturn, Take
<1>2. Len(actions) \in Nat
  BY QueueLength DEF CallerInv
<1>3. -1 \in Tokens /\ Tokens' \subseteq Tokens \ {-1}
  BY <1>1, <1>2 DEF Tokens, Owed
<1>4. PICK f \in [Tokens -> waiting] : \A i, j \in Tokens : f[i] = f[j] => i = j
  BY DEF CallerInv, OneEach
<1>5. OneEach(Tokens', waiting')
  <2> DEFINE g == [i \in Tokens' |-> IF f[i] = c THEN f[-1] ELSE f[i]]
  <2>1. \A i \in Tokens' : i \in Tokens /\ i # -1
    BY <1>3
  <2>2. \A i \in Tokens' : (IF f[i] = c THEN f[-1] ELSE f[i]) \in waiting'
    BY <1>1, <1>3, <1>4, <2>1
  <2>3. g \in [Tokens' -> waiting']
    BY <2>2
  <2>4. \A i, j \in Tokens' : g[i] = g[j] => i = j
    BY <1>3, <1>4, <2>1
  <2> HIDE DEF g
  <2> QED
    BY <2>3, <2>4 DEF OneEach
<1> QED
  BY <1>1, <1>5 DEF CallerInv, AnyQueue

LEMMA CallerStep == CallerInv /\ [Next]_vars => CallerInv'
<1> SUFFICES ASSUME CallerInv, [Next]_vars PROVE CallerInv'
  OBVIOUS
<1>1. CASE Calm
  <2> AnyQueue' /\ Owed' \subseteq Owed
    BY <1>1, OwedKept DEF Calm, CallerInv, Harmless
  <2> QED
    BY <1>1, FewerTokens DEF Calm, Tokens
<1>2. CASE TimerSends
  <2> AnyQueue' /\ Owed' \subseteq Owed
    BY <1>2, OwedKept DEF TimerSends, CallerInv, Swept
  <2> QED
    BY <1>2, FewerTokens DEF TimerSends, Tokens
<1>3. CASE TaskStop
  <2> /\ Sends({"task_stop"}) /\ UNCHANGED <<hand, waiting, sema, overlapped>>
    BY <1>3 DEF TaskStop, Send, Sends, hostVars
  <2> AnyQueue' /\ Owed' \subseteq Owed
    BY OwedKept DEF CallerInv
  <2> QED
    BY FewerTokens DEF Tokens
<1>4. CASE FreeAll
  <2> /\ actions' = <<>> /\ <<>> \in Seq({}) /\ Len(actions') = 0
      /\ UNCHANGED <<hand, waiting, sema, overlapped>>
    BY <1>4, EmptySeq DEF FreeAll, hostVars
  <2> Len(actions) \in Nat
    BY QueueLength DEF CallerInv
  <2> AnyQueue' /\ Tokens' \subseteq Tokens
    BY DEF AnyQueue, Tokens, Owed
  <2> QED
    BY FewerTokens
<1> QED
  BY <1>1, <1>2, <1>3, <1>4, StepKinds, ReceiveMoves, SignalReplacesName, CallAddsBoth,
     ReturnTakesBoth

\* A caller that waits alone owns whatever signal and whatever name there is: it
\* returns on its own signal (mdns.c:5843, 6188, 6221).
LEMMA AloneReturnsLast ==
  CallerInv /\ [Next]_vars =>
     [\A c \in waiting \ waiting' :
         c \in overlapped \/ ~Pending(Action("hostname_set", c))]_vars
<1> SUFFICES ASSUME CallerInv, [Next]_vars, NEW c \in waiting \ waiting',
                    c \notin overlapped, Pending(Action("hostname_set", c))
             PROVE  FALSE
  OBVIOUS
<1>1. HostnameReturn(c)
  <2>1. CASE Calm \/ TimerSends
    BY <2>1 DEF Calm, TimerSends
  <2>2. CASE Receive \/ TaskStop \/ FreeAll
    BY <2>2 DEF Receive, TaskStop, FreeAll, hostVars
  <2>3. CASE HostnameSet
    BY <2>3 DEF HostnameSet
  <2>4. ASSUME NEW d \in Callers, HostnameCall(d) PROVE FALSE
    BY <2>4 DEF HostnameCall
  <2>5. ASSUME NEW d \in Callers, HostnameReturn(d) PROVE d = c
    BY <2>5 DEF HostnameReturn
  <2> QED
    BY <2>1, <2>2, <2>3, <2>4, <2>5, StepKinds
<1>2. waiting = {c}
  BY DEF CallerInv
<1>3. Len(actions) \in Nat /\ DOMAIN actions = 1..Len(actions)
  BY QueueLength DEF CallerInv
<1>4. -1 \in Tokens
  BY <1>1, <1>3 DEF HostnameReturn, Tokens
<1>5. PICK t \in Tokens : t # -1
  <2>1. Action("hostname_set", c).type = "hostname_set"
    BY DEF Action
  <2>2. CASE hand = Action("hostname_set", c)
    <3> 0 \in Tokens
      BY <1>3, <2>1, <2>2 DEF Tokens, Owed
    <3> QED
      OBVIOUS
  <2>3. CASE Action("hostname_set", c) \in ToSet(actions)
    <3> PICK k \in 1..Len(actions) : actions[k] = Action("hostname_set", c)
      BY <1>3, <2>3 DEF ToSet
    <3> k \in Tokens /\ k # -1
      BY <1>3, <2>1 DEF Tokens, Owed
    <3> QED
      OBVIOUS
  <2> QED
    BY <2>2, <2>3 DEF Pending
<1>6. PICK f \in [Tokens -> waiting] : \A i, j \in Tokens : f[i] = f[j] => i = j
  BY DEF CallerInv, OneEach
<1> QED
  BY <1>2, <1>4, <1>5, <1>6

\* For any number of callers and of calls, a call of mdns_hostname_set that waited
\* alone returns only after its own name was set.
THEOREM OwnNameSet == Spec => ReturnsWhenSet
  BY CallerInit, CallerStep, AloneReturnsLast, PTL DEF Spec, ReturnsWhenSet

-----------------------------------------------------------------------------
(* The transmit queue.                                                     *)

TxType ==
  /\ tx \in Seq(Packets) /\ IsInjective(tx) /\ due \subseteq ToSet(tx)
  /\ queued \subseteq due /\ overtaken \subseteq queued

\* The packets that are flagged and were not overtaken.
Good == queued \ overtaken

Ahead(q) == {p \in Packets : Precedes(tx, p, q)}

\* Nothing gets in front of a packet that is not overtaken by it, and none of those in
\* front of it is overtaken.
InOrder(rest) ==
  /\ queued' = queued \intersect ToSet(rest) /\ Good' \subseteq Good
  /\ \A q \in Good' : \A p \in Packets :
        Precedes(tx', p, q) => Precedes(rest, p, q) /\ (p \in Good => p \in Good')

\* A packet is scheduled in front of those that are overtaken by it.
LEMMA Scheduled ==
  ASSUME TxType, NEW rest \in Seq(Packets), IsInjective(rest), MaySchedule(rest)
  PROVE  TxType' /\ InOrder(rest)
<1> DEFINE L == Len(rest)
<1>1. L \in Nat /\ DOMAIN rest = 1 .. L
  BY LenProperties
<1>2. due' = due \intersect ToSet(rest) /\ queued' = queued \intersect ToSet(rest)
  BY DEF MaySchedule
<1>3. CASE tx' = rest /\ overtaken' = overtaken \intersect ToSet(rest)
  <2>1. TxType'
    BY <1>2, <1>3 DEF TxType
  <2>2. \A q \in Packets : q \in Good' <=> q \in Good /\ q \in ToSet(rest)
    BY <1>2, <1>3 DEF Good
  <2>3. \A p, q : Precedes(rest, p, q) => p \in ToSet(rest)
    BY <1>1 DEF Precedes, ToSet
  <2>4. Good' \subseteq Packets
    <3>1. ToSet(rest) \subseteq Packets
      BY <1>1 DEF ToSet
    <3> QED BY <1>2, <3>1 DEF Good
  <2> QED BY <1>2, <1>3, <2>1, <2>2, <2>3, <2>4 DEF InOrder
<1>4. ASSUME NEW n \in Packets \ ToSet(rest), NEW i \in 1 .. L + 1,
             tx' = InsertAt(rest, i, n),
             overtaken' = ToSet(rest) \intersect
                (overtaken \union {q \in queued : \E j \in i .. L : rest[j] = q})
      PROVE  TxType' /\ InOrder(rest)
  <2>1. /\ tx' \in Seq(Packets) /\ Len(tx') = L + 1
        /\ \A j \in 1 .. L + 1 :
              tx'[j] = IF j < i THEN rest[j] ELSE IF j = i THEN n ELSE rest[j - 1]
    <3>1. tx' \in Seq(Packets) /\ WithElement(tx', rest, i, n)
      BY <1>4, Inserted
    <3> QED BY <3>1 DEF WithElement
  <2>2. \A j \in 1 .. L : rest[j] # n
    BY <1>1 DEF ToSet
  <2>3. DOMAIN tx' = 1 .. L + 1
    BY <2>1
  <2>4. \A a, b \in 1 .. L : rest[a] = rest[b] => a = b
    BY <1>1 DEF IsInjective
  <2> HIDE DEF L
  <2>5. ASSUME NEW a \in 1 .. L + 1, NEW b \in 1 .. L + 1, tx'[a] = tx'[b] PROVE a = b
    <3> DEFINE old(j) == IF j < i THEN j ELSE j - 1
    <3>1. \A j \in 1 .. L + 1 : j # i => old(j) \in 1 .. L /\ tx'[j] = rest[old(j)]
      BY <1>1, <2>1
    <3>2. tx'[i] = n
      BY <2>1
    <3>3. CASE a = i \/ b = i
      BY <2>2, <2>5, <3>1, <3>2, <3>3
    <3>4. CASE a # i /\ b # i
      <4>1. old(a) = old(b)
        BY <2>4, <2>5, <3>1, <3>4
      <4> QED BY <1>1, <3>4, <4>1
    <3> QED BY <3>3, <3>4
  <2>6. ToSet(rest) \subseteq ToSet(tx')
    <3>1. ASSUME NEW k \in 1 .. L PROVE \E j \in 1 .. L + 1 : tx'[j] = rest[k]
      <4>1. CASE k < i
        BY <1>1, <2>1, <4>1
      <4>2. CASE ~(k < i)
        <5>1. k + 1 \in 1 .. L + 1 /\ tx'[k + 1] = rest[(k + 1) - 1] /\ (k + 1) - 1 = k
          BY <1>1, <2>1, <4>2
        <5> QED BY <5>1
      <4> QED BY <4>1, <4>2
    <3> QED BY <1>1, <2>3, <3>1 DEF ToSet
  <2>7. TxType'
    <3>1. IsInjective(tx')
      BY <2>3, <2>5 DEF IsInjective
    <3>2. overtaken' \subseteq queued'
      BY <1>2, <1>4 DEF TxType
    <3>3. queued' \subseteq due' /\ due' \subseteq ToSet(tx')
      BY <1>2, <2>6 DEF TxType
    <3> QED BY <2>1, <3>1, <3>2, <3>3 DEF TxType
  <2>8. ASSUME NEW q \in Good'
        PROVE  /\ q \in Good
               /\ \E k \in 1 .. L : k < i /\ rest[k] = q /\ tx'[k] = q
    <3>1. q \in queued /\ q \in ToSet(rest) /\ q \notin overtaken
          /\ ~ \E j \in i .. L : rest[j] = q
      BY <1>2, <1>4 DEF Good, L
    <3>2. PICK k \in 1 .. L : rest[k] = q
      BY <1>1, <3>1 DEF ToSet
    <3>3. k < i
      BY <1>1, <3>1, <3>2
    <3> QED BY <1>1, <2>1, <3>1, <3>2, <3>3 DEF Good
  <2>9. ASSUME NEW q \in Good', NEW p \in Packets, Precedes(tx', p, q)
        PROVE  Precedes(rest, p, q) /\ (p \in Good => p \in Good')
    <3>1. PICK k \in 1 .. L : k < i /\ rest[k] = q /\ tx'[k] = q
      BY <2>8
    <3>2. PICK a \in 1 .. L + 1, b \in 1 .. L + 1 : a < b /\ tx'[a] = p /\ tx'[b] = q
      BY <2>1, <2>9 DEF Precedes
    <3>3. b = k
      BY <1>1, <2>5, <3>1, <3>2
    <3>4. a \in 1 .. L /\ a < i /\ rest[a] = p
      BY <1>1, <2>1, <3>1, <3>2, <3>3
    <3>5. Precedes(rest, p, q)
      BY <3>1, <3>2, <3>3, <3>4 DEF Precedes, L
    <3>6. ~ \E j \in i .. L : rest[j] = p
      BY <1>1, <2>4, <3>4
    <3>7. p \in ToSet(rest)
      BY <1>1, <3>4 DEF ToSet
    <3>8. p \in Good => p \in Good'
      BY <1>2, <1>4, <3>6, <3>7 DEF Good, L
    <3> QED BY <3>5, <3>8
  <2> QED BY <1>2, <2>7, <2>8, <2>9 DEF InOrder
<1> QED BY <1>3, <1>4 DEF MaySchedule

\* Where a packet of the new queue was before.
LEMMA ReplanKeeps ==
  ASSUME TxType, NEW gone, Replan(gone)
  PROVE  /\ TxType' /\ Good' \subseteq Good
         /\ \A q \in Good' : Ahead(q)' \subseteq Ahead(q) /\ Good \intersect Ahead(q)' \subseteq Good'
<1> DEFINE w == Without(tx, gone)
<1>1. w \in Seq(Packets) /\ IsInjective(w)
  BY WithoutElements, WithoutInjective DEF TxType
<1>2. \A p, q : Precedes(w, p, q) => Precedes(tx, p, q)
  BY WithoutOrder DEF TxType
<1>3. MaySchedule(w)
  BY DEF Replan
<1> HIDE DEF w
<1>4. TxType' /\ InOrder(w)
  BY <1>1, <1>3, Scheduled
<1> QED BY <1>2, <1>4 DEF InOrder, Ahead

\* Only the packet at the head of the queue is sent, and it is due; those behind it
\* keep their order.
LEMMA HandleKeeps ==
  ASSUME TxType, TxHandle
  PROVE  /\ TxType'
         /\ Expected(hand.of) =>
               /\ hand.of \in due
               /\ Good' \subseteq Good \ {hand.of}
               /\ \A q \in Good' : /\ Ahead(q)' \subseteq Ahead(q)
                                   /\ Good \intersect Ahead(q)' \subseteq Good'
<1> DEFINE p == hand.of
<1>1. CASE ~Expected(p)
  BY <1>1 DEF TxHandle, TxType, txVars
<1>2. CASE Expected(p)
  <2> DEFINE rest == Tail(tx)
  <2>1. tx # <<>> /\ p = tx[1] /\ p \in queued /\ Len(tx) \in Nat \ {0}
    BY <1>2, EmptySeq, LenProperties DEF Expected, TxType
  <2>2. /\ rest \in Seq(Packets) /\ Len(rest) = Len(tx) - 1
        /\ \A i \in 1 .. Len(tx) - 1 : rest[i] = tx[i + 1]
    BY <2>1, HeadTailProperties DEF TxType
  <2>3. DOMAIN rest = 1 .. Len(tx) - 1 /\ DOMAIN tx = 1 .. Len(tx)
    BY <2>1, <2>2, LenProperties DEF TxType
  <2> HIDE DEF rest
  <2>4. \A a, b \in 1 .. Len(tx) : tx[a] = tx[b] => a = b
    BY <2>3 DEF TxType, IsInjective
  <2>5. IsInjective(rest)
    <3>1. ASSUME NEW a \in 1 .. Len(tx) - 1, NEW b \in 1 .. Len(tx) - 1, rest[a] = rest[b]
          PROVE  a = b
      <4>1. tx[a + 1] = tx[b + 1] /\ a + 1 \in 1 .. Len(tx) /\ b + 1 \in 1 .. Len(tx)
        BY <2>1, <2>2, <3>1
      <4>2. a + 1 = b + 1
        BY <2>4, <4>1
      <4> QED BY <2>1, <4>2
    <3> QED BY <2>3, <3>1 DEF IsInjective
  <2>6. p \notin ToSet(rest)
    <3>1. ASSUME NEW a \in 1 .. Len(tx) - 1, rest[a] = p PROVE FALSE
      <4>1. tx[a + 1] = tx[1] /\ a + 1 \in 1 .. Len(tx) /\ 1 \in 1 .. Len(tx)
        BY <2>1, <2>2, <3>1
      <4>2. a + 1 = 1
        BY <2>4, <4>1
      <4> QED BY <2>1, <4>2
    <3> QED BY <2>3, <3>1 DEF ToSet
  <2>7. \A q, r : Precedes(rest, q, r) => Precedes(tx, q, r)
    <3>1. ASSUME NEW q, NEW r, NEW j \in 1 .. Len(rest), NEW i \in 1 .. Len(rest),
                 j < i, rest[j] = q, rest[i] = r
          PROVE  Precedes(tx, q, r)
      <4>1. /\ j + 1 \in 1 .. Len(tx) /\ i + 1 \in 1 .. Len(tx) /\ j + 1 < i + 1
            /\ tx[j + 1] = q /\ tx[i + 1] = r
        BY <2>1, <2>2, <3>1
      <4> QED BY <4>1 DEF Precedes
    <3> QED BY <3>1 DEF Precedes
  <2>8. MaySchedule(rest)
    BY <1>2 DEF TxHandle, rest
  <2>9. TxType' /\ InOrder(rest)
    BY <2>2, <2>5, <2>8, Scheduled
  <2>10. Good' \subseteq Good \ {p}
    BY <2>6, <2>9 DEF InOrder, Good
  <2> QED BY <2>1, <2>7, <2>9, <2>10 DEF InOrder, Ahead, TxType
<1> QED BY <1>1, <1>2

\* The loop of the timer flags a packet that is due.
LEMMA FlagKeeps ==
  ASSUME TxType, TimerPacket, tx[timer.pos] \in due
  PROVE  TxType'
<1> DEFINE p == tx[timer.pos]
<1>1. /\ UNCHANGED <<tx, due>> /\ queued' = Flagged(p)
      /\ overtaken' \in {overtaken \union {p}, overtaken \ {p}}
      /\ Room \/ overtaken' = overtaken \ {p}
  BY DEF TimerPacket
<1>2. queued' \subseteq queued \union {p} /\ overtaken' \subseteq queued'
  <2>1. CASE Room
    BY <1>1, <2>1 DEF Flagged, TxType
  <2>2. CASE ~Room
    BY <1>1, <2>2 DEF Flagged, TxType
  <2> QED BY <2>1, <2>2
<1> QED BY <1>1, <1>2 DEF TxType

\* Time passes.
LEMMA DueKeeps ==
  ASSUME TxType, PacketDue
  PROVE  TxType' /\ due \subseteq due' /\ UNCHANGED <<tx, queued, overtaken>>
<1>1. PICK i \in 1 .. Len(tx) : due' = due \union {tx[i]}
  BY DEF PacketDue
<1>2. tx[i] \in ToSet(tx)
  BY <1>1, LenProperties DEF TxType, ToSet
<1> QED BY <1>1, <1>2 DEF TxType, PacketDue

\* All that a step may do to the transmit queue.
LEMMA TxSteps ==
  ASSUME [Next]_vars
  PROVE  \/ UNCHANGED <<tx, due, queued, overtaken>>
         \/ \E gone : Replan(gone)
         \/ TimerPacket \/ PacketDue \/ TxHandle \/ FreeAll
<1> USE DEF txVars
<1>1. CASE Timer
  BY <1>1 DEF Timer, TimerStart, TimerSearches, TimerSkip, TimerSend, TimerExpire, TimerEnd
<1>2. CASE Execute
  <2>1. CASE RxAnswer \/ RxNews \/ RxQuery \/ SearchAdd \/ SearchSend \/ SearchEnd
    BY <2>1 DEF RxAnswer, RxNews, RxQuery, SearchAdd, SearchSend, SearchEnd
  <2>2. CASE BrowseAdd \/ BrowseSync \/ BrowseEnd \/ HostnameSet
    BY <2>2 DEF BrowseAdd, BrowseSync, BrowseEnd, HostnameSet
  <2> QED BY <1>2, <2>1, <2>2 DEF Execute
<1>3. CASE Application
  <2>1. CASE Change \/ BrowseDelete \/ TaskStop
    BY <2>1 DEF Change, BrowseDelete, TaskStop
  <2>2. ASSUME NEW s \in Searches, QueryNew(s) \/ QueryReturn(s) \/ DeleteCheck(s) \/ DeleteFree(s)
        PROVE  UNCHANGED <<tx, due, queued, overtaken>>
    BY <2>2 DEF QueryNew, QueryReturn, DeleteCheck, DeleteFree
  <2>3. ASSUME NEW b \in Browses, BrowseNew(b) PROVE UNCHANGED txVars
    BY <2>3 DEF BrowseNew
  <2>4. ASSUME NEW c \in Callers, HostnameCall(c) \/ HostnameReturn(c) PROVE UNCHANGED txVars
    BY <2>4 DEF HostnameCall, HostnameReturn
  <2> QED BY <1>3, <2>1, <2>2, <2>3, <2>4 DEF Application
<1>4. CASE Receive \/ RxArrive \/ WrapNears \/ TickWraps \/ UNCHANGED vars
  BY <1>4 DEF Receive, RxArrive, WrapNears, TickWraps, vars
<1>5. ASSUME NEW s \in Searches, Timeout(s) PROVE UNCHANGED txVars
  BY <1>5 DEF Timeout
<1> QED BY <1>1, <1>2, <1>3, <1>4, <1>5 DEF Next

\* The transmit queue is what its type says, for what the timer points at is due.
LEMMA TxStep ==
  ASSUME TxType, [Next]_vars, timer.at = "packets" /\ phase # "freed" => tx[timer.pos] \in due
  PROVE  TxType'
<1>1. CASE UNCHANGED <<tx, due, queued, overtaken>>
  BY <1>1 DEF TxType
<1>2. CASE TimerPacket
  BY <1>2, FlagKeeps DEF TimerPacket
<1>3. CASE FreeAll
  <2>1. tx' = <<>> /\ due' = {} /\ queued' = {} /\ overtaken' = {}
    BY <1>3 DEF FreeAll
  <2>2. <<>> \in Seq(Packets) /\ IsInjective(<<>>)
    BY EmptySeq DEF IsInjective
  <2> QED BY <2>1, <2>2 DEF TxType
<1> QED BY <1>1, <1>2, <1>3, TxSteps, ReplanKeeps, DueKeeps, HandleKeeps

-----------------------------------------------------------------------------
(* The places of the actions.                                              *)

Places == 0 .. Len(actions)
Held(i) == IF i = 0 THEN hand ELSE actions[i]
Sent(a) == \E i \in Places : Held(i) = a
Once(a) == \A i, j \in Places : Held(i) = a /\ Held(j) = a => i = j

\* An action has a place when it is pending.
LEMMA SentPending ==
  ASSUME AnyQueue, NEW a
  PROVE  Sent(a) <=> Pending(a)
<1>1. Len(actions) \in Nat /\ DOMAIN actions = 1 .. Len(actions)
  BY QueueLength
<1>2. CASE Sent(a)
  <2>1. PICK i \in Places : Held(i) = a
    BY <1>2 DEF Sent
  <2>2. i = 0 \/ i \in 1 .. Len(actions)
    BY <1>1 DEF Places
  <2> QED BY <1>1, <1>2, <2>1, <2>2 DEF Held, Pending, ToSet
<1>3. CASE Pending(a)
  <2>1. 0 \in Places /\ Held(0) = hand
    BY <1>1 DEF Places, Held
  <2>2. CASE a \in ToSet(actions)
    <3>1. PICK i \in 1 .. Len(actions) : actions[i] = a
      BY <1>1, <2>2 DEF ToSet
    <3>2. i \in Places /\ Held(i) = a
      BY <1>1, <3>1 DEF Places, Held
    <3> QED BY <1>3, <3>2 DEF Sent
  <2> QED BY <1>3, <2>1, <2>2 DEF Pending, Sent
<1> QED BY <1>2, <1>3

\* A step of the queue sends nothing but actions of S.
QueueStep(S) ==
  \/ /\ hand' \in {hand, None}
     /\ actions' = actions \/ \E a \in S : actions' = Append(actions, a)
  \/ /\ hand = None /\ actions # <<>> /\ actions' = Tail(actions)
     /\ hand' \in {Head(actions), None}
  \/ actions' = <<>> /\ hand' = hand

\* Where an action was before a step: each place comes from a place of its own.
LEMMA PlaceBefore ==
  ASSUME AnyQueue, NEW S, QueueStep(S), NEW a, a \notin S, a # None
  PROVE  \E d \in {0, 1} : \A i \in Places' : Held(i)' = a =>
            i + d \in Places /\ Held(i + d) = a
<1>1. Len(actions) \in Nat
  BY QueueLength
<1>2. CASE hand' \in {hand, None} /\ actions' = actions
  BY <1>1, <1>2 DEF Places, Held
<1>3. ASSUME hand' \in {hand, None}, NEW b \in S, actions' = Append(actions, b)
      PROVE  \A i \in Places' : Held(i)' = a => i \in Places /\ Held(i) = a
  <2>1. /\ Len(actions') = Len(actions) + 1 /\ actions'[Len(actions) + 1] = b
        /\ \A i \in 1 .. Len(actions) : actions'[i] = actions[i]
    BY <1>3, Appended
  <2> QED BY <1>1, <1>3, <2>1 DEF Places, Held
<1>4. CASE /\ hand = None /\ actions # <<>> /\ actions' = Tail(actions)
           /\ hand' \in {Head(actions), None}
  <2>1. /\ Len(actions) \in Nat \ {0} /\ Len(actions') = Len(actions) - 1
        /\ \A i \in 1..Len(actions') : actions'[i] = actions[i + 1]
        /\ Head(actions) = actions[1]
    BY <1>4, Received
  <2>2. ASSUME NEW i \in Places', Held(i)' = a PROVE i + 1 \in Places /\ Held(i + 1) = a
    BY <1>4, <2>1, <2>2 DEF Places, Held
  <2> QED BY <2>2
<1>5. CASE actions' = <<>> /\ hand' = hand
  <2>1. Len(actions') = 0
    BY <1>5
  <2> QED BY <1>1, <1>5, <2>1 DEF Places, Held
<1>6. ASSUME \A i \in Places' : Held(i)' = a => i \in Places /\ Held(i) = a
      PROVE  \A i \in Places' : Held(i)' = a => i + 0 \in Places /\ Held(i + 0) = a
  <2>1. \A i \in Places' : i \in Int
    BY DEF Places
  <2>2. \A i \in Places' : i + 0 = i
    BY <2>1
  <2> QED BY <1>6, <2>2
<1> QED BY <1>2, <1>3, <1>4, <1>5, <1>6 DEF QueueStep

\* What a step does not send is not on the way after it unless it was before, and not
\* more often.
LEMMA NothingNew ==
  ASSUME AnyQueue, NEW S, QueueStep(S), NEW a, a \notin S, a # None
  PROVE  (Sent(a)' => Sent(a)) /\ (Once(a) => Once(a)')
<1>1. PICK d \in {0, 1} : \A i \in Places' : Held(i)' = a =>
            i + d \in Places /\ Held(i + d) = a
  BY PlaceBefore
<1>2. \A i \in Places' : i \in Int
  BY DEF Places
<1>3. Sent(a)' => Sent(a)
  BY <1>1 DEF Sent
<1>4. ASSUME Once(a), NEW i \in Places', NEW j \in Places', Held(i)' = a, Held(j)' = a PROVE i = j
  <2>1. /\ i + d \in Places /\ Held(i + d) = a
        /\ j + d \in Places /\ Held(j + d) = a
    BY <1>1, <1>4
  <2>2. \A k, l \in Places : Held(k) = a /\ Held(l) = a => k = l
    BY <1>4 DEF Once
  <2>3. i + d = j + d
    BY <2>1, <2>2, Zenon
  <2>4. i \in Int /\ j \in Int /\ d \in Int
    BY <1>2
  <2> QED BY <2>3, <2>4
<1> QED BY <1>3, <1>4 DEF Once

\* An action that was not on the way is sent once.
LEMMA SentOnce ==
  ASSUME AnyQueue, NEW a, a # None, ~Sent(a), hand' = hand, actions' = Append(actions, a)
  PROVE  Once(a)'
<1>1. /\ Len(actions) \in Nat /\ Len(actions') = Len(actions) + 1
      /\ \A i \in 1 .. Len(actions) : actions'[i] = actions[i]
  BY Appended
<1>2. ASSUME NEW i \in Places', Held(i)' = a PROVE i = Len(actions) + 1
  <2>1. i = Len(actions) + 1 \/ (i \in Places /\ Held(i)' = Held(i))
    BY <1>1 DEF Places, Held
  <2> QED BY <1>2, <2>1 DEF Sent
<1> QED BY <1>2 DEF Once

\* The task has executed an action that was on the way once.
LEMMA Executing ==
  ASSUME AnyQueue, NEW a, a # None, Once(a), hand = a, hand' = None, actions' = actions
  PROVE  ~Sent(a)'
<1>1. Len(actions) \in Nat
  BY QueueLength
<1>2. ASSUME NEW i \in Places', Held(i)' = a PROVE FALSE
  <2>1. i \in Places /\ i # 0 /\ Held(i) = a
    BY <1>2 DEF Places, Held
  <2>2. 0 \in Places /\ Held(0) = a
    BY <1>1 DEF Places, Held
  <2> QED BY <2>1, <2>2 DEF Once
<1> QED BY <1>2 DEF Sent

-----------------------------------------------------------------------------
(* The action queue again: what its actions refer to, and who sends them.  *)

QueueType ==
  /\ actions \in Seq(Actions) /\ Len(actions) <= QueueLen
  /\ hand \in Actions \union {None}

\* What an action of each type refers to.
LEMMA ActionTypes ==
  /\ \A p \in Packets : Action("tx", p) \in Actions
  /\ \A s \in Searches : \A t \in {"search_add", "search_send", "search_end"} :
        Action(t, s) \in Actions
  /\ \A b \in Browses : \A t \in {"browse_add", "browse_sync"} : Action(t, b) \in Actions
  /\ \A c \in Callers : Action("hostname_set", c) \in Actions
  /\ {Action("rx", "packet"), Action("browse_end", "type"), Action("task_stop", "task")}
        \subseteq Actions
  BY DEF Actions, Action

\* What an action refers to.
LEMMA OfTypes ==
  ASSUME NEW a \in Actions \union {None}
  PROVE  /\ a.type = "tx" => a.of \in Packets
         /\ a.type \in {"search_add", "search_send", "search_end"} => a.of \in Searches
         /\ a.type \in {"browse_add", "browse_sync"} => a.of \in Browses
         /\ a = Action(a.type, a.of)
  BY DEF Actions, Action, None

\* No action is the empty hand.
LEMMA NotNone == \A t, o : t # "none" => Action(t, o) # None
<1> SUFFICES ASSUME NEW t, NEW o, t # "none", Action(t, o) = None PROVE FALSE
  OBVIOUS
<1>1. Action(t, o).type = t /\ None.type = "none"
  BY DEF Action, None
<1> QED BY <1>1

\* Every step sends at most one action.
Sending(S) ==
  \/ hand' \in {hand, None} /\ UNCHANGED actions
  \/ hand' \in {hand, None} /\ \E a \in S : Send(a)
  \/ Receive \/ FreeAll

\* A step that sends one action of S sends nothing else.
LEMMA SendingSteps ==
  ASSUME NEW S, Sending(S)
  PROVE  QueueStep(S)
<1>1. CASE Receive
  BY <1>1 DEF Receive, QueueStep, None
<1>2. CASE FreeAll
  BY <1>2 DEF FreeAll, QueueStep
<1> QED BY <1>1, <1>2 DEF Sending, Send, QueueStep

\* The queue never exceeds its length.
LEMMA QueueTyped ==
  ASSUME QueueType, Sending(Actions)
  PROVE  QueueType'
<1>0. AnyQueue /\ Len(actions) \in Nat /\ QueueLen \in Nat
  BY ServiceAssumption DEF QueueType, AnyQueue
<1>1. CASE hand' \in {hand, None} /\ UNCHANGED actions
  BY <1>1 DEF QueueType
<1>2. ASSUME hand' \in {hand, None}, NEW a \in Actions, Send(a) PROVE QueueType'
  <2>1. CASE Room
    <3>1. actions' = Append(actions, a) /\ Len(actions) < QueueLen
      BY <1>2, <2>1 DEF Send, Room
    <3>2. actions' \in Seq(Actions) /\ Len(actions') = Len(actions) + 1
      BY <3>1, AppendProperties DEF QueueType
    <3> QED BY <1>0, <1>2, <3>1, <3>2 DEF QueueType
  <2>2. CASE ~Room
    BY <1>2, <2>2 DEF Send, QueueType
  <2> QED BY <2>1, <2>2
<1>3. CASE Receive
  <2>1. actions # <<>> /\ actions' = Tail(actions) /\ hand' \in {hand, Head(actions)}
    BY <1>3 DEF Receive
  <2>2. actions' \in Seq(Actions) /\ Len(actions') = Len(actions) - 1 /\ Head(actions) \in Actions
    BY <2>1, HeadTailProperties DEF QueueType
  <2> QED BY <1>0, <2>1, <2>2 DEF QueueType
<1>4. CASE FreeAll
  <2>1. actions' = <<>> /\ hand' = hand
    BY <1>4 DEF FreeAll
  <2>2. <<>> \in Seq(Actions) /\ Len(<<>>) = 0
    OBVIOUS
  <2> QED BY <1>0, <2>1, <2>2 DEF QueueType
<1> QED BY <1>1, <1>2, <1>3, <1>4 DEF Sending

-----------------------------------------------------------------------------
(* The searches.                                                           *)

\* search_once grows at its head.
LEMMA Prepended ==
  ASSUME NEW E, NEW seq \in Seq(E), NEW x \in E
  PROVE  /\ <<x>> \o seq \in Seq(E)
         /\ ToSet(<<x>> \o seq) = {x} \union ToSet(seq)
         /\ IsInjective(seq) /\ x \notin ToSet(seq) => IsInjective(<<x>> \o seq)
<1> DEFINE w == <<x>> \o seq
           L == Len(seq)
<1>1. L \in Nat /\ DOMAIN seq = 1 .. L /\ <<x>> \in Seq(E) /\ Len(<<x>>) = 1 /\ <<x>>[1] = x
  BY LenProperties
<1>2. w \in Seq(E) /\ Len(w) = L + 1 /\ \A i \in 1 .. L + 1 : w[i] = IF i = 1 THEN x ELSE seq[i - 1]
  BY <1>1, ConcatProperties
<1>3. DOMAIN w = 1 .. L + 1
  BY <1>2, LenProperties
<1> HIDE DEF w, L
<1>4. ASSUME NEW e \in ToSet(w) PROVE e \in {x} \union ToSet(seq)
  <2>1. PICK i \in 1 .. L + 1 : e = w[i]
    BY <1>3 DEF ToSet
  <2>2. i = 1 \/ i - 1 \in 1 .. L
    BY <1>1
  <2> QED BY <1>1, <1>2, <2>1, <2>2 DEF ToSet
<1>5. ASSUME NEW e \in {x} \union ToSet(seq) PROVE e \in ToSet(w)
  <2>1. CASE e = x
    <3>1. 1 \in 1 .. L + 1 /\ w[1] = x
      BY <1>1, <1>2
    <3> QED BY <1>3, <2>1, <3>1 DEF ToSet
  <2>2. CASE e \in ToSet(seq)
    <3>1. PICK i \in 1 .. L : e = seq[i]
      BY <1>1, <2>2 DEF ToSet
    <3>2. i + 1 \in 1 .. L + 1 /\ i + 1 # 1 /\ (i + 1) - 1 = i
      BY <1>1
    <3>3. w[i + 1] = seq[i]
      BY <1>2, <3>2
    <3> QED BY <1>3, <3>1, <3>2, <3>3 DEF ToSet
  <2> QED BY <2>1, <2>2
<1>6. ASSUME IsInjective(seq), x \notin ToSet(seq), NEW a \in 1 .. L + 1, NEW b \in 1 .. L + 1,
             w[a] = w[b]
      PROVE  a = b
  <2>1. \A i \in 1 .. L : seq[i] # x
    BY <1>1, <1>6 DEF ToSet
  <2>2. \A i \in 1 .. L + 1 : i = 1 \/ i - 1 \in 1 .. L
    BY <1>1
  <2>3. CASE a = 1 \/ b = 1
    BY <1>2, <1>6, <2>1, <2>2, <2>3
  <2>4. CASE a # 1 /\ b # 1
    <3>1. seq[a - 1] = seq[b - 1] /\ a - 1 \in 1 .. L /\ b - 1 \in 1 .. L
      BY <1>2, <1>6, <2>2, <2>4
    <3>2. a - 1 = b - 1
      BY <1>1, <1>6, <3>1 DEF IsInjective
    <3> QED BY <1>1, <3>2
  <2> QED BY <2>3, <2>4
<1>7. ASSUME IsInjective(seq), x \notin ToSet(seq) PROVE IsInjective(w)
  BY <1>3, <1>6, <1>7 DEF IsInjective
<1> QED BY <1>2, <1>4, <1>5, <1>7 DEF w

SearchType ==
  /\ search \in [Searches -> {"none", "init", "running", "off", "freed"}]
  /\ listed \in Seq(Searches) /\ IsInjective(listed)

\* Searches that are finished leave the list.
LEMMA Finishing ==
  ASSUME SearchType, NEW ends, Finish(ends)
  PROVE  /\ SearchType'
         /\ ToSet(listed') = ToSet(listed) \ ends
<1>1. listed' = Without(listed, ends) /\ listed \in Seq(Searches) /\ IsInjective(listed)
  BY DEF Finish, SearchType
<1>2. listed' \in Seq(Searches) /\ ToSet(listed') = ToSet(listed) \ ends
  BY <1>1, WithoutElements
<1>3. IsInjective(listed')
  BY <1>1, WithoutInjective
<1>4. search' \in [Searches -> {"none", "init", "running", "off", "freed"}]
  BY DEF Finish, SearchType
<1> QED BY <1>2, <1>3, <1>4 DEF SearchType

\* What is on the way for a search, by the state of its memory.
SearchOK(s) ==
  /\ search[s] = "none" => s \notin ToSet(listed)
  /\ Sent(Action("search_add", s)) => search[s] = "init" /\ s \notin ToSet(listed)
  /\ Sent(Action("search_end", s)) =>
        search[s] \in {"off", "freed"} /\ s \in ToSet(listed) \union late
  /\ Once(Action("search_add", s)) /\ Once(Action("search_end", s))
  /\ s \in done => search[s] \in {"off", "freed"} /\ s \notin ToSet(listed)
  /\ s \in deleting => search[s] \notin {"none", "init"}
  /\ s \in deleting => \/ s \in hasty
                       \/ search[s] \in {"off", "freed"} /\ s \notin ToSet(listed)
  /\ search[s] = "freed" => \/ s \in hasty \union late
                            \/ s \notin ToSet(listed) /\ ~Sent(Action("search_end", s))

TimerRecord == [at : {"idle", "called", "packets", "between", "searches", "end"}, pos : Nat,
                todo : Seq(Searches)]

\* Where the timer is, and what its loops rely on until that memory is freed.
TimerType ==
  /\ timer \in TimerRecord
  /\ lock = "timer" <=> timer.at \in {"packets", "searches", "end"}
  /\ phase # "freed" =>
        /\ timer.at = "packets" => timer.pos \in 1 .. Len(tx) /\ tx[timer.pos] \in due
        /\ timer.at \in {"searches", "end"} =>
              timer.todo # <<>> /\ ToSet(timer.todo) \subseteq ToSet(listed)
        /\ timer.at = "end" => search[Todo] = "off" /\ ~Sent(Action("search_end", Todo))

SearchKnown == phase # "freed" => \A s \in Searches : SearchOK(s)

\* The timer is at a search of the list, and what is left of its loop is listed.
LEMMA TodoListed ==
  ASSUME TimerType, timer.at \in {"searches", "end"}, phase # "freed"
  PROVE  /\ Todo \in Searches /\ Todo \in ToSet(listed)
         /\ Tail(timer.todo) \in Seq(Searches)
         /\ ToSet(Tail(timer.todo)) \subseteq ToSet(timer.todo)
         /\ Len(timer.todo) # 1 => Tail(timer.todo) # <<>>
<1> DEFINE t == timer.todo
<1>1. t \in Seq(Searches) /\ t # <<>> /\ ToSet(t) \subseteq ToSet(listed)
  BY DEF TimerType, TimerRecord
<1>2. Len(t) \in Nat \ {0} /\ DOMAIN t = 1 .. Len(t)
  BY <1>1, LenProperties, EmptySeq
<1>3. Todo = t[1] /\ Tail(t) \in Seq(Searches) /\ Len(Tail(t)) = Len(t) - 1
      /\ \A i \in 1 .. Len(t) - 1 : Tail(t)[i] = t[i + 1]
  BY <1>1, HeadTailProperties DEF Todo
<1>4. DOMAIN Tail(t) = 1 .. Len(t) - 1
  BY <1>3, LenProperties
<1> HIDE DEF t
<1>5. t[1] \in ToSet(t) /\ t[1] \in Searches
  BY <1>1, <1>2 DEF ToSet
<1>6. ASSUME NEW e \in ToSet(Tail(t)) PROVE e \in ToSet(t)
  <2>1. PICK i \in 1 .. Len(t) - 1 : e = Tail(t)[i]
    BY <1>4 DEF ToSet
  <2>2. i + 1 \in 1 .. Len(t)
    BY <1>2
  <2> QED BY <1>2, <1>3, <2>1, <2>2 DEF ToSet
<1>7. Len(t) # 1 => Tail(t) # <<>>
  <2>1. Tail(t) = <<>> => Len(Tail(t)) = 0
    BY EmptySeq
  <2> QED BY <1>2, <1>3, <2>1
<1> QED BY <1>1, <1>3, <1>5, <1>6, <1>7 DEF t

\* What each action may send.
Others == {a \in Actions : a.type \notin {"search_add", "search_end", "browse_add", "browse_sync",
                                          "tx"}}

\* What the service task and the API send that neither invariant asks about.
LEMMA OthersAre ==
  /\ \A s \in Searches : Action("search_send", s) \in Others
  /\ \A c \in Callers : Action("hostname_set", c) \in Others
  /\ {Action("rx", "packet"), Action("browse_end", "type"), Action("task_stop", "task")}
        \subseteq Others
<1>1. \A t, o : Action(t, o).type = t
  BY DEF Action
<1> QED BY <1>1, ActionTypes DEF Others

\* What each step of the next-state relation sends.
LEMMA SendingWhat ==
  ASSUME TxType, TimerType, [Next]_vars
  PROVE  \/ Sending(Others)
         \/ TimerPacket /\ Sending({Action("tx", tx[timer.pos])}) /\ tx[timer.pos] \in Packets
         \/ TimerEnd /\ Sending({Action("search_end", Todo)}) /\ Todo \in Searches
         \/ \E s \in Searches : QueryNew(s) /\ Sending({Action("search_add", s)})
         \/ \E b \in Browses : BrowseNew(b) /\ Sending({Action("browse_add", b)})
         \/ RxNews /\ \E b \in Running : Sending({Action("browse_sync", b)})
<1> USE DEF Sending
<1>1. CASE Timer
  <2>1. CASE TimerStart \/ TimerSearches \/ TimerSkip \/ TimerExpire
    BY <2>1 DEF TimerStart, TimerSearches, TimerSkip, TimerExpire
  <2>2. CASE TimerPacket
    <3>1. tx[timer.pos] \in Packets
      BY <2>2 DEF TimerPacket, TimerType, TxType
    <3> QED BY <2>2, <3>1 DEF TimerPacket
  <2>3. CASE TimerSend
    <3>1. Todo \in Searches
      BY <2>3, TodoListed DEF TimerSend
    <3> QED BY <2>3, <3>1, OthersAre DEF TimerSend
  <2>4. CASE TimerEnd
    <3>1. Todo \in Searches
      BY <2>4, TodoListed DEF TimerEnd
    <3> QED BY <2>4, <3>1 DEF TimerEnd
  <2> QED BY <1>1, <2>1, <2>2, <2>3, <2>4 DEF Timer
<1>2. CASE Execute
  <2>1. CASE TxHandle \/ RxAnswer \/ RxQuery \/ SearchAdd \/ SearchSend \/ SearchEnd
    BY <2>1 DEF TxHandle, RxAnswer, RxQuery, SearchAdd, SearchSend, SearchEnd, Executed
  <2>2. CASE BrowseAdd \/ BrowseSync \/ BrowseEnd \/ HostnameSet
    BY <2>2 DEF BrowseAdd, BrowseSync, SyncResult, BrowseEnd, HostnameSet, Executed
  <2>3. CASE RxNews
    BY <2>3 DEF RxNews, Executed, Running
  <2> QED BY <1>2, <2>1, <2>2, <2>3 DEF Execute
<1>3. CASE Application
  <2>1. CASE Change \/ BrowseDelete \/ TaskStop \/ FreeAll
    BY <2>1, OthersAre DEF Change, BrowseDelete, TaskStop
  <2>2. ASSUME NEW s \in Searches, QueryReturn(s) \/ DeleteCheck(s) \/ DeleteFree(s)
        PROVE  Sending(Others)
    BY <2>2 DEF QueryReturn, DeleteCheck, DeleteFree
  <2>3. ASSUME NEW s \in Searches, QueryNew(s) PROVE Sending({Action("search_add", s)})
    BY <2>3 DEF QueryNew
  <2>4. ASSUME NEW b \in Browses, BrowseNew(b) PROVE Sending({Action("browse_add", b)})
    BY <2>4 DEF BrowseNew
  <2>5. ASSUME NEW c \in Callers, HostnameCall(c) \/ HostnameReturn(c) PROVE Sending(Others)
    BY <2>5, OthersAre DEF HostnameCall, HostnameReturn
  <2> QED BY <1>3, <2>1, <2>2, <2>3, <2>4, <2>5 DEF Application
<1>4. CASE Receive \/ RxArrive \/ PacketDue \/ WrapNears \/ TickWraps \/ UNCHANGED vars
  BY <1>4, OthersAre DEF RxArrive, PacketDue, WrapNears, TickWraps, vars
<1>5. ASSUME NEW s \in Searches, Timeout(s) PROVE Sending(Others)
  BY <1>5 DEF Timeout
<1> QED BY <1>1, <1>2, <1>3, <1>4, <1>5 DEF Next

\* Every step keeps the type of the queue.
LEMMA QueueStepTyped ==
  ASSUME QueueType, TxType, TimerType, [Next]_vars
  PROVE  QueueType'
<1>1. ASSUME NEW S \in SUBSET Actions, Sending(S) PROVE Sending(Actions)
  BY <1>1 DEF Sending
<1>2. Others \subseteq Actions
  BY DEF Others
<1>3. Sending(Actions)
  <2>1. ASSUME NEW a \in Actions, Sending({a}) PROVE Sending(Actions)
    BY <1>1, <2>1
  <2>2. \A b \in Running : Action("browse_sync", b) \in Actions
    BY ActionTypes DEF Running
  <2> QED BY <1>1, <1>2, <2>1, <2>2, SendingWhat, ActionTypes
<1> QED BY <1>3, QueueTyped

\* The searches: a step that has nothing to do with s.
LEMMA SearchKeeps ==
  ASSUME AnyQueue, NEW s \in Searches, SearchOK(s), NEW S, QueueStep(S),
         Action("search_add", s) \notin S, Action("search_end", s) \notin S,
         search'[s] = search[s], s \in ToSet(listed)' <=> s \in ToSet(listed),
         s \in done' => s \in done,
         s \in deleting' => s \in deleting, s \in hasty => s \in hasty', s \in late => s \in late'
  PROVE  SearchOK(s)'
<1>1. Action("search_add", s) # None /\ Action("search_end", s) # None
  BY NotNone
<1>2. /\ Sent(Action("search_add", s))' => Sent(Action("search_add", s))
      /\ Once(Action("search_add", s)) => Once(Action("search_add", s))'
  BY <1>1, NothingNew
<1>3. /\ Sent(Action("search_end", s))' => Sent(Action("search_end", s))
      /\ Once(Action("search_end", s)) => Once(Action("search_end", s))'
  BY <1>1, NothingNew
<1> QED BY <1>2, <1>3 DEF SearchOK

\* An action is its type and what it refers to.
LEMMA SameAction == \A t, o, u, p : Action(t, o) = Action(u, p) => t = u /\ o = p
<1> SUFFICES ASSUME NEW t, NEW o, NEW u, NEW p, Action(t, o) = Action(u, p)
             PROVE  t = u /\ o = p
  OBVIOUS
<1>1. Action(t, o).type = t /\ Action(u, p).type = u /\ Action(t, o).of = o /\ Action(u, p).of = p
  BY DEF Action
<1> QED BY <1>1

\* The queue of the lemmas above.
LEMMA TypedQueue == ASSUME QueueType PROVE AnyQueue
  BY DEF QueueType, AnyQueue

\* What an invariant of the searches reads.
Bookkeeping == <<search, listed, done, deleting, hasty, late>>

\* A step that touches no search and sends no ADD and no END.
LEMMA SearchQuiet ==
  ASSUME QueueType, NEW s \in Searches, SearchOK(s), UNCHANGED Bookkeeping, NEW S, QueueStep(S),
         \A a \in S : a.type \notin {"search_add", "search_end"}
  PROVE  SearchOK(s)'
<1>1. Action("search_add", s) \notin S /\ Action("search_end", s) \notin S
  BY DEF Action
<1> QED BY <1>1, SearchKeeps, TypedQueue DEF Bookkeeping

\* The timer sends a listed search again, or says that its time is over: its ADD has
\* been executed, and no END is on the way.
LEMMA SearchTimer ==
  ASSUME QueueType, TimerType, SearchType, NEW s \in Searches, SearchOK(s),
         TimerSend \/ TimerExpire
  PROVE  SearchOK(s)'
<1> USE TypedQueue
<1>0. Todo \in Searches /\ Todo \in ToSet(listed) /\ search[Todo] \in {"init", "running"}
  BY TodoListed DEF TimerSend, TimerExpire
<1>1. UNCHANGED <<listed, done, deleting, hasty, late>>
  BY DEF TimerSend, TimerExpire
<1>2. QueueStep({Action("search_send", Todo)})
  BY DEF TimerSend, TimerExpire, QueueStep, Send
<1>3. /\ Action("search_add", s) \notin {Action("search_send", Todo)}
      /\ Action("search_end", s) \notin {Action("search_send", Todo)}
  BY SameAction
<1>4. CASE s # Todo
  <2>1. search'[s] = search[s]
    BY <1>4 DEF TimerSend, TimerExpire, SearchType
  <2> QED BY <1>1, <1>2, <1>3, <2>1, SearchKeeps
<1>5. CASE s = Todo
  <2>1. search'[s] \in {"running", "off"}
    BY <1>5 DEF TimerSend, TimerExpire, SearchType
  <2>2. Action("search_add", s) # None /\ Action("search_end", s) # None
    BY NotNone
  <2>3. /\ ~Sent(Action("search_add", s)) /\ ~Sent(Action("search_end", s))
        /\ Once(Action("search_add", s)) /\ Once(Action("search_end", s))
        /\ s \notin done /\ (s \in deleting => s \in hasty)
    BY <1>0, <1>5 DEF SearchOK
  <2>4. /\ ~Sent(Action("search_add", s))'
        /\ Once(Action("search_add", s))'
    BY <1>2, <1>3, <2>2, <2>3, NothingNew
  <2>5. /\ ~Sent(Action("search_end", s))'
        /\ Once(Action("search_end", s))'
    BY <1>2, <1>3, <2>2, <2>3, NothingNew
  <2> QED BY <1>1, <2>1, <2>3, <2>4, <2>5 DEF SearchOK
<1> QED BY <1>4, <1>5

\* The timer sends the END, or takes the search up again when the queue is full.
LEMMA SearchTimerEnd ==
  ASSUME QueueType, TimerType, SearchType, NEW s \in Searches, SearchOK(s), TimerEnd
  PROVE  SearchOK(s)'
<1> USE TypedQueue
<1> DEFINE add == Action("search_add", s)
           end == Action("search_end", s)
<1>0. Todo \in Searches /\ Todo \in ToSet(listed) /\ search[Todo] = "off"
      /\ ~Sent(Action("search_end", Todo))
  BY TodoListed DEF TimerEnd, TimerType
<1>1. UNCHANGED <<listed, done, deleting, hasty, late, hand>>
  BY DEF TimerEnd
<1>2. QueueStep({Action("search_end", Todo)})
  BY DEF TimerEnd, QueueStep, Send
<1>3. add \notin {Action("search_end", Todo)} /\ add # None /\ end # None
  BY SameAction, NotNone
<1>4. CASE s # Todo
  <2>1. search'[s] = search[s]
    BY <1>4 DEF TimerEnd, Revert, SearchType
  <2>2. end \notin {Action("search_end", Todo)}
    BY <1>4, SameAction
  <2> QED BY <1>1, <1>2, <1>3, <2>1, <2>2, SearchKeeps
<1>5. CASE s = Todo
  <2>1. /\ ~Sent(add) /\ Once(add) /\ ~Sent(end) /\ Once(end)
        /\ s \notin done /\ (s \in deleting => s \in hasty)
    BY <1>0, <1>5 DEF SearchOK
  <2>2. ~Sent(add)' /\ Once(add)'
    BY <1>2, <1>3, <2>1, NothingNew
  <2>3. CASE Room
    <3>1. actions' = Append(actions, end)
      BY <1>5, <2>3 DEF TimerEnd, Send
    <3>2. Once(end)'
      BY <1>1, <1>3, <2>1, <3>1, SentOnce
    <3>3. search'[s] = "off"
      BY <1>0, <1>5, <2>3 DEF TimerEnd, Revert, SearchType
    <3> QED BY <1>0, <1>1, <1>5, <2>1, <2>2, <3>2, <3>3 DEF SearchOK
  <2>4. CASE ~Room
    <3>1. actions' = actions
      BY <2>4 DEF TimerEnd, Send
    <3>2. QueueStep({}) /\ end \notin {}
      BY <1>1, <3>1 DEF QueueStep
    <3>3. ~Sent(end)' /\ Once(end)'
      BY <1>3, <2>1, <3>2, NothingNew
    <3>4. search'[s] = "running"
      BY <1>0, <1>5, <2>4 DEF TimerEnd, Revert, SearchType
    <3> QED BY <1>1, <2>1, <2>2, <3>3, <3>4 DEF SearchOK
  <2> QED BY <2>3, <2>4
<1> QED BY <1>4, <1>5

\* An answer finishes listed searches; one whose END is on the way is late.
LEMMA SearchFinished ==
  ASSUME QueueType, SearchType, NEW s \in Searches, SearchOK(s), RxAnswer
  PROVE  SearchOK(s)'
<1> USE TypedQueue
<1> DEFINE add == Action("search_add", s)
           end == Action("search_end", s)
<1>1. PICK ends \in SUBSET ToSet(listed) :
        Finish(ends) /\ late' = late \union {t \in ends : Pending(Action("search_end", t))}
  BY DEF RxAnswer
<1>2. /\ UNCHANGED <<actions, deleting, hasty>> /\ hand' = None
      /\ done' = done \union ends /\ ToSet(listed') = ToSet(listed) \ ends
  BY <1>1, Finishing DEF RxAnswer, Executed, Finish
<1>3. QueueStep({}) /\ add \notin {} /\ end \notin {} /\ add # None /\ end # None
  BY <1>2, NotNone DEF QueueStep
<1>4. CASE s \notin ends
  <2>1. search'[s] = search[s]
    BY <1>1, <1>4 DEF Finish, SearchType
  <2>2. s \in ToSet(listed)' <=> s \in ToSet(listed)
    BY <1>2, <1>4
  <2> QED BY <1>1, <1>2, <1>3, <1>4, <2>1, <2>2, SearchKeeps
<1>5. CASE s \in ends
  <2>1. search'[s] \in {"off", "freed"} /\ s \notin ToSet(listed)'
    BY <1>1, <1>2, <1>5 DEF Finish
  <2>2. ~Sent(add) /\ Once(add) /\ Once(end)
    BY <1>1, <1>5 DEF SearchOK
  <2>3. ~Sent(add)' /\ Once(add)'
    BY <1>3, <2>2, NothingNew
  <2>4. (Sent(end)' => Sent(end)) /\ Once(end)'
    BY <1>3, <2>2, NothingNew
  <2>5. Sent(end)' => s \in late'
    BY <1>1, <1>5, <2>4, SentPending
  <2>6. search'[s] # "none"
    BY <2>1
  <2> QED BY <2>1, <2>3, <2>4, <2>5, <2>6 DEF SearchOK
<1> QED BY <1>4, <1>5

\* The one ADD of a search puts it into the list.
LEMMA SearchAdded ==
  ASSUME QueueType, SearchType, NEW s \in Searches, SearchOK(s), SearchAdd
  PROVE  SearchOK(s)'
<1> USE TypedQueue
<1> DEFINE add == Action("search_add", s)
           end == Action("search_end", s)
<1>1. /\ hand.of \in Searches /\ hand = Action("search_add", hand.of) /\ hand' = None
      /\ listed' = <<hand.of>> \o listed
      /\ UNCHANGED <<actions, search, done, deleting, hasty, late>>
  BY OfTypes DEF SearchAdd, Executes, Executed, QueueType
<1>2. ToSet(listed') = {hand.of} \union ToSet(listed)
  BY <1>1, Prepended DEF SearchType
<1>3. QueueStep({}) /\ add \notin {} /\ end \notin {} /\ add # None /\ end # None
  BY <1>1, NotNone DEF QueueStep
<1>4. CASE s # hand.of
  <2>1. s \in ToSet(listed)' <=> s \in ToSet(listed)
    BY <1>2, <1>4
  <2> QED BY <1>1, <1>3, <2>1, SearchKeeps
<1>5. CASE s = hand.of
  <2>1. Sent(add)
    BY <1>1, <1>5, SentPending DEF Pending
  <2>2. /\ search[s] = "init" /\ Once(add) /\ Once(end) /\ ~Sent(end) /\ s \notin done
        /\ (s \in deleting => s \in hasty)
    BY <2>1 DEF SearchOK
  <2>3. ~Sent(add)'
    BY <1>1, <1>3, <1>5, <2>2, Executing
  <2>4. Once(add)' 
    BY <1>3, <2>2, NothingNew
  <2>5. ~Sent(end)' /\ Once(end)'
    BY <1>3, <2>2, NothingNew
  <2> QED BY <1>1, <2>2, <2>3, <2>4, <2>5 DEF SearchOK
<1> QED BY <1>4, <1>5

\* The one END of a search takes it off the list.
LEMMA SearchEnded ==
  ASSUME QueueType, SearchType, NEW s \in Searches, SearchOK(s), SearchEnd
  PROVE  SearchOK(s)'
<1> USE TypedQueue
<1> DEFINE add == Action("search_add", s)
           end == Action("search_end", s)
           ends == {hand.of} \ {t \in Searches : search[t] = "freed"}
<1>1. /\ hand.of \in Searches /\ hand = Action("search_end", hand.of) /\ hand' = None
      /\ Finish(ends)
      /\ UNCHANGED <<actions, deleting, hasty, late>>
  BY OfTypes DEF SearchEnd, Executes, Executed, QueueType
<1>2. ToSet(listed') = ToSet(listed) \ ends /\ done' = done \union ends
  BY <1>1, Finishing DEF Finish
<1>3. QueueStep({}) /\ add \notin {} /\ end \notin {} /\ add # None /\ end # None
  BY <1>1, NotNone DEF QueueStep
<1>4. CASE s \notin ends
  <2>1. search'[s] = search[s]
    BY <1>1, <1>4 DEF Finish, SearchType
  <2>2. s \in ToSet(listed)' <=> s \in ToSet(listed)
    BY <1>2, <1>4
  <2> QED BY <1>1, <1>2, <1>3, <1>4, <2>1, <2>2, SearchKeeps
<1>5. CASE s \in ends
  <2>1. s = hand.of /\ search[s] # "freed"
    BY <1>5
  <2>2. Sent(end)
    BY <1>1, <2>1, SentPending DEF Pending
  <2>3. Once(add) /\ Once(end) /\ ~Sent(add)
    BY <2>2 DEF SearchOK
  <2>4. ~Sent(end)'
    BY <1>1, <1>3, <2>1, <2>3, Executing
  <2>5. ~Sent(add)' /\ Once(add)'
    BY <1>3, <2>3, NothingNew
  <2>6. Once(end)'
    BY <1>3, <2>3, NothingNew
  <2>7. search'[s] = "off" /\ s \notin ToSet(listed)'
    BY <1>1, <1>2, <1>5, <2>1 DEF Finish
  <2> QED BY <2>4, <2>5, <2>6, <2>7 DEF SearchOK
<1> QED BY <1>4, <1>5

\* A new search has one ADD on the way and nothing else.
LEMMA SearchMade ==
  ASSUME QueueType, SearchType, NEW s \in Searches, SearchOK(s), NEW t \in Searches, QueryNew(t)
  PROVE  SearchOK(s)'
<1> USE TypedQueue
<1> DEFINE add == Action("search_add", s)
           end == Action("search_end", s)
<1>1. /\ search[t] = "none" /\ search' = [search EXCEPT ![t] = "init"]
      /\ actions' = Append(actions, Action("search_add", t))
      /\ UNCHANGED <<hand, listed, done, deleting, hasty, late>>
  BY DEF QueryNew, Send
<1>2. QueueStep({Action("search_add", t)}) /\ end \notin {Action("search_add", t)}
  BY <1>1, SameAction DEF QueueStep
<1>3. add # None /\ end # None
  BY NotNone
<1>4. CASE s # t
  <2>1. add \notin {Action("search_add", t)}
    BY <1>4, SameAction
  <2>2. search'[s] = search[s]
    BY <1>1, <1>4 DEF SearchType
  <2> QED BY <1>1, <1>2, <2>1, <2>2, SearchKeeps
<1>5. CASE s = t
  <2>1. /\ ~Sent(add) /\ ~Sent(end) /\ Once(end) /\ s \notin ToSet(listed) /\ s \notin done
        /\ (s \in deleting => s \in hasty)
    BY <1>1, <1>5 DEF SearchOK
  <2>2. Once(add)'
    BY <1>1, <1>3, <1>5, <2>1, SentOnce
  <2>3. ~Sent(end)' /\ Once(end)'
    BY <1>2, <1>3, <2>1, NothingNew
  <2>4. search'[s] = "init"
    BY <1>1, <1>5 DEF SearchType
  <2> QED BY <1>1, <2>1, <2>2, <2>3, <2>4 DEF SearchOK
<1> QED BY <1>4, <1>5

\* A search is freed by its caller, or by a deletion after its check.
LEMMA SearchFreed ==
  ASSUME QueueType, SearchType, NEW s \in Searches, SearchOK(s), NEW t \in Searches,
         QueryReturn(t) \/ DeleteCheck(t) \/ DeleteFree(t)
  PROVE  SearchOK(s)'
<1> USE TypedQueue
<1> DEFINE add == Action("search_add", s)
           end == Action("search_end", s)
<1>1. UNCHANGED <<actions, hand, listed, late>>
  BY DEF QueryReturn, DeleteCheck, DeleteFree
<1>2. QueueStep({}) /\ add \notin {} /\ end \notin {} /\ add # None /\ end # None
  BY <1>1, NotNone DEF QueueStep
<1>3. CASE s # t
  <2>1. /\ search'[s] = search[s] /\ (s \in done' => s \in done)
        /\ (s \in deleting' => s \in deleting) /\ (s \in hasty => s \in hasty')
    BY <1>3 DEF QueryReturn, DeleteCheck, DeleteFree, SearchType
  <2> QED BY <1>1, <1>2, <2>1, SearchKeeps
<1>4. CASE s = t
  <2>1. (Sent(add)' => Sent(add)) /\ (Once(add) => Once(add)')
    BY <1>2, NothingNew
  <2>2. (Sent(end)' => Sent(end)) /\ (Once(end) => Once(end)')
    BY <1>2, NothingNew
  <2>3. CASE QueryReturn(t)
    <3>1. /\ s \in done /\ search'[s] = "freed" /\ done' = done \ {s}
          /\ UNCHANGED <<deleting, hasty>>
      BY <1>4, <2>3 DEF QueryReturn, SearchType
    <3> QED BY <1>1, <2>1, <2>2, <3>1 DEF SearchOK
  <2>4. CASE DeleteCheck(t)
    <3>1. /\ search[s] = "off" /\ deleting' = deleting \union {s} /\ UNCHANGED <<search, done>>
          /\ s \in ToSet(listed) => s \in hasty'
          /\ s \in hasty => s \in hasty'
      BY <1>4, <2>4 DEF DeleteCheck
    <3> QED BY <1>1, <2>1, <2>2, <3>1 DEF SearchOK
  <2>5. CASE DeleteFree(t)
    <3>1. /\ s \in deleting /\ search'[s] = "freed" /\ UNCHANGED <<done, deleting, hasty>>
      BY <1>4, <2>5 DEF DeleteFree, SearchType
    <3> QED BY <1>1, <2>1, <2>2, <3>1 DEF SearchOK
  <2> QED BY <2>3, <2>4, <2>5
<1> QED BY <1>3, <1>4

\* The steps that leave the searches as they are.
LEMMA SearchSteps ==
  ASSUME [Next]_vars
  PROVE  \/ UNCHANGED Bookkeeping /\ ~TimerEnd /\ ~FreeAll /\ \A t \in Searches : ~QueryNew(t)
         \/ TimerSend \/ TimerExpire \/ TimerEnd \/ RxAnswer \/ SearchAdd \/ SearchEnd \/ FreeAll
         \/ \E t \in Searches : QueryNew(t) \/ QueryReturn(t) \/ DeleteCheck(t) \/ DeleteFree(t)
<1> USE DEF Bookkeeping, searchVars
<1> SUFFICES ASSUME ~TimerSend, ~TimerExpire, ~TimerEnd, ~RxAnswer, ~SearchAdd, ~SearchEnd,
                    ~FreeAll, ~\E t \in Searches : \/ QueryNew(t) \/ QueryReturn(t)
                                                   \/ DeleteCheck(t) \/ DeleteFree(t)
             PROVE  UNCHANGED Bookkeeping
  OBVIOUS
<1>1. CASE Timer
  BY <1>1 DEF Timer, TimerStart, TimerPacket, TimerSearches, TimerSkip
<1>2. CASE Execute
  <2>1. CASE TxHandle \/ RxNews \/ RxQuery \/ SearchSend
    BY <2>1 DEF TxHandle, RxNews, RxQuery, SearchSend
  <2>2. CASE BrowseAdd \/ BrowseSync \/ BrowseEnd \/ HostnameSet
    BY <2>2 DEF BrowseAdd, BrowseSync, BrowseEnd, HostnameSet
  <2> QED BY <1>2, <2>1, <2>2 DEF Execute
<1>3. CASE Application
  <2>1. CASE Change \/ BrowseDelete \/ TaskStop
    BY <2>1 DEF Change, BrowseDelete, TaskStop
  <2>2. ASSUME NEW b \in Browses, BrowseNew(b) PROVE UNCHANGED Bookkeeping
    BY <2>2 DEF BrowseNew
  <2>3. ASSUME NEW c \in Callers, HostnameCall(c) \/ HostnameReturn(c)
        PROVE  UNCHANGED Bookkeeping
    BY <2>3 DEF HostnameCall, HostnameReturn
  <2> QED BY <1>3, <2>1, <2>2, <2>3 DEF Application
<1>4. CASE Receive \/ RxArrive \/ PacketDue \/ WrapNears \/ TickWraps \/ UNCHANGED vars
  BY <1>4 DEF Receive, RxArrive, PacketDue, WrapNears, TickWraps, vars
<1>5. ASSUME NEW s \in Searches, Timeout(s) PROVE UNCHANGED Bookkeeping
  BY <1>5 DEF Timeout
<1> QED BY <1>1, <1>2, <1>3, <1>4, <1>5 DEF Next

\* Nothing happens to the phase after mdns_free.
LEMMA FreedStays == ASSUME [Next]_vars, phase = "freed" PROVE phase' = "freed"
<1>1. CASE TaskStop \/ FreeAll \/ Receive
  BY <1>1 DEF TaskStop, Call, FreeAll, Receive
<1>2. CASE Calm \/ TimerSends
  BY <1>2 DEF Calm, TimerSends
<1>3. CASE HostnameSet
  BY <1>3 DEF HostnameSet
<1>4. ASSUME NEW c \in Callers, HostnameCall(c) \/ HostnameReturn(c) PROVE UNCHANGED phase
  BY <1>4 DEF HostnameCall, HostnameReturn
<1> QED BY <1>1, <1>2, <1>3, <1>4, StepKinds

\* Every step keeps what is known of the searches.
LEMMA SearchStep ==
  ASSUME QueueType, TxType, TimerType, SearchType, SearchKnown, [Next]_vars
  PROVE  SearchKnown'
<1> SUFFICES ASSUME phase' # "freed", NEW s \in Searches PROVE SearchOK(s)'
  BY DEF SearchKnown
<1>1. SearchOK(s)
  BY FreedStays DEF SearchKnown
<1>2. ~FreeAll
  BY DEF FreeAll
<1>3. CASE UNCHANGED Bookkeeping /\ ~TimerEnd /\ \A t \in Searches : ~QueryNew(t)
  <2>0. \A t, o : Action(t, o).type = t
    BY DEF Action
  <2>1. PICK S : Sending(S) /\ \A a \in S : a.type \notin {"search_add", "search_end"}
    <3>1. \A a \in Others : a.type \notin {"search_add", "search_end"}
      BY DEF Others
    <3>2. \A t, o : t \notin {"search_add", "search_end"} =>
             \A a \in {Action(t, o)} : a.type \notin {"search_add", "search_end"}
      BY <2>0
    <3>3. CASE Sending(Others)
      BY <3>1, <3>3
    <3>4. CASE Sending({Action("tx", tx[timer.pos])})
      BY <3>2, <3>4
    <3>5. ASSUME NEW b, Sending({Action("browse_add", b)}) \/ Sending({Action("browse_sync", b)})
          PROVE  \E S : Sending(S) /\ \A a \in S : a.type \notin {"search_add", "search_end"}
      BY <3>2, <3>5
    <3> QED BY <1>3, <3>3, <3>4, <3>5, SendingWhat
  <2> QED BY <1>1, <1>3, <2>1, SendingSteps, SearchQuiet
<1>4. CASE TimerSend \/ TimerExpire \/ TimerEnd
  BY <1>1, <1>4, SearchTimer, SearchTimerEnd
<1>5. CASE RxAnswer \/ SearchAdd \/ SearchEnd
  BY <1>1, <1>5, SearchFinished, SearchAdded, SearchEnded
<1>6. ASSUME NEW t \in Searches, QueryNew(t) \/ QueryReturn(t) \/ DeleteCheck(t) \/ DeleteFree(t)
      PROVE  SearchOK(s)'
  BY <1>1, <1>6, SearchMade, SearchFreed
<1> QED BY <1>2, <1>3, <1>4, <1>5, <1>6, SearchSteps

\* A search is added to the list only while it is not in it.
LEMMA SearchTyped ==
  ASSUME QueueType, TimerType, SearchType, SearchKnown, [Next]_vars
  PROVE  SearchType'
<1>1. CASE UNCHANGED Bookkeeping
  BY <1>1 DEF Bookkeeping, SearchType
<1>2. CASE TimerSend \/ TimerExpire \/ TimerEnd
  BY <1>2 DEF TimerSend, TimerExpire, TimerEnd, Revert, SearchType
<1>3. CASE RxAnswer \/ SearchEnd
  <2>1. PICK ends : Finish(ends)
    BY <1>3 DEF RxAnswer, SearchEnd
  <2> QED BY <2>1, Finishing
<1>4. CASE SearchAdd
  <2>1. /\ hand.of \in Searches /\ hand = Action("search_add", hand.of)
        /\ listed' = <<hand.of>> \o listed /\ search' = search /\ phase # "freed"
    BY <1>4, OfTypes DEF SearchAdd, Executes, QueueType
  <2>2. hand.of \notin ToSet(listed)
    <3>1. SearchOK(hand.of) /\ Sent(Action("search_add", hand.of))
      BY <2>1, SentPending, TypedQueue DEF SearchKnown, Pending
    <3> QED BY <3>1 DEF SearchOK
  <2>3. listed' \in Seq(Searches) /\ IsInjective(listed')
    BY <2>1, <2>2, Prepended DEF SearchType
  <2> QED BY <2>1, <2>3 DEF SearchType
<1>5. ASSUME NEW t \in Searches, QueryNew(t) \/ QueryReturn(t) \/ DeleteCheck(t) \/ DeleteFree(t)
      PROVE  SearchType'
  BY <1>5 DEF QueryNew, QueryReturn, DeleteCheck, DeleteFree, SearchType
<1>6. CASE FreeAll
  <2>1. listed' = <<>> /\ <<>> \in Seq(Searches) /\ IsInjective(<<>>)
    BY <1>6 DEF FreeAll, IsInjective
  <2>2. search' \in [Searches -> {"none", "init", "running", "off", "freed"}]
    BY <1>6 DEF FreeAll, SearchType
  <2> QED BY <2>1, <2>2 DEF SearchType
<1> QED BY <1>1, <1>2, <1>3, <1>4, <1>5, <1>6, SearchSteps

-----------------------------------------------------------------------------
(* The timer.                                                              *)

\* What is left of Next while the timer holds the lock.
LEMMA WhileLocked ==
  ASSUME lock = "timer", timer.at # "idle", [Next]_vars, ~Timer, ~FreeAll
  PROVE  /\ UNCHANGED <<timer, lock, tx, queued, overtaken, listed>>
         /\ UNCHANGED due \/ PacketDue
         /\ UNCHANGED search \/ \E t \in Searches : QueryNew(t) \/ QueryReturn(t)
<1> USE DEF txVars, searchVars
<1>1. CASE Execute
  BY <1>1 DEF Execute, TxHandle, RxAnswer, RxNews, RxQuery, SearchAdd, SearchSend, SearchEnd,
              BrowseAdd, BrowseSync, BrowseEnd, HostnameSet, Executes
<1>2. CASE Application
  <2>1. CASE Change \/ BrowseDelete \/ TaskStop
    BY <2>1 DEF Change, BrowseDelete, TaskStop
  <2>2. ASSUME NEW t \in Searches, QueryNew(t) \/ QueryReturn(t) \/ DeleteCheck(t) \/ DeleteFree(t)
        PROVE  /\ UNCHANGED <<timer, lock, tx, due, queued, overtaken, listed>>
               /\ UNCHANGED search \/ QueryNew(t) \/ QueryReturn(t)
    BY <2>2 DEF QueryNew, QueryReturn, DeleteCheck, DeleteFree
  <2>3. ASSUME NEW b \in Browses, BrowseNew(b)
        PROVE  UNCHANGED <<timer, lock, txVars, listed, search>>
    BY <2>3 DEF BrowseNew
  <2>4. ASSUME NEW c \in Callers, HostnameCall(c) \/ HostnameReturn(c)
        PROVE  UNCHANGED <<timer, lock, txVars, listed, search>>
    BY <2>4 DEF HostnameCall, HostnameReturn
  <2> QED BY <1>2, <2>1, <2>2, <2>3, <2>4 DEF Application
<1>3. CASE Receive \/ RxArrive \/ PacketDue \/ WrapNears \/ TickWraps \/ UNCHANGED vars
  BY <1>3 DEF Receive, RxArrive, PacketDue, WrapNears, TickWraps, vars
<1>4. ASSUME NEW s \in Searches, Timeout(s)
      PROVE  UNCHANGED <<timer, lock, txVars, listed, search>>
  BY <1>4 DEF Timeout
<1> QED BY <1>1, <1>2, <1>3, <1>4 DEF Next

\* Nobody but the timer moves the timer, though mdns_free may find that it has been called,
\* and nobody takes the lock from it.
LEMMA LockKept ==
  ASSUME [Next]_vars, ~Timer
  PROVE  /\ timer' = timer \/ (timer.at = "idle" /\ timer' = [Idle EXCEPT !.at = "called"])
         /\ lock' = lock \/ lock' \in {"free", "service"}
         /\ lock = "timer" => lock' = lock
<1>1. CASE Execute
  <2>1. CASE TxHandle \/ RxAnswer \/ RxNews \/ RxQuery \/ SearchAdd \/ SearchSend \/ SearchEnd
    BY <2>1 DEF TxHandle, RxAnswer, RxNews, RxQuery, SearchAdd, SearchSend, SearchEnd
  <2>2. CASE BrowseAdd \/ BrowseSync \/ BrowseEnd \/ HostnameSet
    BY <2>2 DEF BrowseAdd, BrowseSync, SyncResult, BrowseEnd, HostnameSet, Executes
  <2> QED BY <1>1, <2>1, <2>2 DEF Execute
<1>2. CASE Application
  <2>1. CASE Change \/ BrowseDelete \/ TaskStop \/ FreeAll
    BY <2>1 DEF Change, BrowseDelete, TaskStop, FreeAll
  <2>2. ASSUME NEW t \in Searches, QueryNew(t) \/ QueryReturn(t) \/ DeleteCheck(t) \/ DeleteFree(t)
        PROVE  UNCHANGED <<timer, lock>>
    BY <2>2 DEF QueryNew, QueryReturn, DeleteCheck, DeleteFree
  <2>3. ASSUME NEW b \in Browses, BrowseNew(b) PROVE UNCHANGED <<timer, lock>>
    BY <2>3 DEF BrowseNew
  <2>4. ASSUME NEW c \in Callers, HostnameCall(c) \/ HostnameReturn(c)
        PROVE  UNCHANGED <<timer, lock>>
    BY <2>4 DEF HostnameCall, HostnameReturn
  <2> QED BY <1>2, <2>1, <2>2, <2>3, <2>4 DEF Application
<1>3. CASE Receive \/ RxArrive \/ PacketDue \/ WrapNears \/ TickWraps \/ UNCHANGED vars
  BY <1>3 DEF Receive, RxArrive, PacketDue, WrapNears, TickWraps, vars
<1>4. ASSUME NEW s \in Searches, Timeout(s) PROVE UNCHANGED <<timer, lock>>
  BY <1>4 DEF Timeout
<1> QED BY <1>1, <1>2, <1>3, <1>4 DEF Next

\* FirstUnqueued is the first packet that is not flagged, if there is one.
LEMMA Unqueued ==
  ASSUME TxType
  PROVE  /\ FirstUnqueued \in 1 .. Len(tx) + 1
         /\ FirstUnqueued <= Len(tx) => tx[FirstUnqueued] \notin queued
         /\ \A j \in 1 .. FirstUnqueued - 1 : tx[j] \in queued
<1> DEFINE B == {i \in 1 .. Len(tx) + 1 : i <= Len(tx) => tx[i] \notin queued}
<1>1. Len(tx) \in Nat
  BY DEF TxType
<1>2. Len(tx) + 1 \in B /\ B \in SUBSET Nat
  BY <1>1
<1>3. PICK n \in B : \A m \in B : n <= m
  <2> HIDE DEF B
  <2> QED BY <1>2, Least
<1>4. n \in 1 .. Len(tx) + 1 /\ (n <= Len(tx) => tx[n] \notin queued)
  OBVIOUS
<1>5. ASSUME NEW j \in 1 .. n - 1 PROVE tx[j] \in queued
  <2>1. j \in 1 .. Len(tx) + 1 /\ j <= Len(tx) /\ ~(n <= j)
    BY <1>1, <1>4
  <2> QED BY <1>3, <2>1
<1> QED BY <1>4, <1>5 DEF FirstUnqueued

\* The timer's loops point at due packets and at listed searches while it holds the lock.
LEMMA TimerTyped ==
  ASSUME QueueType, TxType, TimerType, SearchType, SearchKnown, [Next]_vars
  PROVE  TimerType'
<1>a. /\ timer \in TimerRecord
      /\ lock = "timer" <=> timer.at \in {"packets", "searches", "end"}
  BY DEF TimerType
<1>b. /\ Idle \in TimerRecord /\ [Idle EXCEPT !.at = "between"] \in TimerRecord
      /\ [Idle EXCEPT !.at = "called"] \in TimerRecord
  <2>1. <<>> \in Seq(Searches)
    OBVIOUS
  <2> QED BY <2>1 DEF Idle, TimerRecord
<1>1. CASE TimerStart
  <2>1. timer' = [timer EXCEPT !.at = "packets", !.pos = FirstUnqueued] /\ lock' = "timer"
        /\ FirstUnqueued \in 1 .. Len(tx) /\ tx[FirstUnqueued] \in due
        /\ UNCHANGED <<tx, due>>
    BY <1>1, Unqueued DEF TimerStart, txVars, Ready, TxType
  <2>a. FirstUnqueued \in Nat
    BY <2>1, LenProperties DEF TxType
  <2>2. timer' \in TimerRecord /\ timer'.at = "packets" /\ timer'.pos = FirstUnqueued
    BY <1>a, <2>1, <2>a DEF TimerRecord
  <2> QED BY <2>1, <2>2 DEF TimerType
<1>2. CASE TimerPacket
  <2>1. timer.at = "packets" /\ timer.pos \in 1 .. Len(tx) /\ UNCHANGED <<tx, due>>
    BY <1>2 DEF TimerPacket, TimerType
  <2>2. CASE Ready(timer.pos + 1)
    <3>1. timer' = [timer EXCEPT !.pos = @ + 1] /\ lock' = lock
      BY <1>2, <2>2 DEF TimerPacket
    <3>2. timer' \in TimerRecord /\ timer'.at = "packets" /\ timer'.pos = timer.pos + 1
      BY <1>a, <2>1, <3>1 DEF TimerRecord
    <3>3. timer.pos + 1 \in 1 .. Len(tx) /\ tx[timer.pos + 1] \in due
      BY <2>1, <2>2 DEF Ready, TxType
    <3> QED BY <1>a, <2>1, <3>1, <3>2, <3>3 DEF TimerType
  <2>3. CASE ~Ready(timer.pos + 1)
    <3>1. timer' = [Idle EXCEPT !.at = "between"] /\ lock' = "free"
      BY <1>2, <2>3 DEF TimerPacket
    <3>2. timer'.at = "between"
      BY <3>1 DEF Idle
    <3> QED BY <1>b, <3>1, <3>2 DEF TimerType
  <2> QED BY <2>2, <2>3
<1>3. CASE TimerSearches
  <2>0. lock = "free"
    BY <1>3 DEF TimerSearches, Called
  <2>1. CASE listed = <<>>
    <3>1. timer' = Idle /\ lock' = "free" /\ Idle.at = "idle"
      BY <1>3, <2>0, <2>1 DEF TimerSearches, Idle
    <3> QED BY <1>b, <3>1 DEF TimerType
  <2>2. CASE listed # <<>>
    <3>1. timer' = [Idle EXCEPT !.at = "searches", !.todo = listed] /\ lock' = "timer"
          /\ listed' = listed
      BY <1>3, <2>2 DEF TimerSearches, searchVars
    <3>2. timer' \in TimerRecord /\ timer'.at = "searches" /\ timer'.todo = listed
      BY <3>1 DEF Idle, TimerRecord, SearchType
    <3> QED BY <2>2, <3>1, <3>2 DEF TimerType
  <2> QED BY <2>1, <2>2
<1>4. CASE TimerSkip \/ TimerSend \/ TimerEnd
  <2>1. /\ timer.at \in {"searches", "end"} /\ phase # "freed" /\ NextSearch
        /\ listed' = listed
    BY <1>4 DEF TimerSkip, TimerSend, TimerEnd, searchVars
  <2>2. CASE Len(timer.todo) = 1
    <3>1. timer' = Idle /\ lock' = "free" /\ Idle.at = "idle"
      BY <2>1, <2>2 DEF NextSearch, Idle
    <3> QED BY <1>b, <3>1 DEF TimerType
  <2>3. CASE Len(timer.todo) # 1
    <3>1. timer' = [timer EXCEPT !.at = "searches", !.todo = Tail(@)] /\ lock' = lock
      BY <2>1, <2>3 DEF NextSearch
    <3>2. /\ Tail(timer.todo) \in Seq(Searches) /\ Tail(timer.todo) # <<>>
          /\ ToSet(Tail(timer.todo)) \subseteq ToSet(listed)
      BY <2>1, <2>3, TodoListed DEF TimerType
    <3>3. timer' \in TimerRecord /\ timer'.at = "searches" /\ timer'.todo = Tail(timer.todo)
      BY <1>a, <3>1, <3>2 DEF TimerRecord
    <3> QED BY <1>a, <2>1, <3>1, <3>2, <3>3 DEF TimerType
  <2> QED BY <2>2, <2>3
<1>5. CASE TimerExpire
  <2>1. /\ timer.at = "searches" /\ timer' = [timer EXCEPT !.at = "end"] /\ phase # "freed"
        /\ search[Todo] \in {"init", "running"} /\ search' = [search EXCEPT ![Todo] = "off"]
        /\ UNCHANGED <<listed, lock, actions, hand>>
    BY <1>5 DEF TimerExpire
  <2>2. timer' \in TimerRecord /\ timer'.at = "end" /\ timer'.todo = timer.todo
    BY <1>a, <2>1 DEF TimerRecord
  <2>3. Todo \in Searches /\ search'[Todo] = "off" /\ Todo' = Todo
    BY <2>1, <2>2, TodoListed DEF SearchType, Todo
  <2>4. ~Sent(Action("search_end", Todo))
    BY <2>1, <2>3 DEF SearchKnown, SearchOK
  <2>5. ~Sent(Action("search_end", Todo))'
    BY <2>1, <2>3, <2>4 DEF Sent, Held, Places
  <2> QED BY <1>a, <2>1, <2>2, <2>3, <2>5 DEF TimerType
<1>6. CASE ~Timer
  <2>1. /\ timer' = timer \/ (timer.at = "idle" /\ timer' = [Idle EXCEPT !.at = "called"])
        /\ (lock = "timer" => lock' = lock)
        /\ (lock' = lock \/ lock' \in {"free", "service"})
    BY <1>6, LockKept
  <2>2. CASE timer.at = "idle" /\ timer' = [Idle EXCEPT !.at = "called"]
    <3>1. timer'.at = "called"
      BY <2>2 DEF Idle
    <3> QED BY <1>a, <1>b, <2>1, <2>2, <3>1 DEF TimerType
  <2>3. CASE timer' = timer /\ timer.at \in {"idle", "called", "between"}
    BY <1>a, <2>1, <2>3 DEF TimerType
  <2>4. CASE timer' = timer /\ phase' = "freed"
    BY <1>a, <2>1, <2>4 DEF TimerType
  <2>5. CASE timer' = timer /\ timer.at \in {"packets", "searches", "end"} /\ phase' # "freed"
    <3>0. phase # "freed" /\ ~FreeAll
      BY <2>5, FreedStays DEF FreeAll
    <3>1. /\ UNCHANGED <<timer, lock, tx, queued, overtaken, listed>>
          /\ UNCHANGED due \/ PacketDue
          /\ UNCHANGED search \/ \E t \in Searches : QueryNew(t) \/ QueryReturn(t)
      BY <1>6, <1>a, <2>5, <3>0, WhileLocked
    <3>2. due \subseteq due'
      BY <3>1, DueKeeps
    <3>3. timer.at = "packets" => timer'.pos \in 1 .. Len(tx') /\ tx'[timer'.pos] \in due'
      BY <3>0, <3>1, <3>2 DEF TimerType
    <3>4. ASSUME timer.at = "end"
          PROVE  search'[Todo] = "off" /\ ~Sent(Action("search_end", Todo))'
      <4>1. /\ Todo \in Searches /\ Todo \in ToSet(listed) /\ search[Todo] = "off"
            /\ ~Sent(Action("search_end", Todo)) /\ Todo' = Todo
        BY <3>0, <3>1, <3>4, TodoListed DEF TimerType, Todo
      <4>2. search'[Todo] = "off"
        <5>1. SearchOK(Todo)
          BY <3>0, <4>1 DEF SearchKnown
        <5>2. Todo \notin done
          BY <4>1, <5>1 DEF SearchOK
        <5> QED BY <3>1, <4>1, <5>2 DEF QueryNew, QueryReturn, SearchType
      <4>3. \A t, o : Action(t, o).type = t
        BY DEF Action
      <4>4. PICK S : Sending(S) /\ \A a \in S : a.type # "search_end"
        <5>1. \A a \in Others : a.type # "search_end"
          BY DEF Others
        <5>2. CASE Sending(Others)
          BY <5>1, <5>2
        <5>3. ASSUME NEW o, NEW t \in {"browse_add", "browse_sync", "search_add"},
                     Sending({Action(t, o)})
              PROVE  \E S : Sending(S) /\ \A a \in S : a.type # "search_end"
          <6>1. \A a \in {Action(t, o)} : a.type # "search_end"
            BY <4>3
          <6> QED BY <5>3, <6>1
        <5> QED BY <1>6, <5>2, <5>3, SendingWhat DEF Timer
      <4>5. Action("search_end", Todo) \notin S /\ Action("search_end", Todo) # None
        BY <4>3, <4>4, NotNone
      <4>6. QueueStep(S)
        BY <4>4, SendingSteps
      <4>7. ASSUME NEW a, a = Action("search_end", Todo) PROVE ~Sent(a)'
        BY <4>1, <4>5, <4>6, <4>7, NothingNew, TypedQueue
      <4>8. Action("search_end", Todo)' = Action("search_end", Todo)
        BY <4>1 DEF Action
      <4> QED BY <4>1, <4>2, <4>7, <4>8 DEF Sent, Held, Places
    <3>5. timer.at \in {"searches", "end"} =>
             timer'.todo # <<>> /\ ToSet(timer'.todo) \subseteq ToSet(listed')
      BY <3>0, <3>1 DEF TimerType
    <3> QED BY <1>a, <2>5, <3>1, <3>3, <3>4, <3>5 DEF TimerType, Todo
  <2> QED BY <1>a, <2>1, <2>2, <2>3, <2>4, <2>5 DEF TimerRecord
<1> QED BY <1>1, <1>2, <1>3, <1>4, <1>5, <1>6 DEF Timer

-----------------------------------------------------------------------------
(* The variables whose type needs no argument.                             *)

RestType ==
  /\ lock \in {"free", "timer", "service"}
  /\ browse \in [Browses -> {"none", "init", "running", "freed"}]
  /\ waiting \subseteq Callers /\ sema \in BOOLEAN
  /\ phase \in {"running", "stopping", "stopped", "killed", "freed"}
  /\ calls \in 0 .. MaxCalls /\ midway \in BOOLEAN
  /\ clock \in {"far", "near", "wrapped"} /\ beyond \subseteq Packets \union Searches

\* A packet is scheduled before the wrap of the clock or behind it.
LEMMA ScheduledBeyond ==
  ASSUME RestType, NEW rest, MaySchedule(rest)
  PROVE  beyond' \subseteq Packets \union Searches /\ clock' = clock
  BY DEF RestType, MaySchedule, Kept

\* Every step keeps the types of the variables that need no argument.
LEMMA RestTyped ==
  ASSUME QueueType, RestType, [Next]_vars
  PROVE  RestType'
<1> USE DEF RestType, hostVars, browseVars, txVars
<1>0. MaxCalls \in Nat
  BY ServiceAssumption
<1>1. CASE Timer
  BY <1>1 DEF Timer, TimerStart, TimerPacket, TimerSearches, TimerSkip, TimerSend, TimerExpire,
              TimerEnd, NextSearch
<1>2. CASE Execute
  <2>1. CASE RxAnswer \/ RxNews \/ SearchAdd \/ SearchSend \/ SearchEnd
    BY <2>1 DEF RxAnswer, RxNews, SearchAdd, SearchSend, SearchEnd
  <2>2. CASE BrowseAdd \/ BrowseSync \/ BrowseEnd
    BY <2>2 DEF BrowseAdd, BrowseSync, SyncResult, BrowseEnd
  <2>3. CASE RxQuery \/ HostnameSet
    <3>1. beyond' \subseteq Packets \union Searches /\ clock' = clock
      BY <2>3, ScheduledBeyond DEF RxQuery, HostnameSet, Replan
    <3> QED BY <2>3, <3>1 DEF RxQuery, HostnameSet, Give
  <2>4. CASE TxHandle
    <3>1. calls' = calls \/ (calls' = calls + 1 /\ calls' <= MaxCalls)
      BY <1>0, <2>4 DEF TxHandle
    <3>2. calls' \in 0 .. MaxCalls
      BY <1>0, <3>1
    <3>3. beyond' \subseteq Packets \union Searches /\ clock' = clock
      BY <2>4, ScheduledBeyond DEF TxHandle
    <3> QED BY <2>4, <3>2, <3>3 DEF TxHandle
  <2> QED BY <1>2, <2>1, <2>2, <2>3, <2>4 DEF Execute
<1>3. CASE Application
  <2>0. Call => calls' \in 0 .. MaxCalls
    BY <1>0 DEF Call
  <2>1. CASE BrowseDelete \/ TaskStop \/ FreeAll
    BY <2>0, <2>1 DEF BrowseDelete, TaskStop, FreeAll
  <2>2. CASE Change
    <3>1. beyond' \subseteq Packets \union Searches /\ clock' = clock
      BY <2>2, ScheduledBeyond DEF Change, Replan
    <3> QED BY <2>0, <2>2, <3>1 DEF Change
  <2>3. ASSUME NEW t \in Searches, QueryNew(t) \/ QueryReturn(t) \/ DeleteCheck(t) \/ DeleteFree(t)
        PROVE  RestType'
    BY <2>0, <2>3 DEF QueryNew, QueryReturn, DeleteCheck, DeleteFree
  <2>4. ASSUME NEW b \in Browses, BrowseNew(b) PROVE RestType'
    BY <2>0, <2>4 DEF BrowseNew
  <2>5. ASSUME NEW c \in Callers, HostnameCall(c) \/ HostnameReturn(c) PROVE RestType'
    BY <2>0, <2>5 DEF HostnameCall, HostnameReturn, Take
  <2> QED BY <1>3, <2>1, <2>2, <2>3, <2>4, <2>5 DEF Application
<1>4. CASE Receive \/ PacketDue \/ TickWraps \/ UNCHANGED vars
  BY <1>4 DEF Receive, PacketDue, TickWraps, vars
<1>5. CASE RxArrive \/ WrapNears
  <2>1. calls' \in 0 .. MaxCalls
    BY <1>0, <1>5 DEF RxArrive, WrapNears
  <2> QED BY <1>5, <2>1 DEF RxArrive, WrapNears
<1>6. ASSUME NEW s \in Searches, Timeout(s) PROVE RestType'
  BY <1>6 DEF Timeout
<1> QED BY <1>1, <1>2, <1>3, <1>4, <1>5, <1>6 DEF Next

-----------------------------------------------------------------------------
(* The browses.                                                            *)

\* What is on the way for a browse, by the state of its memory.
BrowseOK(b) ==
  /\ Sent(Action("browse_add", b)) => browse[b] = "init"
  /\ Once(Action("browse_add", b))
  /\ Sent(Action("browse_sync", b)) => \/ browse[b] = "running"
                                       \/ browse[b] = "freed" /\ b \in crossed

BrowseKnown == phase # "freed" => \A b \in Browses : BrowseOK(b)

\* A step that has nothing to do with b.
LEMMA BrowseKeeps ==
  ASSUME QueueType, NEW b \in Browses, BrowseOK(b), NEW S, QueueStep(S),
         Action("browse_add", b) \notin S, Action("browse_sync", b) \notin S,
         browse'[b] = browse[b], b \in crossed => b \in crossed'
  PROVE  BrowseOK(b)'
<1>1. Action("browse_add", b) # None /\ Action("browse_sync", b) # None
  BY NotNone
<1>2. /\ Sent(Action("browse_add", b))' => Sent(Action("browse_add", b))
      /\ Once(Action("browse_add", b)) => Once(Action("browse_add", b))'
  BY <1>1, NothingNew, TypedQueue
<1>3. Sent(Action("browse_sync", b))' => Sent(Action("browse_sync", b))
  BY <1>1, NothingNew, TypedQueue
<1> QED BY <1>2, <1>3 DEF BrowseOK

\* A new browse has one ADD on the way and no news.
LEMMA BrowseMade ==
  ASSUME QueueType, RestType, NEW b \in Browses, BrowseOK(b), NEW c \in Browses, BrowseNew(c)
  PROVE  BrowseOK(b)'
<1> USE TypedQueue
<1> DEFINE add == Action("browse_add", b)
           sync == Action("browse_sync", b)
<1>1. /\ browse[c] = "none" /\ browse' = [browse EXCEPT ![c] = "init"]
      /\ actions' = Append(actions, Action("browse_add", c)) /\ UNCHANGED <<hand, crossed>>
  BY DEF BrowseNew, Send
<1>2. QueueStep({Action("browse_add", c)}) /\ sync \notin {Action("browse_add", c)}
  BY <1>1, SameAction DEF QueueStep
<1>3. add # None /\ sync # None
  BY NotNone
<1>4. CASE b # c
  <2>1. add \notin {Action("browse_add", c)}
    BY <1>4, SameAction
  <2>2. browse'[b] = browse[b]
    BY <1>1, <1>4 DEF RestType
  <2> QED BY <1>1, <1>2, <2>1, <2>2, BrowseKeeps
<1>5. CASE b = c
  <2>1. ~Sent(add) /\ ~Sent(sync)
    BY <1>1, <1>5 DEF BrowseOK
  <2>2. Once(add)'
    BY <1>1, <1>3, <1>5, <2>1, SentOnce
  <2>3. ~Sent(sync)'
    BY <1>2, <1>3, <2>1, NothingNew
  <2>4. browse'[b] = "init"
    BY <1>1, <1>5 DEF RestType
  <2> QED BY <2>2, <2>3, <2>4 DEF BrowseOK
<1> QED BY <1>4, <1>5

\* The one ADD of a browse starts it, or frees it for the one that runs.
LEMMA BrowseAdded ==
  ASSUME QueueType, RestType, NEW b \in Browses, BrowseOK(b), BrowseAdd
  PROVE  BrowseOK(b)'
<1> USE TypedQueue
<1> DEFINE add == Action("browse_add", b)
           sync == Action("browse_sync", b)
<1>1. /\ hand.of \in Browses /\ hand = Action("browse_add", hand.of) /\ hand' = None
      /\ UNCHANGED <<actions, crossed>>
  BY OfTypes DEF BrowseAdd, Executes, Executed, QueueType, browseVars
<1>2. QueueStep({}) /\ add \notin {} /\ sync \notin {} /\ add # None /\ sync # None
  BY <1>1, NotNone DEF QueueStep
<1>3. CASE b # hand.of
  <2>1. browse'[b] = browse[b]
    BY <1>3 DEF BrowseAdd, RestType
  <2> QED BY <1>1, <1>2, <2>1, BrowseKeeps
<1>4. CASE b = hand.of
  <2>1. Sent(add)
    BY <1>1, <1>4, SentPending DEF Pending
  <2>2. browse[b] = "init" /\ ~Sent(sync) /\ Once(add)
    BY <2>1 DEF BrowseOK
  <2>3. ~Sent(add)'
    BY <1>1, <1>2, <1>4, <2>2, Executing
  <2>4. Once(add)'
    BY <1>2, <2>2, NothingNew
  <2>5. ~Sent(sync)'
    BY <1>2, <2>2, NothingNew
  <2> QED BY <2>3, <2>4, <2>5 DEF BrowseOK
<1> QED BY <1>3, <1>4

\* A browse ended while news of it are on the way is crossed.
LEMMA BrowseEnded ==
  ASSUME QueueType, RestType, NEW b \in Browses, BrowseOK(b), BrowseEnd
  PROVE  BrowseOK(b)'
<1> USE TypedQueue
<1> DEFINE add == Action("browse_add", b)
           sync == Action("browse_sync", b)
<1>1. hand' = None /\ UNCHANGED actions
  BY DEF BrowseEnd, Executed
<1>2. QueueStep({}) /\ add \notin {} /\ sync \notin {} /\ add # None /\ sync # None
  BY <1>1, NotNone DEF QueueStep
<1>3. CASE browse[b] # "running"
  <2>1. browse'[b] = browse[b] /\ (b \in crossed => b \in crossed')
    BY <1>3 DEF BrowseEnd, RestType, Running
  <2> QED BY <1>2, <2>1, BrowseKeeps
<1>4. CASE browse[b] = "running"
  <2>1. browse'[b] = "freed" /\ (Pending(sync) => b \in crossed')
    BY <1>4 DEF BrowseEnd, RestType, Running
  <2>2. (Sent(sync)' => Sent(sync))
    BY <1>2, NothingNew
  <2>3. (Sent(add)' => Sent(add)) /\ (Once(add) => Once(add)')
    BY <1>2, NothingNew
  <2>4. Sent(sync)' => b \in crossed'
    BY <2>1, <2>2, SentPending
  <2> QED BY <1>4, <2>1, <2>3, <2>4 DEF BrowseOK
<1> QED BY <1>3, <1>4

\* News are sent for a running browse only.
LEMMA BrowseNews ==
  ASSUME QueueType, RestType, NEW b \in Browses, BrowseOK(b), NEW c \in Running,
         Sending({Action("browse_sync", c)}), UNCHANGED <<browse, crossed>>
  PROVE  BrowseOK(b)'
<1> DEFINE add == Action("browse_add", b)
<1>1. QueueStep({Action("browse_sync", c)})
  BY SendingSteps
<1>2. add \notin {Action("browse_sync", c)} /\ add # None
  BY SameAction, NotNone
<1>3. CASE b = c
  <2>1. (Sent(add)' => Sent(add)) /\ (Once(add) => Once(add)')
    BY <1>1, <1>2, NothingNew, TypedQueue
  <2> QED BY <1>3, <2>1 DEF BrowseOK, Running
<1>4. CASE b # c
  <2>1. Action("browse_sync", b) \notin {Action("browse_sync", c)}
    BY <1>4, SameAction
  <2> QED BY <1>1, <1>2, <2>1, BrowseKeeps
<1> QED BY <1>3, <1>4

\* The steps that leave the browses as they are.
LEMMA BrowseSteps ==
  ASSUME [Next]_vars
  PROVE  \/ UNCHANGED <<browse, crossed>> /\ \A c \in Browses : ~BrowseNew(c)
         \/ BrowseAdd \/ BrowseEnd \/ FreeAll \/ \E c \in Browses : BrowseNew(c)
<1> USE DEF browseVars
<1>1. CASE Timer
  BY <1>1 DEF Timer, TimerStart, TimerPacket, TimerSearches, TimerSkip, TimerSend, TimerExpire,
              TimerEnd
<1>2. CASE Execute
  BY <1>2 DEF Execute, TxHandle, RxAnswer, RxNews, RxQuery, SearchAdd, SearchSend, SearchEnd,
              BrowseSync, HostnameSet
<1>3. CASE Application
  <2>1. CASE Change \/ BrowseDelete \/ TaskStop
    BY <2>1 DEF Change, BrowseDelete, TaskStop
  <2>2. ASSUME NEW t \in Searches, QueryNew(t) \/ QueryReturn(t) \/ DeleteCheck(t) \/ DeleteFree(t)
        PROVE  UNCHANGED <<browse, crossed>>
    BY <2>2 DEF QueryNew, QueryReturn, DeleteCheck, DeleteFree
  <2>3. ASSUME NEW c \in Callers, HostnameCall(c) \/ HostnameReturn(c)
        PROVE  UNCHANGED <<browse, crossed>>
    BY <2>3 DEF HostnameCall, HostnameReturn
  <2> QED BY <1>3, <2>1, <2>2, <2>3 DEF Application
<1>4. CASE Receive \/ RxArrive \/ PacketDue \/ WrapNears \/ TickWraps \/ UNCHANGED vars
  BY <1>4 DEF Receive, RxArrive, PacketDue, WrapNears, TickWraps, vars
<1>5. ASSUME NEW s \in Searches, Timeout(s) PROVE UNCHANGED <<browse, crossed>>
  BY <1>5 DEF Timeout
<1> QED BY <1>1, <1>2, <1>3, <1>4, <1>5 DEF Next

\* Every step keeps what is known of the browses.
LEMMA BrowseStep ==
  ASSUME QueueType, TxType, TimerType, RestType, BrowseKnown, [Next]_vars
  PROVE  BrowseKnown'
<1> SUFFICES ASSUME phase' # "freed", NEW b \in Browses PROVE BrowseOK(b)'
  BY DEF BrowseKnown
<1>1. BrowseOK(b) /\ ~FreeAll
  BY FreedStays DEF BrowseKnown, FreeAll
<1>2. CASE UNCHANGED <<browse, crossed>> /\ \A c \in Browses : ~BrowseNew(c)
  <2>0. \A t, o : Action(t, o).type = t
    BY DEF Action
  <2>1. CASE \E c \in Running : Sending({Action("browse_sync", c)})
    BY <1>1, <1>2, <2>1, BrowseNews
  <2>2. ASSUME NEW S, Sending(S), \A a \in S : a.type \notin {"browse_add", "browse_sync"}
        PROVE  BrowseOK(b)'
    <3>1. Action("browse_add", b) \notin S /\ Action("browse_sync", b) \notin S
      BY <2>0, <2>2
    <3> QED BY <1>1, <1>2, <2>2, <3>1, SendingSteps, BrowseKeeps
  <2>3. \A a \in Others : a.type \notin {"browse_add", "browse_sync"}
    BY DEF Others
  <2>4. ASSUME NEW o, NEW t \in {"tx", "search_add", "search_end"}, Sending({Action(t, o)})
        PROVE  BrowseOK(b)'
    BY <2>0, <2>2, <2>4
  <2> QED BY <1>2, <2>1, <2>2, <2>3, <2>4, SendingWhat
<1>3. CASE BrowseAdd \/ BrowseEnd
  BY <1>1, <1>3, BrowseAdded, BrowseEnded
<1>4. ASSUME NEW c \in Browses, BrowseNew(c) PROVE BrowseOK(b)'
  BY <1>1, <1>4, BrowseMade
<1> QED BY <1>1, <1>2, <1>3, <1>4, BrowseSteps

-----------------------------------------------------------------------------
(* The packets that are flagged and were not overtaken.                    *)

\* The loop of the timer has been at q, or is not running.
Settled(q) == timer.at = "packets" => \E i \in 1 .. timer.pos - 1 : tx[i] = q

\* No action of a packet of P is at place k or behind it.
Clear(k, P) == \A p \in P : \A l \in Places : l >= k => Held(l) # Action("tx", p)

\* The action of q is on the way, behind the actions of all the packets before it, so
\* that q is at the head when it arrives.
PacketOK(q) ==
  q \in Good =>
     /\ Settled(q) /\ Ahead(q) \subseteq Good
     /\ \E k \in Places : Held(k) = Action("tx", q) /\ Clear(k, Ahead(q))

PacketsKnown == phase \in {"running", "stopping"} => \A q \in Packets : PacketOK(q)

\* The action of a packet moves towards the task's hand, and nothing of P gets behind it.
LEMMA PlaceAfter ==
  ASSUME QueueType, NEW q \in Packets, NEW k \in Places, Held(k) = Action("tx", q),
         NEW P \in SUBSET Packets, Clear(k, P),
         NEW S, Sending(S), \A p \in P : Action("tx", p) \notin S,
         hand' = hand \/ k # 0, ~FreeAll, phase' # "stopped"
  PROVE  \E m \in Places' : Held(m)' = Action("tx", q) /\ Clear(m, P)'
<1> USE TypedQueue
<1>0. Len(actions) \in Nat /\ \A p : Action("tx", p) # None
  BY QueueLength, NotNone
<1>1. CASE hand' \in {hand, None} /\ UNCHANGED actions
  <2>1. k \in Places' /\ Held(k)' = Action("tx", q)
    BY <1>1 DEF Places, Held
  <2>2. \A l \in Places' : l \in Places /\ (Held(l)' = Held(l) \/ Held(l)' = None)
    BY <1>1 DEF Places, Held
  <2>3. Clear(k, P)'
    BY <1>0, <2>2 DEF Clear
  <2> QED BY <2>1, <2>3
<1>2. ASSUME hand' \in {hand, None}, NEW a \in S, actions' = Append(actions, a)
      PROVE  \E m \in Places' : Held(m)' = Action("tx", q) /\ Clear(m, P)'
  <2>0. /\ Len(actions') = Len(actions) + 1 /\ actions'[Len(actions) + 1] = a
        /\ \A i \in 1 .. Len(actions) : actions'[i] = actions[i]
    BY <1>2, Appended
  <2>1. k \in Places' /\ Held(k)' = Action("tx", q)
    BY <1>0, <1>2, <2>0 DEF Places, Held
  <2>2. \A l \in Places' : \/ l \in Places /\ (Held(l)' = Held(l) \/ Held(l)' = None)
                           \/ Held(l)' = a
    BY <1>0, <1>2, <2>0 DEF Places, Held
  <2>3. Clear(k, P)'
    BY <1>0, <2>2 DEF Clear
  <2> QED BY <2>1, <2>3
<1>3. CASE Receive
  <2>0. hand = None /\ actions # <<>> /\ actions' = Tail(actions) /\ hand' = Head(actions)
    BY <1>3 DEF Receive
  <2>1. /\ Len(actions) \in Nat \ {0} /\ Len(actions') = Len(actions) - 1
        /\ \A i \in 1..Len(actions') : actions'[i] = actions[i + 1]
        /\ Head(actions) = actions[1]
    BY <2>0, Received
  <2>2. k # 0 /\ k \in 1 .. Len(actions)
    BY <1>0, <2>0 DEF Held, Places
  <2>3. k - 1 \in Places' /\ Held(k - 1)' = Action("tx", q)
    BY <2>0, <2>1, <2>2 DEF Places, Held
  <2>4. ASSUME NEW l \in Places', l >= k - 1
        PROVE  l + 1 \in Places /\ l + 1 >= k /\ Held(l)' = Held(l + 1)
    BY <2>0, <2>1, <2>2, <2>4 DEF Places, Held
  <2>5. Clear(k - 1, P)'
    BY <2>4 DEF Clear
  <2> QED BY <2>3, <2>5
<1> QED BY <1>1, <1>2, <1>3 DEF Sending, Send

\* Where the way of q has not changed.
LEMMA PacketStays ==
  ASSUME QueueType, NEW q \in Packets, PacketOK(q),
         q \in Good' => /\ q \in Good /\ Settled(q)' /\ Ahead(q)' \subseteq Ahead(q)
                        /\ Good \intersect Ahead(q)' \subseteq Good',
         NEW S, Sending(S),
         \A p \in Ahead(q)' : Action("tx", p) \notin S,
         \/ hand' = hand \/ hand # Action("tx", q)
         \/ \E p \in Ahead(q) : PacketOK(p),
         ~FreeAll, phase' # "stopped"
  PROVE  PacketOK(q)'
<1> SUFFICES ASSUME q \in Good'
             PROVE  /\ Settled(q)' /\ Ahead(q)' \subseteq Good'
                    /\ \E m \in Places' : Held(m)' = Action("tx", q) /\ Clear(m, Ahead(q))'
  BY DEF PacketOK
<1>0. /\ q \in Good /\ Settled(q)' /\ Ahead(q)' \subseteq Ahead(q)
      /\ Good \intersect Ahead(q)' \subseteq Good'
  OBVIOUS
<1>1. PICK k \in Places : Held(k) = Action("tx", q) /\ Clear(k, Ahead(q))
  BY <1>0 DEF PacketOK
<1>2. Ahead(q) \subseteq Good
  BY <1>0 DEF PacketOK
<1>3. PICK P \in SUBSET Packets : P = Ahead(q)'
  BY DEF Ahead
<1>4. Clear(k, P)
  BY <1>0, <1>1, <1>3 DEF Clear
<1>5. hand' = hand \/ k # 0
  <2> SUFFICES ASSUME hand' # hand, k = 0 PROVE FALSE
    OBVIOUS
  <2>1. hand = Action("tx", q)
    BY <1>1 DEF Held
  <2>2. PICK p \in Ahead(q) : PacketOK(p)
    BY <2>1
  <2>3. PICK j \in Places : Held(j) = Action("tx", p)
    BY <1>2, <2>2 DEF PacketOK
  <2>4. j >= 0
    BY TypedQueue, QueueLength DEF Places
  <2> QED BY <1>1, <2>2, <2>3, <2>4 DEF Clear
<1>6. PICK m \in Places' : Held(m)' = Action("tx", q) /\ Clear(m, P)'
  <2>1. \A p \in P : Action("tx", p) \notin S
    BY <1>3
  <2> QED BY <1>1, <1>4, <1>5, <2>1, PlaceAfter
<1>7. Clear(m, Ahead(q))'
  BY <1>3, <1>6 DEF Clear
<1> QED BY <1>0, <1>2, <1>6, <1>7

\* What a step may do to the packets, and who does it.
LEMMA PacketSteps ==
  ASSUME TimerType, [Next]_vars
  PROVE  \/ /\ UNCHANGED <<tx, due, queued, overtaken>>
            /\ timer' = timer \/ timer'.at # "packets"
            /\ hand' = hand \/ hand.type # "tx"
            /\ ~TimerPacket
         \/ /\ timer' = timer /\ timer.at # "packets" /\ (hand' = hand \/ hand.type # "tx")
            /\ \E gone : Replan(gone)
         \/ TimerStart \/ TimerPacket \/ PacketDue \/ TxHandle \/ FreeAll
<1> USE DEF txVars
<1>0. timer \in TimerRecord
  BY DEF TimerType
<1>1. CASE Timer
  <2>1. CASE TimerSearches
    <3>1. timer.at # "packets" /\ UNCHANGED <<tx, due, queued, overtaken, hand>>
      BY <2>1 DEF TimerSearches, Called
    <3>2. timer' = Idle \/ timer' = [Idle EXCEPT !.at = "searches", !.todo = listed]
      BY <2>1 DEF TimerSearches
    <3>3. timer'.at # "packets"
      <4>1. CASE timer' = Idle
        BY <4>1 DEF Idle
      <4>2. CASE timer' = [Idle EXCEPT !.at = "searches", !.todo = listed]
        <5>1. timer'.at = "searches"
          BY <4>2 DEF Idle
        <5> QED BY <5>1
      <4> QED BY <3>2, <4>1, <4>2
    <3> QED BY <3>1, <3>3 DEF TimerPacket
  <2>2. CASE TimerSkip \/ TimerSend \/ TimerEnd
    <3>1. timer.at # "packets" /\ UNCHANGED <<tx, due, queued, overtaken, hand>> /\ NextSearch
      BY <2>2 DEF TimerSkip, TimerSend, TimerEnd
    <3>2. timer'.at # "packets"
      <4>1. timer' = Idle \/ timer' = [timer EXCEPT !.at = "searches", !.todo = Tail(@)]
        BY <3>1 DEF NextSearch
      <4>2. Idle.at # "packets"
        BY DEF Idle
      <4> QED BY <1>0, <4>1, <4>2 DEF TimerRecord
    <3> QED BY <3>1, <3>2 DEF TimerPacket
  <2>3. CASE TimerExpire
    <3>1. timer.at # "packets" /\ UNCHANGED <<tx, due, queued, overtaken, hand>>
          /\ timer' = [timer EXCEPT !.at = "end"]
      BY <2>3 DEF TimerExpire
    <3>2. timer'.at # "packets"
      BY <1>0, <3>1 DEF TimerRecord
    <3> QED BY <3>1, <3>2 DEF TimerPacket
  <2> QED BY <1>1, <2>1, <2>2, <2>3 DEF Timer
<1>2. CASE Execute
  <2>1. CASE RxAnswer \/ RxNews \/ SearchAdd \/ SearchSend \/ SearchEnd
    BY <2>1 DEF RxAnswer, RxNews, SearchAdd, SearchSend, SearchEnd, Executes
  <2>2. CASE BrowseAdd \/ BrowseSync \/ BrowseEnd
    BY <2>2 DEF BrowseAdd, BrowseSync, BrowseEnd, Executes
  <2>3. CASE HostnameSet \/ RxQuery
    BY <2>3 DEF HostnameSet, RxQuery, Executes, TimerType
  <2> QED BY <1>2, <2>1, <2>2, <2>3 DEF Execute
<1>3. CASE Application
  <2>1. CASE Change \/ BrowseDelete
    BY <2>1 DEF Change, BrowseDelete, TimerType
  <2>2. CASE TaskStop
    BY <2>2 DEF TaskStop, Idle
  <2>3. ASSUME NEW t \in Searches, QueryNew(t) \/ QueryReturn(t) \/ DeleteCheck(t) \/ DeleteFree(t)
        PROVE  UNCHANGED <<tx, due, queued, overtaken, timer, hand>>
    BY <2>3 DEF QueryNew, QueryReturn, DeleteCheck, DeleteFree
  <2>4. ASSUME NEW b \in Browses, BrowseNew(b) PROVE UNCHANGED <<txVars, timer, hand>>
    BY <2>4 DEF BrowseNew
  <2>5. ASSUME NEW c \in Callers, HostnameCall(c) \/ HostnameReturn(c)
        PROVE  UNCHANGED <<txVars, timer, hand>>
    BY <2>5 DEF HostnameCall, HostnameReturn
  <2> QED BY <1>3, <2>1, <2>2, <2>3, <2>4, <2>5 DEF Application
<1>4. CASE Receive \/ RxArrive \/ WrapNears \/ TickWraps \/ UNCHANGED vars
  BY <1>4 DEF Receive, RxArrive, WrapNears, TickWraps, None, Action, vars
<1>5. ASSUME NEW s \in Searches, Timeout(s) PROVE UNCHANGED <<txVars, timer, hand>>
  BY <1>5 DEF Timeout
<1> QED BY <1>1, <1>2, <1>3, <1>4, <1>5 DEF Next

\* An action that is no packet's is in nobody's way.
LEMMA OtherSending ==
  ASSUME TxType, TimerType, [Next]_vars, ~TimerPacket
  PROVE  \E S : Sending(S) /\ \A p : Action("tx", p) \notin S
<1>0. \A t, o : Action(t, o).type = t
  BY DEF Action
<1>1. \A p : Action("tx", p) \notin Others
  BY <1>0 DEF Others
<1>2. CASE Sending(Others)
  BY <1>1, <1>2
<1>3. ASSUME NEW o, NEW t \in {"search_add", "search_end", "browse_add", "browse_sync"},
             Sending({Action(t, o)})
      PROVE  \E S : Sending(S) /\ \A p : Action("tx", p) \notin S
  <2>1. \A p : Action("tx", p) \notin {Action(t, o)}
    BY <1>0
  <2> QED BY <1>3, <2>1
<1> QED BY <1>2, <1>3, SendingWhat

\* The loop of the timer starts behind all packets that are flagged and not overtaken.
LEMMA StartSettled ==
  ASSUME TxType, TimerType, NEW q \in Good, PacketOK(q), TimerStart
  PROVE  Settled(q)'
<1>1. timer'.at = "packets" /\ timer'.pos = FirstUnqueued /\ tx' = tx
  BY DEF TimerStart, TimerType, TimerRecord, txVars
<1>2. FirstUnqueued \in 1 .. Len(tx) /\ tx[FirstUnqueued] \notin queued
  BY Unqueued DEF TimerStart, Ready, TxType
<1>3. DOMAIN tx = 1 .. Len(tx) /\ Len(tx) \in Nat
  BY LenProperties DEF TxType
<1>4. PICK i \in 1 .. Len(tx) : tx[i] = q
  BY <1>3 DEF Good, TxType, ToSet
<1>5. q \in queued /\ Good \subseteq queued
  BY DEF Good
<1>6. ASSUME NEW j \in 1 .. Len(tx), j < i PROVE tx[j] \in queued
  <2>1. tx[j] \in Ahead(q)
    BY <1>4, <1>6 DEF Ahead, Precedes, TxType
  <2> QED BY <1>5, <2>1 DEF PacketOK
<1>7. i < FirstUnqueued
  <2> SUFFICES ASSUME ~(i < FirstUnqueued) PROVE FALSE
    OBVIOUS
  <2>1. i # FirstUnqueued
    BY <1>2, <1>4, <1>5
  <2>2. FirstUnqueued < i
    BY <1>2, <1>3, <1>4, <2>1
  <2> QED BY <1>2, <1>6, <2>2
<1>8. i \in 1 .. FirstUnqueued - 1
  BY <1>2, <1>3, <1>4, <1>7
<1> QED BY <1>1, <1>4, <1>8 DEF Settled

\* The loop of the timer hands a packet over, or goes past it.
LEMMA PacketFlagged ==
  ASSUME QueueType, TxType, TimerType, NEW q \in Packets, PacketOK(q), TimerPacket,
         phase' # "stopped"
  PROVE  PacketOK(q)'
<1> USE TypedQueue
<1> DEFINE p0 == tx[timer.pos]
           a0 == Action("tx", p0)
<1>1. /\ timer.at = "packets" /\ timer.pos \in 1 .. Len(tx) /\ Len(tx) \in Nat
      /\ UNCHANGED <<tx, hand, phase>> /\ queued' = Flagged(p0) /\ Send(a0)
  BY DEF TimerPacket, TimerType, TxType
<1>2. p0 \in Packets /\ DOMAIN tx = 1 .. Len(tx)
  BY <1>1 DEF TxType
<1>3. \A i, j \in 1 .. Len(tx) : tx[i] = tx[j] => i = j
  BY <1>1, <1>2 DEF TxType, IsInjective
<1>4. Ahead(q)' = Ahead(q)
  BY <1>1 DEF Ahead, Precedes
<1>5. \/ timer'.at = "packets" /\ timer'.pos = timer.pos + 1
      \/ timer'.at = "between"
  BY <1>1 DEF TimerPacket, TimerType, TimerRecord, Idle
<1> DEFINE behind == \E j \in 1 .. timer.pos - 1 : tx[j] \notin queued \ overtaken
<1>6. overtaken' = IF Room /\ behind THEN overtaken \union {p0} ELSE overtaken \ {p0}
  BY DEF TimerPacket
<1>7. tx[timer.pos] = p0
  OBVIOUS
<1> HIDE DEF p0
<1>8. \A p : p # p0 => (p \in Good' <=> p \in Good)
  BY <1>1, <1>6 DEF Good, Flagged
<1>9. CASE q # p0
  <2>1. CASE q \notin Good
    BY <1>8, <1>9, <2>1 DEF PacketOK
  <2>2. CASE q \in Good
    <3>1. PICK i \in 1 .. timer.pos - 1 : tx[i] = q
      BY <1>1, <2>2 DEF PacketOK, Settled
    <3>2. i \in 1 .. timer.pos /\ i \in 1 .. Len(tx) /\ i < timer.pos
      BY <1>1, <3>1
    <3>3. Settled(q)'
      BY <1>1, <1>5, <3>1, <3>2 DEF Settled
    <3>4. ASSUME p0 \in Ahead(q) PROVE FALSE
      <4>1. PICK a \in 1 .. Len(tx), b \in 1 .. Len(tx) : a < b /\ tx[a] = p0 /\ tx[b] = q
        BY <3>4 DEF Ahead, Precedes
      <4>2. b = i /\ a = timer.pos
        BY <1>1, <1>3, <1>7, <3>1, <3>2, <4>1
      <4> QED BY <1>1, <3>2, <4>1, <4>2
    <3>5. Good \intersect Ahead(q)' \subseteq Good'
      BY <1>4, <1>8, <3>4
    <3>6. \A p \in Ahead(q)' : Action("tx", p) \notin {a0}
      BY <1>4, <3>4, SameAction
    <3>7. Sending({a0})
      BY <1>1 DEF Sending
    <3>8. ~FreeAll
      BY <1>1 DEF FreeAll, TimerPacket
    <3> HIDE DEF a0
    <3> QED BY <1>1, <1>4, <2>2, <3>3, <3>5, <3>6, <3>7, <3>8, PacketStays
  <2> QED BY <2>1, <2>2
<1>10. CASE q = p0
  <2> SUFFICES ASSUME q \in Good' PROVE PacketOK(q)'
    BY DEF PacketOK
  <2>1. Room /\ ~behind
    BY <1>1, <1>6, <1>10 DEF Good, Flagged
  <2>2. actions' = Append(actions, a0)
    BY <1>1, <2>1 DEF Send
  <2>3. /\ Len(actions) \in Nat /\ Len(actions') = Len(actions) + 1
        /\ \A i \in 1 .. Len(actions) : actions'[i] = actions[i]
        /\ actions'[Len(actions) + 1] = a0
    BY <2>2, Appended
  <2>4. PICK k \in Nat : k = Len(actions) + 1
    BY <2>3
  <2>5. k \in Places' /\ Held(k)' = Action("tx", q)
    BY <1>1, <1>10, <2>3, <2>4 DEF Places, Held
  <2>6. ASSUME NEW p \in Ahead(q) PROVE p # q /\ p \in Good'
    <3>1. PICK a \in 1 .. Len(tx), b \in 1 .. Len(tx) : a < b /\ tx[a] = p /\ tx[b] = q
      BY DEF Ahead, Precedes
    <3>2. b = timer.pos
      BY <1>1, <1>3, <1>7, <1>10, <3>1
    <3>3. a \in 1 .. timer.pos - 1 /\ a # timer.pos
      BY <1>1, <3>1, <3>2
    <3>4. p # p0
      BY <1>1, <1>3, <1>7, <3>1, <3>3
    <3>5. p \in Good
      BY <2>1, <3>1, <3>3 DEF Good
    <3> QED BY <1>8, <1>10, <3>4, <3>5
  <2>7. ASSUME NEW l \in Places', l >= k PROVE l = k
    BY <2>3, <2>4, <2>7 DEF Places
  <2>8. Clear(k, Ahead(q))'
    <3>1. ASSUME NEW p \in Ahead(q), NEW l \in Places', l >= k PROVE Held(l)' # Action("tx", p)
      BY <2>5, <2>6, <2>7, <3>1, SameAction, Zenon
    <3> QED BY <1>4, <3>1 DEF Clear
  <2>9. Settled(q)'
    BY <1>1, <1>5, <1>7, <1>10 DEF Settled
  <2>10. Ahead(q)' \subseteq Good'
    BY <1>4, <2>6
  <2> QED BY <2>5, <2>8, <2>9, <2>10 DEF PacketOK
<1> QED BY <1>9, <1>10

\* Every step keeps what is known of the packets.
LEMMA PacketStep ==
  ASSUME QueueType, TxType, TimerType, PacketsKnown, [Next]_vars
  PROVE  PacketsKnown'
<1> SUFFICES ASSUME phase' \in {"running", "stopping"}, NEW q \in Packets PROVE PacketOK(q)'
  BY DEF PacketsKnown
<1>0. ~FreeAll /\ phase' # "stopped"
  BY DEF FreeAll
<1>1. phase \in {"running", "stopping"}
  <2>1. CASE Calm \/ TimerSends
    BY <2>1 DEF Calm, TimerSends
  <2>2. CASE Receive \/ TaskStop \/ HostnameSet
    BY <2>2 DEF Receive, TaskStop, Call, HostnameSet
  <2>3. ASSUME NEW c \in Callers, HostnameCall(c) \/ HostnameReturn(c) PROVE UNCHANGED phase
    BY <2>3 DEF HostnameCall, HostnameReturn
  <2> QED BY <1>0, <2>1, <2>2, <2>3, StepKinds
<1>2. \A p \in Packets : PacketOK(p)
  BY <1>1 DEF PacketsKnown
<1>3. ASSUME ~TimerPacket PROVE \E S : Sending(S) /\ \A p : Action("tx", p) \notin S
  BY <1>3, OtherSending
<1>4. \A p : Action("tx", p).type = "tx"
  BY DEF Action
<1>5. ASSUME UNCHANGED <<tx, due, queued, overtaken>>, ~TimerPacket,
             q \in Good => Settled(q)',
             hand' = hand \/ hand.type # "tx"
      PROVE  PacketOK(q)'
  <2>1. PICK S : Sending(S) /\ \A p : Action("tx", p) \notin S
    BY <1>3, <1>5
  <2>2. Good' = Good /\ Ahead(q)' = Ahead(q)
    BY <1>5 DEF Good, Ahead, Precedes
  <2>3. hand' = hand \/ hand # Action("tx", q)
    BY <1>4, <1>5
  <2> QED BY <1>0, <1>2, <1>5, <2>1, <2>2, <2>3, PacketStays
<1>6. CASE /\ UNCHANGED <<tx, due, queued, overtaken>>
           /\ timer' = timer \/ timer'.at # "packets"
           /\ hand' = hand \/ hand.type # "tx"
           /\ ~TimerPacket
  <2>1. q \in Good => Settled(q)'
    BY <1>2, <1>6 DEF PacketOK, Settled
  <2> QED BY <1>5, <1>6, <2>1
<1>7. CASE TimerStart
  <2>1. q \in Good => Settled(q)'
    BY <1>2, <1>7, StartSettled
  <2>2. UNCHANGED <<tx, due, queued, overtaken>> /\ hand' = hand
    BY <1>7 DEF TimerStart, txVars
  <2>3. ~TimerPacket
    BY <1>7 DEF TimerStart, Called, TimerPacket
  <2> QED BY <1>5, <2>1, <2>2, <2>3
<1>8. ASSUME NEW gone, Replan(gone), timer' = timer, timer.at # "packets",
             hand' = hand \/ hand.type # "tx"
      PROVE  PacketOK(q)'
  <2>1. PICK S : Sending(S) /\ \A p : Action("tx", p) \notin S
    BY <1>3, <1>8 DEF TimerPacket
  <2>2. q \in Good' => /\ q \in Good /\ Ahead(q)' \subseteq Ahead(q)
                       /\ Good \intersect Ahead(q)' \subseteq Good'
    BY <1>8, ReplanKeeps
  <2>3. Settled(q)'
    BY <1>8 DEF Settled
  <2>4. hand' = hand \/ hand # Action("tx", q)
    BY <1>4, <1>8
  <2> QED BY <1>0, <1>2, <2>1, <2>2, <2>3, <2>4, PacketStays
<1>9. CASE PacketDue /\ ~TimerPacket
  <2>1. PICK S : Sending(S) /\ \A p : Action("tx", p) \notin S
    BY <1>3, <1>9
  <2>2. UNCHANGED <<tx, queued, overtaken, timer, hand>>
    BY <1>9 DEF PacketDue
  <2>3. Good' = Good /\ Ahead(q)' = Ahead(q)
    BY <2>2 DEF Good, Ahead, Precedes
  <2>4. q \in Good => Settled(q)'
    BY <1>2, <2>2 DEF PacketOK, Settled
  <2> QED BY <1>0, <1>2, <2>1, <2>2, <2>3, <2>4, PacketStays
<1>10. CASE TxHandle
  <2>1. /\ timer.at # "packets" /\ timer' = timer /\ hand' = None
        /\ hand = Action("tx", hand.of) /\ hand.of \in Packets
    BY <1>10, OfTypes DEF TxHandle, Executes, Executed, TimerType, QueueType
  <2>2. PICK S : Sending(S) /\ \A p : Action("tx", p) \notin S
    BY <1>3, <2>1 DEF TimerPacket
  <2>3. Settled(q)'
    BY <2>1 DEF Settled
  <2>4. CASE Expected(hand.of)
    <3>1. /\ Good' \subseteq Good \ {hand.of}
          /\ \A r \in Good' : /\ Ahead(r)' \subseteq Ahead(r)
                              /\ Good \intersect Ahead(r)' \subseteq Good'
      BY <1>10, <2>4, HandleKeeps
    <3>2. CASE q \notin Good'
      BY <3>2 DEF PacketOK
    <3>3. CASE q \in Good'
      <4>1. hand # Action("tx", q)
        BY <2>1, <3>1, <3>3, SameAction
      <4> QED BY <1>0, <1>2, <2>2, <2>3, <3>1, <4>1, PacketStays
    <3> QED BY <3>2, <3>3
  <2>5. CASE ~Expected(hand.of)
    <3>1. UNCHANGED <<tx, due, queued, overtaken>>
      BY <1>10, <2>5 DEF TxHandle, txVars
    <3>2. Good' = Good /\ Ahead(q)' = Ahead(q)
      BY <3>1 DEF Good, Ahead, Precedes
    <3>3. CASE q \notin Good
      BY <3>2, <3>3 DEF PacketOK
    <3>4. CASE q \in Good
      <4>1. ASSUME hand = Action("tx", q) PROVE \E p \in Ahead(q) : PacketOK(p)
        <5>1. q = hand.of
          BY <2>1, <4>1, SameAction
        <5>2. DOMAIN tx = 1 .. Len(tx) /\ Len(tx) \in Nat
          BY LenProperties DEF TxType
        <5>3. PICK i \in 1 .. Len(tx) : tx[i] = q
          BY <3>4, <5>2 DEF Good, TxType, ToSet
        <5>4. i # 1 /\ 1 \in 1 .. Len(tx) /\ tx[1] \in Packets
          <6>1. tx # <<>> /\ Head(tx) = tx[1]
            BY <5>2, <5>3 DEF TxType
          <6>2. q \in queued
            BY <3>4 DEF Good
          <6> QED BY <2>5, <5>1, <5>2, <5>3, <6>1, <6>2 DEF Expected, TxType
        <5>5. tx[1] \in Ahead(q)
          BY <5>2, <5>3, <5>4 DEF Ahead, Precedes
        <5> QED BY <1>2, <5>4, <5>5
      <4> QED BY <1>0, <1>2, <2>2, <2>3, <3>2, <4>1, PacketStays
    <3> QED BY <3>3, <3>4
  <2> QED BY <2>4, <2>5
<1>11. CASE TimerPacket
  BY <1>0, <1>2, <1>11, PacketFlagged
<1> QED BY <1>0, <1>6, <1>7, <1>8, <1>9, <1>10, <1>11, PacketSteps

-----------------------------------------------------------------------------
(* The invariant.                                                          *)

ServiceInv ==
  /\ QueueType /\ TxType /\ TimerType /\ SearchType /\ RestType
  /\ StopInv /\ SearchKnown /\ BrowseKnown /\ PacketsKnown

\* The invariant holds when mdns_init has created the task.
LEMMA ServiceInit == Init => ServiceInv
<1> SUFFICES ASSUME Init PROVE ServiceInv
  OBVIOUS
<1> USE DEF Init
<1>0. /\ \A E : <<>> \in Seq(E)
      /\ Len(<<>>) = 0 /\ IsInjective(<<>>) /\ ToSet(<<>>) = {}
  BY DEF IsInjective, ToSet
<1>1. QueueLen \in Nat /\ MaxCalls \in Nat
  BY ServiceAssumption
<1>a. QueueType
  BY <1>0, <1>1 DEF QueueType
<1>2. RestType
  <2>1. calls \in 0 .. MaxCalls
    BY <1>1
  <2>2. browse \in [Browses -> {"none", "init", "running", "freed"}]
    OBVIOUS
  <2>3. waiting \subseteq Callers /\ sema \in BOOLEAN /\ lock = "free" /\ phase = "running"
    OBVIOUS
  <2> QED BY <2>1, <2>2, <2>3 DEF RestType
<1>3. TxType
  BY <1>0 DEF TxType
<1>4. TimerType /\ SearchType
  BY <1>0 DEF TimerType, TimerRecord, SearchType, Idle
<1>5. \A a : a # None => ~Sent(a) /\ Once(a)
  BY <1>0 DEF Sent, Once, Held, Places
<1>6. SearchKnown
  <2>1. ASSUME NEW s \in Searches PROVE SearchOK(s)
    <3>1. ~Sent(Action("search_add", s)) /\ Once(Action("search_add", s))
      BY <1>5, NotNone
    <3>2. ~Sent(Action("search_end", s)) /\ Once(Action("search_end", s))
      BY <1>5, NotNone
    <3> QED BY <1>0, <3>1, <3>2 DEF SearchOK
  <2> QED BY <2>1 DEF SearchKnown
<1>7. BrowseKnown
  <2>1. ASSUME NEW b \in Browses PROVE BrowseOK(b)
    <3>1. ~Sent(Action("browse_add", b)) /\ Once(Action("browse_add", b))
      BY <1>5, NotNone
    <3>2. ~Sent(Action("browse_sync", b))
      BY <1>5, NotNone
    <3> QED BY <3>1, <3>2 DEF BrowseOK
  <2> QED BY <2>1 DEF BrowseKnown
<1>8. PacketsKnown
  BY DEF PacketsKnown, PacketOK, Good
<1> QED BY <1>a, <1>2, <1>3, <1>4, <1>6, <1>7, <1>8, StopInit DEF ServiceInv

\* The invariant is inductive.
LEMMA ServiceStep == ServiceInv /\ [Next]_vars => ServiceInv'
<1> SUFFICES ASSUME ServiceInv, [Next]_vars PROVE ServiceInv'
  OBVIOUS
<1> USE DEF ServiceInv
<1>1. QueueType' /\ RestType'
  BY QueueStepTyped, RestTyped
<1>2. TxType'
  BY TxStep DEF TimerType
<1>3. TimerType' /\ SearchType'
  BY TimerTyped, SearchTyped
<1>4. StopInv'
  BY StopStep
<1>5. SearchKnown' /\ BrowseKnown'
  BY SearchStep, BrowseStep
<1>6. PacketsKnown'
  BY PacketStep
<1> QED BY <1>1, <1>2, <1>3, <1>4, <1>5, <1>6

\* Every variable holds what its type allows: the action queue keeps its length, a packet
\* is in the transmit queue once, only due ones are flagged, and the timer holds the lock
\* exactly inside its loops (mdns.c:5349-5445).
THEOREM ServiceTyped == Spec => []TypeOK
<1>1. ServiceInv => TypeOK
  BY DEF ServiceInv, QueueType, TxType, TimerType, SearchType, RestType, TypeOK
<1> QED BY <1>1, ServiceInit, ServiceStep, PTL DEF Spec

\* A packet flagged as queued has its action on the way, unless another gets in front of
\* it: one that the action queue had refused, past which the loop of _mdns_scheduler_run
\* went (mdns.c:5364-5381), or one the wrap of the clock puts there (mdns.c:1595). It
\* holds however often packets are removed, and their memory is reused.
THEOREM ActionsPending == Spec => []QueuedHasAction
<1>1. ServiceInv => QueuedHasAction
  <2> SUFFICES ASSUME ServiceInv, phase \in {"running", "stopping"}, NEW p \in queued,
                      p \notin overtaken
               PROVE  Pending(Action("tx", p))
    BY DEF QueuedHasAction
  <2>1. p \in Packets
    <3>1. p \in ToSet(tx) /\ DOMAIN tx = 1 .. Len(tx) /\ tx \in Seq(Packets)
      BY LenProperties DEF ServiceInv, TxType
    <3> QED BY <3>1 DEF ToSet
  <2>2. PacketOK(p) /\ p \in Good
    BY <2>1 DEF ServiceInv, PacketsKnown, Good
  <2>3. Sent(Action("tx", p))
    BY <2>2 DEF PacketOK, Sent
  <2> QED BY <2>3, SentPending, TypedQueue DEF ServiceInv
<1> QED BY <1>1, ServiceInit, ServiceStep, PTL DEF Spec

\* What a pending END or SYNC refers to is alive, and a freed search is in no list, with
\* the three exceptions PendingAlive names (mdns.c:4653, 6802, 7390).
THEOREM NothingFreedPending == Spec => []PendingAlive
<1>1. ServiceInv => PendingAlive
  <2> SUFFICES ASSUME ServiceInv, phase # "freed" PROVE PendingAlive
    BY DEF PendingAlive
  <2>0. AnyQueue
    BY TypedQueue DEF ServiceInv
  <2>1. ASSUME NEW s \in Searches, search[s] = "freed"
        PROVE  \/ s \notin ToSet(listed) /\ ~Pending(Action("search_end", s))
               \/ s \in hasty \union late
    BY <2>0, <2>1, SentPending DEF ServiceInv, SearchKnown, SearchOK
  <2>2. ASSUME NEW b \in Browses, browse[b] = "freed", Pending(Action("browse_sync", b))
        PROVE  b \in crossed
    BY <2>0, <2>2, SentPending DEF ServiceInv, BrowseKnown, BrowseOK
  <2> QED BY <2>1, <2>2 DEF PendingAlive
<1> QED BY <1>1, ServiceInit, ServiceStep, PTL DEF Spec

\* A packet is sent only when it is due, whatever stale actions are in the queue
\* (mdns.c:5279).
THEOREM DueSent == Spec => SentWhenDue
<1>1. ServiceInv /\ [Next]_vars =>
         [hand.type = "tx" /\ hand' = None /\ tx' # tx => hand.of \in due]_vars
  <2> SUFFICES ASSUME ServiceInv, [Next]_vars, hand.type = "tx", hand' = None, tx' # tx
               PROVE  hand.of \in due
    OBVIOUS
  <2>0. TxType /\ TimerType
    BY DEF ServiceInv
  <2>1. hand' # hand
    BY DEF None, Action
  <2>2. TxHandle \/ FreeAll
    BY <2>0, <2>1, PacketSteps DEF TimerPacket, TimerStart, PacketDue, txVars
  <2>3. ~FreeAll
    BY <2>1 DEF FreeAll
  <2>4. TxHandle /\ Expected(hand.of)
    BY <2>2, <2>3 DEF TxHandle, txVars
  <2> QED BY <2>0, <2>4, HandleKeeps
<1> QED BY <1>1, ServiceInit, ServiceStep, PTL DEF Spec, SentWhenDue
=============================================================================
