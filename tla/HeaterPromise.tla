--------------------------- MODULE HeaterPromise ---------------------------
(***************************************************************************)
(* What a heating channel promises (ADR-008), without the edge trigger,    *)
(* the demand, the scripts or the settings that bring it about: idle, then *)
(* a guaranteed phase of at least MinGuarantee ticks, then a conditional   *)
(* phase, and never more than Limit ticks without a fresh start.  Only     *)
(* disabling the system or a new session takes the guarantee back.         *)
(***************************************************************************)
EXTENDS Integers

CONSTANTS Channels, MinGuarantee, Limit

VARIABLES enabled, session, phase, run

vars == <<enabled, session, phase, run>>

On(c) == phase[c] # "idle"

Init ==
  /\ enabled \in BOOLEAN /\ session \in BOOLEAN
  /\ phase = [c \in Channels |-> "idle"] /\ run = [c \in Channels |-> 0]

\* A (re)start begins every channel's guarantee afresh.
Start ==
  /\ enabled
  /\ phase' = [c \in Channels |-> "floor"] /\ run' = [c \in Channels |-> 0]
  /\ UNCHANGED <<enabled, session>>

Follow(c) ==
  /\ phase[c] = "floor" /\ run[c] >= MinGuarantee
  /\ phase' = [phase EXCEPT ![c] = "follow"]
  /\ UNCHANGED <<enabled, session, run>>

Stop(c) ==
  /\ On(c) /\ run[c] >= MinGuarantee
  /\ phase' = [phase EXCEPT ![c] = "idle"] /\ run' = [run EXCEPT ![c] = 0]
  /\ UNCHANGED <<enabled, session>>

Elapse ==
  /\ \A c \in Channels : On(c) => run[c] < Limit
  /\ run' = [c \in Channels |-> IF On(c) THEN run[c] + 1 ELSE 0]
  /\ UNCHANGED <<enabled, session, phase>>

Enable ==
  /\ ~enabled /\ enabled' = TRUE
  /\ UNCHANGED <<session, phase, run>>

AllOff ==
  /\ phase' = [c \in Channels |-> "idle"] /\ run' = [c \in Channels |-> 0]

Disable == enabled' = FALSE /\ AllOff /\ UNCHANGED session

NewSession == session' # session /\ {session', enabled'} \subseteq BOOLEAN /\ AllOff

Next ==
  \/ Start \/ Elapse \/ Enable \/ Disable \/ NewSession
  \/ \E c \in Channels : Follow(c) \/ Stop(c)

Spec == Init /\ [][Next]_vars
=============================================================================
