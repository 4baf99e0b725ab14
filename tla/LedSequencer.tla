---------------------------- MODULE LedSequencer ----------------------------
(***************************************************************************)
(* The led_sequencer component: one LED, a list of patterns, callers that  *)
(* switch patterns on and off at any time, and a state machine that a loop *)
(* pass advances when its deadline has come.  "default" patterns play one  *)
(* after the other in declaration order (a frame); an active "continuous"  *)
(* pattern overrides them.                                                 *)
(*                                                                         *)
(* The clock is millis(): it wraps at ClockSize (2^32 in the code) and so  *)
(* does a deadline computed from it.  Loop passes are 1..MaxPass apart.    *)
(* Patterns are numbered from 1 here, from 0 in the code.                  *)
(***************************************************************************)
EXTENDS Integers, Sequences, FiniteSetsExt

CONSTANTS
  Patterns,          (* [continuous, sequence of [on, off, repeat]]         *)
  InterPatternGap, EndOfFrameGap, IdlePoll,
  ClockSize, MaxPass

P == DOMAIN Patterns
Durations(p) == {Patterns[p].sequence[i].on : i \in DOMAIN Patterns[p].sequence}
  \union {Patterns[p].sequence[i].off : i \in DOMAIN Patterns[p].sequence}
Waits == {InterPatternGap, EndOfFrameGap, IdlePoll} \union UNION {Durations(p) : p \in P}

\* The limits of STEP_SCHEMA, and at least one step in every pattern, as all
\* the configured patterns have.
Steps == [on : Nat \ {0}, off : Nat, repeat : 1..255]
ASSUME PatternAssumption ==
  Patterns \in Seq([continuous : BOOLEAN, sequence : Seq(Steps) \ {<<>>}])

\* A deadline lies less than half the clock ahead.
ASSUME ClockAssumption ==
  /\ {InterPatternGap, EndOfFrameGap, IdlePoll} \subseteq Nat
  /\ MaxPass \in Nat \ {0} /\ ClockSize \in Nat
  /\ \A ms \in Waits : 2 * (ms + MaxPass) < ClockSize

VARIABLES
  active,                       (* per pattern: set_pattern()               *)
  phase, pat_idx, step_idx, pulse_n, deadline,
  pin,                          (* the LED                                  *)
  now                           (* millis() at the last loop pass           *)

\* History, read by properties only.
VARIABLES
  left,                         (* time truly left to the deadline          *)
  blinks,                       (* pulses shown of the pattern in play      *)
  played,                       (* patterns played in this frame            *)
  throughout                    (* active since the frame began             *)

position == <<phase, pat_idx, step_idx, pulse_n, deadline, pin>>
frame    == <<blinks, played, throughout>>
vars     == <<active, position, now, left, frame>>

InPlay == phase \in {"ON", "OFF"}

Defaults == {p \in P : ~Patterns[p].continuous /\ active[p]}
Overrides == {p \in P : Patterns[p].continuous /\ active[p]}
DefaultsFrom(i) == {p \in Defaults : p >= i}       \* find_next_active_default_

-----------------------------------------------------------------------------
(* setup(): LED dark, first look at the patterns after 50 ms.              *)

Init ==
  /\ active = [p \in P |-> FALSE]
  /\ phase = "IDLE" /\ pat_idx = 1 /\ step_idx = 1 /\ pulse_n = 0
  /\ now = 0 /\ deadline = IdlePoll
  /\ left = IdlePoll
  /\ pin = FALSE /\ blinks = 0 /\ played = {} /\ throughout = {}

(* The API.                                                                *)

SetPattern(p, on) ==
  /\ active' = [active EXCEPT ![p] = on]
  /\ throughout' = IF on THEN throughout ELSE throughout \ {p}
  /\ UNCHANGED <<position, now, left, blinks, played>>

ClearAll ==
  /\ active' = [p \in P |-> FALSE]
  /\ throughout' = {}
  /\ UNCHANGED <<position, now, left, blinks, played>>

-----------------------------------------------------------------------------
(* advance_(), at the time now'.                                           *)

Wait(ms) == deadline' = (now' + ms) % ClockSize /\ left' = ms
Step(p, i) == Patterns[p].sequence[i]

\* LED on for one pulse of step i of pattern p.
Pulse(p, i, n) ==
  /\ phase' = "ON" /\ pin' = TRUE
  /\ pat_idx' = p /\ step_idx' = i /\ pulse_n' = n
  /\ Wait(Step(p, i).on)

BeginKeepsCount(p) == Pulse(p, 1, pulse_n) /\ blinks' = 1   \* mutant: no reset
Begin(p) == Pulse(p, 1, 0) /\ blinks' = 1

Dark(ph, ms) == phase' = ph /\ pin' = FALSE /\ Wait(ms)

PulseOff ==
  /\ phase = "ON"
  /\ Dark("OFF", Step(pat_idx, step_idx).off)
  /\ UNCHANGED <<pat_idx, step_idx, pulse_n, frame>>

OnePulseMore == pulse_n >= Step(pat_idx, step_idx).repeat    \* mutant: <= for <
LastPulse == pulse_n + 1 >= Step(pat_idx, step_idx).repeat
LastStep  == step_idx = Len(Patterns[pat_idx].sequence)

\* The next pulse of the step, or the first of the next step.
NextPulse ==
  /\ phase = "OFF"
  /\ \/ ~LastPulse /\ Pulse(pat_idx, step_idx, (pulse_n + 1) % 256)
     \/ LastPulse /\ ~LastStep /\ Pulse(pat_idx, step_idx + 1, 0)
  /\ blinks' = blinks + 1
  /\ UNCHANGED <<played, throughout>>

\* A continuous pattern: begin it unless it plays already, else advance it,
\* forever.  It ends any frame.
Override ==
  LET cont == Min(Overrides) IN
  /\ Overrides # {}
  /\ \/ ~(InPlay /\ pat_idx = cont) /\ Begin(cont) /\ played' = {} /\ throughout' = {}
     \/ InPlay /\ pat_idx = cont /\ (PulseOff \/ NextPulse)
     \/ /\ phase = "OFF" /\ pat_idx = cont /\ LastPulse /\ LastStep
        /\ Begin(cont) /\ UNCHANGED <<played, throughout>>

\* IDLE or FRAME_GAP is over, or the continuous pattern in play was switched
\* off: a new frame, if there is anything to show.
Stopped ==
  \/ phase \in {"IDLE", "FRAME_GAP"}
  \/ InPlay /\ Patterns[pat_idx].continuous

NewFrame ==
  /\ Stopped
  /\ \/ /\ Defaults # {} /\ Begin(Min(Defaults))
        /\ played' = {Min(Defaults)} /\ throughout' = Defaults
     \/ /\ Defaults = {} /\ Dark("IDLE", IdlePoll)
        /\ blinks' = 0 /\ played' = {} /\ throughout' = {}
        /\ UNCHANGED <<pat_idx, step_idx, pulse_n>>

FromStart == Defaults                           \* mutant: scan from the first
SkipsOne  == DefaultsFrom(pat_idx + 2)          \* mutant: scan one too far
Following == DefaultsFrom(pat_idx + 1)

EndFrame ==
  /\ Following = {} /\ Dark("FRAME_GAP", EndOfFrameGap)
  /\ UNCHANGED <<pat_idx, frame>>

\* INTER_GAP is over: what follows is looked up again.
NextPattern ==
  /\ phase = "INTER_GAP"
  /\ \/ /\ Following # {} /\ Begin(Min(Following))
        /\ played' = played \union {Min(Following)} /\ UNCHANGED throughout
     \/ EndFrame /\ UNCHANGED <<step_idx, pulse_n>>

\* The last pulse of a default pattern is over.  step_idx runs past the
\* sequence until the next pattern begins.
EndPattern ==
  /\ phase = "OFF" /\ LastPulse /\ LastStep
  /\ \/ /\ Following # {} /\ Dark("INTER_GAP", InterPatternGap)
        /\ UNCHANGED <<pat_idx, frame>>
     \/ EndFrame
  /\ step_idx' = step_idx + 1 /\ pulse_n' = 0

Advance ==
  \/ Override
  \/ /\ Overrides = {}
     /\ \/ NewFrame \/ NextPattern
        \/ ~Stopped /\ (PulseOff \/ NextPulse \/ EndPattern)

\* loop(): one pass, d after the one before.
Pass ==
  /\ \E d \in 1..MaxPass :
       /\ now' = (now + d) % ClockSize
       /\ \/ now' < deadline /\ UNCHANGED <<position, frame>>
             /\ left' = Max({left - d, -MaxPass})
          \/ ~(now' < deadline) /\ Advance
  /\ UNCHANGED active

Next ==
  \/ Pass \/ ClearAll
  \/ \E p \in P, on \in BOOLEAN : SetPattern(p, on)

Spec == Init /\ [][Next]_vars
FairSpec == Spec /\ WF_vars(Pass)

-----------------------------------------------------------------------------
(* Properties.                                                             *)

Phases == {"IDLE", "ON", "OFF", "INTER_GAP", "FRAME_GAP"}

\* The LED is lit in the ON phase and in no other, whichever way the state
\* machine left it (a part of TypeOK).
PinShowsPhase == pin <=> phase = "ON"

\* Every variable has its type, and while a pattern is in play the indices point
\* at one of its steps and a pulse the step has.
TypeOK ==
  /\ active \in [P -> BOOLEAN] /\ phase \in Phases /\ pin \in BOOLEAN
  /\ {now, deadline} \subseteq 0..ClockSize - 1 /\ left \in -MaxPass..ClockSize - 1
  /\ blinks \in Nat /\ played \subseteq P /\ throughout \subseteq P
  /\ pat_idx \in P \union {1} /\ pulse_n \in 0..255
  /\ InPlay => /\ pat_idx \in P /\ step_idx \in DOMAIN Patterns[pat_idx].sequence
               /\ pulse_n < Step(pat_idx, step_idx).repeat
  /\ PinShowsPhase

\* The number of pulses a pattern is declared with: that of its first n steps, and of all.
PulsesOf(p) ==
  LET sum[n \in 0..Len(Patterns[p].sequence)] ==
        IF n = 0 THEN 0 ELSE sum[n - 1] + Step(p, n).repeat
  IN  sum
Code(p) == PulsesOf(p)[Len(Patterns[p].sequence)]

\* A default pattern that plays to its end has blinked its whole code, no
\* pulse more or less, whatever callers did meanwhile. This includes a code
\* whose flag is cleared in mid-play: set_pattern leaves the phase alone and
\* advance_ does not look at the flag again, so the LED shows an error that
\* is gone, where the README has it stop at once.
CodeComplete ==
  [][phase = "OFF" /\ phase' \in {"INTER_GAP", "FRAME_GAP"} =>
       blinks = Code(pat_idx)]_vars

\* A frame that comes to its end has played every default pattern that was
\* active all along.
NoErrorSkipped ==
  [][phase # "FRAME_GAP" /\ phase' = "FRAME_GAP" => throughout \subseteq played]_vars

PlayedInOrder ==
  [][phase = "INTER_GAP" /\ phase' = "ON" /\ ~Patterns[pat_idx'].continuous =>
       \A p \in played : p < pat_idx']_vars

\* What keeps pattern p off the LED: a continuous pattern, or for a continuous
\* one another declared before it.
Outranked(p) == \E q \in Overrides : Patterns[p].continuous => q < p

\* No deadline is missed by more than one pass, so every phase takes the time
\* its pattern declares.
NeverFrozen == left > -MaxPass

\* A pattern that stays active is shown in the end, unless it is outranked:
\* no code starves behind the others and no override waits forever, whatever
\* callers switch meanwhile and across a wrap of the clock.  A pass that jumps
\* over the deadline at the wrap is the exception (see NeverFrozen).
EventuallyShown ==
  []NeverFrozen => \A p \in P :
    active[p] ~> ((pin /\ pat_idx = p) \/ ~active[p] \/ Outranked(p))
=============================================================================
