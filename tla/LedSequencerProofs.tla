------------------------- MODULE LedSequencerProofs -------------------------
(***************************************************************************)
(* Proofs about LedSequencer for any patterns within STEP_SCHEMA, any      *)
(* gaps, any clock and any distance of the loop passes: the indices always *)
(* point at a step, the LED is lit in the ON phase only, and a frame plays *)
(* the active default patterns in order and leaves none out.               *)
(***************************************************************************)
EXTENDS LedSequencer, ListLemmas, FiniteSetTheorems, TLAPS

InFrame == phase \in {"ON", "OFF", "INTER_GAP"}

\* Nothing that has played lies beyond the pattern in play.
PlayedBehind == InFrame => \A p \in played : p <= pat_idx

\* A default pattern that was active all along is still active, and it has
\* played or lies beyond the pattern in play.
NoneLeftBehind ==
  InFrame => \A p \in throughout : p \in Defaults /\ (p <= pat_idx => p \in played)

IInv == TypeOK /\ PlayedBehind /\ NoneLeftBehind

-----------------------------------------------------------------------------
(* Operators.                                                              *)

\* The smallest element of a set of naturals, as find_next_active_default_
\* finds it by counting up.
LEMMA MinOfNats ==
  ASSUME NEW S \in SUBSET Nat, S # {}
  PROVE  Min(S) \in S /\ \A y \in S : Min(S) <= y
  <1> DEFINE Initials == {1..n : n \in S}
  <1>1. Initials # {} /\ Initials \subseteq FiniteSubsetsOf(Nat)
    <2>1. ASSUME NEW n \in S PROVE 1..n \in FiniteSubsetsOf(Nat)
      <3>1. n \in Int /\ 1 \in Int
        OBVIOUS
      <3>2. IsFiniteSet(1..n)
        BY <3>1, FS_Interval
      <3>3. QED
        BY <3>2 DEF FiniteSubsetsOf
    <2>2. QED
      BY <2>1
  <1>2. PICK i \in Initials :
          \A j \in Initials : ~(<<j, i>> \in StrictSubsetOrdering(Nat))
    BY <1>1, WFMin, FS_StrictSubsetOrderingWellFounded
  <1>3. PICK x \in S : i = 1..x
    OBVIOUS
  <1>4. ASSUME NEW y \in S PROVE x <= y
    <2>1. SUFFICES ASSUME y < x PROVE FALSE
      OBVIOUS
    <2>2. 1..y \subseteq 1..x /\ 1..y # 1..x
      <3>1. x \in 1..x /\ x \notin 1..y
        BY <2>1
      <3>2. QED
        BY <2>1, <3>1
    <2>3. <<1..y, 1..x>> \in StrictSubsetOrdering(Nat)
      BY <2>2 DEF StrictSubsetOrdering
    <2>4. QED
      BY <1>2, <1>3, <2>3
  <1>5. QED
    BY <1>4 DEF Min

LEMMA MaxOfTwo ==
  ASSUME NEW a \in Int, NEW b \in Int
  PROVE  Max({a, b}) \in {a, b} /\ Max({a, b}) >= a /\ Max({a, b}) >= b
  <1>1. \E x \in {a, b} : \A y \in {a, b} : x >= y
    OBVIOUS
  <1>2. QED
    BY <1>1 DEF Max

\* What the assumption says of one pattern and one step.
LEMMA PatternTypes ==
  /\ P \subseteq Nat
  /\ \A p \in P : /\ Patterns[p].continuous \in BOOLEAN
                  /\ Patterns[p].sequence \in Seq(Steps) /\ Patterns[p].sequence # <<>>
  <1> DEFINE T == [continuous : BOOLEAN, sequence : Seq(Steps) \ {<<>>}]
  <1>1. Patterns \in Seq(T)
    BY PatternAssumption
  <1>2. P = 1..Len(Patterns) /\ \A p \in P : Patterns[p] \in T
    <2> HIDE DEF T
    <2>1. QED
      BY <1>1 DEF P
  <1>3. QED
    BY <1>1, <1>2

LEMMA StepTypes ==
  ASSUME NEW p \in P, NEW i \in DOMAIN Patterns[p].sequence
  PROVE  /\ Step(p, i) \in Steps
         /\ {Step(p, i).on, Step(p, i).off} \subseteq Waits
  <1>1. Step(p, i) \in Steps
    BY PatternTypes DEF Step
  <1>2. {Step(p, i).on, Step(p, i).off} \subseteq Durations(p)
    BY DEF Durations, Step
  <1>3. QED
    BY <1>1, <1>2 DEF Waits

LEMMA FirstStep == ASSUME NEW p \in P PROVE 1 \in DOMAIN Patterns[p].sequence
  BY PatternTypes

\* A wait ends within the clock.
LEMMA WaitTypes ==
  ASSUME now' \in 0..ClockSize - 1, NEW ms \in Waits, ms \in Nat, Wait(ms)
  PROVE  /\ deadline' \in 0..ClockSize - 1
         /\ left' \in -MaxPass..ClockSize - 1
  <1>1. 2 * (ms + MaxPass) < ClockSize /\ MaxPass \in Nat \ {0} /\ ClockSize \in Nat
    BY ClockAssumption
  <1>2. ASSUME NEW t \in 0..ClockSize - 1
        PROVE  (t + ms) % ClockSize \in 0..ClockSize - 1
    BY <1>1
  <1>3. ms \in -MaxPass..ClockSize - 1
    BY <1>1
  <1>4. QED
    BY <1>1, <1>2, <1>3 DEF Wait

-----------------------------------------------------------------------------
(* The parts of a step of the state machine.                               *)

\* What every step keeps of the types, when it is not about blinks or frame.
Places ==
  /\ phase \in Phases /\ pin \in BOOLEAN
  /\ deadline \in 0..ClockSize - 1 /\ left \in -MaxPass..ClockSize - 1
  /\ pat_idx \in P \union {1} /\ pulse_n \in 0..255
  /\ InPlay => /\ pat_idx \in P /\ step_idx \in DOMAIN Patterns[pat_idx].sequence
               /\ pulse_n < Step(pat_idx, step_idx).repeat
  /\ PinShowsPhase

LEMMA PulsePlaces ==
  ASSUME now' \in 0..ClockSize - 1, NEW p \in P, NEW i \in DOMAIN Patterns[p].sequence,
         NEW n \in 0..255, n < Step(p, i).repeat, Pulse(p, i, n)
  PROVE  Places'
  <1>1. Step(p, i).on \in Waits /\ Step(p, i).on \in Nat
    BY StepTypes DEF Steps
  <1>2. deadline' \in 0..ClockSize - 1 /\ left' \in -MaxPass..ClockSize - 1
    BY <1>1, WaitTypes DEF Pulse
  <1>3. QED
    BY <1>2 DEF Pulse, Places, Phases, PinShowsPhase, Step, InPlay

LEMMA BeginPlaces ==
  ASSUME now' \in 0..ClockSize - 1, NEW p \in P, Begin(p)
  PROVE  Places' /\ blinks' = 1 /\ phase' = "ON" /\ pat_idx' = p
  <1>1. 1 \in DOMAIN Patterns[p].sequence /\ 0 < Step(p, 1).repeat
    BY FirstStep, StepTypes DEF Steps
  <1>2. QED
    BY <1>1, PulsePlaces DEF Begin, Pulse

\* A dark phase in which no pattern is in play.
LEMMA DarkPlaces ==
  ASSUME now' \in 0..ClockSize - 1,
         NEW ph \in {"IDLE", "INTER_GAP", "FRAME_GAP"},
         NEW ms \in {InterPatternGap, EndOfFrameGap, IdlePoll}, Dark(ph, ms),
         pat_idx' \in P \union {1}, pulse_n' \in 0..255
  PROVE  Places'
  <1>1. ms \in Waits /\ ms \in Nat
    BY ClockAssumption DEF Waits
  <1>2. deadline' \in 0..ClockSize - 1 /\ left' \in -MaxPass..ClockSize - 1
    BY <1>1, WaitTypes DEF Dark
  <1>3. QED
    BY <1>2 DEF Dark, Places, Phases, PinShowsPhase, InPlay

LEMMA PulseOffPlaces ==
  ASSUME now' \in 0..ClockSize - 1, Places, PulseOff
  PROVE  Places'
  <1>1. pat_idx \in P /\ step_idx \in DOMAIN Patterns[pat_idx].sequence
    BY DEF PulseOff, Places, InPlay
  <1>2. Step(pat_idx, step_idx).off \in Waits /\ Step(pat_idx, step_idx).off \in Nat
    BY <1>1, StepTypes DEF Steps
  <1>3. deadline' \in 0..ClockSize - 1 /\ left' \in -MaxPass..ClockSize - 1
    BY <1>2, WaitTypes DEF PulseOff, Dark
  <1>4. QED
    BY <1>1, <1>3 DEF PulseOff, Dark, Places, Phases, PinShowsPhase, InPlay, Step

LEMMA NextPulsePlaces ==
  ASSUME now' \in 0..ClockSize - 1, Places, NextPulse
  PROVE  Places'
  <1>1. /\ pat_idx \in P /\ step_idx \in DOMAIN Patterns[pat_idx].sequence
        /\ pulse_n \in 0..255
    BY DEF NextPulse, Places, InPlay
  <1>2. Step(pat_idx, step_idx).repeat \in 1..255
    BY <1>1, StepTypes DEF Steps
  <1>3. CASE ~LastPulse /\ Pulse(pat_idx, step_idx, (pulse_n + 1) % 256)
    <2>1. pulse_n + 1 < Step(pat_idx, step_idx).repeat /\ pulse_n + 1 \in 0..255
      BY <1>1, <1>2, <1>3 DEF LastPulse
    <2>2. (pulse_n + 1) % 256 = pulse_n + 1
      BY <2>1
    <2>3. QED
      BY <1>1, <1>3, <2>1, <2>2, PulsePlaces
  <1>4. CASE LastPulse /\ ~LastStep /\ Pulse(pat_idx, step_idx + 1, 0)
    <2>1. step_idx + 1 \in DOMAIN Patterns[pat_idx].sequence
      BY <1>1, <1>4, PatternTypes DEF LastStep
    <2>2. 0 < Step(pat_idx, step_idx + 1).repeat
      BY <1>1, <2>1, StepTypes DEF Steps
    <2>3. QED
      BY <1>1, <1>4, <2>1, <2>2, PulsePlaces
  <1>5. QED
    BY <1>3, <1>4 DEF NextPulse

-----------------------------------------------------------------------------
(* A step of the state machine.                                            *)

LEMMA InitInv == Init => IInv
  <1> SUFFICES ASSUME Init PROVE IInv
    OBVIOUS
  <1>1. IdlePoll \in 0..ClockSize - 1 /\ 0 \in 0..ClockSize - 1
    <2>1. IdlePoll \in Waits /\ IdlePoll \in Nat
      BY ClockAssumption DEF Waits
    <2>2. 2 * (IdlePoll + MaxPass) < ClockSize /\ MaxPass \in Nat \ {0} /\ ClockSize \in Nat
      BY <2>1, ClockAssumption
    <2>3. QED
      BY <2>1, <2>2
  <1>2. IdlePoll \in -MaxPass..ClockSize - 1
    BY <1>1, ClockAssumption
  <1>3. /\ active \in [P -> BOOLEAN] /\ phase \in Phases /\ pin \in BOOLEAN
        /\ {now, deadline} \subseteq 0..ClockSize - 1 /\ left \in -MaxPass..ClockSize - 1
    BY <1>1, <1>2 DEF Init, Phases
  <1>4. /\ blinks \in Nat /\ played \subseteq P /\ throughout \subseteq P
        /\ pat_idx \in P \union {1} /\ pulse_n \in 0..255 /\ ~InPlay
    BY DEF Init, InPlay
  <1>5. PinShowsPhase /\ PlayedBehind /\ NoneLeftBehind
    BY DEF Init, PinShowsPhase, PlayedBehind, NoneLeftBehind, InFrame
  <1>6. QED
    BY <1>3, <1>4, <1>5 DEF IInv, TypeOK

\* The active patterns of either kind are patterns, so Min finds one of them.
LEMMA Sets ==
  /\ Defaults \in SUBSET Nat /\ Defaults \subseteq P
  /\ Overrides \in SUBSET Nat /\ Overrides \subseteq P
  /\ Following \in SUBSET Nat /\ Following \subseteq Defaults
  BY PatternTypes DEF Defaults, Overrides, Following, DefaultsFrom

Frames == blinks \in Nat /\ played \subseteq P /\ throughout \subseteq P

\* What a step of the state machine has to keep.
Kept == Places /\ Frames /\ PlayedBehind /\ NoneLeftBehind

LEMMA KeepsInPlay ==
  ASSUME Kept, now' \in 0..ClockSize - 1, PulseOff \/ NextPulse, UNCHANGED active
  PROVE  Kept'
  <1>1. Places'
    BY PulseOffPlaces, NextPulsePlaces DEF Kept
  <1>2. /\ pat_idx' = pat_idx /\ UNCHANGED <<played, throughout>>
        /\ blinks' \in Nat /\ InFrame
    BY DEF PulseOff, NextPulse, frame, Pulse, Kept, Frames, InFrame
  <1>3. QED
    BY <1>1, <1>2 DEF Kept, Frames, PlayedBehind, NoneLeftBehind, InFrame, Defaults

LEMMA KeepsOverride ==
  ASSUME Kept, now' \in 0..ClockSize - 1, Override, UNCHANGED active
  PROVE  Kept'
  <1> DEFINE cont == Min(Overrides)
  <1>1. cont \in P
    BY MinOfNats, Sets DEF Override
  <1>2. CASE Begin(cont) /\ played' = {} /\ throughout' = {}
    BY <1>1, <1>2, BeginPlaces DEF Kept, Frames, PlayedBehind, NoneLeftBehind
  <1>3. CASE PulseOff \/ NextPulse
    BY <1>3, KeepsInPlay
  <1>4. CASE /\ phase = "OFF" /\ pat_idx = cont
             /\ Begin(cont) /\ UNCHANGED <<played, throughout>>
    <2>1. Places' /\ blinks' = 1 /\ pat_idx' = pat_idx
      BY <1>1, <1>4, BeginPlaces
    <2>2. QED
      BY <1>4, <2>1 DEF Kept, Frames, PlayedBehind, NoneLeftBehind, InFrame, Defaults
  <1>5. QED
    BY <1>2, <1>3, <1>4 DEF Override

LEMMA KeepsNewFrame ==
  ASSUME Kept, now' \in 0..ClockSize - 1, NewFrame, UNCHANGED active
  PROVE  Kept'
  <1>1. CASE /\ Defaults # {} /\ Begin(Min(Defaults))
             /\ played' = {Min(Defaults)} /\ throughout' = Defaults
    <2>1. Min(Defaults) \in Defaults /\ \A p \in Defaults : Min(Defaults) <= p
      BY <1>1, MinOfNats, Sets
    <2>2. Min(Defaults) \in P /\ Min(Defaults) \in Nat /\ Defaults \subseteq P
      BY <2>1, Sets
    <2>3. Places' /\ blinks' = 1 /\ pat_idx' = Min(Defaults)
      BY <1>1, <2>2, BeginPlaces
    <2>4. Defaults' = Defaults
      BY DEF Defaults
    <2>5. \A p \in Defaults : p <= Min(Defaults) => p = Min(Defaults)
      <3>1. \A p \in Defaults : p \in Nat /\ Min(Defaults) <= p
        BY <2>1, Sets
      <3>2. QED
        BY <2>2, <3>1
    <2>6. Frames'
      BY <1>1, <2>2, <2>3 DEF Frames
    <2>7. PlayedBehind' /\ NoneLeftBehind'
      BY <1>1, <2>2, <2>3, <2>4, <2>5 DEF PlayedBehind, NoneLeftBehind
    <2>8. QED
      BY <2>3, <2>6, <2>7 DEF Kept
  <1>2. CASE /\ Dark("IDLE", IdlePoll)
             /\ blinks' = 0 /\ played' = {} /\ throughout' = {}
             /\ UNCHANGED <<pat_idx, step_idx, pulse_n>>
    <2>1. pat_idx' \in P \union {1} /\ pulse_n' \in 0..255
      BY <1>2 DEF Kept, Places
    <2>2. Places'
      BY <1>2, <2>1, DarkPlaces
    <2>3. QED
      BY <1>2, <2>2 DEF Kept, Frames, PlayedBehind, NoneLeftBehind
  <1>3. QED
    BY <1>1, <1>2 DEF NewFrame

LEMMA KeepsEndFrame ==
  ASSUME Kept, now' \in 0..ClockSize - 1, EndFrame, pulse_n' \in 0..255, UNCHANGED active
  PROVE  Kept' /\ phase' = "FRAME_GAP" /\ (InFrame => throughout \subseteq played)
  <1>1. phase' = "FRAME_GAP" /\ UNCHANGED <<pat_idx, blinks, played, throughout>>
    BY DEF EndFrame, Dark, frame
  <1>2. pat_idx' \in P \union {1}
    BY <1>1 DEF Kept, Places
  <1>3. Places'
    BY <1>2, DarkPlaces DEF EndFrame
  <1>4. ASSUME InFrame, NEW p \in throughout PROVE p \in played
    <2>1. p \in Defaults /\ (p <= pat_idx => p \in played)
      BY <1>4 DEF Kept, NoneLeftBehind
    <2>2. p \in Nat /\ pat_idx \in Nat
      BY <2>1, Sets, PatternTypes DEF Kept, Places
    <2>3. ~(p >= pat_idx + 1)
      BY <2>1 DEF EndFrame, Following, DefaultsFrom
    <2>4. QED
      BY <2>1, <2>2, <2>3
  <1>5. QED
    BY <1>1, <1>3, <1>4 DEF Kept, Frames, PlayedBehind, NoneLeftBehind, InFrame

LEMMA KeepsNextPattern ==
  ASSUME Kept, now' \in 0..ClockSize - 1, NextPattern, UNCHANGED active
  PROVE  Kept' /\ (phase' = "ON" => \A p \in played : p < pat_idx')
               /\ (phase' = "FRAME_GAP" => throughout \subseteq played)
  <1>1. InFrame
    BY DEF NextPattern, InFrame
  <1>2. CASE /\ Following # {} /\ Begin(Min(Following))
             /\ played' = played \union {Min(Following)} /\ UNCHANGED throughout
    <2> DEFINE next == Min(Following)
    <2>1. next \in Following /\ \A p \in Following : next <= p
      BY <1>2, MinOfNats, Sets
    <2>2. next \in P /\ next \in Nat /\ pat_idx \in Nat /\ next >= pat_idx + 1
      BY <2>1, Sets, PatternTypes DEF Following, DefaultsFrom, Kept, Places
    <2>3. Places' /\ blinks' = 1 /\ pat_idx' = next /\ phase' = "ON"
      BY <1>2, <2>2, BeginPlaces
    <2>4. Defaults' = Defaults
      BY DEF Defaults
    <2>5. ASSUME NEW p \in played PROVE p < next
      BY <1>1, <2>2, PatternTypes DEF Kept, Frames, PlayedBehind
    <2>6. ASSUME NEW p \in throughout
          PROVE  p \in Defaults /\ (p <= next => p \in played')
      <3>1. p \in Defaults /\ (p <= pat_idx => p \in played) /\ p \in Nat
        BY <1>1, <2>6, Sets DEF Kept, NoneLeftBehind
      <3>2. CASE p <= pat_idx
        BY <1>2, <3>1, <3>2
      <3>3. CASE p >= pat_idx + 1
        <4>1. next <= p
          BY <2>1, <3>1, <3>3 DEF Following, DefaultsFrom
        <4>2. QED
          BY <1>2, <2>2, <3>1, <4>1
      <3>4. QED
        BY <2>2, <3>1, <3>2, <3>3
    <2>7. Frames'
      BY <1>2, <2>2, <2>3 DEF Kept, Frames
    <2>8. PlayedBehind'
      <3>1. \A p \in played' : p <= next
        BY <1>2, <2>2, <2>5, PatternTypes DEF Kept, Frames
      <3>2. QED
        BY <2>3, <3>1 DEF PlayedBehind
    <2>9. NoneLeftBehind'
      BY <1>2, <2>3, <2>4, <2>6 DEF NoneLeftBehind
    <2>10. QED
      BY <2>3, <2>5, <2>7, <2>8, <2>9 DEF Kept
  <1>3. CASE EndFrame /\ UNCHANGED <<step_idx, pulse_n>>
    <2>1. pulse_n' \in 0..255
      BY <1>3 DEF Kept, Places
    <2>2. QED
      BY <1>1, <1>3, <2>1, KeepsEndFrame
  <1>4. QED
    BY <1>2, <1>3 DEF NextPattern

LEMMA KeepsEndPattern ==
  ASSUME Kept, now' \in 0..ClockSize - 1, EndPattern, UNCHANGED active
  PROVE  Kept' /\ phase' # "ON"
               /\ (phase' = "FRAME_GAP" => throughout \subseteq played)
  <1>1. InFrame /\ pulse_n' \in 0..255
    BY DEF EndPattern, InFrame
  <1>2. CASE Dark("INTER_GAP", InterPatternGap) /\ UNCHANGED <<pat_idx, frame>>
    <2>1. pat_idx' \in P \union {1}
      BY <1>2 DEF Kept, Places
    <2>2. Places' /\ phase' = "INTER_GAP"
      BY <1>1, <1>2, <2>1, DarkPlaces DEF Dark
    <2>3. QED
      BY <1>1, <1>2, <2>2 DEF Kept, Frames, PlayedBehind, NoneLeftBehind, InFrame,
                              frame, Defaults
  <1>3. CASE EndFrame
    BY <1>1, <1>3, KeepsEndFrame
  <1>4. QED
    BY <1>2, <1>3 DEF EndPattern

\* A gap between patterns is followed by a later one, and a frame that ends
\* has left out none.
LEMMA AdvanceKeeps ==
  ASSUME Kept, now' \in 0..ClockSize - 1, Advance, UNCHANGED active
  PROVE  /\ Kept'
         /\ phase = "INTER_GAP" /\ phase' = "ON" /\ ~Patterns[pat_idx'].continuous =>
              \A p \in played : p < pat_idx'
         /\ phase # "FRAME_GAP" /\ phase' = "FRAME_GAP" => throughout \subseteq played
  <1>1. CASE Override
    <2>1. Min(Overrides) \in Overrides
      BY <1>1, MinOfNats, Sets DEF Override
    <2>2. Patterns[Min(Overrides)].continuous
      BY <2>1 DEF Overrides
    <2>3. phase' \in {"ON", "OFF"} /\ (phase = "INTER_GAP" => pat_idx' = Min(Overrides))
      BY <1>1 DEF Override, Begin, Pulse, PulseOff, NextPulse, Dark, InPlay
    <2>4. QED
      BY <1>1, <2>2, <2>3, KeepsOverride
  <1>2. CASE NewFrame
    <2>1. phase # "INTER_GAP" /\ phase' \in {"ON", "IDLE"}
      BY <1>2 DEF NewFrame, Stopped, InPlay, Begin, Pulse, Dark
    <2>2. QED
      BY <1>2, <2>1, KeepsNewFrame
  <1>3. CASE NextPattern
    BY <1>3, KeepsNextPattern
  <1>4. CASE PulseOff \/ NextPulse
    <2>1. phase \in {"ON", "OFF"} /\ phase' \in {"ON", "OFF"}
      BY <1>4 DEF PulseOff, NextPulse, Dark, Pulse
    <2>2. QED
      BY <1>4, <2>1, KeepsInPlay
  <1>5. CASE EndPattern
    BY <1>5, KeepsEndPattern
  <1>6. QED
    BY <1>1, <1>2, <1>3, <1>4, <1>5 DEF Advance

LEMMA IInvIsKept ==
  IInv <=> Kept /\ active \in [P -> BOOLEAN] /\ now \in 0..ClockSize - 1
  BY DEF IInv, Kept, TypeOK, Places, Frames

\* A loop pass, whether it advances or not.
LEMMA PassKeeps ==
  ASSUME IInv, Pass
  PROVE  /\ IInv'
         /\ phase = "INTER_GAP" /\ phase' = "ON" /\ ~Patterns[pat_idx'].continuous =>
              \A p \in played : p < pat_idx'
         /\ phase # "FRAME_GAP" /\ phase' = "FRAME_GAP" => throughout \subseteq played
  <1>1. PICK d \in 1..MaxPass :
          /\ now' = (now + d) % ClockSize
          /\ \/ UNCHANGED <<position, frame>> /\ left' = Max({left - d, -MaxPass})
             \/ Advance
    BY DEF Pass
  <1>2. now' \in 0..ClockSize - 1
    <2>1. now + d \in Nat /\ ClockSize \in Nat \ {0}
      BY ClockAssumption DEF IInv, TypeOK
    <2>2. QED
      BY <1>1, <2>1
  <1>3. UNCHANGED active
    BY DEF Pass
  <1>4. CASE UNCHANGED <<position, frame>> /\ left' = Max({left - d, -MaxPass})
    <2>1. /\ MaxPass \in Nat \ {0} /\ ClockSize \in Nat \ {0}
          /\ left \in -MaxPass..ClockSize - 1
      BY ClockAssumption DEF IInv, TypeOK
    <2>2. left' \in -MaxPass..ClockSize - 1
      <3>1. left - d \in Int /\ -MaxPass \in Int
            /\ left - d <= ClockSize - 1 /\ -MaxPass <= ClockSize - 1
        BY <2>1
      <3>2. left' \in {left - d, -MaxPass} /\ left' >= -MaxPass
        BY <1>4, <3>1, MaxOfTwo
      <3>3. QED
        BY <2>1, <3>1, <3>2
    <2>3. UNCHANGED <<phase, pat_idx, step_idx, pulse_n, deadline, pin,
                      blinks, played, throughout>>
      BY <1>4 DEF position, frame
    <2>4. Defaults' = Defaults
      BY <1>3 DEF Defaults
    <2>5. Kept'
      BY <2>2, <2>3, <2>4, IInvIsKept DEF Kept, Places, Frames, PlayedBehind, NoneLeftBehind,
         InFrame, InPlay, PinShowsPhase, Step
    <2>6. active' \in [P -> BOOLEAN]
      BY <1>3 DEF IInv, TypeOK
    <2>7. IInv'
      BY <1>2, <2>2, <2>3, <2>4, <2>6 DEF IInv, TypeOK, PlayedBehind, NoneLeftBehind,
         InFrame, InPlay, PinShowsPhase, Step
    <2>8. QED
      BY <2>3, <2>7
  <1>5. CASE Advance
    <2>1. Kept /\ active' \in [P -> BOOLEAN]
      BY <1>3, IInvIsKept
    <2>2. /\ Kept'
          /\ phase = "INTER_GAP" /\ phase' = "ON" /\ ~Patterns[pat_idx'].continuous =>
               \A p \in played : p < pat_idx'
          /\ phase # "FRAME_GAP" /\ phase' = "FRAME_GAP" => throughout \subseteq played
      BY <1>2, <1>3, <1>5, <2>1, AdvanceKeeps
    <2>3. IInv'
      BY <1>2, <2>1, <2>2 DEF Kept, IInv, TypeOK, Places, Frames
    <2>4. QED
      BY <2>2, <2>3
  <1>6. QED
    BY <1>1, <1>4, <1>5

\* A caller changes what is active, never what is on the LED.
LEMMA CallKeeps ==
  ASSUME IInv, ClearAll \/ (\E p \in P, on \in BOOLEAN : SetPattern(p, on))
  PROVE  IInv' /\ UNCHANGED <<phase, played>>
  <1>1. UNCHANGED <<phase, pat_idx, step_idx, pulse_n, deadline, pin, now, left,
                    blinks, played>>
    BY DEF ClearAll, SetPattern, position
  <1>2. active' \in [P -> BOOLEAN] /\ throughout' \subseteq throughout
    BY DEF ClearAll, SetPattern, IInv, TypeOK
  <1>3. \A p \in throughout' \cap P : active[p] => active'[p]
    BY DEF ClearAll, SetPattern, IInv, TypeOK
  <1>4. NoneLeftBehind'
    BY <1>1, <1>2, <1>3 DEF IInv, NoneLeftBehind, InFrame, Defaults
  <1>5. QED
    BY <1>1, <1>2, <1>4 DEF IInv, TypeOK, PinShowsPhase, PlayedBehind, InFrame, InPlay, Step

LEMMA StepKeeps ==
  ASSUME IInv, [Next]_vars
  PROVE  /\ IInv'
         /\ phase = "INTER_GAP" /\ phase' = "ON" /\ ~Patterns[pat_idx'].continuous =>
              \A p \in played : p < pat_idx'
         /\ phase # "FRAME_GAP" /\ phase' = "FRAME_GAP" => throughout \subseteq played
  <1>1. CASE Pass
    BY <1>1, PassKeeps
  <1>2. CASE ClearAll \/ (\E p \in P, on \in BOOLEAN : SetPattern(p, on))
    BY <1>2, CallKeeps
  <1>3. CASE UNCHANGED vars
    BY <1>3 DEF vars, position, frame, IInv, TypeOK, PinShowsPhase, PlayedBehind,
                NoneLeftBehind, InFrame, InPlay, Step, Defaults
  <1>4. QED
    BY <1>1, <1>2, <1>3 DEF Next

-----------------------------------------------------------------------------
(* The count of the pulses.                                                *)

\* While a pattern is in play, the pulses shown of it are those of the steps
\* before and those of this step.
CountInv == InPlay => blinks = PulsesOf(pat_idx)[step_idx - 1] + pulse_n + 1

\* How often a pulse of a step is repeated.
LEMMA RepeatTypes ==
  ASSUME NEW p \in P, NEW i \in DOMAIN Patterns[p].sequence
  PROVE  Step(p, i).repeat \in 1..255
  <1>1. Step(p, i) \in Steps
    BY StepTypes
  <1>2. QED
    BY <1>1 DEF Steps

\* The sum over the steps, by its equation.
LEMMA PulsesAdd ==
  ASSUME NEW p \in P
  PROVE  /\ PulsesOf(p)[0] = 0
         /\ \A n \in 0..Len(Patterns[p].sequence) : PulsesOf(p)[n] \in Nat
         /\ \A n \in DOMAIN Patterns[p].sequence :
              PulsesOf(p)[n] = PulsesOf(p)[n - 1] + Step(p, n).repeat
  <1> DEFINE L == Len(Patterns[p].sequence)
             D == [n \in 0..L |-> Nat]
             h == [a \in (1..L) \X Nat |-> a[2] + Step(p, a[1]).repeat]
             sum[n \in 0..L] == IF n = 0 THEN 0 ELSE sum[n - 1] + Step(p, n).repeat
  <1>1. L \in Nat /\ DOMAIN Patterns[p].sequence = 1..L
    BY PatternTypes
  <1>2. ASSUME NEW n \in 1..L PROVE Step(p, n).repeat \in Nat
    <2>1. n \in DOMAIN Patterns[p].sequence
      BY <1>1
    <2>2. Step(p, n).repeat \in 1..255
      BY <2>1, RepeatTypes
    <2> HIDE DEF L, h, D, sum
    <2>3. QED
      BY <2>2
  <1>3. PICK g \in [0..L -> Nat] :
          /\ g[0] = 0 /\ \A n \in 1..L : g[n] = h[<<n, g[n - 1]>>]
          /\ \A n \in 0..L : g[n] \in D[n]
    <2> HIDE DEF L
    <2>1. \A n \in 1..L : D[n - 1] = Nat /\ D[n] = Nat
      BY <1>1
    <2>2. \A n \in 1..L : \A x \in Nat : h[<<n, x>>] \in Nat
      BY <1>2
    <2>3. 0 \in D[0] /\ \A n \in 0..L : D[n] \subseteq Nat
      BY <1>1
    <2> HIDE DEF D, h
    <2>4. LoopSteps(L, Nat, D, 0, h)
      BY <1>1, <2>1, <2>2, <2>3 DEF LoopSteps
    <2>5. QED
      BY <2>4, FoldExists
  <1>4. g = [n \in 0..L |-> IF n = 0 THEN 0 ELSE g[n - 1] + Step(p, n).repeat]
    <2> HIDE DEF L
    <2>1. ASSUME NEW n \in 1..L PROVE g[n] = g[n - 1] + Step(p, n).repeat
      <3>1. n - 1 \in 0..L
        BY <1>1
      <3>2. g[n - 1] \in Nat /\ g[n] = h[<<n, g[n - 1]>>]
        BY <1>3, <3>1
      <3>3. QED
        BY <3>2
    <2>2. \A n \in 0..L : g[n] = IF n = 0 THEN 0 ELSE g[n - 1] + Step(p, n).repeat
      BY <1>1, <1>3, <2>1
    <2>3. QED
      BY <2>2
  <1>5. sum = [n \in 0..L |-> IF n = 0 THEN 0 ELSE sum[n - 1] + Step(p, n).repeat]
    BY <1>4
  <1>6. PulsesOf(p) = sum
    BY DEF PulsesOf
  <1> HIDE DEF sum
  <1>7. sum[0] = 0 /\ \A n \in 1..L : sum[n] = sum[n - 1] + Step(p, n).repeat
    <2> HIDE DEF L
    <2>1. QED
      BY <1>1, <1>5
  <1>8. \A n \in 0..L : sum[n] \in D[n]
    <2> HIDE DEF L
    <2>1. \A n \in 1..L : D[n - 1] = Nat /\ D[n] = Nat /\ n \in Nat
      BY <1>1
    <2>2. D[0] = Nat
      BY <1>1
    <2> HIDE DEF D
    <2>3. ASSUME NEW n \in 1..L, sum[n - 1] \in D[n - 1] PROVE sum[n] \in D[n]
      <3>1. sum[n - 1] \in Nat /\ Step(p, n).repeat \in Nat /\ D[n] = Nat
        BY <1>2, <2>1, <2>3
      <3>2. sum[n] = sum[n - 1] + Step(p, n).repeat
        BY <1>7
      <3>3. QED
        BY <3>1, <3>2
    <2>4. sum[0] \in D[0]
      BY <1>7, <2>2
    <2>5. QED
      BY <1>1, <2>3, <2>4, Carried
  <1>9. \A n \in 0..L : sum[n] \in Nat
    BY <1>8
  <1>10. QED
    BY <1>1, <1>6, <1>7, <1>9

\* The pattern, step and pulse in play.
LEMMA PlayTypes ==
  ASSUME IInv, InPlay
  PROVE  /\ pat_idx \in P /\ step_idx \in DOMAIN Patterns[pat_idx].sequence
         /\ step_idx \in 1..Len(Patterns[pat_idx].sequence)
         /\ pulse_n \in Nat /\ Step(pat_idx, step_idx).repeat \in 1..255
         /\ pulse_n < Step(pat_idx, step_idx).repeat
         /\ Len(Patterns[pat_idx].sequence) \in Nat
  <1>1. /\ pat_idx \in P /\ step_idx \in DOMAIN Patterns[pat_idx].sequence
        /\ pulse_n \in Nat /\ pulse_n < Step(pat_idx, step_idx).repeat
    BY DEF IInv, TypeOK
  <1>2. Step(pat_idx, step_idx).repeat \in 1..255
    BY <1>1, RepeatTypes
  <1>3. Len(Patterns[pat_idx].sequence) \in Nat
        /\ DOMAIN Patterns[pat_idx].sequence = 1..Len(Patterns[pat_idx].sequence)
    BY <1>1, PatternTypes
  <1>4. QED
    BY <1>1, <1>2, <1>3

\* A pattern begins with its first pulse.
LEMMA BeginCounts ==
  ASSUME NEW p \in P, Begin(p)
  PROVE  CountInv'
  <1>1. PulsesOf(p)[0] = 0
    BY PulsesAdd
  <1>2. pat_idx' = p /\ step_idx' = 1 /\ pulse_n' = 0 /\ blinks' = 1
    BY DEF Begin, Pulse
  <1>3. PulsesOf(pat_idx')[step_idx' - 1] = 0
    BY <1>1, <1>2
  <1>4. QED
    BY <1>2, <1>3 DEF CountInv, PulsesOf, Step

\* The same pulse goes on, or the next one is counted.
LEMMA PlayCounts ==
  ASSUME IInv, CountInv, PulseOff \/ NextPulse
  PROVE  CountInv'
  <1>1. InPlay
    BY DEF PulseOff, NextPulse, InPlay
  <1> DEFINE S == PulsesOf(pat_idx)
             R == Step(pat_idx, step_idx).repeat
  <1>0. step_idx \in Nat /\ pulse_n \in Nat /\ R \in 1..255 /\ pulse_n < R
    BY <1>1, PlayTypes
  <1>2. /\ blinks = S[step_idx - 1] + pulse_n + 1 /\ S[step_idx - 1] \in Nat
        /\ S[step_idx] = S[step_idx - 1] + R
    <2>1. step_idx - 1 \in 0..Len(Patterns[pat_idx].sequence)
      BY <1>1, PlayTypes
    <2>2. QED
      BY <1>1, <2>1, PlayTypes, PulsesAdd DEF CountInv
  <1>9. LastPulse <=> pulse_n + 1 >= R
    BY DEF LastPulse
  <1> HIDE DEF S, R
  <1>3. CASE PulseOff
    <2>1. UNCHANGED <<pat_idx, step_idx, pulse_n, blinks>>
      BY <1>3 DEF PulseOff, frame
    <2>2. QED
      BY <1>2, <2>1 DEF CountInv, S, PulsesOf, Step
  <1>4. CASE ~LastPulse /\ Pulse(pat_idx, step_idx, (pulse_n + 1) % 256) /\ blinks' = blinks + 1
    <2>1. pulse_n + 1 \in 0..255
      BY <1>0, <1>4, <1>9
    <2>2. pat_idx' = pat_idx /\ step_idx' = step_idx /\ pulse_n' = pulse_n + 1
      BY <1>4, <2>1 DEF Pulse
    <2>3. blinks' = S[step_idx - 1] + pulse_n' + 1
      BY <1>0, <1>2, <1>4, <2>2
    <2>4. QED
      BY <2>2, <2>3 DEF CountInv, S, PulsesOf, Step
  <1>5. CASE LastPulse /\ Pulse(pat_idx, step_idx + 1, 0) /\ blinks' = blinks + 1
    <2>1. pulse_n + 1 = R
      BY <1>0, <1>5, <1>9
    <2>2. pat_idx' = pat_idx /\ step_idx' = step_idx + 1 /\ pulse_n' = 0
      BY <1>5 DEF Pulse
    <2>3. blinks' = S[step_idx] + pulse_n' + 1
      BY <1>0, <1>2, <1>5, <2>1, <2>2
    <2>4. step_idx' - 1 = step_idx
      BY <1>0, <2>2
    <2>5. blinks' = S[step_idx' - 1] + pulse_n' + 1
      BY <2>3, <2>4
    <2>6. QED
      BY <2>2, <2>5 DEF CountInv, S, PulsesOf, Step
  <1>6. QED
    BY <1>3, <1>4, <1>5 DEF NextPulse

\* Nothing is in play in the dark phases.
LEMMA DarkCounts ==
  ASSUME phase' \notin {"ON", "OFF"}
  PROVE  CountInv'
  BY DEF CountInv, InPlay

\* A step of the state machine.
LEMMA AdvanceCounts ==
  ASSUME IInv, CountInv, Advance
  PROVE  CountInv'
  <1>1. CASE Override
    <2>1. Min(Overrides) \in P
      BY <1>1, MinOfNats, Sets DEF Override
    <2>2. QED
      BY <1>1, <2>1, BeginCounts, PlayCounts DEF Override
  <1>2. CASE NewFrame
    <2>1. CASE Defaults # {} /\ Begin(Min(Defaults))
      <3>1. Min(Defaults) \in P
        BY <2>1, MinOfNats, Sets
      <3>2. QED
        BY <2>1, <3>1, BeginCounts
    <2>2. CASE Dark("IDLE", IdlePoll)
      BY <2>2, DarkCounts DEF Dark
    <2>3. QED
      BY <1>2, <2>1, <2>2 DEF NewFrame
  <1>3. CASE NextPattern
    <2>1. CASE Following # {} /\ Begin(Min(Following))
      <3>1. Min(Following) \in P
        BY <2>1, MinOfNats, Sets
      <3>2. QED
        BY <2>1, <3>1, BeginCounts
    <2>2. CASE EndFrame
      BY <2>2, DarkCounts DEF EndFrame, Dark
    <2>3. QED
      BY <1>3, <2>1, <2>2 DEF NextPattern
  <1>4. CASE PulseOff \/ NextPulse
    BY <1>4, PlayCounts
  <1>5. CASE EndPattern
    BY <1>5, DarkCounts DEF EndPattern, EndFrame, Dark
  <1>6. QED
    BY <1>1, <1>2, <1>3, <1>4, <1>5 DEF Advance

LEMMA StepCounts ==
  ASSUME IInv, CountInv, [Next]_vars
  PROVE  CountInv'
  <1>1. CASE UNCHANGED <<phase, pat_idx, step_idx, pulse_n, blinks>>
    BY <1>1 DEF CountInv, InPlay, PulsesOf, Step
  <1>2. CASE Advance
    BY <1>2, AdvanceCounts
  <1>3. QED
    BY <1>1, <1>2 DEF Next, Pass, ClearAll, SetPattern, vars, position, frame

\* The pulse that ends a pattern is the last of its last step.
LEMMA EndCounts ==
  ASSUME IInv, CountInv, [Next]_vars, phase = "OFF", phase' \in {"INTER_GAP", "FRAME_GAP"}
  PROVE  blinks = Code(pat_idx)
  <1>1. LastPulse /\ LastStep
    <2>1. Advance
      BY DEF Next, Pass, ClearAll, SetPattern, vars, position
    <2>2. EndPattern
      BY <2>1 DEF Advance, Override, NewFrame, NextPattern, PulseOff, NextPulse, Begin, Pulse, Dark
    <2>3. QED
      BY <2>2 DEF EndPattern
  <1>2. InPlay
    BY DEF InPlay
  <1> DEFINE S == PulsesOf(pat_idx)
             R == Step(pat_idx, step_idx).repeat
  <1>0. step_idx \in Nat /\ pulse_n \in Nat /\ R \in 1..255 /\ pulse_n < R
    BY <1>2, PlayTypes
  <1>3. /\ blinks = S[step_idx - 1] + pulse_n + 1 /\ S[step_idx - 1] \in Nat
        /\ S[step_idx] = S[step_idx - 1] + R
    <2>1. step_idx - 1 \in 0..Len(Patterns[pat_idx].sequence)
      BY <1>2, PlayTypes
    <2>2. QED
      BY <1>2, <2>1, PlayTypes, PulsesAdd DEF CountInv
  <1>9. LastPulse <=> pulse_n + 1 >= R
    BY DEF LastPulse
  <1> HIDE DEF S, R
  <1>4. pulse_n + 1 = R
    BY <1>0, <1>1, <1>9
  <1>5. blinks = S[step_idx]
    BY <1>0, <1>3, <1>4
  <1>6. QED
    BY <1>1, <1>5 DEF Code, S, LastStep

-----------------------------------------------------------------------------
(* The theorems.                                                           *)

THEOREM InductiveInvariant == Spec => []IInv
  <1>1. IInv /\ [Next]_vars => IInv'
    BY StepKeeps
  <1>2. QED
    BY InitInv, <1>1, PTL DEF Spec

\* The indices always point at a step of the pattern in play and at a pulse
\* that step has, and the LED is lit in the ON phase only, whatever callers
\* switch between two loop passes.
THEOREM TypeCorrect == Spec => []TypeOK
  BY InductiveInvariant, PTL DEF IInv

\* A gap between two patterns is followed by one declared later, so a frame
\* plays no pattern twice.
THEOREM InOrder == Spec => PlayedInOrder
  <1>1. IInv /\ [Next]_vars =>
          [phase = "INTER_GAP" /\ phase' = "ON" /\ ~Patterns[pat_idx'].continuous =>
             \A p \in played : p < pat_idx']_vars
    BY StepKeeps
  <1>2. QED
    BY InductiveInvariant, <1>1, PTL DEF Spec, PlayedInOrder

\* A frame that comes to its end has played every default pattern that was
\* active all along, however many patterns there are.
THEOREM NoneSkipped == Spec => NoErrorSkipped
  <1>1. IInv /\ [Next]_vars =>
          [phase # "FRAME_GAP" /\ phase' = "FRAME_GAP" => throughout \subseteq played]_vars
    BY StepKeeps
  <1>2. QED
    BY InductiveInvariant, <1>1, PTL DEF Spec, NoErrorSkipped

\* A default pattern that plays to its end has blinked its whole code, whatever
\* callers switch meanwhile, for codes of any number of steps and pulses.
THEOREM CodesComplete == Spec => CodeComplete
  <1>1. Init => CountInv
    BY DEF Init, CountInv, InPlay
  <1>2. IInv /\ CountInv /\ [Next]_vars => CountInv'
    BY StepCounts
  <1>3. IInv /\ CountInv /\ [Next]_vars =>
          [phase = "OFF" /\ phase' \in {"INTER_GAP", "FRAME_GAP"} =>
             blinks = Code(pat_idx)]_vars
    BY EndCounts
  <1>4. QED
    BY InductiveInvariant, <1>1, <1>2, <1>3, PTL DEF Spec, CodeComplete
=============================================================================
