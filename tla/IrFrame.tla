------------------------------ MODULE IrFrame ------------------------------
(***************************************************************************)
(* The infrared keyboard, from pulses to key codes                         *)
(* (avia_gt_ir_samsung.c).  A frame is a header of eight chips and digits  *)
(* of four chips, one of which is set; the last digit is a check digit.    *)
(* The unit reports for each pulse how long it was on and how long pause   *)
(* and pulse took, in ticks, six to a chip.  The real frame has 16 digits. *)
(***************************************************************************)
EXTENDS Integers, Sequences, FiniteSets, SequencesExt

CONSTANTS
  Digits,     \* digits of a frame, the check digit included
  MaxPulses,  \* MAX_PULSES
  Jitter,     \* ticks a pulse is longer
  NoiseOns, NoisePauses,  \* pulses that belong to no frame
  MaxFrames   \* bound: frames and disturbances

VARIABLES
  air, frame,      \* pulses of the frame that are still to come; its digits
  lbuf, rec_time,  \* what is received of a frame: pauses and pulses in chips; how long it is
  decoded,         \* the digits of the last frame that was decoded
  clock, clean     \* bound; history: the frame came undisturbed, and nothing was left before it

vars == <<air, frame, lbuf, rec_time, decoded, clock, clean>>

Chips == 8 + 4 * Digits
Pause == 60    \* ticks before a frame
None == <<>>

Init ==
  /\ air = <<>> /\ frame = None /\ lbuf = <<>> /\ rec_time = 0 /\ decoded = None
  /\ clock = 0 /\ clean = FALSE

TypeOK ==
  /\ rec_time \in 0 .. Chips - 1 /\ Len(lbuf) < MaxPulses
  /\ decoded \in Seq(0 .. 3)

----------------------------------------------------------------------------
(* The keyboard.                                                           *)

CheckDigit(d) == FoldLeft(LAMBDA a, b : (a + b) % 4, 0, d)
Frames == {Append(d, CheckDigit(d)) : d \in [1 .. Digits - 1 -> 0 .. 3]}

\* The chips that are set, numbered from 0.
Set(f) == {1, 2, 3, 7} \cup {8 + 4 * (i - 1) + f[i] : i \in DOMAIN f}

\* The runs of chips as pulses: the chips of the pause before and those that are on.
Starts(f) == {c \in Set(f) : c - 1 \notin Set(f)}
PulseAt(f, c) ==
  [off |-> c - (CHOOSE b \in 0 .. c : b \notin Set(f) /\ (b = 0 \/ b - 1 \in Set(f))
                                    /\ \A x \in b .. c - 1 : x \notin Set(f)),
   on |-> Cardinality({x \in Set(f) : x >= c /\ c .. x \subseteq Set(f)})]
PulsesOf(f) == [i \in 1 .. Cardinality(Starts(f)) |->
                  PulseAt(f, CHOOSE c \in Starts(f) : Cardinality({b \in Starts(f) : b < c}) = i - 1)]

StartFrame(f) ==
  /\ air = <<>> /\ clock < MaxFrames /\ clock' = clock + 1
  /\ frame' = f /\ air' = PulsesOf(f) /\ clean' = (lbuf = <<>>) /\ decoded' = None
  /\ UNCHANGED <<lbuf, rec_time>>

BreaksOff ==
  /\ air # <<>> /\ air' = <<>> /\ clean' = FALSE
  /\ UNCHANGED <<frame, lbuf, rec_time, decoded, clock>>

----------------------------------------------------------------------------
(* samsung_ir_decode.                                                      *)

\* Wrong variant: a pause that ends with the byte goes to the next byte.
BeyondEq(time, bit) == time % 8 >= bit

Beyond(time, bit) == time % 8 > bit

\* A pause, from the place [bier, bit]; bit is an unsigned char.
Skip(at, time) ==
  IF Beyond(time, at.bit) THEN [at EXCEPT !.bier = @ + 1, !.bit = @ + 8 - (time % 8)]
  ELSE [at EXCEPT !.bit = (@ - time) % 256]

\* A chip that is on; only the low bits exist.
SetChip(at, i) ==
  [chips |-> IF at.bit < 8 THEN at.chips \cup {8 * at.bier + 7 - at.bit} ELSE at.chips,
   bier |-> IF at.bit = 0 THEN at.bier + 1 ELSE at.bier,
   bit |-> IF at.bit = 0 THEN 7 ELSE at.bit - 1]

Reconstruct(pulses) ==
  FoldLeft(LAMBDA at, p : FoldLeft(SetChip, Skip(at, p.off), [i \in 1 .. p.on |-> i]),
           [chips |-> {}, bier |-> 0, bit |-> 7], pulses).chips

\* chip2value
DigitOf(chips, i) == {d \in 0 .. 3 : 8 + 4 * (i - 1) + d \in chips}

Decode(pulses) ==
  LET chips == Reconstruct(pulses)
      digits == [i \in 1 .. Digits |-> CHOOSE d \in 0 .. 3 : d \in DigitOf(chips, i)] IN
  IF pulses[1].on # 3 \/ (Len(pulses) > 1 /\ pulses[2].off # 3) THEN None
  ELSE IF \E i \in 1 .. Digits : Cardinality(DigitOf(chips, i)) # 1 THEN None
  ELSE IF CheckDigit(SubSeq(digits, 1, Digits - 1)) # digits[Digits] THEN None
  ELSE digits

----------------------------------------------------------------------------
(* samsung_ir_receive_irq, per pulse.                                      *)

Norm(ticks) == (ticks + 3) \div 6
Begun == lbuf # <<>>

Spoils(on, off)  == off < 4 \/ (off > 50 /\ Begun) \/ (Begun /\ on > 14)
Ignored(on, off) == ~Begun /\ (on + off < 50 \/ on < 10 \/ on > 18)

Forget == lbuf' = <<>> /\ rec_time' = 0

Store(on, off) ==
  LET len == Norm(on + off)
      p == [off |-> IF Begun THEN len - Norm(on) ELSE 1, on |-> Norm(on)]
      time == rec_time + (IF Begun THEN len ELSE Norm(on)) IN
  IF time > Chips - 1 THEN Forget /\ UNCHANGED decoded
  ELSE IF time >= Chips - 4
    THEN Forget /\ decoded' = Decode(Append(lbuf, p))
  ELSE IF Len(lbuf) + 1 >= MaxPulses THEN Forget /\ UNCHANGED decoded
  ELSE lbuf' = Append(lbuf, p) /\ rec_time' = time /\ UNCHANGED decoded

Receive(on, off) ==
  IF Spoils(on, off) THEN Forget /\ UNCHANGED decoded
  ELSE IF Ignored(on, off) THEN UNCHANGED <<lbuf, rec_time, decoded>>
  ELSE Store(on, off)

\* The first pulse of a frame follows a pause.
FramePulse(j) ==
  LET p == Head(air)
      first == Len(air) = Len(PulsesOf(frame)) IN
  /\ air # <<>>
  /\ Receive(6 * p.on + j, IF first THEN Pause ELSE 6 * p.off - j)
  /\ air' = Tail(air)
  /\ UNCHANGED <<frame, clock, clean>>

Noise(on, off) ==
  /\ clock < MaxFrames /\ clock' = clock + 1
  /\ Receive(on, off)
  /\ clean' = (clean /\ air = <<>>) /\ frame' = (IF air = <<>> THEN None ELSE frame)
  /\ UNCHANGED air

Next ==
  \/ \E f \in Frames : StartFrame(f)
  \/ BreaksOff
  \/ \E j \in Jitter : FramePulse(j)
  \/ \E on \in NoiseOns, off \in NoisePauses : Noise(on, off)

Spec == Init /\ [][Next]_vars

----------------------------------------------------------------------------

\* A frame that comes undisturbed, with nothing left of an earlier one, is decoded to what
\* was sent, however its pulses run together and within the jitter.
DecodesFrames == air = <<>> /\ clean /\ frame # None => decoded = frame
=============================================================================
