----------------------------- MODULE PcmOutput -----------------------------
(***************************************************************************)
(* PCM output: the OSS device (avia_gt_oss.c) on the PCM unit              *)
(* (avia_gt_pcm.c).  A buffer goes from the free list to a writer, to the  *)
(* busy list, and at the interrupt of the unit back.  The unit plays one   *)
(* buffer and has a register for the next (posted); it interrupts when a   *)
(* buffer ends, and the interrupt is served before the next one ends.      *)
(* A block of samples is its number and the bytes the writer gives.  The   *)
(* format is a register of the unit, the base rate is the decoder's.       *)
(***************************************************************************)
EXTENDS Integers, Sequences, FiniteSets, SequencesExt

CONSTANTS
  Writers,   \* processes that write
  Count,     \* AVIA_GT_PCM_BUFFER_COUNT
  MaxSamples,\* AVIA_GT_PCM_MAX_SAMPLES
  Sizes,     \* bytes of a write
  Speeds, Channels, \* arguments of SNDCTL_DSP_SPEED and SNDCTL_DSP_CHANNELS
  MaxBlocks  \* bound: blocks that are written, calls of ioctl and rates of a stream, together

VARIABLES
  users,       \* the device is open
  free, busy,  \* pcm_free_buffer_list, pcm_busy_buffer_list
  queued,      \* buffers that are marked as queued
  data,        \* the block in each buffer
  swab_samples, swab_buffer,  \* samples are swapped on the way, through this buffer
  format,      \* register PCMC: [W: 16 bits, C: stereo, S: signed, R: the divider]
  sample_rate, \* the base rate, of avia_av_core.c
  writer,      \* each call: [at, buffer, block, bytes given, bps_16, sample_count, bytes copied]
  unit,        \* the PCM unit: [playing, posted, ended]
  written, calls, \* bounds
  asked, stale, \* history: the speed asked for last; calls during which the format changed
  accepted, played,  \* history: blocks in the order of the busy list; blocks played
  raced, mixed       \* history: an interrupt between check and post; two in the swap buffer

vars == <<users, free, busy, queued, data, swab_samples, swab_buffer, format, sample_rate,
          writer, unit, written, calls, asked, stale, accepted, played, raced, mixed>>

Buffers == 1 .. Count
None == 0
Idle == [at |-> "idle", buffer |-> None, block |-> None, given |-> 0,
         bps_16 |-> FALSE, sample_count |-> 0, copied |-> 0]

TypeOK ==
  /\ free \in Seq(Buffers) /\ busy \in Seq(Buffers) /\ queued \subseteq Buffers
  /\ writer \in [Writers -> [at : {"idle", "wait", "copy", "swap", "check", "post"},
                             buffer : Buffers \cup {None}, block : 0 .. MaxBlocks,
                             given : Nat, bps_16 : BOOLEAN, sample_count : 0 .. MaxSamples,
                             copied : 0 .. 4 * MaxSamples]]
  /\ format \in [W : BOOLEAN, C : BOOLEAN, S : BOOLEAN, R : 1 .. 3]
  /\ unit \in [playing : Buffers \cup {None}, posted : Buffers \cup {None}, ended : BOOLEAN]

Init ==
  /\ users = FALSE
  /\ free = [i \in Buffers |-> i] /\ busy = <<>> /\ queued = {}
  /\ data = [b \in Buffers |-> None] /\ swab_samples = TRUE /\ swab_buffer = None
  /\ format = [W |-> TRUE, C |-> TRUE, S |-> TRUE, R |-> 3] /\ sample_rate = 44100
  /\ calls = 0 /\ asked = 0 /\ stale = {}
  /\ writer = [w \in Writers |-> Idle]
  /\ unit = [playing |-> None, posted |-> None, ended |-> FALSE]
  /\ written = 0 /\ accepted = <<>> /\ played = <<>> /\ raced = FALSE /\ mixed = FALSE

history == <<written, accepted, played>>
formats == <<swab_samples, format, sample_rate, calls, asked>>
settings == <<users, stale, formats>>

----------------------------------------------------------------------------
(* The device has one user; its processes may write at the same time.      *)

Open ==
  /\ ~users /\ users' = TRUE
  /\ UNCHANGED <<free, busy, queued, data, stale, swab_buffer, writer, unit, raced, mixed>>
  /\ UNCHANGED history /\ UNCHANGED formats

Close ==
  /\ users /\ \A w \in Writers : writer[w].at = "idle"
  /\ users' = FALSE
  /\ UNCHANGED <<free, busy, queued, data, stale, swab_buffer, writer, unit, raced, mixed>>
  /\ UNCHANGED history /\ UNCHANGED formats

Alone(w) == \A v \in Writers \ {w} : writer[v].at \notin {"check", "post"}

----------------------------------------------------------------------------
(* avia_oss_dsp_ioctl.  What is not below answers or refuses.              *)

Divider == [r \in {48000, 44100, 32000, 24000, 22050, 16000, 12000, 11025, 8000} |->
              IF r >= 32000 THEN 3 ELSE IF r >= 16000 THEN 2 ELSE 1]
Base(r) == r * 2 ^ (3 - Divider[r])

\* avia_av_set_sample_rate restarts the decoder when the rate is another; avia_av_audio_init then
\* selects the clock, that of 44100 for every rate it does not know.
AudioInit(rate) == IF rate \in {48000, 32000} THEN rate ELSE 44100

\* avia_gt_pcm_calc_sample_count, avia_gt_pcm_calc_buffer_size and what a sample takes
Frame(f) == (IF f.W THEN 2 ELSE 1) * (IF f.C THEN 2 ELSE 1)
SampleCount(bytes, f) ==
  LET n == bytes \div Frame(f)  most == IF n > MaxSamples THEN MaxSamples ELSE n IN
  IF Frame(f) = 1 THEN most - (most % 2) ELSE most
BlockSize(f) == MaxSamples * Frame(f)

Reformat(f) ==
  /\ format' = f
  /\ stale' = stale \cup (IF Frame(f) = Frame(format) THEN {}
                          ELSE {w \in Writers : writer[w].at # "idle"})

\* SNDCTL_DSP_SETFMT: eight bits leave the order of the bytes alone
SetFormat(bits, signed, be) ==
  /\ Reformat([format EXCEPT !.W = bits = 16, !.S = signed])
  /\ swab_samples' = IF bits = 16 THEN ~be ELSE swab_samples
  /\ UNCHANGED <<sample_rate, asked>>

\* SNDCTL_DSP_CHANNELS, and SNDCTL_DSP_STEREO with one less: the argument is cut to a byte
SetChannels(n) ==
  /\ n % 256 \in {1, 2}
  /\ Reformat([format EXCEPT !.C = n % 256 = 2])
  /\ UNCHANGED <<swab_samples, sample_rate, asked>>

\* Wrong variant: the divider is set and the decoder's base rate is left.
SpeedOnly(r) ==
  /\ r % 65536 \in DOMAIN Divider
  /\ format' = [format EXCEPT !.R = Divider[r % 65536]] /\ asked' = r
  /\ UNCHANGED <<swab_samples, sample_rate, stale>>

\* SNDCTL_DSP_SPEED: the whole argument chooses the base rate, its lower half the divider
Speed(r) ==
  /\ r % 65536 \in DOMAIN Divider
  /\ sample_rate' = IF r \in DOMAIN Divider THEN AudioInit(Base(r)) ELSE sample_rate
  /\ format' = [format EXCEPT !.R = Divider[r % 65536]] /\ asked' = r
  /\ UNCHANGED <<swab_samples, stale>>

Ioctl ==
  /\ users /\ \A w \in Writers : writer[w].at \notin {"check", "post"}
  /\ written + calls < MaxBlocks /\ calls' = calls + 1
  /\ \/ \E bits \in {8, 16} : \E signed, be \in BOOLEAN : SetFormat(bits, signed, be)
     \/ \E n \in Channels : SetChannels(n)
     \/ \E r \in Speeds : Speed(r)
  /\ UNCHANGED <<users, free, busy, queued, data, swab_buffer, writer, unit, raced, mixed>>
  /\ UNCHANGED history

\* avia_av_interrupt: the decoder follows the rate of a new stream, whatever was asked for.
StreamRate(r) ==
  /\ r # sample_rate /\ sample_rate' = r /\ asked' = 0
  /\ written + calls < MaxBlocks /\ calls' = calls + 1
  /\ UNCHANGED <<users, stale, swab_samples, format, free, busy, queued, data, swab_buffer>>
  /\ UNCHANGED <<writer, unit, raced, mixed>> /\ UNCHANGED history

----------------------------------------------------------------------------
(* avia_gt_pcm_play_buffer: the samples are counted before the wait, the   *)
(* bytes when they are copied.                                             *)

Write(w, bytes) ==
  /\ users /\ writer[w].at = "idle" /\ Alone(w) /\ written + calls < MaxBlocks
  /\ writer' = [writer EXCEPT ![w] =
                  [Idle EXCEPT !.at = "wait", !.block = written + 1, !.given = bytes,
                               !.bps_16 = format.W, !.sample_count = SampleCount(bytes, format)]]
  /\ written' = written + 1 /\ stale' = stale \ {w}
  /\ UNCHANGED <<users, free, busy, queued, data, swab_buffer, unit, accepted, played, raced, mixed>>
  /\ UNCHANGED formats

\* No free buffer, and the file does not block; or a signal ends the wait.
GivesUp(w) ==
  /\ writer[w].at = "wait" /\ free = <<>> /\ Alone(w)
  /\ writer' = [writer EXCEPT ![w] = Idle]
  /\ UNCHANGED <<free, busy, queued, data, swab_buffer, unit, raced, mixed>>
  /\ UNCHANGED history /\ UNCHANGED settings

\* The head of the free list; the format decides whether the samples take the detour.
Take(w) ==
  /\ writer[w].at = "wait" /\ free # <<>> /\ Alone(w)
  /\ free' = Tail(free)
  /\ LET swaps == writer[w].bps_16 /\ swab_samples IN
     /\ writer' = [writer EXCEPT ![w].at = IF swaps THEN "swap" ELSE "copy", ![w].buffer = Head(free),
                                  ![w].copied = writer[w].sample_count * Frame(format)]
     /\ swab_buffer' = IF swaps THEN writer[w].block ELSE swab_buffer
     /\ mixed' = (mixed \/ (swaps /\ \E v \in Writers : writer[v].at = "swap"))
  /\ UNCHANGED <<busy, queued, data, unit, raced>>
  /\ UNCHANGED history /\ UNCHANGED settings

\* The copy may sleep; what follows it up to the post does not, so no other writer comes between.
CopyAndAdd(w) ==
  /\ writer[w].at \in {"copy", "swap"} /\ Alone(w)
  /\ data' = [data EXCEPT ![writer[w].buffer] =
                IF writer[w].at = "swap" THEN swab_buffer ELSE writer[w].block]
  /\ busy' = Append(busy, writer[w].buffer)
  /\ accepted' = Append(accepted, writer[w].block)
  /\ writer' = [writer EXCEPT ![w].at = "check"]
  /\ UNCHANGED <<free, queued, swab_buffer, unit, written, played, raced, mixed>>
  /\ UNCHANGED settings

----------------------------------------------------------------------------
(* avia_gt_pcm_queue_buffer: the register is looked at before the lock.    *)

Check(w) ==
  /\ writer[w].at = "check"
  /\ writer' = [writer EXCEPT ![w] = IF unit.posted = None THEN [@ EXCEPT !.at = "post"] ELSE Idle]
  /\ UNCHANGED <<free, busy, queued, data, swab_buffer, unit, raced, mixed>>
  /\ UNCHANGED history /\ UNCHANGED settings

\* Wrong variant: a buffer that was queued already is not told from one that was not.
UnqueuedAll(s) == {i \in DOMAIN s : TRUE}

Unqueued(s) == {i \in DOMAIN s : s[i] \notin queued}

FirstOf(s) == s[CHOOSE i \in Unqueued(s) : \A j \in Unqueued(s) : i <= j]

Post(w) ==
  /\ writer[w].at = "post"
  /\ writer' = [writer EXCEPT ![w] = Idle]
  /\ IF Unqueued(busy) = {} THEN UNCHANGED <<queued, unit>>
     ELSE /\ queued' = queued \cup {FirstOf(busy)}
          /\ unit' = [unit EXCEPT !.posted = FirstOf(busy)]
  /\ UNCHANGED <<free, busy, data, swab_buffer, raced, mixed>>
  /\ UNCHANGED history /\ UNCHANGED settings

\* avia_gt_pcm_irq frees the head of the busy list, and queues.
Interrupt ==
  LET rest == IF busy = <<>> THEN <<>> ELSE Tail(busy)
      posts == unit.posted = None /\ Unqueued(rest) # {} IN
  /\ unit.ended
  /\ busy' = rest
  /\ free' = IF busy = <<>> THEN free ELSE Append(free, Head(busy))
  /\ queued' = (IF busy = <<>> THEN queued ELSE queued \ {Head(busy)})
                 \cup (IF posts THEN {FirstOf(rest)} ELSE {})
  /\ unit' = [unit EXCEPT !.ended = FALSE, !.posted = IF posts THEN FirstOf(rest) ELSE @]
  /\ raced' = (raced \/ \E w \in Writers : writer[w].at = "post")
  /\ UNCHANGED <<data, swab_buffer, writer, mixed>>
  /\ UNCHANGED history /\ UNCHANGED settings

----------------------------------------------------------------------------
(* The unit.                                                               *)

UnitLoads ==
  /\ unit.playing = None /\ unit.posted # None
  /\ unit' = [unit EXCEPT !.playing = unit.posted, !.posted = None]
  /\ played' = Append(played, data[unit.posted])
  /\ UNCHANGED <<free, busy, queued, data, swab_buffer, writer, written, accepted, raced, mixed>>
  /\ UNCHANGED settings

UnitEnds ==
  /\ unit.playing # None /\ ~unit.ended
  /\ unit' = [unit EXCEPT !.playing = None, !.ended = TRUE]
  /\ UNCHANGED <<free, busy, queued, data, swab_buffer, writer, raced, mixed>>
  /\ UNCHANGED history /\ UNCHANGED settings

Next ==
  \/ Open \/ Close \/ Ioctl \/ \E r \in {48000, 44100, 32000} : StreamRate(r)
  \/ \E w \in Writers : \/ \E bytes \in Sizes : Write(w, bytes)
                        \/ GivesUp(w) \/ Take(w) \/ CopyAndAdd(w) \/ Check(w) \/ Post(w)
  \/ Interrupt \/ UnitLoads \/ UnitEnds

Spec == Init /\ [][Next]_vars

----------------------------------------------------------------------------

\* What is heard are the blocks in the order they were put on the list, none twice, none
\* left out and none overwritten, and a buffer that plays is not free: unless an interrupt
\* came between the check of the register and the post, or two writers swap samples.
PlaysInOrder ==
  ~raced /\ ~mixed =>
    /\ IsPrefix(played, accepted)
    /\ unit.playing # None => \A i \in DOMAIN free : free[i] # unit.playing

\* A call copies no more than it is given and no more than a buffer holds, loses less than a
\* frame of what fits, and takes a block of the size that GETBLKSIZE names whole unless it is of
\* 8-bit mono samples (1023 bytes, of which 1022 are taken): unless the format changed in a call.
TakesWhatIsGiven ==
  \A w \in Writers : writer[w].at \in {"copy", "swap"} /\ w \notin stale =>
    LET call == writer[w] IN
    /\ call.copied <= call.given /\ call.copied <= 4 * MaxSamples
    /\ call.given > BlockSize(format) \/ call.given - call.copied < 4
    /\ Frame(format) > 1 /\ call.given = BlockSize(format) => call.copied = call.given

\* The divider and the decoder's base rate give the speed that was asked for and agreed to last,
\* until a stream brings its own rate: unless the argument does not fit the 16 bits it is cut to.
SpeedAsAsked ==
  asked # 0 /\ asked < 65536 => sample_rate = asked * 2 ^ (3 - format.R)
=============================================================================
