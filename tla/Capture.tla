------------------------------ MODULE Capture ------------------------------
(***************************************************************************)
(* The video capture unit (avia_gt_capture.c) and its users: the capture   *)
(* device, the picture in graphics (avia_gt_pig.c) and the V4L2 device on  *)
(* top of that (avia_gt_v4l2.c).  A size stands for width and height.      *)
(***************************************************************************)
EXTENDS Integers, FiniteSets

CONSTANTS
  Files,      \* opened capture devices
  PigCount,   \* pictures: 2 (eNX) or 1 (GTX)
  Sizes,      \* sizes a user asks for; 0 is none of them
  Full,       \* the size of the whole picture
  MaxFrames   \* bound: frames that are captured

VARIABLES
  busy, frames,      \* capture_busy, captured_frames
  input, output,     \* the sizes set
  unit,              \* the capture unit and the picture unit: [size, irq, scale, shown]
  pig_busy, window,  \* per picture; the size of the picture window
  file,              \* per file: "closed", "open", "wait" (in read), "got" (has data to copy)
  clock,             \* bound
  stolen             \* history: the capture was stopped, or its size set, beside the picture

vars == <<busy, frames, input, output, unit, pig_busy, window, file, clock, stolen>>

Pigs == 0 .. PigCount - 1
Off == [on |-> FALSE, scale |-> 0]

TypeOK ==
  /\ busy \in BOOLEAN /\ frames \in 0 .. MaxFrames
  /\ input \in Sizes \cup {Full} /\ output \in Sizes
  /\ unit \in [on : BOOLEAN, scale : 0 .. Full]
  /\ pig_busy \in [Pigs -> BOOLEAN] /\ window \in Sizes
  /\ file \in [Files -> {"closed", "open", "wait", "got"}]

\* avia_gt_capture_init, and avia_gt_pig_init, which gives the pictures a quarter of the size.
Init ==
  /\ busy = FALSE /\ frames = 0 /\ input = Full /\ output = Full \div 4 /\ unit = Off
  /\ pig_busy = [n \in Pigs |-> FALSE] /\ window = Full \div 4
  /\ file = [f \in Files |-> "closed"] /\ clock = 0 /\ stolen = FALSE

----------------------------------------------------------------------------
(* The capture unit.                                                       *)

Scale(from) == from \div output

\* Wrong variant: sizes are changed while the capture runs.
ChangedAlways == TRUE

MayChange == ~busy

MayStart(from) == ~busy /\ Scale(from) > 0

\* avia_gt_capture_start with the input that is set; does nothing when it may not.
StartCapture(from) ==
  IF MayStart(from)
    THEN busy' = TRUE /\ frames' = 0 /\ unit' = [on |-> TRUE, scale |-> Scale(from)]
    ELSE UNCHANGED <<busy, frames, unit>>

\* avia_gt_capture_stop: the interrupt goes with the capture.
StopCapture ==
  /\ busy' = FALSE
  /\ unit' = IF busy THEN Off ELSE unit

Frame ==
  /\ unit.on /\ clock < MaxFrames /\ clock' = clock + 1
  /\ frames' = frames + 1
  /\ file' = [f \in Files |-> IF file[f] = "wait" THEN "got" ELSE file[f]]
  /\ UNCHANGED <<busy, input, output, unit, pig_busy, window, stolen>>

----------------------------------------------------------------------------
(* The capture device: only a capture that runs already keeps it closed.   *)

SomePicture == \E n \in Pigs : pig_busy[n]

Open(f) ==
  /\ file[f] = "closed" /\ ~busy
  /\ file' = [file EXCEPT ![f] = "open"]
  /\ UNCHANGED <<busy, frames, input, output, unit, pig_busy, window, clock, stolen>>

\* Whoever started the capture, it ends.
Close(f) ==
  /\ file[f] = "open"
  /\ file' = [file EXCEPT ![f] = "closed"]
  /\ StopCapture /\ stolen' = (stolen \/ SomePicture)
  /\ UNCHANGED <<frames, input, output, pig_busy, window, clock>>

\* A read that may wait starts the capture if need be, whether that succeeds or not.
Read(f) ==
  /\ file[f] = "open"
  /\ busy' = (busy \/ MayStart(input)) /\ frames' = 0
  /\ unit' = IF MayStart(input) THEN [on |-> TRUE, scale |-> Scale(input)] ELSE unit
  /\ file' = [file EXCEPT ![f] = "wait"]
  /\ UNCHANGED <<input, output, pig_busy, window, clock, stolen>>

\* The frame count is looked at again after the wake-up; another read may have reset it.
\* A signal ends the wait, too, and the read returns what the memory holds.
ReadWakes(f) ==
  /\ file[f] = "got"
  /\ file' = [file EXCEPT ![f] = IF frames > 0 THEN "open" ELSE "wait"]
  /\ UNCHANGED <<busy, frames, input, output, unit, pig_busy, window, clock, stolen>>

Interrupted(f) ==
  /\ file[f] \in {"wait", "got"}
  /\ file' = [file EXCEPT ![f] = "open"]
  /\ UNCHANGED <<busy, frames, input, output, unit, pig_busy, window, clock, stolen>>

\* A read that may not wait starts the capture and returns no data.
ReadNoWait(f) ==
  /\ file[f] = "open" /\ StartCapture(input)
  /\ UNCHANGED <<input, output, pig_busy, window, file, clock, stolen>>

IoctlStop(f) ==
  /\ file[f] = "open" /\ StopCapture /\ stolen' = (stolen \/ SomePicture)
  /\ UNCHANGED <<frames, input, output, pig_busy, window, file, clock>>

IoctlInput(f, s) ==
  /\ file[f] = "open" /\ MayChange /\ input' = s
  /\ UNCHANGED <<busy, frames, output, unit, pig_busy, window, file, clock, stolen>>

\* The window keeps the size it had.
IoctlOutput(f, s) ==
  /\ file[f] = "open" /\ MayChange /\ output' = s /\ stolen' = TRUE
  /\ UNCHANGED <<busy, frames, input, unit, pig_busy, window, file, clock>>

----------------------------------------------------------------------------
(* The pictures share the capture unit and one window.                     *)

\* avia_gt_pig_set_size; the size is refused while the capture runs.
SetSize(n, s) ==
  /\ ~pig_busy[n] /\ MayChange
  /\ output' = s /\ window' = s
  /\ UNCHANGED <<busy, frames, input, unit, pig_busy, file, clock, stolen>>

\* avia_gt_pig_show sets the input to the whole picture.
Show(n) ==
  /\ ~pig_busy[n] /\ MayChange
  /\ input' = Full
  /\ StartCapture(Full)
  /\ pig_busy' = [pig_busy EXCEPT ![n] = MayStart(Full)]
  /\ UNCHANGED <<output, window, file, clock, stolen>>

\* avia_gt_pig_hide, also at the close of the V4L2 device.
Hide(n) ==
  /\ pig_busy[n]
  /\ pig_busy' = [pig_busy EXCEPT ![n] = FALSE]
  /\ StopCapture
  /\ UNCHANGED <<frames, input, output, window, file, clock, stolen>>

\* avia_gt_v4l2_ioctl works on the first picture.  VIDIOC_OVERLAY shows and hides it, VIDIOC_G_INPUT
\* falls through to that and hides it, VIDIOC_S_FMT does not tell that the size was refused.
V4l2Ioctl == Show(0) \/ Hide(0) \/ \E s \in Sizes : SetSize(0, s)

Next ==
  \/ V4l2Ioctl
  \/ \E f \in Files : \/ Open(f) \/ Close(f) \/ Read(f) \/ ReadWakes(f) \/ Interrupted(f)
                      \/ ReadNoWait(f) \/ IoctlStop(f)
                      \/ \E s \in Sizes : IoctlInput(f, s) \/ IoctlOutput(f, s)
  \/ \E n \in Pigs : Show(n) \/ Hide(n) \/ \E s \in Sizes : SetSize(n, s)
  \/ Frame

Spec == Init /\ [][Next]_vars

----------------------------------------------------------------------------

\* A picture that is shown is captured, in the size of its window or larger, unless a
\* capture device stopped the capture or changed the size beside it.
PictureLive ==
  ~stolen => \A n \in Pigs : pig_busy[n] => unit.on /\ unit.scale = Full \div window
=============================================================================
