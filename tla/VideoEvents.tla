----------------------------- MODULE VideoEvents -----------------------------
(***************************************************************************)
(* The events of the video device (avia_av_napi.c): a ring that the        *)
(* decoder's interrupt fills when the picture changes (avia_av_core.c) and *)
(* one process reads.  An event is its number in the order of writing.     *)
(***************************************************************************)
EXTENDS Integers, Sequences

CONSTANTS
  VRing,     \* MAX_VIDEO_EVENT (8)
  Pictures,  \* sizes and aspect ratios of the picture, the first after reset among them
  MaxVideoEvents   \* bound: events

VARIABLES
  picture,      \* video_width, video_height, video_aspect_ratio
  video,        \* video_events
  getter,       \* the process in VIDEO_GET_EVENT
  written, shown,   \* history: events written, and read
  told          \* history: how many events had been read when a loss was told or meant

vars == <<picture, video, getter, written, shown, told>>

NoPicture == 0

TypeOK ==
  /\ picture \in Pictures \cup {NoPicture}
  /\ video.r \in 0 .. VRing - 1 /\ video.w \in 0 .. VRing - 1 /\ getter \in {"idle", "waits"}

Init ==
  /\ picture = NoPicture
  /\ video = [ring |-> [i \in 0 .. VRing - 1 |-> 0], r |-> 0, w |-> 0, overflow |-> FALSE]
  /\ getter = "idle" /\ written = 0 /\ shown = <<>> /\ told = {}

Wraps(i) == (i + 1) % VRing

\* Wrong variant: a full ring overwrites its oldest event and does not say so.
DropSilent(v) == IF Wraps(v.w) = v.r THEN [v EXCEPT !.r = Wraps(@)] ELSE v

\* A full ring gives up its oldest event.
Drop(v) == IF Wraps(v.w) = v.r THEN [v EXCEPT !.overflow = TRUE, !.r = Wraps(@)] ELSE v

\* The interrupt of a sequence header: an event if the picture has changed.
AddEvent(p) ==
  /\ p # picture /\ written < MaxVideoEvents
  /\ picture' = p /\ written' = written + 1
  /\ video' = [Drop(video) EXCEPT !.ring[video.w] = written + 1, !.w = Wraps(@)]
  /\ UNCHANGED <<getter, shown, told>>

Shows ==
  /\ shown' = Append(shown, video.ring[video.r])
  /\ video' = [video EXCEPT !.r = Wraps(@)]

\* VIDEO_GET_EVENT: an overflow is told first, once; then it is waited for an event.
GetEvent ==
  /\ getter = "idle"
  /\ IF video.overflow
     THEN /\ video' = [video EXCEPT !.overflow = FALSE]
          /\ told' = told \cup {Len(shown)} /\ UNCHANGED <<getter, shown>>
     ELSE IF video.r = video.w
     THEN getter' = "waits" /\ UNCHANGED <<video, shown, told>>
     ELSE Shows /\ UNCHANGED <<getter, told>>
  /\ UNCHANGED <<picture, written>>

Woken ==
  /\ getter = "waits" /\ video.r # video.w
  /\ Shows /\ getter' = "idle"
  /\ UNCHANGED <<picture, written, told>>

\* A second process opens the device for writing: the ring is emptied, the flag stays.
Open ==
  /\ video' = [video EXCEPT !.r = 0, !.w = 0]
  /\ told' = told \cup {Len(shown)}
  /\ UNCHANGED <<picture, getter, written, shown>>

Next ==
  \/ \E p \in Pictures : AddEvent(p)
  \/ GetEvent \/ Woken \/ Open

Spec == Init /\ [][Next]_vars

\* The events one process reads are in order, and where it skips some it was told of an
\* overflow just before, or is told by its next call, or another process emptied the ring.
SkipsAreTold ==
  \A i \in DOMAIN shown :
    LET before == IF i = 1 THEN 0 ELSE shown[i - 1] IN
    /\ shown[i] > before
    /\ shown[i] > before + 1 => \/ {i - 1, i} \cap told # {}
                                \/ i = Len(shown) /\ video.overflow
=============================================================================
