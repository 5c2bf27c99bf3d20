----------------------------- MODULE DmxBuffer -----------------------------
(***************************************************************************)
(* The ring buffer of one demux filter (struct dmxdev_buffer in dmxdev.c)  *)
(* with the two parties that share it without a common lock: read() holds  *)
(* the filter's mutex, the section callback runs in the demux bottom half  *)
(* and the timeout in the timer bottom half.                               *)
(*                                                                         *)
(* A bottom half runs to completion with respect to the process, so each   *)
(* callback is one action; the process can be preempted between any two    *)
(* accesses, so read() is a sequence of steps.  A byte is represented by   *)
(* its position in the stream the hardware delivered to the filter.        *)
(***************************************************************************)
EXTENDS Integers

CONSTANTS
  Sizes,        \* the sizes DMX_SET_BUFFER_SIZE may be given
  DefaultSize,  \* the size dvb_dmxdev_buffer_init sets
  MaxSize,      \* an upper bound of Sizes
  MaxLen,       \* the longest piece one callback delivers
  MaxCount,     \* the largest count given to read()
  MaxPos        \* model bound: the length of the stream

ASSUME SizesAssumption ==
  /\ MaxSize \in Nat
  /\ Sizes \subseteq 0 .. MaxSize
  /\ DefaultSize \in Sizes \ {0}

ASSUME BoundsAssumption == MaxLen \in Nat /\ MaxCount \in Nat /\ MaxPos \in Nat

VARIABLES
  state,     \* dmxdevfilter->state, from DMXDEV_STATE_SET up
  oneshot,   \* params.sec.flags & DMX_ONESHOT
  timer,     \* dmxdevfilter->timer is pending
  mem,       \* buffer.data # 0
  data,      \* what buffer.data points to: slot -> stream position
  size, pread, pwrite, error,
  pc,        \* where the process inside dvb_dmxdev_buffer_read is
  todo, nonblock, err,   \* its arguments and locals
  chunk,     \* the length of the copy_to_user in progress
  rest,      \* what is copied after the wrap
  k,         \* how much of the chunk is copied
  written,   \* history: the length of the stream so far
  base       \* history: the stream position the slot at pread holds

device == <<state, oneshot, timer>>
ring   == <<mem, data, size, pread, pwrite>>
reader == <<todo, nonblock, err, chunk, rest, k>>
vars   == <<device, ring, error, pc, reader, written, base>>

States == {"SET", "GO", "DONE", "TIMEDOUT"}
Active == {"GO", "DONE", "TIMEDOUT"}          \* state >= DMXDEV_STATE_GO
Errors == {"none", "EOVERFLOW", "ETIMEDOUT"}
Slots  == 0 .. MaxSize - 1

TypeOK ==
  /\ state \in States /\ oneshot \in BOOLEAN /\ timer \in BOOLEAN
  /\ mem \in BOOLEAN /\ data \in [Slots -> Int] /\ size \in Sizes
  /\ pread \in Nat /\ pwrite \in Nat
  /\ error \in Errors /\ err \in Errors
  /\ pc \in {"idle", "enter", "loop", "wait", "sleep", "check", "flush",
             "clear", "calc", "copy"}
  /\ todo \in Nat /\ nonblock \in BOOLEAN
  /\ chunk \in Nat /\ rest \in Nat /\ k \in Nat
  /\ written \in Nat /\ base \in Nat

Init ==
  /\ state = "SET" /\ oneshot = FALSE /\ timer = FALSE
  /\ mem = FALSE /\ data = [i \in Slots |-> -1] /\ size = DefaultSize
  /\ pread = 0 /\ pwrite = 0
  /\ error = "none" /\ err = "none" /\ pc = "idle"
  /\ todo = 0 /\ nonblock = FALSE /\ chunk = 0 /\ rest = 0 /\ k = 0
  /\ written = 0 /\ base = 0

----------------------------------------------------------------------------
(* Arithmetic of the ring.                                                 *)

Used(pr, pw) == IF pw >= pr THEN pw - pr ELSE pw - pr + size
Free(pr, pw) == IF pr - pw > 0 THEN pr - pw ELSE pr - pw + size
Advance(p, n) == (p + n) % size

\* The first n slots from p on hold the stream from position pos on.
Stored(d, p, n, pos) ==
  [i \in Slots |-> IF i < size /\ i >= p /\ i - p < n
                   THEN pos + (i - p)
                   ELSE IF i < p /\ i + size - p < n
                        THEN pos + (i + size - p)
                        ELSE d[i]]

\* Wrong variant: lets the ring run full, where pread = pwrite means empty.
RefusedLate(pr, pw, n) == n > 0 /\ mem /\ n > Free(pr, pw)

\* dvb_dmxdev_buffer_write refuses n bytes (it returns -1).
Refused(pr, pw, n) == n > 0 /\ mem /\ n >= Free(pr, pw)

\* Wrong variant: a callback that forgets the wake-up.
NoWakeUp == pc' = pc

\* wake_up(&buffer->queue): a sleeping reader looks at its condition again.
WakeUp == pc' = IF pc = "sleep" THEN "wait" ELSE pc

----------------------------------------------------------------------------
(* The section callback, run in the demux bottom half with a section in    *)
(* two pieces of n1 and n2 bytes.                                          *)

OneShot == state' = IF oneshot THEN "DONE" ELSE state

\* The reader has not collected the last error yet: the section is dropped.
CallbackPending(n1, n2) ==
  /\ error # "none"
  /\ WakeUp
  /\ written' = IF state = "GO" THEN written + n1 + n2 ELSE written
  /\ UNCHANGED <<device, ring, error, reader, base>>

CallbackFails ==
  /\ timer' = FALSE
  /\ pwrite' = pread
  /\ error' = "EOVERFLOW"
  /\ OneShot /\ WakeUp
  /\ UNCHANGED <<oneshot, mem, size, pread, reader, base>>

CallbackOverflowFirst(n1, n2) ==
  /\ error = "none" /\ state = "GO"
  /\ Refused(pread, pwrite, n1)
  /\ CallbackFails
  /\ written' = written + n1 + n2
  /\ UNCHANGED data

CallbackOverflowSecond(n1, n2) ==
  /\ error = "none" /\ state = "GO" /\ mem
  /\ ~Refused(pread, pwrite, n1)
  /\ Refused(pread, Advance(pwrite, n1), n2)
  /\ CallbackFails
  /\ data' = Stored(data, pwrite, n1, written)
  /\ written' = written + n1 + n2

CallbackStores(n1, n2) ==
  /\ error = "none" /\ state = "GO" /\ mem
  /\ ~Refused(pread, pwrite, n1)
  /\ ~Refused(pread, Advance(pwrite, n1), n2)
  /\ timer' = FALSE
  /\ data' = Stored(data, pwrite, n1 + n2, written)
  /\ pwrite' = Advance(Advance(pwrite, n1), n2)
  /\ written' = written + n1 + n2
  /\ OneShot /\ WakeUp
  /\ UNCHANGED <<oneshot, mem, size, pread, error, reader, base>>

SectionCallback(n1, n2) ==
  /\ written + n1 + n2 <= MaxPos
  /\ \/ CallbackPending(n1, n2)
     \/ CallbackOverflowFirst(n1, n2)
     \/ CallbackOverflowSecond(n1, n2)
     \/ CallbackStores(n1, n2)

\* dvb_dmxdev_filter_timeout, in the timer bottom half.
Timeout ==
  /\ timer
  /\ timer' = FALSE
  /\ error' = "ETIMEDOUT"
  /\ state' = "TIMEDOUT"
  /\ WakeUp
  /\ UNCHANGED <<oneshot, ring, reader, written, base>>

----------------------------------------------------------------------------
(* The ioctls that touch the buffer; they hold the filter's mutex, so no   *)
(* read() is in progress.                                                  *)

\* Wrong variant: only the reader's end is rewound.
RewindRead == pread' = 0 /\ UNCHANGED pwrite /\ base' = written

Rewind == pread' = 0 /\ pwrite' = 0 /\ base' = written

\* DMX_START; the feed may be refused, and vmalloc may fail or be given 0.
StartNoMemory ==
  /\ ~mem
  /\ state' = "SET" /\ timer' = FALSE
  /\ IF state \in Active THEN Rewind ELSE UNCHANGED <<pread, pwrite, base>>
  /\ UNCHANGED <<oneshot, mem, data, size>>

StartBuffer ==
  /\ mem \/ size > 0
  /\ mem' = TRUE
  /\ data' = IF mem THEN data ELSE [i \in Slots |-> -1]
  /\ Rewind
  /\ UNCHANGED size

Start(once, timeout) ==
  /\ pc = "idle"
  /\ \/ StartNoMemory
     \/ /\ StartBuffer
        /\ oneshot' = once
        /\ \/ state' = "GO" /\ timer' = timeout
           \/ state' = "SET" /\ timer' = FALSE
  /\ UNCHANGED <<error, pc, reader, written>>

\* DMX_STOP.
Stop ==
  /\ pc = "idle" /\ state \in Active
  /\ state' = "SET" /\ timer' = FALSE
  /\ Rewind
  /\ UNCHANGED <<oneshot, mem, data, size, error, pc, reader, written>>

\* Wrong variant: no -EBUSY while the filter runs.
SetBufferSizeBusy(n) ==
  /\ pc = "idle" /\ n # size
  /\ size' = n
  /\ Rewind
  /\ mem' \in IF n > 0 THEN BOOLEAN ELSE {FALSE}
  /\ data' = [i \in Slots |-> -1]
  /\ UNCHANGED <<device, error, pc, reader, written>>

\* DMX_SET_BUFFER_SIZE.
SetBufferSize(n) ==
  /\ pc = "idle"
  /\ n # size /\ state \notin Active
  /\ size' = n
  /\ Rewind
  /\ mem' \in IF n > 0 THEN BOOLEAN ELSE {FALSE}
  /\ data' = [i \in Slots |-> -1]
  /\ UNCHANGED <<device, error, pc, reader, written>>

----------------------------------------------------------------------------
(* dvb_dmxdev_buffer_read, step by step.                                   *)

Goto(l) == pc' = l

ReadEnter(count, nb) ==
  /\ pc = "idle" /\ mem
  /\ todo' = count /\ nonblock' = nb
  /\ Goto("enter")
  /\ UNCHANGED <<device, ring, error, err, chunk, rest, k, written, base>>

\* Both looks at src->error: on entry and after the wait.
ReadError ==
  /\ pc \in {"enter", "check"}
  /\ err' = error
  /\ Goto(IF error # "none" THEN "flush"
          ELSE IF pc = "check" THEN "calc"
          ELSE IF nonblock /\ pwrite = pread THEN "idle" ELSE "loop")
  /\ UNCHANGED <<device, ring, error, todo, nonblock, chunk, rest, k,
                 written, base>>

ReadFlush ==
  /\ pc = "flush"
  /\ pwrite' = pread
  /\ Goto("clear")
  /\ UNCHANGED <<device, mem, data, size, pread, error, reader, written, base>>

\* The error is cleared and returned: the reader knows the stream was cut.
ReadClear ==
  /\ pc = "clear"
  /\ error' = "none"
  /\ base' = written
  /\ Goto("idle")
  /\ UNCHANGED <<device, ring, reader, written>>

\* Wrong variant: O_NONBLOCK is looked at on entry only.
ReadLoopBlocking ==
  /\ pc = "loop"
  /\ Goto(IF todo = 0 THEN "idle" ELSE "wait")
  /\ UNCHANGED <<device, ring, error, reader, written, base>>

ReadLoop ==
  /\ pc = "loop"
  /\ Goto(IF todo = 0 \/ (nonblock /\ pwrite = pread) THEN "idle" ELSE "wait")
  /\ UNCHANGED <<device, ring, error, reader, written, base>>

\* Wrong variant: the condition of the wait leaves the error out.
ReadWaitData ==
  /\ pc = "wait"
  /\ Goto(IF pread # pwrite THEN "check" ELSE "sleep")
  /\ UNCHANGED <<device, ring, error, reader, written, base>>

\* wait_event_interruptible: the task is queued before the condition is read.
ReadWait ==
  /\ pc = "wait"
  /\ Goto(IF pread # pwrite \/ error # "none" THEN "check" ELSE "sleep")
  /\ UNCHANGED <<device, ring, error, reader, written, base>>

ReadInterrupted ==
  /\ pc = "sleep"
  /\ Goto("idle")
  /\ UNCHANGED <<device, ring, error, reader, written, base>>

\* Wrong variants: more than was asked for; no split at the end of the ring.
ReadCalcAll ==
  /\ pc = "calc"
  /\ chunk' = Used(pread, pwrite) /\ rest' = 0 /\ k' = 0
  /\ Goto("copy")
  /\ UNCHANGED <<device, ring, error, todo, nonblock, err, written, base>>

ReadCalcStraight ==
  /\ pc = "calc"
  /\ chunk' = (IF Used(pread, pwrite) > todo THEN todo ELSE Used(pread, pwrite))
  /\ rest' = 0 /\ k' = 0
  /\ Goto("copy")
  /\ UNCHANGED <<device, ring, error, todo, nonblock, err, written, base>>

ReadCalc ==
  /\ pc = "calc"
  /\ LET avail == IF Used(pread, pwrite) > todo THEN todo
                                                ELSE Used(pread, pwrite)
         split == IF pwrite < pread THEN size - pread ELSE size
     IN  IF split < avail
         THEN chunk' = split /\ rest' = avail - split
         ELSE chunk' = avail /\ rest' = 0
  /\ k' = 0
  /\ Goto("copy")
  /\ UNCHANGED <<device, ring, error, todo, nonblock, err, written, base>>

\* copy_to_user, one byte at a time: the bottom halves run in between.
ReadCopy ==
  /\ pc = "copy" /\ k < chunk
  /\ k' = k + 1
  /\ UNCHANGED <<device, ring, error, pc, todo, nonblock, err, chunk, rest,
                 written, base>>

ReadFault ==
  /\ pc = "copy" /\ k < chunk
  /\ Goto("idle")
  /\ UNCHANGED <<device, ring, error, reader, written, base>>

ReadAdvance ==
  /\ pc = "copy" /\ k = chunk
  /\ todo' = todo - chunk
  /\ base' = base + chunk
  /\ k' = 0
  /\ IF rest > 0
     THEN pread' = 0 /\ chunk' = rest /\ rest' = 0 /\ UNCHANGED pc
     ELSE pread' = Advance(pread, chunk) /\ chunk' = 0 /\ rest' = 0
          /\ Goto("loop")
  /\ UNCHANGED <<device, mem, data, size, pwrite, error, nonblock, err, written>>

ReadStep ==
  \/ ReadError \/ ReadFlush \/ ReadClear \/ ReadLoop \/ ReadWait
  \/ ReadCalc \/ ReadCopy \/ ReadAdvance

----------------------------------------------------------------------------
Next ==
  \/ \E n1, n2 \in 0 .. MaxLen : SectionCallback(n1, n2)
  \/ Timeout
  \/ \E once, timeout \in BOOLEAN : Start(once, timeout)
  \/ Stop
  \/ \E n \in Sizes : SetBufferSize(n)
  \/ \E count \in 1 .. MaxCount, nb \in BOOLEAN : ReadEnter(count, nb)
  \/ ReadStep
  \/ ReadInterrupted
  \/ ReadFault

Spec == Init /\ [][Next]_vars

\* A process that can run does run: the scheduler is fair to the reader.
FairSpec == Spec /\ WF_vars(ReadStep)

----------------------------------------------------------------------------
(* What the readers of a demux device rely on.                             *)

\* The byte copy_to_user is about to hand out is the next byte of the stream:
\* no callback overwrites a byte that is being copied, no byte is handed out
\* twice or skipped unless the reader was given an error in between.
CopiesNextByte ==
  pc = "copy" /\ k < chunk => data[pread + k] = base + k

\* The copy stays inside the buffer, before and after the wrap.
CopiesInside ==
  pc = "copy" => mem /\ pread + chunk <= size /\ rest <= pread

\* The unread slots of d, from pr up to pw, hold the stream from position b.
Offset(pr, i) == IF i >= pr THEN i - pr ELSE i - pr + size

Holds(d, pr, pw, b) ==
  \A i \in 0 .. size - 1 :
    Offset(pr, i) < Used(pr, pw) => d[i] = b + Offset(pr, i)

\* While no error is pending, the ring holds exactly the part of the stream
\* that was accepted and not read yet.
HoldsUnread ==
  error = "none" =>
    /\ base + Used(pread, pwrite) = written
    /\ Holds(data, pread, pwrite, base)

\* A reader is asleep only while there is nothing to tell it: neither data
\* nor an error (every path that produces one calls wake_up).
NoLostWakeup ==
  pc = "sleep" => pread = pwrite /\ error = "none"

\* O_NONBLOCK is honoured although the emptiness test and the wait are two
\* separate looks at a buffer that an overflow may empty in between.
NonblockNeverSleeps ==
  nonblock => pc # "sleep"

\* The callback never finds a running filter without memory to write to.
RunningHasMemory ==
  state \in Active => mem

\* A reader asleep when an error or data arrives returns from its wait.
SleeperWakes ==
  (pc \in {"sleep", "wait"} /\ (error # "none" \/ pread # pwrite))
    ~> pc \notin {"sleep", "wait"}
=============================================================================
