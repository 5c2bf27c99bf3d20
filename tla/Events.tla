------------------------------- MODULE Events -------------------------------
(***************************************************************************)
(* Event queues to processes.  The event device (event.c) keeps a ring for *)
(* each open file; writers are keventd (the front processor) and a timer's *)
(* bottom half (avia_av_event.c), which polls the picture of the decoder.  *)
(* An event is its number in the order of writing.                         *)
(*                                                                         *)
(* A write is one step here: the lock of event.c is empty on the machine's *)
(* one processor, and a timer that interrupts keventd inside a write would *)
(* make the counters of a ring inconsistent.                               *)
(***************************************************************************)
EXTENDS Integers, Sequences, SequencesExt

CONSTANTS
  Slots,      \* files that may be open (5)
  Ring,       \* EVENTBUFFERSIZE (32)
  Delay,      \* ticks of the timer between two polls (30)
  Kinds,      \* kinds of events: "VHSIZE", "ARATIO" and others
  Filters,    \* filters the users set
  MaxEvents   \* bound: events

VARIABLES
  files,             \* event_private: per slot, none or the ring of a file
  pic, reg, delay,   \* the decoder's picture; what the timer has seen of it; event_delay
  count, accepted, got   \* history: events; per slot those put into its ring, and read

vars == <<files, pic, reg, delay, count, accepted, got>>

None == [open |-> FALSE, filter |-> {}, ring |-> [i \in 0 .. Ring - 1 |-> 0],
         free |-> 0, ptr |-> 0, rd |-> 0]

TypeOK ==
  /\ \A s \in Slots : files[s].free \in 0 .. Ring /\ files[s].ptr \in 0 .. Ring - 1
  /\ delay \in 0 .. Delay - 1

Init ==
  /\ files = [s \in Slots |-> None]
  /\ pic = [k \in {"VHSIZE", "ARATIO"} |-> 0] /\ reg = [k \in {"VHSIZE", "ARATIO"} |-> 0]
  /\ delay = 0
  /\ count = 0 /\ accepted = [s \in Slots |-> <<>>] /\ got = [s \in Slots |-> <<>>]

----------------------------------------------------------------------------
(* The event device.                                                       *)

Wants(f, k) == f.open /\ f.free > 0 /\ k \in f.filter

\* Wrong variant: the ring is filled before it is looked whether there is room.
WantsFull(f, k) == f.open /\ k \in f.filter

Taken(f)   == [f EXCEPT !.free = @ - 1]
Stepped(f) == [f EXCEPT !.ptr = IF @ + 1 = Ring THEN 0 ELSE @ + 1]

\* One event, written without an interruption to the files fs, as event n.
Written(fs, k, n) ==
  [s \in Slots |-> IF Wants(fs[s], k)
                   THEN Stepped([Taken(fs[s]) EXCEPT !.ring[fs[s].ptr] = n]) ELSE fs[s]]

Accepts(k, n) ==
  accepted' = [s \in Slots |-> IF Wants(files[s], k) THEN Append(accepted[s], n) ELSE accepted[s]]

Open(s) ==
  /\ ~files[s].open /\ \A t \in Slots : t < s => files[t].open
  /\ files' = [files EXCEPT ![s] = [None EXCEPT !.open = TRUE, !.filter = Kinds, !.free = Ring]]
  /\ accepted' = [accepted EXCEPT ![s] = <<>>] /\ got' = [got EXCEPT ![s] = <<>>]
  /\ UNCHANGED <<pic, reg, delay, count>>

Release(s) ==
  /\ files[s].open
  /\ files' = [files EXCEPT ![s] = None]
  /\ accepted' = [accepted EXCEPT ![s] = <<>>] /\ got' = [got EXCEPT ![s] = <<>>]
  /\ UNCHANGED <<pic, reg, delay, count>>

SetFilter(s, f) ==
  /\ files[s].open
  /\ files' = [files EXCEPT ![s].filter = f]
  /\ UNCHANGED <<pic, reg, delay, count, accepted, got>>

\* event_read takes one event with interrupts off; without one it waits or returns.
Read(s) ==
  LET f == files[s] IN
  /\ f.open /\ f.free # Ring
  /\ got' = [got EXCEPT ![s] = Append(@, f.ring[f.rd])]
  /\ files' = [files EXCEPT ![s].free = @ + 1, ![s].rd = IF @ + 1 = Ring THEN 0 ELSE @ + 1]
  /\ UNCHANGED <<pic, reg, delay, count, accepted>>

\* keventd writes an event.
KeventdWrites(k) ==
  /\ count < MaxEvents
  /\ count' = count + 1
  /\ files' = Written(files, k, count + 1) /\ Accepts(k, count + 1)
  /\ UNCHANGED <<pic, reg, delay, got>>

PictureChanges(k) ==
  /\ count < MaxEvents
  /\ pic' = [pic EXCEPT ![k] = 1 - @]
  /\ UNCHANGED <<files, reg, delay, count, accepted, got>>

\* Every Delay ticks: an event for what has changed, the size first.
Timer ==
  LET due  == delay + 1 = Delay
      size == due /\ pic["VHSIZE"] # reg["VHSIZE"]
      asp  == due /\ pic["ARATIO"] # reg["ARATIO"]
      one  == IF size THEN Written(files, "VHSIZE", count + 1) ELSE files
      n    == IF size THEN count + 1 ELSE count
      into(fs, k, s, m) == IF Wants(fs[s], k) THEN <<m>> ELSE <<>>
  IN  /\ delay' = IF due THEN 0 ELSE delay + 1
      /\ reg' = IF due THEN pic ELSE reg
      /\ files' = IF asp THEN Written(one, "ARATIO", n + 1) ELSE one
      /\ count' = IF asp THEN n + 1 ELSE n
      /\ accepted' = [s \in Slots |-> accepted[s]
                        \o (IF size THEN into(files, "VHSIZE", s, count + 1) ELSE <<>>)
                        \o (IF asp THEN into(one, "ARATIO", s, n + 1) ELSE <<>>)]
      /\ UNCHANGED <<pic, got>>

Next ==
  \/ \E s \in Slots : Open(s) \/ Release(s) \/ Read(s) \/ \E f \in Filters : SetFilter(s, f)
  \/ \E k \in Kinds \ {"VHSIZE", "ARATIO"} : KeventdWrites(k)
  \/ \E k \in {"VHSIZE", "ARATIO"} : PictureChanges(k)
  \/ Timer

Spec == Init /\ [][Next]_vars

----------------------------------------------------------------------------

\* Every file reads the events its filter let through while it had room, each once and in
\* the order they were written: nothing else is in its ring.
EventsInOrder ==
  \A s \in Slots : LET f == files[s] IN
    f.open =>
      got[s] \o [i \in 1 .. Ring - f.free |-> f.ring[(f.rd + i - 1) % Ring]] = accepted[s]
=============================================================================
