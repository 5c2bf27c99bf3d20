---------------------------- MODULE SectionRead ----------------------------
(***************************************************************************)
(* How a process reads sections from the demux device: the buffer is a     *)
(* stream of bytes, and read() returns at most the rest of one section     *)
(* (dvb_dmxdev_read_sec in dmxdev.c).  todo is the number of bytes of the  *)
(* section still to read, or, zero or negative, of those of its header     *)
(* that have been read.  A byte is <<s, i>>, byte i of section s.          *)
(***************************************************************************)
EXTENDS Integers, Sequences, SequencesExt

CONSTANTS
  Lengths,      \* lengths of sections, header included
  Size,         \* bytes the buffer holds
  Counts,       \* what the process asks for
  MaxSections   \* bound: sections

VARIABLES
  sections,     \* history: lengths of the sections the callback was given
  buffer, error,   \* the buffer: its bytes and its error
  todo,         \* dfil->todo
  call,         \* the read() under way
  read,         \* history: what the last call returned
  torn          \* history: a read of a body failed, or a copy of a header

vars == <<sections, buffer, error, todo, call, read, torn>>

Header == 3
Idle == [at |-> "idle", count |-> 0, nonblock |-> FALSE, done |-> <<>>]

TypeOK ==
  /\ Len(buffer) <= Size /\ error \in BOOLEAN
  /\ todo \in -Header .. Size
  /\ call.at \in {"idle", "header", "body"}

Init ==
  /\ sections = <<>> /\ buffer = <<>> /\ error = FALSE
  /\ todo = 0 /\ call = Idle /\ read = <<>> /\ torn = FALSE

----------------------------------------------------------------------------

\* The callback writes a section into the buffer as a whole, or empties it.
SectionCallback(len) ==
  /\ Len(sections) < MaxSections
  /\ sections' = Append(sections, len)
  /\ IF error THEN UNCHANGED <<buffer, error>>
     ELSE IF Len(buffer) + len >= Size THEN buffer' = <<>> /\ error' = TRUE
     ELSE /\ buffer' = buffer \o [i \in 1 .. len |-> <<Len(sections) + 1, i - 1>>]
          /\ UNCHANGED error
  /\ UNCHANGED <<todo, call, read, torn>>

Read(count, nonblock) ==
  /\ call.at = "idle"
  /\ call' = [at |-> IF todo <= 0 THEN "header" ELSE "body",
              count |-> count, nonblock |-> nonblock, done |-> <<>>]
  /\ UNCHANGED <<sections, buffer, error, todo, read, torn>>

Least(a, b) == IF a < b THEN a ELSE b

\* What buffer_read may return for n bytes: fewer if it must not wait or a signal comes.
Got(n) == IF error THEN {} ELSE
  IF Len(buffer) >= n THEN {n}
  ELSE IF call.nonblock THEN {Len(buffer)} \ {0} ELSE {Len(buffer)}

\* It fails: with the error, which empties the buffer, or for lack of data or access.
Fails(n, why) ==
  /\ CASE why = "error" -> error
       [] why = "again" -> ~error /\ call.nonblock /\ buffer = <<>>
       [] why = "fault" -> ~error /\ buffer # <<>>
  /\ IF why = "error" THEN buffer' = <<>> /\ error' = FALSE ELSE UNCHANGED <<buffer, error>>

Return(bytes) == read' = bytes /\ call' = Idle

HeaderLeft == Least(Header + todo, call.count)

\* The length is known once the header is there; the rest of the call reads on.
ReadHeader ==
  /\ call.at = "header"
  /\ \E k \in Got(HeaderLeft) :
       LET bytes == SubSeq(buffer, 1, k)
           whole == todo - k <= -Header
           len   == sections[bytes[k][1]] - Header
       IN  /\ buffer' = SubSeq(buffer, k + 1, Len(buffer))
           /\ IF k = 0 \/ ~whole THEN todo' = todo - k /\ Return(bytes)
              ELSE /\ todo' = len
                   /\ IF call.count = k THEN Return(bytes)
                      ELSE /\ call' = [call EXCEPT !.at = "body", !.count = @ - k, !.done = bytes]
                           /\ UNCHANGED read
  /\ UNCHANGED <<sections, error, torn>>

HeaderFails ==
  /\ call.at = "header"
  /\ \E why \in {"error", "again", "fault"} :
       /\ Fails(HeaderLeft, why)
       /\ torn' = (torn \/ (why = "fault" /\ todo < 0))
  /\ todo' = 0 /\ Return(<<>>)
  /\ UNCHANGED sections

ReadBody ==
  /\ call.at = "body"
  /\ \E k \in Got(Least(call.count, todo)) :
       /\ buffer' = SubSeq(buffer, k + 1, Len(buffer))
       /\ todo' = todo - k
       /\ Return(call.done \o SubSeq(buffer, 1, k))
  /\ UNCHANGED <<sections, error, torn>>

\* The bytes of a header that this call has read are not returned, either.
BodyFails ==
  /\ call.at = "body"
  /\ \E why \in {"error", "again", "fault"} :
       /\ Fails(todo, why)
       /\ torn' = (torn \/ why = "error" \/ call.done # <<>>)
  /\ Return(<<>>)
  /\ UNCHANGED <<sections, todo>>

\* Wrong variant: a section that was read in part is not forgotten.
RestartKeeps ==
  /\ call.at = "idle"
  /\ buffer' = <<>>
  /\ UNCHANGED <<sections, error, todo, call, read, torn>>

\* DMX_STOP and DMX_START; an error that was not read stays.
Restart ==
  /\ call.at = "idle"
  /\ buffer' = <<>> /\ todo' = 0
  /\ UNCHANGED <<sections, error, call, read, torn>>

Next ==
  \/ \E len \in Lengths : SectionCallback(len)
  \/ \E n \in Counts, b \in BOOLEAN : Read(n, b)
  \/ ReadHeader \/ HeaderFails \/ ReadBody \/ BodyFails \/ Restart

Spec == Init /\ [][Next]_vars

----------------------------------------------------------------------------

\* Until a read fails in the middle of a section, todo says where the stream stands in one,
\* however reads of any size, overflows between sections and restarts are interleaved; so
\* what a call returns is a piece of one section.
InStep ==
  ~torn =>
    /\ buffer # <<>> /\ ~error =>
         LET b == Head(buffer) IN
         IF todo <= 0 THEN b[2] = -todo ELSE b[2] = sections[b[1]] - todo
    /\ \A i \in DOMAIN read : read[i] = <<read[1][1], read[1][2] + i - 1>>
=============================================================================
