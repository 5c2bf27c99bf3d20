--------------------------- MODULE PacketFraming ---------------------------
(***************************************************************************)
(* How the software demux cuts the chunks a driver hands it into packets   *)
(* (dvb_dmx_swfilter, dvb_dmx_swfilter_204).  A byte is its position in    *)
(* the stream; the stream begins `start' bytes before a packet.            *)
(***************************************************************************)
EXTENDS Integers, Sequences, SequencesExt

CONSTANTS
  Size,      \* bytes of a packet (188 or 204)
  Fakes,     \* offsets inside a packet where a byte may look like a sync byte
  MaxChunk,  \* bound: bytes of a chunk
  MaxPos     \* bound: bytes of the stream

VARIABLES
  start, fakes,  \* the stream: where its first packet begins, which offsets look like sync
  pos,           \* bytes handed over
  tsbuf,         \* the beginning of a packet the next chunk completes
  packets        \* history: first bytes of the packets handed on

vars == <<start, fakes, pos, tsbuf, packets>>

Offset(b) == (b - start) % Size
IsSync(b) == Offset(b) \in {0} \cup fakes

TypeOK ==
  /\ start \in 0 .. Size - 1 /\ fakes \subseteq Fakes
  /\ Len(tsbuf) < Size

Init ==
  /\ start \in 0 .. Size - 1 /\ fakes \in SUBSET Fakes
  /\ pos = 0 /\ tsbuf = <<>> /\ packets = <<>>

\* The scan of the bytes p .. end-1 of the chunk: packets found and bytes kept.
Scan(from, end) ==
  LET found[p \in from .. end] ==
        IF p = end THEN [packets |-> <<>>, kept |-> <<>>]
        ELSE IF ~IsSync(p) THEN found[p + 1]
        ELSE IF end - p >= Size
        THEN [found[p + Size] EXCEPT !.packets = <<p>> \o @]
        ELSE [packets |-> <<>>, kept |-> [i \in 1 .. end - p |-> p + i - 1]]
  IN  found[from]

\* Wrong variant: a chunk that just completes the packet is kept as well.
TooShort(n) == n > 0 /\ tsbuf # <<>> /\ n <= Size - Len(tsbuf)

\* A chunk that does not complete the packet under way.
Short(n) == tsbuf # <<>> /\ n < Size - Len(tsbuf)

Chunk(n) ==
  LET end  == pos + n
      j    == IF tsbuf = <<>> THEN 0 ELSE Size - Len(tsbuf)
      scan == Scan(pos + j, end)
  IN  /\ end <= MaxPos
      /\ pos' = end
      /\ IF Short(n)
         THEN tsbuf' = tsbuf \o [i \in 1 .. n |-> pos + i - 1] /\ UNCHANGED packets
         ELSE /\ tsbuf' = scan.kept
              /\ packets' = packets \o (IF tsbuf = <<>> THEN <<>> ELSE <<tsbuf[1]>>) \o scan.packets
      /\ UNCHANGED <<start, fakes>>

Next == \E n \in 0 .. MaxChunk : Chunk(n)

Spec == Init /\ [][Next]_vars

\* Wherever the chunks are cut, packets do not overlap; and in a stream that begins with
\* a packet, or holds no byte that looks like a sync byte, every packet is handed on as
\* soon as its last byte is there.
FramesAll ==
  /\ \A k \in 1 .. Len(packets) - 1 : packets[k + 1] >= packets[k] + Size
  /\ (start = 0 \/ fakes = {}) =>
       LET whole == IF pos < start THEN 0 ELSE (pos - start) \div Size
       IN  packets = [k \in 1 .. whole |-> start + (k - 1) * Size]
=============================================================================
