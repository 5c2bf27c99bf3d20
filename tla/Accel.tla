------------------------------- MODULE Accel -------------------------------
(***************************************************************************)
(* The copy and checksum unit of the chip (avia_gt_accel.c) and the copies *)
(* of framebuffer areas made with it (avia_gt_gv_copyarea).  A checksum is *)
(* the sequence of addresses it is made of.  The unit copies bytes in      *)
(* ascending order; a GTX reads words of two bytes.                        *)
(***************************************************************************)
EXTENDS Integers, Sequences, SequencesExt, FiniteSets

CONSTANTS
  Addresses, Lengths,  \* of the data a checksum is asked for
  MaxGtx,              \* max_transaction_size of a GTX; an eNX takes four times as many
  Stride, Lines,       \* the framebuffer
  Areas                \* numbers of lines and bytes of an area, and places

VARIABLES
  job,    \* what runs: [what, chip, at, todo, start, end]
  crc,    \* the addresses in the checksum
  asked,  \* history: the range asked for
  pixels, copy, old   \* the framebuffer; the area being copied; history: as it was before

vars == <<job, crc, asked, pixels, copy, old>>

MostAtOnce(chip) == IF chip = "ENX" THEN 4 * MaxGtx ELSE MaxGtx
Nothing == [what |-> "none", chip |-> "GTX", at |-> 0, todo |-> 0, start |-> 0, end |-> 0]
NoArea == [sx |-> 0, sy |-> 0, dx |-> 0, dy |-> 0, w |-> 0, h |-> 0, line |-> 0]
Cells == 0 .. Stride * Lines - 1

TypeOK ==
  /\ job.what \in {"none", "crc", "copy"} /\ job.todo \in Nat /\ job.start \in 0 .. 1 /\ job.end \in 0 .. 1
  /\ pixels \in [Cells -> Cells]

Init ==
  /\ job = Nothing /\ crc = <<>> /\ asked = <<0, 0>>
  /\ pixels = [i \in Cells |-> i] /\ copy = NoArea /\ old = pixels

Bytes(a, n) == [i \in 1 .. n |-> a + i - 1]
Smaller(a, b) == IF a < b THEN a ELSE b

----------------------------------------------------------------------------
(* avia_gt_accel_crc32.                                                    *)

\* A GTX that starts a new checksum takes the first four bytes as the seed.
Crc(a, n, chip, seeded) ==
  LET skip == IF chip = "GTX" /\ ~seeded THEN 4 ELSE 0
      from == a + skip
      left == n - skip
      start == IF chip = "GTX" /\ (from % 2 = 1 \/ left = 0) THEN 1 ELSE 0
      end == IF chip = "GTX" /\ (from + left) % 2 = 1 THEN 1 ELSE 0 IN
  /\ job = Nothing
  /\ job' = [what |-> "crc", chip |-> chip, at |-> from, todo |-> left + start + end,
             start |-> start, end |-> end]
  /\ crc' = Bytes(a, skip) /\ asked' = <<a, n>>
  /\ UNCHANGED <<pixels, copy, old>>

\* Wrong variant: the address goes on by the length also after an odd start.
OnlyLength(n) == n

Advance(n) == n - job.start

\* One command: an eNX goes on by itself, a GTX is given address, words and "last word is whole".
CrcCommand ==
  LET n == Smaller(job.todo, MostAtOnce(job.chip))
      words == (n \div 2) + (n % 2)
      whole == ~(job.end = 1 /\ job.todo = n)
      upto == (job.at - (job.at % 2)) + 2 * words - (IF whole THEN 0 ELSE 1) IN
  /\ job.what = "crc" /\ job.todo > 0
  /\ crc' = crc \o (IF job.chip = "ENX" THEN Bytes(job.at, n) ELSE Bytes(job.at, upto - job.at))
  /\ job' = [job EXCEPT !.todo = @ - n, !.start = 0,
                        !.at = @ + (IF job.chip = "ENX" THEN n ELSE Advance(n))]
  /\ UNCHANGED <<asked, pixels, copy, old>>

Done ==
  /\ job.what = "crc" /\ job.todo = 0
  /\ job' = Nothing
  /\ UNCHANGED <<crc, asked, pixels, copy, old>>

----------------------------------------------------------------------------
(* avia_gt_gv_copyarea: one copy per line, from the first to the last.     *)

Start(x, y) == y * Stride + x

CopyArea(c, chip) ==
  /\ job = Nothing
  /\ c.sx + c.w <= Stride /\ c.dx + c.w <= Stride /\ c.sy + c.h <= Lines /\ c.dy + c.h <= Lines
  /\ copy' = c /\ old' = pixels
  /\ job' = [Nothing EXCEPT !.what = "copy", !.chip = chip, !.todo = c.w]
  /\ UNCHANGED <<crc, asked, pixels>>

Source == Start(copy.sx, copy.sy + copy.line)
Target == Start(copy.dx, copy.dy + copy.line)

\* Copies n bytes one after the other.
Moved(p, src, dst, n) ==
  FoldLeft(LAMBDA q, i : [q EXCEPT ![dst + i - 1] = q[src + i - 1]], p, [i \in 1 .. n |-> i])

\* A command of avia_gt_accel_copy: with an odd address a GTX takes two bytes less at once.
Piece ==
  LET n == Smaller(job.todo, MostAtOnce(job.chip)) IN
  IF job.chip = "GTX" /\ (Source % 2 = 1 \/ Target % 2 = 1) /\ n = MostAtOnce(job.chip) THEN n - 2 ELSE n

CopyCommand ==
  /\ job.what = "copy" /\ job.todo > 0
  /\ pixels' = Moved(pixels, Source + job.at, Target + job.at, Piece)
  /\ job' = [job EXCEPT !.todo = @ - Piece, !.at = @ + Piece]
  /\ UNCHANGED <<crc, asked, copy, old>>

NextLine ==
  /\ job.what = "copy" /\ job.todo = 0
  /\ IF copy.line + 1 < copy.h
       THEN /\ copy' = [copy EXCEPT !.line = @ + 1]
            /\ job' = [job EXCEPT !.todo = copy.w, !.at = 0]
       ELSE job' = Nothing /\ UNCHANGED copy
  /\ UNCHANGED <<crc, asked, pixels, old>>

\* The picture is drawn again.
Draw ==
  /\ job = Nothing /\ pixels' = [i \in Cells |-> i] /\ copy' = NoArea /\ old' = pixels'
  /\ UNCHANGED <<job, crc, asked>>

Next ==
  \/ \E a \in Addresses, n \in Lengths, chip \in {"ENX", "GTX"}, seeded \in BOOLEAN :
       Crc(a, n, chip, seeded)
  \/ CrcCommand \/ Done
  \/ \E sx, sy, dx, dy \in Areas, w, h \in Areas \ {0}, chip \in {"ENX", "GTX"} :
       copy = NoArea /\ CopyArea([sx |-> sx, sy |-> sy, dx |-> dx, dy |-> dy, w |-> w, h |-> h, line |-> 0], chip)
  \/ CopyCommand \/ NextLine \/ Draw

Spec == Init /\ [][Next]_vars

----------------------------------------------------------------------------

\* A checksum is made of exactly the bytes asked for, each once and in order, wherever they
\* start and end and however many commands it takes.
SumsAll ==
  job.what # "crc" => crc = Bytes(asked[1], asked[2])

\* After a copy the target shows what the source showed, unless the target lies behind the
\* source and overlaps it.
CopiesArea ==
  LET behind == Start(copy.dx, copy.dy) > Start(copy.sx, copy.sy)
      overlaps == Start(copy.dx, copy.dy) <= Start(copy.sx + copy.w - 1, copy.sy + copy.h - 1) IN
  job.what = "none" /\ ~(behind /\ overlaps) =>
    \A x \in 0 .. copy.w - 1, y \in 0 .. copy.h - 1 :
      pixels[Start(copy.dx + x, copy.dy + y)] = old[Start(copy.sx + x, copy.sy + y)]
=============================================================================
