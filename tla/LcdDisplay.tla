----------------------------- MODULE LcdDisplay -----------------------------
(***************************************************************************)
(* The front panel's display (lcd-ks0713.c) and the console on it          *)
(* (lcd-console.c).  A byte of display memory is the set of its pixels     *)
(* that are on; a character of the console is a byte, and one column wide. *)
(* The chip is external: it addresses a byte, moves on after each access,  *)
(* and gives out on a read what it latched on the one before.              *)
(***************************************************************************)
EXTENDS Integers, Sequences

CONSTANTS
  Rows, Cols, Bits,   \* LCD_ROWS, LCD_COLS, pixels of a byte
  Chars,              \* bytes the console writes, besides a new line
  Frames,             \* functions from rows and columns to bytes, what is written in binary mode
  MaxOps              \* bound: calls

VARIABLES
  ram,           \* external: display memory
  chip,          \* external: [row, col, latch]
  pos,           \* f_vars.pos
  ascii,         \* LCD_MODE
  row, col,      \* the console's place
  lines,         \* history: what the console was given, line by line; <<>> if others have drawn
  drawn,         \* history: [old, at, on], before the last pixel was set
  ops

vars == <<ram, chip, pos, ascii, row, col, lines, drawn, ops>>

Cells == (0..Rows - 1) \X (0..Cols - 1)
Blank == {}
NewLine == {-1}  \* no byte of pixels
NotDrawn == [old |-> <<>>, at |-> <<0, 0, 0>>, on |-> FALSE]

TypeOK ==
  /\ ram \in [Cells -> SUBSET Bits] /\ pos \in Int /\ ascii \in BOOLEAN
  /\ row \in 0..Rows /\ col \in 0..Cols /\ chip.latch \in SUBSET Bits

Init ==
  /\ ram = [c \in Cells |-> Blank] /\ chip = [row |-> Rows - 1, col |-> Cols, latch |-> Blank]
  /\ pos = 0 /\ ascii = TRUE /\ row = 0 /\ col = 0 /\ lines = <<<<>>>>
  /\ drawn = NotDrawn /\ ops = 0

----------------------------------------------------------------------------

At(m, c, k) == IF <<c.row, k>> \in Cells THEN m[<<c.row, k>>] ELSE Blank

\* lcd_set_pos, lcd_read_dummy (one clock of a read) and the byte a further clock gives out.
SetPos(r, k, c) == [c EXCEPT !.row = r, !.col = k]
Clock(c) == [c EXCEPT !.latch = At(ram, c, c.col), !.col = @ + 1]
ReadByte(c) == c.latch

Op == ops < MaxOps /\ ops' = ops + 1

\* Wrong variant: no dummy read after the address is set.
PixelReadAtOnce(r, k) == SetPos(r, k, chip)

PixelRead(r, k) == Clock(SetPos(r, k, chip))

\* lcd_set_pixel: v is 0, 1, or 2 to invert.  The address is set again, as the read has moved it.
SetPixel(r, k, bit, v) ==
  LET read == Clock(PixelRead(r, k))
      val == ReadByte(PixelRead(r, k))
      on == v = 1 \/ (v = 2 /\ bit \notin val)
  IN /\ Op /\ ram' = [ram EXCEPT ![<<r, k>>] = IF on THEN val \cup {bit} ELSE val \ {bit}]
     /\ chip' = [SetPos(r, k, read) EXCEPT !.col = k + 1]
     /\ pos' = r * k
     /\ drawn' = [old |-> ram, at |-> <<r, k, bit>>, on |-> IF v = 2 THEN bit \notin ram[<<r, k>>] ELSE v = 1]
     /\ lines' = <<>> /\ UNCHANGED <<ascii, row, col>>

\* lcd_read, from the place on; it leaves the place at the start.  Beyond the first row the column is
\* computed wrongly, and where the chip stands then is left open.
Read(n) ==
  /\ Op /\ pos' = 0
  /\ \E c \in IF pos > Cols THEN Cells ELSE {<<(pos + n - 1) \div Cols, (pos + n - 1) % Cols>>} :
       chip' = [row |-> c[1], col |-> c[2] + 2, latch |-> At(ram, [row |-> c[1]], c[2] + 1)]
  /\ UNCHANGED <<ram, ascii, row, col, lines, drawn>>

\* lcd_seek, from start, place or end.
Seek(origin, offset) ==
  /\ Op
  /\ LET p == CASE origin = 0 -> offset [] origin = 1 -> pos + offset [] origin = 2 -> Rows * Cols - offset
     IN pos' = IF p >= 0 THEN p ELSE pos
  /\ UNCHANGED <<ram, chip, ascii, row, col, lines, drawn>>

AsciiMode(on) ==
  /\ Op /\ ascii' = on /\ UNCHANGED <<ram, chip, pos, row, col, lines, drawn>>

\* lcd_write_dram.
Drawn(frame) ==
  /\ ram' = frame /\ pos' = 0
  /\ chip' = [chip EXCEPT !.row = Rows - 1, !.col = Cols] /\ drawn' = NotDrawn
  /\ UNCHANGED <<ascii>>

Clear == Op /\ Drawn([c \in Cells |-> Blank]) /\ lines' = <<>> /\ UNCHANGED <<row, col>>
WriteBinary(f) == Op /\ ~ascii /\ Drawn(f) /\ lines' = <<>> /\ UNCHANGED <<row, col>>

----------------------------------------------------------------------------

\* What is written beyond the last row or column is not displayed.
Put(m, r, cols, byte) == [c \in Cells |-> IF c[1] = r /\ c[2] \in cols THEN byte ELSE m[c]]

\* Wrong variant: the row that is scrolled in keeps what it had.
ScrollKeeps(m) == [c \in Cells |-> IF c[1] + 1 < Rows THEN m[<<c[1] + 1, c[2]>>] ELSE m[c]]

\* lcd_console_scroll_down(1), and the blank last line.
Scroll(m) == [c \in Cells |-> IF c[1] + 1 < Rows THEN m[<<c[1] + 1, c[2]>>] ELSE Blank]

\* lcd_console_new_line, from place (r, k): the rest of the line is blanked; below the last row it scrolls.
Fed(m, r, k) == IF r = Rows THEN Scroll(m) ELSE Put(m, r, k..Cols, Blank)
FedRow(r) == IF r = Rows THEN Rows ELSE r + 1

\* The lines an ideal terminal has after one more character.
Typed(ch) ==
  LET n == Len(lines)
  IN IF ch = NewLine THEN Append(lines, <<>>)
     ELSE IF Len(lines[n]) = Cols THEN Append(lines, <<ch>>) ELSE [lines EXCEPT ![n] = Append(@, ch)]

\* lcd_console_put_data, of one character.  A full line is left only by the next character.
PutData(ch) ==
  /\ Op /\ ascii
  /\ IF ch = NewLine
     THEN ram' = Fed(ram, row, col) /\ row' = FedRow(row) /\ col' = 0
     ELSE LET full == col = Cols
              r == IF full THEN row + 1 ELSE row
              k == IF full THEN 0 ELSE col
              at == IF r = Rows THEN Rows - 1 ELSE r
              m == IF r = Rows THEN Fed(ram, r, k) ELSE ram
          IN /\ ram' = Put(m, at, {k}, ch)
             /\ row' = at /\ col' = k + 1
  /\ lines' = IF lines = <<>> THEN <<>> ELSE Typed(ch)
  /\ chip' = [chip EXCEPT !.row = row', !.col = col'] /\ pos' = row' * (IF col' = 0 THEN 0 ELSE col' - 1)
  /\ drawn' = NotDrawn /\ UNCHANGED <<ascii>>

Next ==
  \/ \E c \in Cells, bit \in Bits, v \in 0..2 : SetPixel(c[1], c[2], bit, v)
  \/ (\E n \in {1, Cols + 1, Rows * Cols} : Read(n)) \/ (\E origin \in 0..2, o \in {0, 1} : Seek(origin, o))
  \/ (\E on \in BOOLEAN : AsciiMode(on)) \/ (\E f \in Frames : WriteBinary(f)) \/ Clear
  \/ \E ch \in Chars \cup {NewLine} : PutData(ch)

Spec == Init /\ [][Next]_vars

----------------------------------------------------------------------------

\* A pixel that is set is the only one that changes.
PixelOnly ==
  drawn # NotDrawn =>
    LET c == <<drawn.at[1], drawn.at[2]>>
    IN ram = [drawn.old EXCEPT ![c] = IF drawn.on THEN @ \cup {drawn.at[3]} ELSE @ \ {drawn.at[3]}]

\* What is on the display is what a terminal with so many rows shows of the lines; it scrolls for an
\* empty last line only when more comes.
ConsoleShows ==
  lines # <<>> =>
    LET n == Len(lines)
        shown == IF lines[n] = <<>> THEN n - 1 ELSE n
        top == IF shown > Rows THEN shown - Rows ELSE 0
    IN \A c \in Cells :
         ram[c] = IF top + c[1] + 1 <= n /\ c[2] + 1 <= Len(lines[top + c[1] + 1])
                  THEN lines[top + c[1] + 1][c[2] + 1] ELSE Blank

Displays == PixelOnly /\ ConsoleShows
=============================================================================
