---------------------------- MODULE FrameBuffer ----------------------------
(***************************************************************************)
(* The framebuffer device (avia_gt_fb_core.c) on the graphics unit         *)
(* (avia_gt_gv.c).  The fbgen code of the kernel reads back what it set:   *)
(* the length of a line and the palette.  Colours are 16-bit components;   *)
(* the palette holds 8 bits of each (eNX), or 5 and one of transparency    *)
(* (GTX), where one pink stands for transparent.                           *)
(***************************************************************************)
EXTENDS Integers, FiniteSets

CONSTANTS
  Widths, Heights, Depths,  \* of the modes that are asked for: pixels, bits per pixel
  Alphas, Levels,           \* components of the colours that are asked for
  Offsets                   \* lines the display is panned by

VARIABLES
  chip,                      \* "ENX" or "GTX"
  par, input_mode, input_width,  \* the mode of the device; what the unit was told
  unit,                      \* registers: [stride, mode, width, start]
  clut,                      \* palette entries 0 and 1
  text,                      \* the console shows text
  asked                      \* history: the colours the entries were last set to

vars == <<chip, par, input_mode, input_width, unit, clut, text, asked>>

Color(t, r) == [t |-> t, r |-> r]      \* red stands for the three components
Pink == Color(1, 31)                   \* TCR_COLOR, with blue 15
Modes == {4, 8, 16, 32}
Off == 0

TypeOK ==
  /\ chip \in {"ENX", "GTX"} /\ input_mode \in Modes /\ input_width \in Nat
  /\ unit \in [stride : Nat, mode : Modes \cup {Off}, width : Nat, start : Nat]
  /\ clut \in [0 .. 1 -> [t : 0 .. 255, r : 0 .. 255]]

\* get_bpp counts a palette of 16 colours as one byte per pixel.
Bytes(mode) == CASE mode \in {4, 8} -> 1 [] mode = 16 -> 2 [] mode = 32 -> 4
\* Register and back: words of 4 or 2 bytes.
Rounded(n) == IF chip = "ENX" THEN ((n + 3) \div 4) * 4 ELSE ((n + 1) \div 2) * 2
Stride(width, mode) == Rounded(width * Bytes(mode))

\* avia_gt_gv_init, and the mode avia_gt_fb_init sets.
Init ==
  /\ chip \in {"ENX", "GTX"}
  /\ par = [xres |-> 720, yres |-> 576, bpp |-> 8]
  /\ input_mode = 8 /\ input_width = 720
  /\ unit = [stride |-> Stride(720, 8), mode |-> 8, width |-> 720, start |-> 0]
  /\ clut = [n \in 0 .. 1 |-> Color(0, 0)] /\ text = TRUE
  /\ asked = [n \in 0 .. 1 |-> Color(0 - 1, 0)]

----------------------------------------------------------------------------
(* Modes.                                                                  *)

\* avia_gt_fb_decode_var takes any size; 32 bits need an eNX.
Decodes(bpp) == bpp \in Modes /\ ~(bpp = 32 /\ chip = "GTX")

\* avia_gt_gv_set_input_size knows these.
Known(w, h) == w \in {720, 640, 360, 320} /\ h \in {576, 480, 288, 240}

\* Wrong variant: the stride is not computed again for the new width.
StrideOld(w, bpp) == Stride(input_width, bpp)

StrideNew(w, bpp) == Stride(w, bpp)

\* avia_gt_fb_set_par: the size of the window is set also when the input size is refused.
SetPar(w, h, bpp) ==
  /\ Decodes(bpp)
  /\ par' = [xres |-> w, yres |-> h, bpp |-> bpp]
  /\ input_mode' = bpp
  /\ input_width' = IF Known(w, h) THEN w ELSE input_width
  /\ unit' = [unit EXCEPT !.stride = IF Known(w, h) THEN StrideNew(w, bpp) ELSE Stride(input_width, bpp),
                          !.mode = bpp, !.width = w]
  /\ UNCHANGED <<chip, clut, text, asked>>

\* avia_gt_fb_encode_fix
LineLength == (par.xres * par.bpp) \div 8

\* avia_gt_fb_pan_display counts pixels, the register bytes.
Pan(y) ==
  /\ unit' = [unit EXCEPT !.start = y * par.xres]
  /\ UNCHANGED <<chip, par, input_mode, input_width, clut, text, asked>>

Hide == unit' = [unit EXCEPT !.mode = Off] /\ UNCHANGED <<chip, par, input_mode, input_width, clut, text, asked>>
Show == unit' = [unit EXCEPT !.mode = input_mode] /\ UNCHANGED <<chip, par, input_mode, input_width, clut, text, asked>>

----------------------------------------------------------------------------
(* The palette.                                                            *)

\* Wrong variant: the transparent colour is told from others by its transparency alone.
GtxHalf(c) == Color(IF c.t \div 256 > 0 THEN 0 ELSE 1, c.r \div 2048)

\* avia_gt_gv_set_clut on a GTX: from half transparency on the pink is stored.
GtxEntry(c) == IF c.t \div 256 >= 128 THEN Pink
               ELSE Color(IF c.t \div 256 = 0 THEN 1 ELSE 0, c.r \div 2048)

Entry(c) == IF chip = "ENX" THEN Color(c.t \div 256, c.r \div 256) ELSE GtxEntry(c)

\* avia_gt_gv_get_clut
ReadEntry(v) == IF chip = "ENX" THEN Color(v.t * 257, v.r * 257)
                ELSE IF v = Pink THEN Color(65535, 0) ELSE Color(0, v.r * 2056)

\* avia_gt_fb_setcolreg: entry 0 is made transparent behind text; other depths have no palette.
SetColor(n, c) ==
  LET set == IF n = 0 /\ text THEN Color(65535, 0) ELSE c IN
  /\ par.bpp \in {4, 8}
  /\ clut' = [clut EXCEPT ![n] = Entry(set)]
  /\ asked' = [asked EXCEPT ![n] = set]
  /\ UNCHANGED <<chip, par, input_mode, input_width, unit, text>>

SwitchConsole == text' = ~text /\ UNCHANGED <<chip, par, input_mode, input_width, unit, clut, asked>>

Next ==
  \/ \E w \in Widths, h \in Heights, b \in Depths : SetPar(w, h, b)
  \/ \E y \in Offsets : Pan(y)
  \/ Hide \/ Show \/ SwitchConsole
  \/ \E n \in 0 .. 1, t \in Alphas, r \in Levels : SetColor(n, Color(t, r))

Spec == Init /\ [][Next]_vars

----------------------------------------------------------------------------

\* For the sizes the unit knows, programs draw lines where the unit reads them, in the depth
\* it shows; a palette of 16 colours is left out, for which it reads twice as far.
LinesAgree ==
  Known(par.xres, par.yres) /\ par.bpp # 4 =>
    unit.stride = LineLength /\ unit.mode \in {par.bpp, Off}

\* What was set is read back, to the bits that are kept, unless the colour is the pink, and
\* transparency is kept by a GTX as all or nothing.
ColorsReadBack ==
  \A n \in 0 .. 1 :
    LET c == ReadEntry(clut[n])
        near(x, y, d) == x - y < d /\ y - x < d IN
    asked[n].t >= 0 /\ ~(chip = "GTX" /\ asked[n].t < 256 /\ asked[n].r >= 31 * 2048) =>
      IF chip = "ENX" THEN near(c.t, asked[n].t, 257) /\ near(c.r, asked[n].r, 257)
      ELSE IF asked[n].t >= 32768 THEN c.t = 65535
      ELSE c.t = 0 /\ near(c.r, asked[n].r, 2056)
=============================================================================
