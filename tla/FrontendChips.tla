---------------------------- MODULE FrontendChips ----------------------------
(***************************************************************************)
(* The demodulator drivers under frontends/: what each call computes,      *)
(* refuses, writes and remembers, and how the driver follows the chip's    *)
(* lock: the tda8044h's and tda80xx's by an interrupt and a task that runs *)
(* beside the calls, the sqc6100's from events that the chip latches.  The *)
(* other drivers keep nothing of the lock: they read the chip.             *)
(* Frequencies are in kHz, symbol rates in Hz (the sqc6100's are its       *)
(* bandwidth); products of more than 31 bits are taken bit by bit (Div).   *)
(* A transfer fails where the driver looks at its result.                  *)
(***************************************************************************)
EXTENDS Integers, Sequences

CONSTANTS
  Kinds,          \* the drivers that are followed
  Tunings,        \* for each driver, what is asked of it: records [f, rate, inv, fec, qam]
  Codes,          \* what a signal turns out to be: its code rate and inversion
  Levels,         \* how far a chip locks: 0 not at all, 3 Viterbi, 4 packets, 5 frames
  MaxChanges      \* bound: changes of the lock, and calls

VARIABLES
  kind,     \* the driver
  drv,      \* what it keeps: [status, code, inv, qam, flags, ok, f]
  chip,     \* external: what its registers say, and the tuner's synthesizer
  signal,   \* external: [level, code], what the chip is locked to
  line,     \* external: the interrupt line, or the latched events of the sqc6100
  masked, queued,  \* the interrupt, and its task in keventd's queue
  task,     \* [at, seen]: where that task or the sqc6100's read_status is, and the events it read
  asked,    \* history: the last tuning that was taken, none after a refusal or a reset
  sec,      \* history: [voltage, tone], what was last asked of the dish
  lost,     \* history: what the driver could not see change
  changes

seen == <<masked, queued, task>>
vars == <<kind, drv, chip, signal, line, seen, asked, sec, lost, changes>>

Latches == kind = "sqc6100"
Interrupts == kind \in {"tda8044h", "tda80xx", "tda8083"}
Is93 == kind \in {"ves1x93", "ves1893", "ves1993"}
NoTuning == [f |-> 0]
Unwritten == [value |-> 0, bits |-> 0]
Idle == [at |-> "idle", seen |-> {}]
Found == {"viterbi", "sync", "ok"}

TypeOK ==
  /\ kind \in Kinds /\ signal \in [level : Levels, code : Codes]
  /\ line \subseteq (Found \cup {"irq"}) \X BOOLEAN /\ masked \in BOOLEAN /\ queued \in BOOLEAN
  /\ task.at \in {"idle", "acked", "code", "read", "clear"} /\ task.seen \subseteq Found \X BOOLEAN
  /\ drv.status \in Levels /\ drv.flags \subseteq {"viterbi", "sync", "carrier", "lock"} /\ drv.ok \in BOOLEAN
  /\ asked \in Tunings[kind] \cup {NoTuning} /\ lost \subseteq Found
  /\ chip.power \in {"run", "standby", "stopped"}

Init ==
  /\ kind \in Kinds
  /\ drv = [status |-> 0, code |-> "auto", qam |-> "64", flags |-> {}, ok |-> FALSE, f |-> 0,
            inv |-> CASE kind = "ves1820" -> "on" [] Is93 -> "off" [] OTHER -> "auto"]
  /\ chip = [power |-> "run", lnb |-> "other", tone |-> "off", inv |-> "table", fec |-> "table", qam |-> "table",
             pll |-> [word |-> 0, step |-> 1, base |-> 0], ratio |-> Unwritten, filter |-> 0,
             opt |-> <<>>, r60 |-> 0, r69 |-> 0, offset |-> 0]
  /\ signal = [level |-> 0, code |-> CHOOSE c \in Codes : TRUE]
  /\ line = {} /\ masked = FALSE /\ queued = FALSE /\ task = Idle
  /\ asked = NoTuning /\ sec = [voltage |-> "none", tone |-> "none"] /\ lost = {} /\ changes = 0

----------------------------------------------------------------------------
(* Numbers *)

\* a * 2^n \div b for a < 2^30, b < 2^30, one more bit of the quotient at a time.
Div(a, b, n) ==
  LET f[i \in 0..n] ==
        IF i = 0 THEN [q |-> a \div b, r |-> a % b]
        ELSE LET d == f[i - 1] IN [q |-> 2 * d.q + (2 * d.r) \div b, r |-> (2 * d.r) % b]
  IN f[n].q

Pow2(n) == 2^n
Nearest(a, b) == (a + b \div 2) \div b
Below(n, bounds) == Len(SelectSeq(bounds, LAMBDA b : n < b))
UpTo(n, bounds) == Len(SelectSeq(bounds, LAMBDA b : n <= b))

\* tda8044h: the clock and the anti-alias filter for the classes of the rate.
Clock44(rate) ==
  IF rate < 1000000 \/ rate >= 19500000 THEN 96000000 ELSE IF rate < 10000000 THEN 24000000 ELSE 48000000
Filter44(rate) ==
  LET n == Below(rate, <<39000000, 25500000, 19500000, 13500000, 9750000, 6750000>>)
  IN IF rate < 1000000 \/ n = 0 THEN 0 ELSE n + 1

\* Its ratio of 24 bits: the two most common rates are tabled.
Ratio44(rate) ==
  [value |-> IF rate = 22000000 THEN 9151209 ELSE IF rate = 27500000 THEN 7320967 ELSE Div(Clock44(rate), rate, 21),
   bits |-> 24]

\* tda80xx: set_parameters, with the crystal of the tda8044 or of the tda8083, divided by 2, 4 or 6.
Crystal80 == IF kind = "tda8083" THEN 64000000 ELSE 96000000
Scd(rate) == UpTo(rate, <<(Crystal80 * 3) \div 16, (Crystal80 * 3) \div 32, (Crystal80 * 3) \div 64>>)
Clock80(rate) == IF Scd(rate) = 0 THEN Crystal80 ELSE Crystal80 \div (Scd(rate) * 2)

\* The factor of the ratio is 2^K80.
K80(rate) == LET clk == Clock80(rate) IN 21 - UpTo(rate, <<(clk * 3) \div 16, (clk * 3) \div 32>>)
Ratio80(rate) == [value |-> Div(Clock80(rate), rate, K80(rate)), bits |-> 24]

\* The anti-alias filter: 1 to 7 for rates up to clk / 2 ... clk / 16, 0 above and for those that are too low.
Filter80(rate) ==
  LET clk == Clock80(rate)
  IN IF rate < (clk * 3) \div 64 THEN 0
     ELSE UpTo(rate, <<clk \div 2, (clk * 3) \div 8, clk \div 4, (clk * 3) \div 16, clk \div 8, (clk * 3) \div 32, clk \div 16>>)

\* ves1820: set_symbolrate, with the crystal of the dbox2; every second class has the filter.
Xin == 69600000
Ndec(rate) == Below(rate, <<Xin \div 16, Xin \div 32, Xin \div 64>>)
Filter1820(rate) ==
  Below(rate, <<(Xin * 10) \div 123, Xin \div 16, (Xin * 10) \div 246, Xin \div 32,
                (Xin * 10) \div 492, Xin \div 64, (Xin * 10) \div 984>>) % 2
Ratio1820(rate) ==
  LET sr == IF rate < 500000 THEN 500000 ELSE IF rate > Xin \div 2 THEN Xin \div 2 ELSE rate
  IN [value |-> (Div(sr * Pow2(Ndec(sr)), Xin \div 16, 21) + 1) \div 2, bits |-> 22]

\* ves1x93: set_symbolrate, with the crystal of the PCI card, of Nokia's dbox2 and of Sagem's.
\* Fnr is the number of the filter.
Xin93 == CASE kind = "ves1x93" -> 90100000 [] kind = "ves1893" -> 91000000 [] OTHER -> 92160000
Mul == Pow2(26)
Filters93 == <<Mul \div 3, (Mul \div 50) * 11, Mul \div 6, Mul \div 9, Mul \div 12, (Mul \div 200) * 11,
               Mul \div 24, (Mul \div 1000) * 27, Mul \div 48, (Mul \div 10000) * 137>>
Fnr(r) == LET n == Below(r, Filters93) IN IF n = 0 THEN 0 ELSE n - 1
Ratio26(rate) ==
  Div(IF rate < 500000 THEN 500000 ELSE IF rate > Xin93 \div 2 THEN Xin93 \div 2 ELSE rate, (Xin93 + 6000) \div 16, 22)
Ratio93(rate) ==
  LET r == Ratio26(rate) IN [value |-> ((r * Pow2(Fnr(r) \div 2)) \div 16 + 1) \div 2, bits |-> 20]

\* at76c651: a mantissa of 21 bits and its exponent of 3.
Log2(n) == CHOOSE k \in 0..30 : Pow2(k) <= n /\ n < 2 * Pow2(k)
Ratio651(rate) ==
  LET exponent == Log2((rate * 16) \div 903125)
  IN [value |-> ((rate \div 3125) * Pow2(24 - exponent)) \div 289, bits |-> 21]

\* stv0297: the rate, the speed of the sweep and the offset of the carrier.
Ratio0297(rate) == [value |-> ((131072 * (rate \div 1000)) \div 7225) * 8192, bits |-> 31]
Sweep(rate) == (((1380 * 262144) \div (rate \div 1000)) * 1024 + 500000) \div 1000000
Offset == 268435456 - 500 * 26844

\* sqc6100: the resampling rate and the spacing of the carriers are tabled for 8 and for 7 MHz.
Ratio6100(band) == [value |-> IF band = 8000000 THEN 6628966 ELSE 7575962, bits |-> 23]
Spacing(band) == IF band = 8000000 THEN 2591 ELSE 2267

\* A synthesizer tunes to word * step - base, in twelfths of a kHz.
KHz == 12
Word(w, step, base) == [word |-> w, step |-> step, base |-> base]

\* tsa5059_set_freq: of the steps from 2 MHz to 125 kHz the first that is exact, or the nearest and smallest.
Tsa5059(f) ==
  LET pe == IF f <= 2300000 THEN 1 ELSE 2
      steps == [i \in 1..5 |-> (4000 \div Pow2(i)) * pe]
      off(i) == LET d == f - Nearest(f, steps[i]) * steps[i] IN IF d < 0 THEN -d ELSE d
      best == CHOOSE i \in 1..5 :
                IF \E j \in 1..5 : off(j) = 0 THEN off(i) = 0 /\ \A j \in 1..i - 1 : off(j) # 0
                ELSE \A j \in 1..5 : off(i) < off(j) \/ (off(i) = off(j) /\ j <= i)
  IN Word(Nearest(f, steps[best]), steps[best] * KHz, 0)

\* tsa5522_set_pll, the tda8083's.
Tsa5522(f) == Word(Nearest(f, 125), 125 * KHz, 0)

\* The divisors of the cable tuners, in half kHz as their steps are of 62.5 kHz.
Cable(f, if4) == (4 * f + if4 + 125) \div 250

\* tuner_set_tv_freq, sp5659_set_tv_freq, tsa5059_set_tv_freq, tsa5512_set_tv_freq, tua6010_setfreq
\* and sqc6100_set_frequency.
Tuner1820(f) == Word(Cable(f, 144500), 750, 36125 * KHz)
Sp5659(f) == Word((f + 479500) \div 125, 125 * KHz, 479500 * KHz)
Tsa93(f) == Word(f \div 1000, 1000 * KHz, 0)
Tsa5512(f) == Word(Cable(f, 144500), 750, 36125 * KHz)
Tua6010(f) == Word(Cable(f, 144475) + (IF f < 122000 THEN 4 ELSE 3), 750, (144475 + 750) * 3)
Tuner6100(f) == Word(((f * 3) \div 50 + 2165) \div 10, 2000, 2165 * 200)

----------------------------------------------------------------------------
(* FE_SET_FRONTEND *)

Call == changes < MaxChanges /\ changes' = changes + 1 /\ UNCHANGED kind

\* The calls that the drivers have.
Calls44 == {"init", "sleep", "tone", "diseqc", "voltage"}
Calls80 == {"init", "sleep", "reset", "tone", "diseqc", "voltage"}
Calls1820 == {"init", "sleep"}
Calls93 == {"init", "sleep", "voltage"}
Calls651 == {"init", "reset"}
Calls0297 == {"init"}
Calls6100 == {"init", "sleep", "reset"}
Has(call) ==
  call \in CASE kind = "tda8044h" -> Calls44 [] kind \in {"tda80xx", "tda8083"} -> Calls80 [] kind = "ves1820" -> Calls1820
             [] Is93 -> Calls93 [] kind = "at76c651" -> Calls651 [] kind = "stv0297" -> Calls0297 [] Latches -> Calls6100

\* What the call leaves in the registers and in the driver, and whether it took what was asked.
Tuned(t, c, d, taken) == chip' = c /\ drv' = d /\ asked' = IF taken THEN t ELSE NoTuning

\* tda8044h: above 2.7 GHz the synthesizer is not written, with a code rate that it does not know the
\* parameters are not; neither is told.
Pll44(c, f) == IF f > 2700000 THEN c ELSE [c EXCEPT !.pll = Tsa5059(f)]
Codes44(c, t) == [c EXCEPT !.inv = t.inv, !.fec = t.fec]
Params44(c, t) ==
  IF t.fec = "bad" THEN c
  ELSE [Codes44(c, t) EXCEPT !.ratio = Ratio44(t.rate), !.filter = Filter44(t.rate)]
SetFrontend44(t) == Tuned(t, Params44(Pll44(chip, t.f), t), drv, TRUE)

\* tda80xx: the same.
Pll80(c, f) == IF f > 2700000 THEN c ELSE [c EXCEPT !.pll = Tsa5059(f)]
Params80(c, t) ==
  IF t.fec = "bad" THEN c
  ELSE [c EXCEPT !.inv = t.inv, !.fec = t.fec, !.ratio = Ratio80(t.rate), !.filter = Filter80(t.rate)]
SetFrontend80(t) ==
  Tuned(t, Params80(IF kind = "tda8083" THEN [chip EXCEPT !.pll = Tsa5522(t.f)] ELSE Pll80(chip, t.f), t), drv, TRUE)

\* ves1820_setup_reg0: "auto" keeps the inversion bit as the cache has it, and turns it over if the chip
\* does not lock in time.  The cache gets what was tried last.
Other(inv) == IF inv = "on" THEN "off" ELSE "on"
Kept(inv, locks) == IF inv # "auto" THEN inv ELSE IF locks THEN drv.inv ELSE Other(drv.inv)
SetupReg0(c, t, locks) == [c EXCEPT !.power = "run", !.qam = t.qam, !.inv = Kept(t.inv, locks)]

SetFrontend1820(t, locks) ==
  IF t.qam \notin {"16", "32", "64", "128", "256"} THEN Tuned(t, chip, drv, FALSE)
  ELSE LET rated == [chip EXCEPT !.pll = Tuner1820(t.f), !.ratio = Ratio1820(t.rate), !.filter = Filter1820(t.rate)]
       IN Tuned(t, SetupReg0(rated, t, locks), [drv EXCEPT !.qam = t.qam, !.inv = Kept(t.inv, locks)], TRUE)

\* ves1x93: tuner_set_tv_freq, set_inversion, set_fec, set_symbolrate.  The tuner of Nokia's ves1893 is
\* not this driver's; a code rate out of range leaves the one before.  Neither is told.
Tuner93(c, f) ==
  CASE kind = "ves1x93" -> [c EXCEPT !.pll = Sp5659(f)] [] kind = "ves1993" -> [c EXCEPT !.pll = Tsa93(f)] [] OTHER -> c
Inversion93(c, inv) == [c EXCEPT !.inv = inv]
Fec93(c, fec) == IF fec \in {"none", "bad"} THEN c ELSE [c EXCEPT !.fec = fec]
Rate93(c, rate) == [c EXCEPT !.power = "run", !.ratio = Ratio93(rate), !.filter = Fnr(Ratio26(rate))]
SetFrontend93(t) ==
  LET turned == Inversion93(Tuner93(chip, t.f), t.inv)
  IN Tuned(t, Rate93(Fec93(turned, t.fec), t.rate), [drv EXCEPT !.inv = t.inv], TRUE)

\* at76c651_set_auto_config goes by the modulation that the driver remembers.
Optimised(qam) ==
  <<IF qam \in {"32", "128"} THEN 18 ELSE 23,
    CASE qam \in {"32", "128"} -> 192 [] qam = "256" -> 176 [] OTHER -> 144>>

\* at76c651_set_qam remembers the modulation before it writes it.
Refuses651(qam) == qam = "auto"
Qam651(c, qam) == [c EXCEPT !.qam = qam]
Inversion651(c, inv) == [c EXCEPT !.inv = inv]

\* at76c651_set_parameters ends at the first that it refuses, or that the bus does not take.
SetFrontend651(t, fails) ==
  LET tuned == [chip EXCEPT !.pll = Tua6010(t.f)]
      rated == [tuned EXCEPT !.ratio = Ratio651(t.rate)]
      moded == Qam651(rated, t.qam)
      known == Qam651(drv, t.qam)
  IN IF t.f \notin 47000..862000 \/ fails = "pll" THEN Tuned(t, chip, drv, FALSE)
     ELSE IF t.rate > 9360000 THEN Tuned(t, tuned, drv, FALSE)
     ELSE IF Refuses651(t.qam) THEN Tuned(t, rated, drv, FALSE)
     ELSE IF fails = "qam" THEN Tuned(t, rated, known, FALSE)
     ELSE IF fails = "inversion" THEN Tuned(t, moded, known, FALSE)
     ELSE Tuned(t, [Inversion651(moded, t.inv) EXCEPT !.opt = Optimised(t.qam)], known, TRUE)

\* stv0297: the modulation is 64 whatever is asked.  Register 69h holds the sweep's high bits and the
\* offset's: each is put in beside the other.
SetSweep(c, rate) ==
  IF rate < 1000 THEN c
  ELSE [c EXCEPT !.r60 = Sweep(rate) % 256, !.r69 = (c.r69 % 16) + ((Sweep(rate) \div 256) % 16) * 16]
SetOffset(c) ==
  [c EXCEPT !.offset = Offset % Pow2(24), !.r69 = (c.r69 \div 16) * 16 + ((Offset \div Pow2(24)) % 16)]
SetFrontend0297(t) ==
  LET rated == [chip EXCEPT !.pll = Tsa5512(t.f), !.ratio = Ratio0297(t.rate), !.qam = "64"]
  IN Tuned(t, SetOffset(SetSweep(rated, t.rate)), drv, TRUE)

\* sqc6100_set_frontend checks everything first.
Takes6100(t) ==
  /\ t.f \in 174000..862000 /\ t.f \notin 300001..473999 /\ t.rate \in {7000000, 8000000}
  /\ t.fec \in {"1/2", "2/3", "3/4", "5/6", "7/8"} /\ t.qam \in {"qpsk", "16", "64"}

\* Then it stops the chip, which forgets its lock and its events, and keeps the frequency once the tuner
\* has it.  Where a transfer fails the chip stays stopped.
SetFrontend6100(t, fails) ==
  IF ~Takes6100(t) \/ fails = "reset" THEN Tuned(t, chip, drv, FALSE) /\ UNCHANGED <<signal, line, lost>>
  ELSE LET stopped == [chip EXCEPT !.power = "stopped"]
           tuned == [stopped EXCEPT !.pll = Tuner6100(t.f)]
           rated == [tuned EXCEPT !.ratio = Ratio6100(t.rate), !.filter = Spacing(t.rate)]
           moded == [rated EXCEPT !.fec = t.fec, !.qam = t.qam]
           clear == [drv EXCEPT !.flags = {}, !.ok = FALSE]
           known == [clear EXCEPT !.f = t.f]
       IN /\ signal' = [signal EXCEPT !.level = 0] /\ line' = {} /\ lost' = {}
          /\ CASE fails = "pll"     -> Tuned(t, stopped, clear, FALSE)
               [] fails = "release" -> Tuned(t, tuned, known, FALSE)
               [] fails = "mode"    -> Tuned(t, rated, known, FALSE)
               [] fails = "start"   -> Tuned(t, moded, known, FALSE)
               [] OTHER             -> Tuned(t, [moded EXCEPT !.power = "run"], known, TRUE)

SetFrontend(t) ==
  /\ Call /\ UNCHANGED <<seen, sec>>
  /\ IF Latches THEN task = Idle /\ \E fails \in {"no", "reset", "pll", "release", "mode", "start"} : SetFrontend6100(t, fails)
     ELSE /\ UNCHANGED <<signal, line, lost>>
          /\ CASE kind = "tda8044h" -> SetFrontend44(t)
               [] kind \in {"tda80xx", "tda8083"} -> SetFrontend80(t)
               [] kind = "ves1820" -> \E locks \in BOOLEAN : SetFrontend1820(t, locks)
               [] Is93 -> SetFrontend93(t)
               [] kind = "stv0297" -> SetFrontend0297(t)
               [] kind = "at76c651" -> \E fails \in {"no", "pll", "qam", "inversion"} : SetFrontend651(t, fails)

----------------------------------------------------------------------------
(* The other calls *)

\* FE_INIT writes the tables: what was asked is gone.  The caches of the ves1820's and the ves1x93's
\* drivers keep it.
Init44(c) ==
  [c EXCEPT !.power = "run", !.lnb = "other", !.tone = "off", !.inv = "auto", !.fec = "table", !.ratio = Unwritten, !.filter = 2]
Init80(c) ==
  [c EXCEPT !.power = "run", !.lnb = "other", !.tone = "off", !.inv = "auto", !.fec = "table", !.ratio = Unwritten, !.filter = 2]
Init8083(c) ==
  [c EXCEPT !.power = "run", !.lnb = "off", !.tone = "off", !.inv = "auto", !.fec = "table", !.ratio = Unwritten, !.filter = 0]
Init1820(c) == [c EXCEPT !.power = "run", !.inv = "on", !.qam = "64", !.ratio = Unwritten, !.filter = 0]
Init93(c) ==
  [c EXCEPT !.power = "run", !.lnb = IF kind = "ves1993" THEN "other" ELSE "off", !.inv = "table", !.fec = "auto",
            !.ratio = Unwritten, !.filter = 0,
            !.pll = IF kind = "ves1993" THEN Word(9584, 1, 0) ELSE c.pll]
Init0297(c) == [c EXCEPT !.qam = "table"]

\* at76c651_set_defaults.
Defaults651(c) == [c EXCEPT !.ratio = Ratio651(6900000), !.qam = "64", !.opt = Optimised("64")]

FeInit ==
  /\ Call /\ Has("init") /\ task.at \notin {"read", "clear"} /\ UNCHANGED <<signal, line, seen, lost>>
  /\ chip' = CASE kind = "tda8044h" -> Init44(chip) [] kind = "tda80xx" -> Init80(chip) [] kind = "tda8083" -> Init8083(chip)
               [] kind = "ves1820" -> Init1820(chip) [] Is93 -> Init93(chip) [] kind = "stv0297" -> Init0297(chip)
               [] kind = "at76c651" -> Defaults651(chip) [] Latches -> chip
  /\ drv' = IF kind = "at76c651" THEN [drv EXCEPT !.qam = "64"] ELSE drv
  /\ asked' = IF Latches THEN asked ELSE NoTuning
  /\ sec' = [voltage |-> "none", tone |-> "none"]

\* FE_SLEEP.  It does not wait for the task, which wakes the chip with its acknowledgement.
Sleep44(c) == [c EXCEPT !.lnb = "off", !.power = "standby"]
Sleep80(c) == [c EXCEPT !.lnb = "off", !.power = "standby"]
Sleep1820(c) == [c EXCEPT !.power = "standby"]
Sleep93(c) == [c EXCEPT !.power = "standby", !.lnb = IF kind = "ves1x93" THEN "off" ELSE c.lnb]

FeSleep ==
  /\ Call /\ Has("sleep") /\ ~Latches /\ UNCHANGED <<drv, signal, line, seen, asked, lost>>
  /\ chip' = CASE kind = "tda8044h" -> Sleep44(chip) [] kind \in {"tda80xx", "tda8083"} -> Sleep80(chip)
               [] kind = "ves1820" -> Sleep1820(chip) [] Is93 -> Sleep93(chip)
  /\ sec' = IF Interrupts \/ Is93 THEN [sec EXCEPT !.voltage = "none"] ELSE sec

\* FE_RESET of the tda80xx goes through 3Ch and wakes the chip, that of the at76c651 restarts it; that of
\* the tda8044h does nothing.
FeReset ==
  /\ Call /\ Has("reset") /\ ~Latches
  /\ chip' = [chip EXCEPT !.power = "run"] /\ signal' = [signal EXCEPT !.level = 0]
  /\ line' = IF Interrupts THEN line \cup {<<"irq", TRUE>>} ELSE line
  /\ UNCHANGED <<drv, seen, asked, sec, lost>>

\* sqc6100_reset, which is FE_SLEEP too: if it fails half way the driver still says what it said.
Reset6100(fails) ==
  /\ Call /\ Latches /\ (Has("sleep") \/ Has("reset")) /\ task = Idle
  /\ chip' = [chip EXCEPT !.power = "stopped"] /\ asked' = NoTuning
  /\ signal' = [signal EXCEPT !.level = 0] /\ line' = {}
  /\ drv' = IF fails THEN drv ELSE [drv EXCEPT !.flags = {}, !.ok = FALSE]
  /\ lost' = IF fails THEN Found ELSE {}
  /\ UNCHANGED <<seen, sec>>

\* FE_SET_VOLTAGE, FE_SET_TONE, and the messages and bursts, which write the register of the tone.
Voltages44 == {"13", "18"}
Voltages80 == {"13", "18", "off"}
Voltages93 == {"13", "18", "off"}
SetVoltage(v) ==
  /\ Call /\ Has("voltage")
  /\ v \in CASE kind = "tda8044h" -> Voltages44 [] Is93 -> Voltages93 [] OTHER -> Voltages80
  /\ chip' = [chip EXCEPT !.lnb = v] /\ sec' = [sec EXCEPT !.voltage = v]
  /\ UNCHANGED <<drv, signal, line, seen, asked, lost>>

SetTone(v) ==
  /\ Call /\ Has("tone")
  /\ chip' = [chip EXCEPT !.tone = v] /\ sec' = [sec EXCEPT !.tone = v]
  /\ UNCHANGED <<drv, signal, line, seen, asked, lost>>

SendDiseqc(v) ==
  /\ Call /\ Has("diseqc")
  /\ chip' = [chip EXCEPT !.tone = v] /\ sec' = [sec EXCEPT !.tone = "none"]
  /\ UNCHANGED <<drv, signal, line, seen, asked, lost>>

----------------------------------------------------------------------------
(* The lock *)

Reaches(x, level) == level >= (CASE x = "viterbi" -> 3 [] x = "sync" -> 4 [] x = "ok" -> 5)
Events(level) ==
  {<<x, Reaches(x, level)>> : x \in {y \in {"viterbi", "sync"} : Reaches(y, level) # Reaches(y, signal.level)}}
    \cup {<<x, TRUE>> : x \in {y \in {"ok"} : Reaches(y, level) /\ ~Reaches(y, signal.level)}}

\* An event of the sqc6100 is lost if it comes between reading the events and clearing them, and a loss
\* of the lock that follows its gain before they are read.
Missed(e) ==
  \/ (IF e[1] = "ok" THEN task.at = "clear" ELSE task.at # "idle")
  \/ (~e[2] /\ <<e[1], TRUE>> \in line)

\* The chip locks, to a signal that may be another one, or loses the lock.
SignalChanges(level, code) ==
  /\ Call /\ chip.power = "run" /\ level # signal.level
  /\ signal.level = 0 \/ code = signal.code
  /\ signal' = [level |-> level, code |-> code]
  /\ line' = line \cup CASE Latches -> Events(level) [] Interrupts -> {<<"irq", TRUE>>} [] OTHER -> {}
  /\ lost' = IF Latches
             THEN {x \in lost : \A e \in Events(level) : e[1] # x} \cup {e[1] : e \in {d \in Events(level) : Missed(d)}}
             ELSE lost
  /\ UNCHANGED <<drv, chip, seen, asked, sec>>

Stays == UNCHANGED <<kind, signal, asked, sec, changes>>

\* tda8044_irq and tda80xx_irq, with SA_ONESHOT.
Irq ==
  /\ Interrupts /\ line # {} /\ ~masked /\ masked' = TRUE /\ queued' = TRUE
  /\ Stays /\ UNCHANGED <<drv, chip, line, task, lost>>

\* The task acknowledges, which takes the chip out of standby, then reads.
TaskAck ==
  /\ Interrupts /\ queued /\ task = Idle /\ queued' = FALSE /\ line' = {} /\ masked' = FALSE
  /\ task' = [Idle EXCEPT !.at = "acked"] /\ chip' = [chip EXCEPT !.power = "run"]
  /\ Stays /\ UNCHANGED <<drv, lost>>

\* The tda8044h's ends early if the lock is as it was: a signal that changed in between is not seen.
TaskRead44 ==
  /\ kind = "tda8044h" /\ task.at = "acked"
  /\ LET same == drv.status = signal.level
         locks == signal.level = 5
     IN /\ task' = [Idle EXCEPT !.at = IF ~same /\ locks THEN "code" ELSE "idle"]
        /\ drv' = IF same THEN drv ELSE IF locks THEN [drv EXCEPT !.status = 5]
                  ELSE [drv EXCEPT !.status = signal.level, !.code = "auto", !.inv = "auto"]
        /\ lost' = IF same /\ locks /\ drv.code # signal.code THEN {"ok"} ELSE {}
  /\ Stays /\ UNCHANGED <<chip, line, masked, queued>>

\* tda80xx_read_status.
TaskRead80 ==
  /\ kind \in {"tda80xx", "tda8083"} /\ task.at = "acked"
  /\ task' = [Idle EXCEPT !.at = IF signal.level >= 3 THEN "code" ELSE "idle"]
  /\ drv' = [drv EXCEPT !.status = signal.level, !.code = IF signal.level >= 3 THEN drv.code ELSE "auto"]
  /\ Stays /\ UNCHANGED <<chip, line, masked, queued, lost>>

\* Register 0Eh: the inversion counts from the packets' lock on.
TaskCode ==
  /\ task.at = "code" /\ task' = Idle
  /\ drv' = [drv EXCEPT !.code = signal.code, !.inv = IF drv.status >= 4 THEN signal.code ELSE "auto"]
  /\ Stays /\ UNCHANGED <<chip, line, masked, queued, lost>>

\* sqc6100_read_status: the first events, the rest and what they say, and clearing them.  Of both kinds
\* of an event the gain wins.  The carrier once seen is not taken back.
PollRead ==
  /\ Latches /\ task = Idle /\ task' = [at |-> "read", seen |-> line]
  /\ Stays /\ UNCHANGED <<drv, chip, line, masked, queued, lost>>

PollEval ==
  /\ task.at = "read" /\ task' = [task EXCEPT !.at = "clear"]
  /\ LET ok == drv.ok \/ <<"ok", TRUE>> \in line
         told == {x \in {"viterbi", "sync"} :
                    <<x, TRUE>> \in task.seen \/ (x \in drv.flags /\ <<x, FALSE>> \notin task.seen)}
         carrier == (drv.flags \cap {"carrier"}) \cup (IF signal.level >= 2 THEN {"carrier"} ELSE {})
         locks == ok /\ told = {"viterbi", "sync"} /\ carrier # {}
     IN drv' = [drv EXCEPT !.ok = ok, !.flags = told \cup carrier \cup (IF locks THEN {"lock"} ELSE {})]
  /\ Stays /\ UNCHANGED <<chip, line, masked, queued, lost>>

PollClear ==
  /\ task.at = "clear" /\ task' = Idle /\ line' = {}
  /\ Stays /\ UNCHANGED <<drv, chip, masked, queued, lost>>

\* FE_READ_STATUS.  The chips' bits come in the order in which they lock; the ves1820 tells of Viterbi
\* with the carrier, the at76c651's decoder is the last that locks, the stv0297 has
\* one bit for all but the signal, which is the tuner's.
Flags == <<"signal", "carrier", "viterbi", "sync", "lock">>
UpToLevel(n) == {Flags[i] : i \in 1..n}
Status80 == UpToLevel(drv.status)
Status1820(n) == UpToLevel(n) \cup (IF n >= 2 THEN {"viterbi"} ELSE {})
Status93(n) == UpToLevel(n)
Status651(n) == IF n = 5 THEN UpToLevel(n) ELSE UpToLevel(n) \ {"viterbi"}
Status0297(n) == IF n = 5 THEN UpToLevel(n) ELSE {"signal"} \cap UpToLevel(n)
Status ==
  CASE Interrupts -> Status80 [] kind = "ves1820" -> Status1820(signal.level) [] Is93 -> Status93(signal.level)
    [] kind = "at76c651" -> Status651(signal.level) [] kind = "stv0297" -> Status0297(signal.level) [] Latches -> drv.flags

\* FE_GET_FRONTEND starts from what was asked and puts in what the driver knows or reads.  The sqc6100
\* answers only once it is locked to the signal's parameters.
Answer80(t) == [t EXCEPT !.inv = drv.inv, !.fec = drv.code]
Answer1820(t) == [t EXCEPT !.inv = drv.inv, !.qam = drv.qam]
Answer93(t) == [t EXCEPT !.inv = IF drv.inv = "auto" THEN signal.code ELSE t.inv, !.fec = signal.code]
Answer6100(t) == [t EXCEPT !.f = drv.f, !.inv = "off", !.fec = signal.code]
Answer(t) ==
  CASE Interrupts -> Answer80(t) [] kind = "ves1820" -> Answer1820(t) [] Is93 -> Answer93(t) [] Latches -> Answer6100(t)
    [] OTHER -> t

Next ==
  \/ \E t \in Tunings[kind] : SetFrontend(t)
  \/ FeInit \/ FeSleep \/ FeReset \/ (\E fails \in BOOLEAN : Reset6100(fails))
  \/ (\E v \in {"13", "18", "off"} : SetVoltage(v)) \/ (\E v \in {"on", "off"} : SetTone(v))
  \/ (\E v \in {"message", "burst"} : SendDiseqc(v))
  \/ \E level \in Levels, code \in Codes : SignalChanges(level, code)
  \/ Irq \/ TaskAck \/ TaskRead44 \/ TaskRead80 \/ TaskCode \/ PollRead \/ PollEval \/ PollClear

Spec == Init /\ [][Next]_vars

----------------------------------------------------------------------------

\* Once no interrupt and no task is left, or the events are read, the driver has the chip's lock, its
\* code rate and its inversion, unless the change was one that it cannot see.
LockTold ==
  line = {} /\ ~queued /\ task = Idle =>
    /\ Interrupts /\ lost = {} =>
         /\ drv.status = signal.level
         /\ signal.level = 5 => drv.code = signal.code /\ drv.inv = signal.code
         /\ kind # "tda8044h" /\ signal.level >= 3 => drv.code = signal.code
         /\ signal.level < (IF kind = "tda8044h" THEN 5 ELSE 3) => drv.code = "auto"
    /\ Latches /\ chip.power = "run" =>
         /\ \A x \in {"viterbi", "sync"} \ lost : x \in drv.flags <=> Reaches(x, signal.level)
         /\ lost = {} => ("lock" \in drv.flags => Reaches("sync", signal.level)) /\ (signal.level = 5 => "lock" \in drv.flags)

Tune == asked # NoTuning
Knows(fec) == fec # "bad" /\ ~(Is93 /\ fec = "none")

\* The rate fits the chip's register for every rate that is advertised; the tda8044h's from just
\* above 3 MHz.  Its tabled rates are what its formula gives, to a unit.  The tda80xx's factor k goes
\* with the anti-alias filter as tda80xx.c:363-365 says, and so does the tda8044h's clock but for the
\* rates from 9.75 to 10 MHz.  The sqc6100's tables are the formula at sqc6100.c:475.
RateFits ==
  Tune /\ (Interrupts => Knows(asked.fec)) =>
    /\ (kind = "tda8044h" /\ asked.rate <= 3000000) \/ (chip.ratio.value > 0 /\ chip.ratio.value \div Pow2(chip.ratio.bits - 1) < 2)
    /\ kind = "tda8044h" /\ asked.rate > 20000000 => chip.ratio.value - Div(96000000, asked.rate, 21) \in {0, 1}
    /\ kind = "tda8044h" /\ asked.rate \in 1000000..45000000 /\ asked.rate \notin 9750000..9999999 =>
         Clock44(asked.rate) = 96000000 \div Pow2(CASE chip.filter <= 3 -> 0 [] chip.filter \in {4, 5} -> 1 [] OTHER -> 2)
    /\ kind \in {"tda80xx", "tda8083"} =>
         K80(asked.rate) = CASE chip.filter <= 3 -> 21 [] chip.filter \in {4, 5} -> 20 [] OTHER -> 19
    /\ Latches => chip.ratio.value - Div(25287500, asked.rate, 21) \in {0, 1}

\* The synthesizer is set to within a step and a half of what was asked for, if the driver writes it.
Writes(f) == kind # "ves1893" /\ ~(kind \in {"tda8044h", "tda80xx"} /\ f > 2700000)
TunedNear ==
  Tune /\ Writes(asked.f) =>
    LET off == chip.pll.word * chip.pll.step - chip.pll.base - asked.f * KHz
    IN -3 * chip.pll.step <= 2 * off /\ 2 * off <= 3 * chip.pll.step

\* A call that was taken leaves the chip with all that it asked, whatever was asked, refused or cut short
\* before: inversion and code rate, the modulation and what goes with it, the halves of the shared register.
SettingsFollow ==
  Tune =>
    /\ (Interrupts \/ Is93) /\ Knows(asked.fec) => chip.fec = asked.fec
    /\ (Interrupts /\ Knows(asked.fec)) \/ Is93 \/ kind = "at76c651" => chip.inv = asked.inv
    /\ kind = "ves1820" /\ asked.inv # "auto" => chip.inv = asked.inv
    /\ kind \in {"ves1820", "at76c651", "sqc6100"} => chip.qam = asked.qam
    /\ kind = "at76c651" => chip.opt = Optimised(asked.qam)
    /\ kind = "stv0297" =>
         /\ (chip.r69 \div 16) * 256 + chip.r60 = Sweep(asked.rate)
         /\ (chip.r69 % 16) * Pow2(24) + chip.offset = Offset

\* What the drivers report is what the chip has: a lock with all that comes before it and never without
\* the chip's, and of a tuning that was taken the inversion and the modulation that the chip was given or
\* found, and the frequency that the tuner has.
CacheTrue ==
  /\ "lock" \in Status /\ (Interrupts => line = {} /\ ~queued /\ task = Idle) /\ ~Latches =>
       signal.level = 5 /\ {"carrier", "viterbi", "sync"} \subseteq Status
  /\ "lock" \in Status => "sync" \in Status /\ "viterbi" \in Status
  /\ Tune /\ (kind = "ves1820" \/ (Is93 /\ asked.inv # "auto")) => Answer(asked).inv = chip.inv
  /\ Tune /\ Is93 /\ asked.inv = "auto" => chip.inv = "auto" /\ Answer(asked).inv = signal.code
  /\ Tune /\ kind \in {"ves1820", "at76c651", "sqc6100"} => Answer(asked).qam = chip.qam
  /\ Tune /\ kind = "at76c651" => drv.qam = chip.qam
  /\ Latches /\ drv.f # 0 => chip.pll = Tuner6100(drv.f)
  /\ Tune /\ Latches => Answer(asked).f = asked.f

\* Tuning leaves the voltage and the tone that the dish was given.
SecKept ==
  /\ sec.voltage # "none" => chip.lnb = sec.voltage
  /\ sec.tone # "none" => chip.tone = sec.tone

Follows == LockTold /\ RateFits /\ TunedNear /\ SettingsFollow /\ CacheTrue /\ SecKept
=============================================================================
