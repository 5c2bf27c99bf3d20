------------------------------- MODULE Clock -------------------------------
(***************************************************************************)
(* The clock chip (ds1307.c) and the wake-up timer of the front processor  *)
(* (dbox2_fp_timer.c).  The chip keeps its seven registers in BCD and runs *)
(* on between two accesses; a process reads or writes them one at a time.  *)
(* The front processor counts minutes in two bytes.                        *)
(*                                                                         *)
(* cli() keeps nothing away: the i2c transfers sleep.                      *)
(***************************************************************************)
EXTENDS Integers, TLC

CONSTANTS
  Procs,     \* the processes that read and set the clock
  Times,     \* what they set it to: records of tm_year, tm_mon, ...
  Minutes,   \* what the wake-up timer is set to
  MaxCalls   \* bound on the calls and on the transfers that fail

Fields == <<"year", "mon", "mday", "hour", "min", "sec", "wday">>

VARIABLES
  chip,      \* the registers of the clock
  proc,      \* where each process is, what it sets or has read, and whether it
             \* was disturbed: by a failure, a second that went by, another set
  should,    \* history: the time the chip should hold, if that is known
  told,      \* history: what was read last undisturbed, and what it should be
  timer,     \* the wake-up timer: its bytes, and whether it started the box
  boot,      \* boot_trigger
  asked,     \* history: the minutes last asked for
  calls

vars == <<chip, proc, should, told, timer, boot, asked, calls>>

Bcd(n)     == (n \div 10) * 16 + (n % 10)
FromBcd(n) == (n \div 16) * 10 + (n % 16)

Halted == 128   \* the bit of the seconds that stops the oscillator

NoRegs  == [f \in {} |-> 0]
Nothing == [doing |-> "idle", at |-> 1, regs |-> NoRegs, time |-> {}, disturbed |-> FALSE]

TypeOK ==
  /\ \A i \in 1 .. 7 : chip[Fields[i]] \in 0 .. 255
  /\ \A p \in Procs : proc[p].at \in 1 .. 7 /\ proc[p].doing \in {"idle", "get", "set"}
  /\ timer.low \in 0 .. 255 /\ timer.high \in 0 .. 255
  /\ boot \in {"user", "timer"} /\ calls \in 0 .. MaxCalls

\* Power comes back: the oscillator may stand still.
Init ==
  /\ chip \in {[year |-> 0, mon |-> 1, mday |-> 1, hour |-> 0, min |-> 0, wday |-> 0, sec |-> s] :
                 s \in {0, Halted}}
  /\ proc = [p \in Procs |-> Nothing]
  /\ should = {} /\ told = {}
  /\ timer \in [low : {0}, high : {1}, rang : BOOLEAN]
  /\ boot = "user" /\ asked = 256 /\ calls = 0

----------------------------------------------------------------------------
(* The conversions.                                                        *)

DaysInMonth == <<31, 28, 31, 30, 31, 30, 31, 31, 30, 31, 30, 31>>

Leap(y) == (y % 4 = 0 /\ y % 100 # 0) \/ y % 400 = 0

\* Wrong variant: every fourth year has a day more, and every month 31.
AcceptedAny(t) == t.tm_mday \in 1 .. 31 /\ t.tm_mon \in 0 .. 11

\* RTC_SET_TIME refuses what is no date.
Accepted(t) ==
  /\ t.tm_year + 1900 \in 1970 .. 2069
  /\ t.tm_mon + 1 \in 1 .. 12 /\ t.tm_mday # 0
  /\ t.tm_mday <= DaysInMonth[t.tm_mon + 1]
                  + (IF t.tm_mon + 1 = 2 /\ Leap(t.tm_year + 1900) THEN 1 ELSE 0)
  /\ t.tm_hour < 24 /\ t.tm_min < 60 /\ t.tm_sec < 60 /\ t.tm_wday <= 6

YearOf(y) == IF y >= 2000 THEN y - 2000 ELSE y - 1900

\* What is written for a time.
Encoded(t) ==
  [year |-> Bcd(YearOf(t.tm_year + 1900)), mon |-> Bcd(t.tm_mon + 1),
   mday |-> Bcd(t.tm_mday), hour |-> Bcd(t.tm_hour), min |-> Bcd(t.tm_min),
   sec |-> Bcd(t.tm_sec), wday |-> Bcd(t.tm_wday)]

\* The bits of a register that count, as a modulus.
Counts == [year |-> 256, mon |-> 32, mday |-> 64, hour |-> 64, min |-> 128, sec |-> 128,
           wday |-> 8]

\* What is told of the registers read.
Decoded(r) ==
  LET n == [f \in DOMAIN r |-> FromBcd(r[f] % Counts[f])]
  IN [tm_year |-> n.year + (IF n.year <= 69 THEN 100 ELSE 0), tm_mon |-> n.mon - 1,
      tm_mday |-> n.mday, tm_hour |-> n.hour, tm_min |-> n.min, tm_sec |-> n.sec,
      tm_wday |-> n.wday]

----------------------------------------------------------------------------
(* The chip and the processes.                                             *)

\* rtc_i2c_init_client: the oscillator is started if it stands still.
Start ==
  /\ calls = 0 /\ chip.sec >= Halted
  /\ chip' = [chip EXCEPT !.sec = @ % Halted]
  /\ UNCHANGED <<proc, should, told, timer, boot, asked, calls>>

Begin(p, doing, regs, time) ==
  /\ proc[p].doing = "idle" /\ calls < MaxCalls
  /\ calls' = calls + 1
  /\ proc' = [proc EXCEPT ![p] = [Nothing EXCEPT !.doing = doing, !.regs = regs, !.time = time,
                !.disturbed = \E o \in Procs \ {p} : proc[o].doing = "set"]]

\* RTC_SET_TIME; all registers are written in seven transfers.
Set(p, t) ==
  /\ Accepted(t)
  /\ Begin(p, "set", Encoded(t), {t})
  /\ should' = {}
  /\ UNCHANGED <<chip, told, timer, boot, asked>>

\* RTC_RD_TIME and /proc/rtc.
Get(p) ==
  /\ Begin(p, "get", NoRegs, {})
  /\ UNCHANGED <<chip, should, told, timer, boot, asked>>

\* A transfer that fails.
Fault(fails) == (fails => calls < MaxCalls) /\ calls' = IF fails THEN calls + 1 ELSE calls

\* The others are disturbed by what p does.
Moved(p, regs, fails) ==
  [o \in Procs |->
     IF o # p THEN [proc[o] EXCEPT !.disturbed = @ \/ proc[p].doing = "set"]
     ELSE IF proc[p].at = 7 THEN Nothing
     ELSE [proc[p] EXCEPT !.at = @ + 1, !.regs = regs, !.disturbed = @ \/ fails]]

\* ds1307_writereg: whether it fails is not looked at.
WriteReg(p, fails) ==
  LET me == proc[p]
      f == Fields[me.at]
  IN /\ me.doing = "set"
     /\ chip' = IF fails THEN chip ELSE [chip EXCEPT ![f] = me.regs[f]]
     /\ proc' = Moved(p, me.regs, fails)
     /\ should' = IF me.at = 7 /\ ~me.disturbed /\ ~fails THEN me.time ELSE {}
     /\ Fault(fails)
     /\ UNCHANGED <<told, timer, boot, asked>>

\* The seconds are read first.
ReadOrder == <<"sec", "min", "hour", "mday", "mon", "year", "wday">>

\* ds1307_readreg: a transfer that fails reads 0.
ReadReg(p, fails) ==
  LET me == proc[p]
      regs == ReadOrder[me.at] :> (IF fails THEN 0 ELSE chip[ReadOrder[me.at]]) @@ me.regs
  IN /\ me.doing = "get"
     /\ proc' = Moved(p, regs, fails)
     /\ told' = IF me.at # 7 THEN told
                ELSE IF me.disturbed \/ fails \/ should = {} THEN {}
                ELSE {<<Decoded(regs), CHOOSE t \in should : TRUE>>}
     /\ Fault(fails)
     /\ UNCHANGED <<chip, should, timer, boot, asked>>

\* A second goes by while the clock is read or set, with a carry into the
\* minutes at most.
Tick ==
  LET s == FromBcd(chip.sec)
      m == FromBcd(chip.min)
  IN /\ \E p \in Procs : proc[p].doing # "idle"
     /\ s \in {58, 59} /\ m < 59
     /\ chip' = [chip EXCEPT !.sec = Bcd((s + 1) % 60), !.min = IF s = 59 THEN Bcd(m + 1) ELSE @]
     /\ should' = {[t EXCEPT !.tm_sec = (@ + 1) % 60,
                            !.tm_min = IF t.tm_sec = 59 THEN @ + 1 ELSE @] : t \in should}
     /\ proc' = [p \in Procs |-> [proc[p] EXCEPT !.disturbed = @ \/ proc[p].doing # "idle"]]
     /\ UNCHANGED <<told, timer, boot, asked, calls>>

----------------------------------------------------------------------------
(* The wake-up timer.                                                      *)

\* Wrong variant: the high byte is left out.
TimerBytesLow(m) == [timer EXCEPT !.low = m % 256]

TimerBytes(m) == [timer EXCEPT !.low = m % 256, !.high = m \div 256]

\* dbox2_fp_timer_init: cleared, and the flag read and cleared, as far as the
\* transfers succeed.
TimerInit(reads, clears) ==
  /\ asked = 256 /\ calls = 0
  /\ asked' = 0
  /\ timer' = [TimerBytes(0) EXCEPT !.rang = @ /\ ~(reads /\ clears)]
  /\ boot' = IF reads /\ timer.rang THEN "timer" ELSE boot
  /\ UNCHANGED <<chip, proc, should, told, calls>>

\* dbox2_fp_timer_set.
TimerSet(m) ==
  /\ calls < MaxCalls /\ calls' = calls + 1
  /\ timer' = TimerBytes(m) /\ asked' = m
  /\ UNCHANGED <<chip, proc, should, told, boot>>

\* dbox2_fp_timer_get.
TimerGet == timer.low + timer.high * 256

----------------------------------------------------------------------------
Next ==
  \/ Start \/ Tick
  \/ \E p \in Procs : \/ Get(p)
                      \/ \E t \in Times : Set(p, t)
                      \/ \E fails \in BOOLEAN : WriteReg(p, fails) \/ ReadReg(p, fails)
  \/ \E reads, clears \in BOOLEAN : TimerInit(reads, clears)
  \/ \E m \in Minutes : TimerSet(m)

Spec == Init /\ [][Next]_vars

----------------------------------------------------------------------------
LastDay(mon, year) ==
  IF mon = 1 THEN (IF year % 4 = 0 THEN 29 ELSE 28) ELSE IF mon \in {3, 5, 8, 10} THEN 30 ELSE 31

IsDate(t) == t.tm_mon \in 0 .. 11 /\ t.tm_mday \in 1 .. LastDay(t.tm_mon, t.tm_year)

\* What a process sets, undisturbed, the chip holds: it is a date, it comes
\* back through the BCD registers and the century the same when it is read,
\* and the seconds that go by afterwards do not spoil it.
ClockTrue ==
  /\ \A t \in should : t = Decoded(chip) /\ IsDate(t)
  /\ \A r \in told : r[1] = r[2]
  /\ TimerGet = asked
=============================================================================
