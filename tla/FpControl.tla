----------------------------- MODULE FpControl -----------------------------
(***************************************************************************)
(* What frontend ioctls have the front processor do (dbox2_fp_napi.c):     *)
(* supply the LNB and send DiSEqC messages (dbox2_fp_sec.c), and write the *)
(* divider of the tuner's synthesizer (dbox2_fp_tuner.c).                  *)
(***************************************************************************)
EXTENDS Integers, FiniteSets

CONSTANTS
  Procs,        \* processes that issue ioctls
  Busy,         \* external: polls until the firmware has sent a message
  Frequencies,  \* kHz, intermediate, as FE_SET_FRONTEND of a satellite demodulator takes them
  Channels,     \* Hz, of a cable demodulator
  MaxCalls      \* bound: ioctls

VARIABLES
  demod,           \* what FE_GET_INFO named: "VES1820", "VES1893" or "VES1993"
  nokia,           \* mid is Nokia; else Sagem
  sec,             \* sec_power, sec_voltage, sec_high_voltage, sec_tone
  sec_bus_status,  \* -1 overloaded, -2 busy
  pc,              \* what a process sleeps in
  lnb,             \* external: what the LNB is supplied with
  wire,            \* external: polls until the message on the wire is sent
  divider,         \* external: [freq, buf], buf the numbers the synthesizer was written
  wanted,          \* history: what was asked for last, of each
  refused,         \* history: a call was refused since the last one that was sent
  clash,           \* history: the supply changed with a message on the wire
  calls

vars == <<demod, nokia, sec, sec_bus_status, pc, lnb, wire, divider, wanted, refused, clash, calls>>

Supply == [power : {0, 1}, voltage : {0, 1}, high : {0, 1}, tone : {0, 1}]
Off == [power |-> 0, voltage |-> 0, high |-> 0, tone |-> 0]
Idle == [op |-> "idle", msg |-> Off, c |-> 0]
Unset == [freq |-> 0, qam |-> FALSE, buf |-> <<>>]

TypeOK ==
  /\ sec \in Supply /\ lnb \in Supply /\ wanted \in Supply
  /\ sec_bus_status \in {0, -1, -2} /\ refused \in BOOLEAN /\ clash \in BOOLEAN
  /\ \A p \in Procs : pc[p] = Idle \/ pc[p].op \in {"set", "diseqc"}
  /\ Cardinality({p \in Procs : pc[p] # Idle}) <= 1 /\ wire \in Nat

Init ==
  /\ demod \in {"VES1820", "VES1893", "VES1993"} /\ nokia \in BOOLEAN
  /\ sec = Off /\ sec_bus_status = 0 /\ pc = [p \in Procs |-> Idle]
  /\ lnb = Off /\ wire = 0 /\ divider = Unset
  /\ wanted = Off /\ refused = FALSE /\ clash = FALSE /\ calls = 0

----------------------------------------------------------------------------

\* Wrong variant: values are remembered only if the bus takes them.
RememberedIfSent(change) == IF sec_bus_status < 0 THEN sec ELSE change

\* dbox2_fp_sec_set remembers the values before it looks at the bus.
Remembered(change) == change

SecSet(p, change) ==
  /\ sec' = Remembered(change)
  /\ IF sec_bus_status < 0 THEN refused' = TRUE /\ UNCHANGED <<sec_bus_status, pc>>
     ELSE /\ sec_bus_status' = -1 /\ refused' = FALSE
          /\ pc' = [pc EXCEPT ![p] = [op |-> "set", msg |-> sec', c |-> 0]]

\* dbox2_fp_napi_sec_ioctl.  A voltage switches the power on with it.
Asked(v) ==
  CASE v.to = "13" -> {"power", "voltage"} [] v.to = "18" -> {"power", "voltage"}
    [] v.to \in {"off", "on"} -> {"power"} [] v.to = "tone" -> {"tone"} [] v.to = "high" -> {"high"}
ValueOf(v, f) == IF f = "power" THEN IF v.to = "off" THEN 0 ELSE 1
                 ELSE IF f = "voltage" THEN IF v.to = "18" THEN 1 ELSE 0 ELSE v.on
With(s, v) == [f \in DOMAIN s |-> IF f \in Asked(v) THEN ValueOf(v, f) ELSE s[f]]

SecIoctl(p, v) ==
  /\ demod # "VES1820" /\ pc[p] = Idle /\ calls < MaxCalls
  /\ SecSet(p, With(sec, v)) /\ wanted' = With(wanted, v)
  /\ calls' = calls + 1 /\ UNCHANGED <<demod, nokia, lnb, wire, divider, clash>>

\* i2c_master_send slept.  If it fails, the bus stays overloaded, for good.
SetSent(p) ==
  /\ pc[p].op = "set" /\ pc' = [pc EXCEPT ![p] = Idle]
  /\ \/ lnb' = pc[p].msg /\ sec_bus_status' = 0 /\ clash' = (clash \/ wire > 0)
     \/ UNCHANGED <<lnb, sec_bus_status, clash>>
  /\ UNCHANGED <<demod, nokia, sec, wire, divider, wanted, refused, calls>>

\* Wrong variant: the bus is free while the message is sent.
BusyNot == 0

BusyStatus == -2

\* dbox2_fp_sec_diseqc_cmd; the driver waits for the firmware of a Nokia, and delays for that of a Sagem.
DiseqcCmd(p) ==
  /\ demod # "VES1820" /\ pc[p] = Idle /\ calls < MaxCalls /\ calls' = calls + 1
  /\ IF sec_bus_status < 0 \/ ~nokia THEN UNCHANGED <<sec_bus_status, pc, wire>>
     ELSE /\ sec_bus_status' = BusyStatus /\ wire' \in Busy
          /\ pc' = [pc EXCEPT ![p] = [op |-> "diseqc", msg |-> Off, c |-> 1]]
  /\ UNCHANGED <<demod, nokia, sec, lnb, divider, wanted, refused, clash>>

DiseqcPoll(p) ==
  /\ pc[p].op = "diseqc"
  /\ IF wire = 0 \/ pc[p].c = 5 THEN pc' = [pc EXCEPT ![p] = Idle] /\ sec_bus_status' = 0 /\ UNCHANGED wire
     ELSE pc' = [pc EXCEPT ![p].c = @ + 1] /\ wire' = wire - 1 /\ UNCHANGED sec_bus_status
  /\ UNCHANGED <<demod, nokia, sec, lnb, divider, wanted, refused, clash, calls>>

----------------------------------------------------------------------------

RoundDiv(n, d) == (n + d \div 2) \div d

\* The reference ratios of the sp5668, in units of 125 Hz.
Ratio(sel) == 16000 \div 2 ^ sel
MaxFrequency == 3815467  \* a higher one overflows 32 bits
Intermediate(freq) == (freq + 479500) * 8
Prescaler(freq) == IF Intermediate(freq) >= 16000000 THEN 1 ELSE 0

SelOf(freq) ==
  LET fits == {s \in 0..7 : RoundDiv(Intermediate(freq), Ratio(s)) <= 16383}
  IN CHOOSE s \in fits : \A t \in fits : t <= s

\* Wrong variant: the prescaler is not made up for.
SelWithoutPrescaler(freq) == SelOf(freq)

SelWritten(freq) == SelOf(freq) + Prescaler(freq)

\* sp5668_set_tv_freq: [sel, pe, div], the fields of the four bytes.
SatTune(p, freq) ==
  /\ demod = "VES1893" /\ pc[p] = Idle /\ calls < MaxCalls /\ calls' = calls + 1
  /\ divider' = IF freq > MaxFrequency THEN divider
                ELSE [freq |-> freq, qam |-> FALSE,
                      buf |-> <<SelWritten(freq), Prescaler(freq), RoundDiv(Intermediate(freq), Ratio(SelOf(freq)))>>]
  /\ UNCHANGED <<demod, nokia, sec, sec_bus_status, pc, lnb, wire, wanted, refused, clash>>

\* sp5659_set_tv_freq: the bytes of the divider and the bits of it in the third byte.
CableTune(p, freq) ==
  /\ demod = "VES1820" /\ pc[p] = Idle /\ calls < MaxCalls /\ calls' = calls + 1
  /\ LET div == RoundDiv(freq + 36125000, 62500)
     IN divider' = [freq |-> freq, qam |-> TRUE, buf |-> <<(div \div 256) % 128, div % 256, (div \div 32768) % 4>>]
  /\ UNCHANGED <<demod, nokia, sec, sec_bus_status, pc, lnb, wire, wanted, refused, clash>>

Next ==
  \E p \in Procs :
    \/ \E to \in {"13", "18", "off", "on", "tone", "high"}, on \in {0, 1} : SecIoctl(p, [to |-> to, on |-> on])
    \/ SetSent(p) \/ DiseqcCmd(p) \/ DiseqcPoll(p)
    \/ \E f \in Frequencies : SatTune(p, f)
    \/ \E f \in Channels : CableTune(p, f)

Spec == Init /\ [][Next]_vars

----------------------------------------------------------------------------

\* Whatever was asked for is supplied once the bus is free again, a refused request with the
\* next one that is sent, though nobody repeats it.
SupplyFollows == sec_bus_status = 0 /\ ~refused => lnb = wanted

\* The supply does not change under a message (dbox2_fp_sec_get_status: -2 for busy).
NoClash == ~clash

\* What the synthesizer makes of the bytes is the frequency, up to half a step of it.
Step(sel, pe) == Ratio(sel) * (IF pe = 1 THEN 2 ELSE 1)
Near(f, g, step) == 2 * (IF f < g THEN g - f ELSE f - g) <= step
Tuned ==
  divider # Unset =>
    IF divider.qam
    THEN Near(divider.freq + 36125000,
              62500 * (divider.buf[3] * 32768 + divider.buf[1] * 256 + divider.buf[2]), 62500)
    ELSE LET step == Step(divider.buf[1], divider.buf[2])
         IN Near(Intermediate(divider.freq), divider.buf[3] * step, step) /\ divider.buf[3] < 131072

Controlled == SupplyFollows /\ NoClash /\ Tuned
=============================================================================
