-------------------------------- MODULE Avs --------------------------------
(***************************************************************************)
(* The audio and video switch: its three chips (cxa2092.c, cxa2126.c,      *)
(* stv6412.c), the mixer and the task that watches the slow blanking pins  *)
(* (avs_core.c).  A call changes the driver's copy of the registers and    *)
(* sends all of them; sending waits for the I2C bus and sleeps on it.      *)
(* Each chip has its own registers for the commands of the ioctl.          *)
(***************************************************************************)
EXTENDS Integers, Sequences

CONSTANTS
  Procs, Commands, Values,  \* processes, the commands they give and what they set
  Percents,        \* volumes that are set with the mixer
  MaxCalls, MaxChanges  \* bounds; calls and changes of the pins, which share no state, are followed apart

VARIABLES
  type,      \* the chip, never changed
  data,      \* the driver's copy: [reg, mute, volume], reg for the registers of the commands
  saved,     \* stv6412's tc_asc and v_asc beside the copy's, or Unmuted
  sends,     \* what a process is sending: [at: "idle", "waiting" or "sending", buf]
  chip,      \* external: the chip's registers
  asked,     \* history: [set, mute, percent], last asked for and accepted, -1 for what another command set
  okLast,    \* the last transfer was acknowledged
  calls,
  pins,      \* external: the slow blanking of [vcr, tv]
  state,     \* reg->state, as pins; or I2cError, the driver's -1
  blind,     \* history: the read at the start failed
  shown,     \* history: what is known from events, at first what the pins had
  changes

registers == <<type, data, saved, sends, chip, asked, okLast, calls>>
events == <<pins, state, blind, shown, changes>>
vars == <<registers, events>>

Connectors == {"vcr", "tv"}
Outputs == {"v_asc", "tc_asc"}
Unmuted == [r \in Outputs |-> -1]  \* 0xff
\* The status -1 of a failed read has all bits set.
Level == {0, 1, 3}
I2cError == [c \in Connectors |-> 3]
Stv == type = "stv6412"

\* The register that a command sets and reads.  The cxa2092's logic outputs are one off (cxa2092.c:411-418,
\* 286-309): the first is out of reach and the fourth command is refused.
Stv6412 ==
  [vsw1 |-> "v_vsc", vsw2 |-> "rgb_vsc", vsw3 |-> "t_vsc", asw1 |-> "v_asc", asw2 |-> "tc_asc", asw3 |-> "tc_asc",
   fblk |-> "fblk", fnc |-> "t_sb", pin8 |-> "t_sb"]
Cxa2092 ==
  [vsw1 |-> "vsw1", vsw2 |-> "vsw2", vsw3 |-> "vsw3", asw1 |-> "asw1", asw2 |-> "asw2", asw3 |-> "asw3",
   fblk |-> "fblk", fnc |-> "fnc", pin8 |-> "fnc", ycm |-> "ycm", zcd |-> "zcd",
   log1 |-> "log2", log2 |-> "log3", log3 |-> "log4"]
Cxa2126 ==
  [vsw1 |-> "vsw1", vsw2 |-> "vsw2", asw1 |-> "asw1", asw2 |-> "asw2", fblk |-> "fblk", fnc |-> "fnc", pin8 |-> "fnc",
   zcd |-> "zcd", log1 |-> "log"]
Table == CASE Stv -> Stv6412 [] type = "cxa2092" -> Cxa2092 [] type = "cxa2126" -> Cxa2126
Given == Commands \cap DOMAIN Table
Registers == {Table[cmd] : cmd \in DOMAIN Table}

\* The largest value of a register.
LargestStv(r) == CASE r \in {"v_vsc", "t_vsc", "tc_asc"} -> 4 [] r = "rgb_vsc" -> 2 [] OTHER -> 3
LargestCxa(cmd) ==
  CASE cmd \in {"vsw1", "vsw2", "vsw3", "asw1", "asw2", "asw3"} -> 7 [] cmd \in {"fblk", "fnc", "pin8"} -> 3 [] OTHER -> 1

\* stv6412_command turns the voltage of pin 8 into the register's value and back.
Pin8 == <<0, 2, 3>>
FromPin8(v) == CASE v \in {0, 1} -> 0 [] v = 2 -> 1 [] v = 3 -> 2
Written(cmd, v) == IF Stv /\ cmd = "pin8" THEN Pin8[v + 1] ELSE v
Accepts(cmd, v) ==
  IF Stv THEN v <= LargestStv(Table[cmd]) /\ (Table[cmd] \in Outputs => v # 0) /\ (cmd = "pin8" => v <= 2)
  ELSE v <= LargestCxa(cmd)

\* What a command reads: of the stv6412's outputs that are off, what they will be.
Get(cmd) ==
  LET r == Table[cmd]
  IN IF Stv /\ r \in Outputs /\ saved[r] # -1 THEN saved[r]
     ELSE IF Stv /\ cmd = "pin8" THEN FromPin8(data.reg[r]) ELSE data.reg[r]
GetMute == IF Stv THEN saved # Unmuted ELSE data.mute

TypeOK ==
  /\ type \in {"cxa2092", "cxa2126", "stv6412"} /\ saved \in [Outputs -> -1..4] /\ okLast \in BOOLEAN
  /\ data.volume \in 0..63 /\ data.mute \in BOOLEAN /\ data.reg \in [Registers -> 0..7]
  /\ \A p, q \in Procs : sends[p].at = "sending" /\ sends[q].at = "sending" => p = q
  /\ state \in [Connectors -> Level] /\ shown \in [Connectors -> Level]

----------------------------------------------------------------------------

\* stv6412_init, cxa2092_init and cxa2126_init; the first send is taken as acknowledged.
StartStv(r) == IF r = "t_sb" THEN 3 ELSE 1
Start2092(r) == CASE r = "vsw1" -> 5 [] r = "vsw2" -> 1 [] r = "fnc" -> 2 [] OTHER -> 0
Start2126(r) == IF r = "fnc" THEN 2 ELSE 0
Start ==
  [reg |-> [r \in Registers |-> CASE Stv -> StartStv(r) [] type = "cxa2092" -> Start2092(r) [] OTHER -> Start2126(r)],
   mute |-> FALSE, volume |-> 0]

Init ==
  /\ type \in {"cxa2092", "cxa2126", "stv6412"}
  /\ data = Start /\ saved = Unmuted /\ chip = data /\ okLast = TRUE /\ calls = 0
  /\ sends = [p \in Procs |-> [at |-> "idle", buf |-> data]]
  /\ asked = [set |-> [cmd \in Given |-> Get(cmd)], mute |-> FALSE, percent |-> 100]
  /\ pins = [c \in Connectors |-> 0] /\ state \in {pins, I2cError}
  /\ blind = (state # pins) /\ shown = pins /\ changes = 0

\* The call that changes the copy; *_set copies it for the stv6412 and hands over the copy itself otherwise.
Call(p) ==
  /\ sends[p].at = "idle" /\ calls < MaxCalls /\ changes = 0 /\ calls' = calls + 1
  /\ sends' = [sends EXCEPT ![p] = [at |-> "waiting", buf |-> data']]
  /\ UNCHANGED <<type, chip, okLast, events>>

\* Wrong variant: the source is set although the sound is off.
AswPlain(r, v) == data' = [data EXCEPT !.reg[r] = v] /\ UNCHANGED saved

\* The stv6412 keeps a source that is set while the sound is off until it is on.
Asw(r, v) ==
  IF saved[r] = -1 THEN data' = [data EXCEPT !.reg[r] = v] /\ UNCHANGED saved
  ELSE saved' = [saved EXCEPT ![r] = v] /\ UNCHANGED data

\* *_set_vsw, set_asw, set_fblk, set_fnc, set_zcd, set_ycm, set_logic and set_t_sb.
SetRegister(p, cmd, v) ==
  /\ Accepts(cmd, v)
  /\ IF Stv /\ Table[cmd] \in Outputs THEN Asw(Table[cmd], v)
     ELSE data' = [data EXCEPT !.reg[Table[cmd]] = Written(cmd, v)] /\ UNCHANGED saved
  /\ asked' = [asked EXCEPT !.set =
       [c \in Given |-> IF c = cmd THEN v ELSE IF Table[c] = Table[cmd] THEN -1 ELSE asked.set[c]]]
  /\ Call(p)

Mute ==
  IF ~Stv THEN data' = [data EXCEPT !.mute = TRUE] /\ UNCHANGED saved
  ELSE IF saved # Unmuted THEN UNCHANGED <<data, saved>>
  ELSE /\ saved' = [r \in Outputs |-> data.reg[r]]
       /\ data' = [data EXCEPT !.reg = [r \in Registers |-> IF r \in Outputs THEN 0 ELSE @[r]]]

Unmute ==
  IF ~Stv THEN data' = [data EXCEPT !.mute = FALSE] /\ UNCHANGED saved
  ELSE IF saved = Unmuted THEN UNCHANGED <<data, saved>>
  ELSE /\ data' = [data EXCEPT !.reg = [r \in Registers |-> IF r \in Outputs THEN saved[r] ELSE @[r]]]
       /\ saved' = Unmuted

SetMute(p, on) ==
  /\ IF on THEN Mute ELSE Unmute
  /\ asked' = [asked EXCEPT !.mute = on] /\ Call(p)

\* mixer_ioctl and *_set_volume: 0 is loudest; the stv6412 has half the steps.  What is read back.
Level63(percent) == 63 - (63 * percent) \div 100
Percent(l) == ((63 - l) * 100) \div 63
VolumeRead == IF Stv THEN data.volume * 2 ELSE data.volume

SetVolume(p, percent) ==
  /\ data' = [data EXCEPT !.volume = IF Stv THEN Level63(percent) \div 2 ELSE Level63(percent)]
  /\ asked' = [asked EXCEPT !.percent = percent] /\ UNCHANGED saved /\ Call(p)

\* Wrong variant: the cxa chips are sent what the copy was when the process began to wait.
SentThen(p) == sends[p].buf

\* What goes out when the bus is free.
Sent(p) == IF Stv THEN sends[p].buf ELSE data

BusTaken(p) ==
  /\ sends[p].at = "waiting" /\ \A q \in Procs : sends[q].at # "sending"
  /\ sends' = [sends EXCEPT ![p] = [at |-> "sending", buf |-> Sent(p)]]
  /\ UNCHANGED <<type, data, saved, chip, asked, okLast, calls, events>>

SendEnds(p, ok) ==
  /\ sends[p].at = "sending" /\ sends' = [sends EXCEPT ![p].at = "idle"]
  /\ chip' = IF ok THEN sends[p].buf ELSE chip
  /\ okLast' = ok /\ UNCHANGED <<type, data, saved, asked, calls, events>>

----------------------------------------------------------------------------

PinsChange(c, level) ==
  /\ calls = 0 /\ changes < MaxChanges /\ changes' = changes + 1 /\ level # pins[c]
  /\ pins' = [pins EXCEPT ![c] = level]
  /\ UNCHANGED <<registers, state, blind, shown>>

\* Wrong variant: the -1 of a failed read is taken for a state.
PollTrusts(ok) == state' = IF ok THEN pins ELSE I2cError

Poll(ok) == state' = IF ok THEN pins ELSE state

\* avs_event_task writes an event for each connector whose bits differ.
EventTask(ok) ==
  /\ calls = 0 /\ Poll(ok)
  /\ shown' = [c \in Connectors |-> IF ok /\ pins[c] # state[c] THEN pins[c] ELSE shown[c]]
  /\ UNCHANGED <<registers, pins, blind, changes>>

Next ==
  \/ \E p \in Procs :
       \/ \E cmd \in Given, v \in Values : SetRegister(p, cmd, v)
       \/ \E on \in BOOLEAN : SetMute(p, on)
       \/ \E percent \in Percents : SetVolume(p, percent)
       \/ BusTaken(p) \/ \E ok \in BOOLEAN : SendEnds(p, ok)
  \/ \E c \in Connectors, level \in Level : PinsChange(c, level)
  \/ \E ok \in BOOLEAN : EventTask(ok)

Spec == Init /\ [][Next]_vars

----------------------------------------------------------------------------

Quiet == \A p \in Procs : sends[p].at = "idle"

\* While the sound is off the chip's outputs are off, whatever sources are set meanwhile; and what each
\* command set last is what it reads, and what is on when the sound is on again.
MuteHolds ==
  /\ GetMute = asked.mute
  /\ Stv /\ asked.mute => \A r \in Outputs : data.reg[r] = 0
  /\ Stv /\ ~asked.mute => saved = Unmuted
  /\ \A cmd \in Given : asked.set[cmd] # -1 => Get(cmd) = asked.set[cmd]

\* Once nobody sends and the last transfer was acknowledged the chip has the driver's registers.  The
\* stv6412's need not, as two processes may send their copies in the other order.
ChipFollows == ~Stv /\ Quiet /\ okLast => chip = data

\* The mixer reads back what was set, as near as the chip's steps are.
MixerNear ==
  LET off == Percent(VolumeRead) - asked.percent
  IN IF Stv THEN off \in -1..4 ELSE off \in -1..1

\* A change of the pins that is seen is told; one that is there when the first read fails may not be.
EventsFollow == ~blind => shown = state

Follows == MuteHolds /\ ChipFollows /\ MixerNear /\ EventsFollow
=============================================================================
