---------------------------- MODULE VideoEncoder ----------------------------
(***************************************************************************)
(* The video encoder (saa7126_core.c).  A call is a list of register       *)
(* transfers over I2C, written from the driver's copies of 2Dh, 3Ah and    *)
(* 61h or after a read.  No lock is held: a call sleeps in every transfer, *)
(* with the message already made (Hand), and other calls run meanwhile.    *)
(* Registers no call reads or keeps are left out of the tables.            *)
(***************************************************************************)
EXTENDS Integers, Sequences, TLC, Functions, Bitwise

CONSTANTS
  Procs,      \* the drivers and programs that make calls
  Board,      \* "nokia", "philips" or "sagem"
  mode, ntsc, \* the parameters of the module
  Modes,      \* modes that are asked for, also such that do not exist
  Wss, Csync, \* settings that are asked for, also too large ones
  MaxCalls    \* bound: calls

VARIABLES
  enc,      \* struct saa7126, and whether the client and its device node are there
  ids,      \* saa7126_id
  chip,     \* external: the registers
  call,     \* the transfers each process has left
  hand,     \* its message, the registers it writes, once that is made
  local,    \* the register a process has read
  asked,    \* history: the settings asked for last
  clash,    \* history: registers that two calls used at the same time
  raw,      \* history: registers written past the driver's copies, and "mode" when one was refused
  calls

vars == <<enc, ids, chip, call, hand, local, asked, clash, raw, calls>>

Registers == {"r26", "r27", "r2d", "r3a", "r54", "r61", "r6f", "r75"}
Norms == {"pal", "ntsc"}
WssOff == 8   \* SAA_WSS_OFF
WssData == <<8, 1, 2, 11, 4, 13, 14, 7>>

\* REG_2D_RGB ...; YUV bypasses the matrix in 3Ah.
ModeReg == [rgb |-> 15, fbas |-> 158, svideo |-> 191, yuv_v |-> 207, yuv_c |-> 143]
MatrixOf(m) == IF m \in {"yuv_v", "yuv_c"} THEN 11 ELSE 3

\* saa7126_inittab_pal, saa7126_inittab_ntsc: the entries of this board, one message each.
InitTab(norm) ==
  <<[r26 |-> 0, r27 |-> 0, r2d |-> 15],
    [r3a |-> 3],
    [r54 |-> IF Board = "nokia" \/ (Board = "philips" /\ norm = "ntsc") THEN 3 ELSE 0],
    [r61 |-> (IF norm = "pal" THEN 6 ELSE 5) + (IF Board = "philips" THEN 16 ELSE 0),
     r6f |-> 49, r75 |-> 0]>>

\* What the tables ask for: teletext, and nothing else.
Defaults == [wss |-> WssOff, ttx |-> TRUE, vps |-> FALSE, csync |-> 0]

Away == [attached |-> FALSE, node |-> FALSE, standby |-> FALSE, enable |-> FALSE,
         reg_2d |-> 0, reg_3a |-> 0, reg_61 |-> 0, norm |-> "pal"]
None == <<>>

TypeOK ==
  /\ enc \in [attached : BOOLEAN, node : BOOLEAN, standby : BOOLEAN, enable : BOOLEAN,
              reg_2d : 0 .. 255, reg_3a : 0 .. 255, reg_61 : 0 .. 255, norm : Norms]
  /\ chip \in [Registers -> 0 .. 255] /\ local \in [Procs -> 0 .. 255]
  /\ clash \subseteq Registers /\ raw \subseteq Registers \cup {"mode"} /\ ids \in 0 .. MaxCalls + 1

\* saa7126_set_mode.  The copy of 3Ah is reset before the mode is looked at; the register
\* loses its sync bit with the next write.
InMode(e, m) ==
  IF m \in DOMAIN ModeReg THEN [e EXCEPT !.reg_2d = ModeReg[m], !.reg_3a = MatrixOf(m)]
  ELSE [e EXCEPT !.reg_3a = 3]

\* The driver not loaded; or an encoder found, and left alone since.
Norm == IF ntsc THEN "ntsc" ELSE "pal"
Found ==
  InMode([Away EXCEPT !.attached = TRUE, !.node = TRUE, !.enable = TRUE, !.norm = Norm,
                      !.reg_2d = 15, !.reg_61 = InitTab(Norm)[4].r61], mode)

Init ==
  /\ \/ enc = Away /\ ids = 0 /\ chip = [r \in Registers |-> 0]
     \/ LET tab == InitTab(Norm) IN
        /\ enc = Found /\ ids = 1
        /\ chip = [r2d |-> enc.reg_2d, r3a |-> enc.reg_3a] @@ tab[1] @@ tab[3] @@ tab[4]
  /\ call = [p \in Procs |-> <<>>] /\ hand = [p \in Procs |-> None] /\ local = [p \in Procs |-> 0]
  /\ asked = Defaults /\ clash = {} /\ raw = {} /\ calls = 0

----------------------------------------------------------------------------
(* Transfers: a message of fixed bytes, of a copy, of the register that    *)
(* was read; a read; and assignments between them.                         *)

Message(op, to) == [op |-> op, reg |-> "", keep |-> 0, set |-> 0, to |-> to]
Masked(op, reg, keep, set) == [op |-> op, reg |-> reg, keep |-> keep, set |-> set, to |-> <<>>]
Write(reg, v) == Message("write", reg :> v)
Raw(reg, v)   == Message("raw", reg :> v)
Copy(reg)     == Masked("copy", reg, 255, 0)
Modify(reg, keep, set) == <<Masked("read", reg, 0, 0), Masked("change", reg, keep, set)>>
Assign(field, v) == Masked(field, "", 0, v)

\* saa7126_write_inittab; the first time the copies are taken from the table.
WriteInittab(norm, first) ==
  [i \in 1 .. 4 |-> Message(IF first THEN "first" ELSE "write", InitTab(norm)[i])]
  \o <<Assign("standby", FALSE), Copy("r2d"), Copy("r3a"), Masked("read", "r61", 0, 0), Assign("reg_61", 0)>>

ModeTransfers(m) == IF m \in DOMAIN ModeReg THEN <<Copy("r2d"), Copy("r3a")>> ELSE <<>>

StandbyTransfers(enable) ==
  IF enable THEN <<Masked("copy", "r2d", 240, 0), Masked("copy", "r61", 255, 192), Assign("standby", TRUE)>>
  ELSE <<Copy("r2d"), Copy("r61"), Assign("standby", FALSE)>>

Quiet == \A p \in Procs : call[p] = <<>>
\* The kernel is not preempted: a call runs on until its next message is handed over.
Asleep == \A p \in Procs : call[p] # <<>> => hand[p] # None
\* The registers a call has still to do with.
Uses(transfers) ==
  UNION {CASE t.op = "mode" -> {"r2d", "r3a"}
           [] t.op \in {"standby", "reg_61", "gone"} -> {"r2d", "r61"}
           [] OTHER -> DOMAIN t.to \cup ({t.reg} \ {""}) : t \in Range(transfers)}

BeginUsing(p, transfers, regs) ==
  /\ Asleep /\ call[p] = <<>> /\ calls < MaxCalls /\ calls' = calls + 1
  /\ call' = [call EXCEPT ![p] = transfers]
  /\ clash' = clash \cup UNION {regs \cap Uses(call[q]) : q \in Procs}
  /\ UNCHANGED <<chip, hand, local>>

Begin(p, transfers) == BeginUsing(p, transfers, Uses(transfers))

----------------------------------------------------------------------------
(* The calls.                                                              *)

\* saa7126_detect_client.  The device node is there before the tables are written.
Detect(p) ==
  /\ ~enc.attached /\ Begin(p, WriteInittab(Norm, TRUE) \o <<Assign("mode", mode)>>)
  /\ enc' = [Away EXCEPT !.attached = TRUE, !.node = TRUE, !.enable = TRUE, !.norm = Norm]
  /\ ids' = ids + 1 /\ asked' = Defaults /\ raw' = {}

\* No node, or the bus refuses the client: the number is not given back.
DetectFails(p) ==
  /\ ~enc.attached /\ Begin(p, <<>>) /\ ids' = ids + 1
  /\ UNCHANGED <<enc, asked, raw>>

\* saa7126_detach, when nobody uses the device.
Detach(p) ==
  /\ enc.node /\ Quiet
  /\ enc' = [enc EXCEPT !.node = FALSE] /\ ids' = ids - 1
  /\ Begin(p, (IF enc.standby THEN <<>> ELSE StandbyTransfers(TRUE)) \o <<Assign("gone", 0)>>)
  /\ UNCHANGED <<asked, raw>>

Ioctl == enc.node /\ ~enc.standby

SetMode(p, m) ==
  /\ Ioctl /\ BeginUsing(p, ModeTransfers(m), {"r2d", "r3a"}) /\ enc' = InMode(enc, m)
  /\ IF m \in DOMAIN ModeReg
       THEN asked' = [asked EXCEPT !.csync = 0] /\ raw' = raw \ {"mode"}
       ELSE raw' = raw \cup {"r3a", "mode"} /\ UNCHANGED asked
  /\ UNCHANGED ids

\* saa7126_set_norm; by another driver also in standby, and with 2Dh and 3Ah once more.
SetNorm(p, n) ==
  /\ \/ Ioctl /\ Begin(p, WriteInittab(n, FALSE))
     \/ enc.node /\ Begin(p, WriteInittab(n, FALSE) \o <<Copy("r2d"), Copy("r3a")>>)
  /\ enc' = [enc EXCEPT !.norm = n] /\ asked' = Defaults
  /\ UNCHANGED <<ids, raw>>

\* saa7126_set_standby, refused when it is so already.
SetStandby(p, enable) ==
  /\ enc.node /\ enable # enc.standby
  /\ Begin(p, StandbyTransfers(enable))
  /\ UNCHANGED <<enc, ids, asked, raw>>

\* A setting: refused values change nothing, whatever was read before.
Setting(p, transfers, new) ==
  /\ Ioctl /\ Begin(p, transfers) /\ asked' = new
  /\ UNCHANGED <<enc, ids, raw>>

\* saa7126_wss_set
SetWss(p, i) ==
  IF i = WssOff THEN Setting(p, <<Write("r27", 0)>>, [asked EXCEPT !.wss = i])
  ELSE IF i > 7 THEN Setting(p, <<>>, asked)
  ELSE Setting(p, <<Write("r26", WssData[i + 1]), Write("r27", 128)>>, [asked EXCEPT !.wss = i])

\* saa7126_csync_set
SetCsync(p, val) ==
  IF val >= 32 THEN Setting(p, <<>>, asked)
  ELSE Setting(p, Modify("r75", 7, val * 8) \o Modify("r3a", 251, IF val = 0 THEN 0 ELSE 4),
               [asked EXCEPT !.csync = val])

\* saa7126_ttx_set
SetTtx(p, enable) ==
  Setting(p, Modify("r6f", 223, IF enable THEN 32 ELSE 0), [asked EXCEPT !.ttx = enable])

\* saa7126_vps_set_data: the data goes to the register its first byte names, which is none of these.
SetVps(p, buf) ==
  CASE buf[1] = 1 ->
         Setting(p, <<Masked("read", "r54", 0, 0), Message("write", <<>>), Masked("change", "r54", 255, 128)>>,
                 [asked EXCEPT !.vps = TRUE])
    [] buf[1] # 1 /\ buf[2] = 0 -> Setting(p, Modify("r54", 127, 0), [asked EXCEPT !.vps = FALSE])
    [] OTHER -> Setting(p, <<Masked("read", "r54", 0, 0)>>, asked)

\* SAAIOSINP, SAAIOSOUT and SAA_WRITEREG write a register and leave its copy.
WriteRaw(p, reg, v) ==
  /\ Ioctl /\ Begin(p, <<Raw(reg, IF reg = "r3a" THEN v & 159 ELSE v)>>)
  /\ UNCHANGED <<enc, ids, asked, raw>>

\* saa7126_command, but for the norm: the test picture, and a flag nobody looks at.
SetInput(p, arg) ==
  /\ enc.node
  /\ Begin(p, IF arg \in {0, 1} THEN <<Raw("r3a", IF arg = 0 THEN 2 ELSE 128)>> ELSE <<>>)
  /\ UNCHANGED <<enc, ids, asked, raw>>

EnableOutput(p, arg) ==
  /\ enc.node /\ enc' = [enc EXCEPT !.enable = arg] /\ Begin(p, <<>>)
  /\ UNCHANGED <<ids, asked, raw>>

----------------------------------------------------------------------------
(* Steps of a call.                                                        *)

Copies == [r2d |-> enc.reg_2d, r3a |-> enc.reg_3a, r61 |-> enc.reg_61]
Now(p) == Head(call[p])
IsTransfer(t) == t.op \in {"write", "first", "raw", "copy", "read", "change"}

\* The message is made and handed to the bus.
Hand(p) ==
  /\ call[p] # <<>> /\ hand[p] = None /\ IsTransfer(Now(p))
  /\ LET t == Now(p) IN
     hand' = [hand EXCEPT ![p] =
       CASE t.op = "copy"   -> <<t.reg :> ((Copies[t.reg] & t.keep) | t.set)>>
         [] t.op = "change" -> <<t.reg :> ((local[p] & t.keep) | t.set)>>
         [] OTHER -> <<t.to>>]
  /\ UNCHANGED <<enc, ids, chip, call, local, asked, clash, raw, calls>>

\* It is transferred.  (Failing transfers are left out.)
Transfer(p) ==
  LET t == Now(p) IN
  /\ Asleep /\ hand[p] # None
  /\ chip' = hand[p][1] @@ chip
  /\ local' = [local EXCEPT ![p] = IF t.op = "read" THEN chip[t.reg] ELSE 0]
  /\ enc' = IF t.op # "first" THEN enc
            ELSE IF "r2d" \in DOMAIN t.to THEN [enc EXCEPT !.reg_2d = t.to.r2d]
            ELSE IF "r3a" \in DOMAIN t.to THEN [enc EXCEPT !.reg_3a = t.to.r3a] ELSE enc
  /\ raw' = CASE t.op = "raw" -> raw \cup DOMAIN hand[p][1]
              [] t.op = "change" -> raw
              [] OTHER -> raw \ DOMAIN hand[p][1]
  /\ hand' = [hand EXCEPT ![p] = None] /\ call' = [call EXCEPT ![p] = Tail(@)]
  /\ UNCHANGED <<ids, asked, clash, calls>>

\* The assignments behind it.  A client the bus does not let go stays, without its node.
Assigns(p) ==
  /\ call[p] # <<>> /\ hand[p] = None /\ ~IsTransfer(Now(p))
  /\ LET t == Now(p) IN
     /\ CASE t.op = "standby" -> enc' = [enc EXCEPT !.standby = t.set]
          [] t.op = "reg_61"  -> enc' = [enc EXCEPT !.reg_61 = local[p]]
          [] t.op = "mode"    -> enc' = InMode(enc, t.set)
          [] t.op = "gone"    -> enc' \in {enc, Away}
     /\ call' = [call EXCEPT ![p] = IF t.op = "mode" THEN ModeTransfers(t.set) ELSE Tail(@)]
     /\ local' = [local EXCEPT ![p] = 0]
  /\ UNCHANGED <<ids, chip, hand, asked, clash, raw, calls>>

\* saa7126_command; it refuses another norm, input or output.
Command(p) ==
  \/ \E n \in Norms : SetNorm(p, n)
  \/ \E arg \in 0 .. 2 : SetInput(p, arg)
  \/ \E on \in BOOLEAN : EnableOutput(p, on)

Next ==
  \E p \in Procs :
    \/ Detect(p) \/ DetectFails(p) \/ Detach(p)
    \/ \E m \in Modes : SetMode(p, m)
    \/ Command(p)
    \/ \E on \in BOOLEAN : SetStandby(p, on) \/ SetTtx(p, on)
    \/ \E i \in Wss : SetWss(p, i)
    \/ \E val \in Csync : SetCsync(p, val)
    \/ \E buf \in {<<1, 0>>, <<0, 0>>, <<0, 1>>} : SetVps(p, buf)
    \/ \E reg \in {"r2d", "r3a", "r61"} : WriteRaw(p, reg, 255)
    \/ Hand(p) \/ Transfer(p) \/ Assigns(p)

Spec == Init /\ [][Next]_vars

----------------------------------------------------------------------------
(* What the calls that only read return.                                   *)

GetMode == IF \E m \in DOMAIN ModeReg : ModeReg[m] = enc.reg_2d
           THEN CHOOSE m \in DOMAIN ModeReg : ModeReg[m] = enc.reg_2d ELSE "bad"

WssGet == IF chip.r27 & 128 # 0 /\ \E i \in 0 .. 7 : WssData[i + 1] = chip.r26 & 15
          THEN CHOOSE i \in 0 .. 7 : WssData[i + 1] = chip.r26 & 15 ELSE WssOff

\* saa7126_csync_get: the low bits are to go (& ~0x07), but all others are set: only 0 is told apart.
CsyncGet == IF chip.r3a & 4 # 0 THEN 255 ELSE 0
TtxGet == chip.r6f & 32 # 0
VpsGet == chip.r54 & 128 # 0

\* The registers a call has used alone, and nobody wrote past the driver.
Sound(regs) == regs \cap (clash \cup raw) = {}

\* When no call is under way the registers are as the driver's copies say: outputs low
\* and the picture off in standby, the mode and the norm asked for otherwise.
OutputsFollow ==
  Quiet /\ enc.attached =>
    /\ Sound({"r2d", "r61"}) => chip.r2d = enc.reg_2d & (IF enc.standby THEN 240 ELSE 255)
    /\ Sound({"r2d", "r61"}) => chip.r61 = enc.reg_61 | (IF enc.standby THEN 192 ELSE 0)
    /\ Sound({"r61"}) => enc.reg_61 = InitTab(enc.norm)[4].r61
    /\ Sound({"r3a"}) => chip.r3a & 251 = enc.reg_3a
    /\ Sound({"r3a", "mode"}) => enc.reg_3a = MatrixOf(GetMode)

\* The settings asked for since the norm was set are in force and are read back, also when
\* calls overlapped that use other registers, and whatever mode and standby did between.
SettingsKept ==
  Quiet /\ enc.attached =>
    /\ Sound({"r26", "r27"}) => WssGet = asked.wss
    /\ Sound({"r6f"}) => TtxGet = asked.ttx
    /\ Sound({"r54"}) => VpsGet = asked.vps
    /\ Sound({"r3a", "r75"}) => (CsyncGet # 0) = (asked.csync # 0)
    /\ Sound({"r75"}) /\ asked.csync # 0 => chip.r75 \div 8 = asked.csync

OutputsTrue == OutputsFollow /\ SettingsKept
=============================================================================
