----------------------------- MODULE MCDataPath -----------------------------
(***************************************************************************)
(* The path of the data, from the demux hardware and the other units of    *)
(* the AViA chips to the programs that read a device, and back, and what   *)
(* goes over the lines of the box: disk, IDE port, i2c bus and display, in *)
(* one run.  The parts meet no variable of each other, so that a behaviour *)
(* of the whole is a behaviour of each: one of them runs, chosen at the    *)
(* start, the others stay as they are.  Each has bounds small enough for   *)
(* its queues to wrap and to overflow.                                     *)
(***************************************************************************)
EXTENDS Integers, Sequences

CONSTANTS b1, b2, d1, d2, d3, f1, f2, h1, h2

VARIABLE part   \* the part that runs

VARIABLES   \* SectionAssembly
  lens, rem, cc, sec, delivered, cut, damaged
VARIABLES   \* PacketFraming
  framing_start, fakes, framing_pos, tsbuf, packets
VARIABLES   \* HwQueue
  queue_mem, wr, wpos, queue_q, queue_bh, sampled, began, next, tight,
  queue_read
VARIABLES   \* HwSections
  hwsections_mem, hw, left, hwsections_sent, hwsections_reg, hwsections_q,
  hwsections_bh, hwsections_got
VARIABLES   \* AviaFeeds
  feed, fe, dmx
VARIABLES   \* SectionFilters
  filters, block
VARIABLES   \* PcrClock
  pcr, stc, clk, reload, away, step
VARIABLES   \* SectionRead
  sections, reading_buffer, error, todo, call, reading_read, torn
VARIABLES   \* DvbNet
  state, priv, want, work, net_lost, whole
VARIABLES   \* Dvb2Eth
  eth_busy, setup, running, eth_hook, index, rd, eth_sent
VARIABLES   \* DvbDevices
  register_lock, device, pending, dvr, frontend, orig_fe, devices_buffer,
  devices_crowded
VARIABLES   \* FrontendHooks
  phase, given, hooks_hook, thread, freq, drift, bending, hooks_lost, adds,
  tunes, taken, hooks_crowded
VARIABLES   \* Events
  files, pic, events_reg, delay, events_count, events_accepted, events_got
VARIABLES   \* GtCore
  module, init_state, core_held, gt_isr_proc_list, unmasked, status, cpu,
  unserved, late
VARIABLES   \* Capture
  capture_busy, frames, input, output, capture_unit, pig_busy, window, file,
  clock, stolen
VARIABLES   \* PcmOutput
  users, free, pcm_busy, queued, data, swab_samples, swab_buffer, format,
  sample_rate, pcm_writer, pcm_unit, written, pcm_calls, pcm_asked, stale,
  pcm_accepted, played, raced, pcm_mixed
VARIABLES   \* Infrared
  ring, rp, wp, rx_unit_busy, reader, got_pulse, seen, came, ir_spoilt,
  pulse_buffer, ir_count, tx_unit_busy, ir_writer, writes, ir_sent, ir_mixed
VARIABLES   \* MmcDisk
  driver, ports, before, saved, actualhard, csd, cardAt, nr_sects, hardsect,
  disk_part, disk_card, disk, disk_spoilt, disk_got, loads
VARIABLES   \* SpiLines
  port, routine, out, spi_held, fresh, spi_at, bit, spi_card, latched,
  received, others, spi_transfers, kept, overtaken
VARIABLES   \* IdeDrive
  loaded, op, ctrl, fifo, drive, memory, ide_asked, ide_start, gaveUp,
  ide_calls
VARIABLES   \* I2cBus
  i2c_mutex, pc, msgs, tx, rx, i2c_at, on, woken, acked, result,
  i2c_transfers, buslist, devicelist, clients, uses, changes
VARIABLES   \* LcdDisplay
  ram, chip, lcd_pos, ascii, row, col, lines, drawn, ops

AssemblyVars == <<lens, rem, cc, sec, delivered, cut, damaged>>
FramingVars == <<framing_start, fakes, framing_pos, tsbuf, packets>>
QueueVars == <<queue_mem, wr, wpos, queue_q, queue_bh, sampled, began, next,
               tight, queue_read>>
HwSecVars == <<hwsections_mem, hw, left, hwsections_sent, hwsections_reg,
               hwsections_q, hwsections_bh, hwsections_got>>
AviaVars == <<feed, fe, dmx>>
UcodeVars == <<filters, block>>
PcrVars == <<pcr, stc, clk, reload, away, step>>
ReadingVars == <<sections, reading_buffer, error, todo, call, reading_read,
                 torn>>
NetVars == <<state, priv, want, work, net_lost, whole>>
EthVars == <<eth_busy, setup, running, eth_hook, index, rd, eth_sent>>
NodesVars == <<register_lock, device, pending, dvr, frontend, orig_fe,
               devices_buffer, devices_crowded>>
TunersVars == <<phase, given, hooks_hook, thread, freq, drift, bending,
                hooks_lost, adds, tunes, taken, hooks_crowded>>
EventVars == <<files, pic, events_reg, delay, events_count, events_accepted,
               events_got>>
CoreVars == <<module, init_state, core_held, gt_isr_proc_list, unmasked,
              status, cpu, unserved, late>>
CapturingVars == <<capture_busy, frames, input, output, capture_unit,
                   pig_busy, window, file, clock, stolen>>
PcmVars == <<users, free, pcm_busy, queued, data, swab_samples, swab_buffer,
             format, sample_rate, pcm_writer, pcm_unit, written, pcm_calls,
             pcm_asked, stale, pcm_accepted, played, raced, pcm_mixed>>
IrVars == <<ring, rp, wp, rx_unit_busy, reader, got_pulse, seen, came,
            ir_spoilt, pulse_buffer, ir_count, tx_unit_busy, ir_writer,
            writes, ir_sent, ir_mixed>>
DiskVars == <<driver, ports, before, saved, actualhard, csd, cardAt,
              nr_sects, hardsect, disk_part, disk_card, disk, disk_spoilt,
              disk_got, loads>>
SpiVars == <<port, routine, out, spi_held, fresh, spi_at, bit, spi_card,
             latched, received, others, spi_transfers, kept, overtaken>>
IdeVars == <<loaded, op, ctrl, fifo, drive, memory, ide_asked, ide_start,
             gaveUp, ide_calls>>
I2cVars == <<i2c_mutex, pc, msgs, tx, rx, i2c_at, on, woken, acked, result,
             i2c_transfers, buslist, devicelist, clients, uses, changes>>
LcdVars == <<ram, chip, lcd_pos, ascii, row, col, lines, drawn, ops>>

NoBit == [mask |-> {}, value |-> {}, neg |-> {}]
Cards == [c_size : {0}, c_size_mult : {0}, read_bl_len : {9, 10}]

Assembly == INSTANCE SectionAssembly WITH
  Payload <- 6, Lengths <- {4, 8}, MaxSec <- 8, MaskMax <- 2, CcMod <- 3,
  Checks <- BOOLEAN, MaxSections <- 4

Framing == INSTANCE PacketFraming WITH
  Size <- 3, Fakes <- {1, 2}, MaxChunk <- 7, MaxPos <- 13,
  start <- framing_start, pos <- framing_pos

Queue == INSTANCE HwQueue WITH
  Size <- 5, Packet <- 2, Slack <- 3, Burst <- 1, MaxPos <- 10,
  mem <- queue_mem, q <- queue_q, bh <- queue_bh, read <- queue_read

HwSec == INSTANCE HwSections WITH
  Size <- 6, Word <- 3, Mask <- 2, Lengths <- {3, 4}, MaxLength <- 4,
  Misread <- {3, 5}, Filters <- {"table", "other"}, MaxSections <- 2,
  mem <- hwsections_mem, sent <- hwsections_sent, reg <- hwsections_reg,
  q <- hwsections_q, bh <- hwsections_bh, got <- hwsections_got

Avia == INSTANCE AviaFeeds WITH
  Feeds <- {d1, d2, d3}, Pids <- {1, 2}, DecoderPids <- {1},
  SectionPids <- {2}, LastUser <- 2, MaxFeed <- 3, Slots <- 3,
  Filters <- {0, 1, 2}, CcErrors <- TRUE

Ucode == INSTANCE SectionFilters WITH
  Bits <- {0}, Bytes <- 3, Version <- 2, MaxFilters <- 2

Pcr == INSTANCE PcrClock WITH
  Wrap <- 32, MaxPcrDiff <- 5, MaxDiff <- 3, ForceDiff <- 1,
  MaxDiffDiff <- 1, Steps <- {2, 3, 6}, MaxGain <- 2

Reading == INSTANCE SectionRead WITH
  Lengths <- {4, 5}, Size <- 10, Counts <- {1, 4, 9}, MaxSections <- 4,
  buffer <- reading_buffer, read <- reading_read

Net == INSTANCE DvbNet WITH
  MulticastMax <- 2, MaxCount <- 3, LateWork <- FALSE, Split <- FALSE,
  lost <- net_lost

Eth == INSTANCE Dvb2Eth WITH
  Size <- 2, Headers <- 3, Ring <- 7, busy <- eth_busy, hook <- eth_hook,
  sent <- eth_sent

Nodes == INSTANCE DvbDevices WITH
  Drivers <- {d1, d2}, Types <- {"ca", "video"}, MaxIds <- 2, Readers <- 1,
  MaxOpen <- 2, buffer <- devices_buffer, crowded <- devices_crowded

Tuners == INSTANCE FrontendHooks WITH
  Frontends <- {f1, f2}, Home <- [f \in {f1, f2} |-> 1], Adapters <- {1, 2},
  Kinds <- {"ioctl", "notifier"}, Hooks <- {h1, h2}, Step <- 2, Zigzag <- 1,
  Cycle <- 4, Frequencies <- {20, 21}, MaxAdds <- 2, MaxChanges <- 3,
  hook <- hooks_hook, lost <- hooks_lost, crowded <- hooks_crowded

Event == INSTANCE Events WITH
  Slots <- {1, 2}, Ring <- 2, Delay <- 2,
  Kinds <- {"VHSIZE", "ARATIO", "VCR"}, Filters <- {{"VCR"}},
  MaxEvents <- 3, reg <- events_reg, count <- events_count,
  accepted <- events_accepted, got <- events_got

Core == INSTANCE GtCore WITH
  Units <- <<"accel", "dmx">>, Irqs <- {1, 2, 3}, Regs <- 2, MaxLoads <- 2,
  held <- core_held

Capturing == INSTANCE Capture WITH
  Files <- {f1, f2}, PigCount <- 2, Sizes <- {2, 4, 8, 16}, Full <- 8,
  MaxFrames <- 2, busy <- capture_busy, unit <- capture_unit

Pcm == INSTANCE PcmOutput WITH
  Writers <- {d1, d2}, Count <- 2, MaxSamples <- 3, Sizes <- {3, 12},
  Speeds <- {48000, 22050, 8000, 11026, 113536},
  Channels <- {0, 1, 257, 258}, MaxBlocks <- 3, busy <- pcm_busy,
  writer <- pcm_writer, unit <- pcm_unit, calls <- pcm_calls,
  asked <- pcm_asked, accepted <- pcm_accepted, mixed <- pcm_mixed

Ir == INSTANCE Infrared WITH
  RxMax <- 3, Writers <- {d1, d2}, Counts <- {1, 2, 3}, MaxPulses <- 4,
  MaxWrites <- 2, spoilt <- ir_spoilt, count <- ir_count,
  writer <- ir_writer, sent <- ir_sent, mixed <- ir_mixed

Disk == INSTANCE MmcDisk WITH
  Csds <- Cards, Lates <- {0, 8}, Parts <- {2}, Sectors <- {1},
  Counts <- {1, 2}, MaxWrites <- 1, MaxLoads <- 2, part <- disk_part,
  card <- disk_card, spoilt <- disk_spoilt, got <- disk_got

Spi == INSTANCE SpiLines WITH
  Width <- 2, MaxTransfers <- 2, MaxOthers <- 1, held <- spi_held,
  at <- spi_at, card <- spi_card, transfers <- spi_transfers

Ide == INSTANCE IdeDrive WITH
  Counts <- {2, 4, 6, 12, 20}, MaxCalls <- 3, asked <- ide_asked,
  start <- ide_start, calls <- ide_calls

I2c == INSTANCE I2cBus WITH
  Procs <- {"p1", "p2"},
  Shapes <- {<<"w">>, <<"r">>, <<"w", "r">>, <<"w", "w">>, <<"w", "r", "w", "r">>},
  Buses <- {b1, b2}, Devices <- {d1, d2}, MaxTransfers <- 2,
  MaxChanges <- 4, at <- i2c_at, transfers <- i2c_transfers

Lcd == INSTANCE LcdDisplay WITH
  Rows <- 2, Cols <- 2, Bits <- {0, 1}, Chars <- {{0}},
  Frames <- {[c \in (0 .. 1) \X (0 .. 1) |-> {1}]}, MaxOps <- 4,
  pos <- lcd_pos

----------------------------------------------------------------------------
Parts == {"assembly", "framing", "queue", "hwsections", "feeds", "ucode",
          "pcr", "reading", "net", "eth", "devices", "hooks", "events",
          "core", "capture", "pcm", "ir", "disk", "spi", "ide", "i2c", "lcd"}

\* One part runs in a behaviour, chosen at the start.
Init ==
  /\ part \in Parts
  /\ Assembly!Init
  /\ part # "assembly" => ~sec.crc
  /\ Framing!Init
  /\ part # "framing" => framing_start = 0 /\ fakes = {}
  /\ Queue!Init
  /\ HwSec!Init
  /\ Avia!Init
  /\ IF part = "ucode" THEN Ucode!Init
     ELSE /\ filters = <<[p \in 1 .. 3 |-> NoBit]>>
          /\ block = Ucode!Empty("none")
  /\ Pcr!Init
  /\ Reading!Init
  /\ Net!Init
  /\ Eth!Init
  /\ Nodes!Init
  /\ Tuners!Init
  /\ Event!Init
  /\ Core!Init
  /\ Capturing!Init
  /\ Pcm!Init
  /\ part # "pcm" => swab_samples
  /\ Ir!Init
  /\ Disk!Init
  /\ part # "disk" => csd.read_bl_len = 9
  /\ part # "disk" \/ csd.read_bl_len # 9 => /\ ports = Disk!Uniform(FALSE, FALSE)
                                             /\ cardAt = Disk!W1
  /\ Spi!Init
  /\ Ide!Init
  /\ I2c!Init
  /\ Lcd!Init

\* The others stay as they are.
Only(x) ==
  /\ part = x /\ UNCHANGED part
  /\ x # "assembly"   => UNCHANGED AssemblyVars
  /\ x # "framing"    => UNCHANGED FramingVars
  /\ x # "queue"      => UNCHANGED QueueVars
  /\ x # "hwsections" => UNCHANGED HwSecVars
  /\ x # "feeds"      => UNCHANGED AviaVars
  /\ x # "ucode"      => UNCHANGED UcodeVars
  /\ x # "pcr"        => UNCHANGED PcrVars
  /\ x # "reading"    => UNCHANGED ReadingVars
  /\ x # "net"        => UNCHANGED NetVars
  /\ x # "eth"        => UNCHANGED EthVars
  /\ x # "devices"    => UNCHANGED NodesVars
  /\ x # "hooks"      => UNCHANGED TunersVars
  /\ x # "events"     => UNCHANGED EventVars
  /\ x # "core"       => UNCHANGED CoreVars
  /\ x # "capture"    => UNCHANGED CapturingVars
  /\ x # "pcm"        => UNCHANGED PcmVars
  /\ x # "ir"         => UNCHANGED IrVars
  /\ x # "disk"       => UNCHANGED DiskVars
  /\ x # "spi"        => UNCHANGED SpiVars
  /\ x # "ide"        => UNCHANGED IdeVars
  /\ x # "i2c"        => UNCHANGED I2cVars
  /\ x # "lcd"        => UNCHANGED LcdVars

Next ==
  \/ Only("assembly")   /\ Assembly!Next
  \/ Only("framing")    /\ Framing!Next
  \/ Only("queue")      /\ Queue!Next
  \/ Only("hwsections") /\ HwSec!Next
  \/ Only("feeds")      /\ Avia!Next
  \/ Only("ucode")      /\ Ucode!Next
  \/ Only("pcr")        /\ Pcr!Next
  \/ Only("reading")    /\ Reading!Next
  \/ Only("net")        /\ Net!Next
  \/ Only("eth")        /\ Eth!Next
  \/ Only("devices")    /\ Nodes!Next
  \/ Only("hooks")      /\ Tuners!Next
  \/ Only("events")     /\ Event!Next
  \/ Only("core")       /\ Core!Next
  \/ Only("capture")    /\ Capturing!Next
  \/ Only("pcm")        /\ Pcm!Next
  \/ Only("ir")         /\ Ir!Next
  \/ Only("disk")       /\ Disk!Next
  \/ Only("spi")        /\ Spi!Next
  \/ Only("ide")        /\ Ide!Next
  \/ Only("i2c")        /\ I2c!Next
  \/ Only("lcd")        /\ Lcd!Next

vars == <<part,
          AssemblyVars, FramingVars, QueueVars, HwSecVars, AviaVars,
          UcodeVars, PcrVars, ReadingVars, NetVars, EthVars, NodesVars,
          TunersVars, EventVars, CoreVars, CapturingVars, PcmVars, IrVars,
          DiskVars, SpiVars, IdeVars, I2cVars, LcdVars>>

\* Every variable of every part has its type.
TypeOK ==
  CASE part = "assembly"   -> Assembly!TypeOK
    [] part = "framing"    -> Framing!TypeOK
    [] part = "queue"      -> Queue!TypeOK
    [] part = "hwsections" -> HwSec!TypeOK
    [] part = "feeds"      -> Avia!TypeOK
    [] part = "ucode"      -> Ucode!TypeOK
    [] part = "pcr"        -> Pcr!TypeOK
    [] part = "reading"    -> Reading!TypeOK
    [] part = "net"        -> Net!TypeOK
    [] part = "eth"        -> Eth!TypeOK
    [] part = "devices"    -> Nodes!TypeOK
    [] part = "hooks"      -> Tuners!TypeOK
    [] part = "events"     -> Event!TypeOK
    [] part = "core"       -> Core!TypeOK
    [] part = "capture"    -> Capturing!TypeOK
    [] part = "pcm"        -> Pcm!TypeOK
    [] part = "ir"         -> Ir!TypeOK
    [] part = "disk"       -> Disk!TypeOK
    [] part = "spi"        -> Spi!TypeOK
    [] part = "ide"        -> Ide!TypeOK
    [] part = "i2c"        -> I2c!TypeOK
    [] part = "lcd"        -> Lcd!TypeOK

Spec == Init /\ [][Next]_vars

\* What goes in comes out: sections, packets, samples, events, pulses and
\* pictures reach the reader whole, in order and once, however the chip, the
\* interrupts and the reader interleave, and what is missing was cut on the way.
DataWhole ==
  CASE part = "assembly"   -> /\ Assembly!DeliversWhole
                              /\ Assembly!LosesOnlyCut
                              /\ Assembly!HoldsPrefix
    [] part = "framing"    -> Framing!FramesAll
    [] part = "queue"      -> Queue!TakesWhole
    [] part = "hwsections" -> HwSec!SectionsWhole
    [] part = "net"        -> Net!WholeDatagrams
    [] part = "eth"        -> Eth!SendsInOrder
    [] part = "reading"    -> Reading!InStep
    [] part = "pcm"        -> /\ Pcm!PlaysInOrder
                              /\ Pcm!TakesWhatIsGiven
                              /\ Pcm!SpeedAsAsked
    [] part = "events"     -> Event!EventsInOrder
    [] part = "ir"         -> Ir!PulsesInOrder /\ Ir!SendsOneWrite
    [] part = "capture"    -> Capturing!PictureLive
    [] OTHER -> TRUE

\* Who asked for something is served: the filters in the microcode pass every
\* wanted section, a decoder stream has its feed, a frontend its hooks and its
\* room, and no interrupt is overlooked.
WantedServed ==
  CASE part = "ucode" -> Ucode!PassesAll
    [] part = "feeds" -> Avia!DecoderFed
    [] part = "hooks" -> Tuners!HooksLive /\ Tuners!TunedApart
    [] part = "core"  -> Core!NoneOverlooked
    [] OTHER -> TRUE

\* What was taken is given back: queues, filters and feeds, interrupts and
\* units, device numbers and open counts, the hook of the Ethernet bridge.
AllGivenBack ==
  CASE part = "feeds"   -> Avia!NothingOrphaned /\ Avia!NoStrayInterrupt
    [] part = "eth"     -> Eth!SendsOnlySetUp
    [] part = "core"    -> Core!HeldInOrder
    [] part = "net"     -> Net!GivesBack
    [] part = "devices" -> Nodes!GivenBack /\ Nodes!IdsUnique
    [] OTHER -> TRUE

\* What is moved arrives: blocks of the disk, bits on its lines beside other
\* users of the ports, words of the IDE port, messages of the i2c bus, and what
\* a driver changed at the ports is as it was when it has gone.
TransfersTrue ==
  CASE part = "disk" -> Disk!ReadsBack /\ Disk!SizeTrue /\ Disk!PortsBack
    [] part = "spi"  -> Spi!LinesRight
    [] part = "ide"  -> Ide!WordsInStep
    [] part = "i2c"  -> I2c!ReportsTrue /\ I2c!UsesBalanced
    [] part = "lcd"  -> Lcd!Displays
    [] OTHER -> TRUE

\* Section assembly and the hardware queues implement a stream that may lose
\* and never reorders or invents.
LossyAtWorst == Assembly!LossyAtWorst /\ Queue!LossyAtWorst

\* The decoder's clock is loaded again whenever the broadcast clock jumps.
ReloadsWhenApart == Pcr!ReloadsWhenApart
=============================================================================
