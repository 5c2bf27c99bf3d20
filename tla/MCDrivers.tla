----------------------------- MODULE MCDrivers ------------------------------
(***************************************************************************)
(* The drivers of the box's other devices, the units that show, draw and   *)
(* listen, and the chips that answer when they like: the decoder, the      *)
(* queue that feeds it and the conditional access module.  One part runs   *)
(* in a behaviour (see MCDataPath).  The parts with several kinds of       *)
(* hardware start with each; who waits for a chip comes back by the        *)
(* fairness of the steps of its own part.                                  *)
(***************************************************************************)
EXTENDS Integers, Sequences

CONSTANTS c1, k1, k2, p1, p2, w, shift, lmb

VARIABLE part   \* the part that runs

VARIABLES   \* FpInput
  philips_rc_patch, waiting, irq, input_task, status, again, queue_list,
  input_pressed, fups, keyup, old_rc_code, fn_pressed, mouse_directions,
  input_pos, run, down, sources, input_codes
VARIABLES   \* FpControl
  demod, nokia, fp_sec, sec_bus_status, pc, lnb, wire, divider, wanted,
  refused, fp_clash, fp_calls
VARIABLES   \* Avs
  avs_type, data, saved, sends, avs_chip, avs_asked, okLast, avs_calls,
  pins, avs_state, blind, avs_shown, avs_changes
VARIABLES   \* VideoEncoder
  enc, ids, encoder_chip, call, hand, local, encoder_asked, encoder_clash,
  raw, encoder_calls
VARIABLES   \* FrontendChips
  kind, drv, chips_chip, signal, chips_line, chips_masked, queued,
  chips_task, chips_asked, chips_sec, lost, chips_changes
VARIABLES   \* Clock
  clock_chip, proc, should, clock_told, clock_timer, boot, clock_asked,
  clock_calls
VARIABLES   \* VideoEvents
  picture, video, getter, written, pictures_shown, pictures_told
VARIABLES   \* FrameBuffer
  fb_chip, par, input_mode, input_width, unit, clut, text, fb_asked
VARIABLES   \* Accel
  accel_job, crc, accel_asked, pixels, copy, old
VARIABLES   \* IrFrame
  air, frame, lbuf, rec_time, decoded, clock, clean
VARIABLES   \* IrKeys
  received, irkeys_pressed, irkeys_timer, old_status, mods, buttons,
  old_mouse_status, irkeys_codes, foreign
VARIABLES   \* AviaDecoder
  decoder_chip, play, pid_av, decoder_type, decoder_state, have,
  decoder_task, ops, raced, missed
VARIABLES   \* Playback
  ring, rpos, wreg, wpos, playback_job, playback_pos, playback_sent, played
VARIABLES   \* CamMessages
  cam_chip, cam_line, cam_masked, cam_task, busy, sender, queue, wptr, rptr,
  past, answers, stored, cam_sent, got

InputVars == <<philips_rc_patch, waiting, irq, input_task, status, again,
               queue_list, input_pressed, fups, keyup, old_rc_code,
               fn_pressed, mouse_directions, input_pos, run, down, sources,
               input_codes>>
FpVars == <<demod, nokia, fp_sec, sec_bus_status, pc, lnb, wire, divider,
            wanted, refused, fp_clash, fp_calls>>
SwitchVars == <<avs_type, data, saved, sends, avs_chip, avs_asked, okLast,
                avs_calls, pins, avs_state, blind, avs_shown, avs_changes>>
EncoderVars == <<enc, ids, encoder_chip, call, hand, local, encoder_asked,
                 encoder_clash, raw, encoder_calls>>
ChipsVars == <<kind, drv, chips_chip, signal, chips_line, chips_masked,
               queued, chips_task, chips_asked, chips_sec, lost,
               chips_changes>>
RtClockVars == <<clock_chip, proc, should, clock_told, clock_timer, boot,
                 clock_asked, clock_calls>>
PicturesVars == <<picture, video, getter, written, pictures_shown,
                  pictures_told>>
FbVars == <<fb_chip, par, input_mode, input_width, unit, clut, text,
            fb_asked>>
BlitterVars == <<accel_job, crc, accel_asked, pixels, copy, old>>
IrBitsVars == <<air, frame, lbuf, rec_time, decoded, clock, clean>>
IrKeyVars == <<received, irkeys_pressed, irkeys_timer, old_status, mods,
               buttons, old_mouse_status, irkeys_codes, foreign>>
DecoderVars == <<decoder_chip, play, pid_av, decoder_type, decoder_state,
                 have, decoder_task, ops, raced, missed>>
PlayVars == <<ring, rpos, wreg, wpos, playback_job, playback_pos,
              playback_sent, played>>
CamVars == <<cam_chip, cam_line, cam_masked, cam_task, busy, sender, queue,
             wptr, rptr, past, answers, stored, cam_sent, got>>

ChipKinds ==
  {"tda8044h", "tda80xx", "tda8083", "ves1820", "ves1x93", "ves1893", "ves1993", "at76c651", "stv0297", "sqc6100"}

\* What is asked of the tuners: for every frequency and every rate at which
\* something changes, and for every setting, one call.
Ask(f, rate, inv, fec, qam) == [f |-> f, rate |-> rate, inv |-> inv, fec |-> fec, qam |-> qam]
Satellite == {
  Ask(950000, 1000000, "auto", "auto", "qpsk"),  Ask(1200001, 3000001, "on", "3/4", "qpsk"),
  Ask(2150000, 22000000, "off", "none", "qpsk"), Ask(2300137, 27500000, "on", "bad", "qpsk"),
  Ask(2700000, 9749999, "auto", "3/4", "qpsk"),  Ask(2700125, 19500000, "off", "auto", "qpsk"),
  Ask(500000, 45000000, "on", "3/4", "qpsk"),    Ask(950062, 4500000, "off", "3/4", "qpsk")}
Cable == {
  Ask(48250, 870000, "on", "auto", "64"),    Ask(121900, 6900000, "off", "auto", "256"),
  Ask(460000, 8700000, "auto", "auto", "32"), Ask(862000, 9360001, "on", "auto", "16"),
  Ask(862001, 6900000, "off", "auto", "128"), Ask(300000, 6900000, "off", "auto", "auto")}
Terrestrial == {
  Ask(177500, 7000000, "off", "3/4", "64"), Ask(474000, 8000000, "auto", "2/3", "16"),
  Ask(862000, 8000000, "off", "7/8", "qpsk"), Ask(400000, 8000000, "off", "3/4", "64")}
Tunings == [k \in ChipKinds |->
  IF k = "sqc6100" THEN Terrestrial ELSE IF k \in {"ves1820", "at76c651", "stv0297"} THEN Cable ELSE Satellite]

Date(y, m, d, h, i, s) ==
  [tm_year |-> y, tm_mon |-> m, tm_mday |-> d,
   tm_hour |-> h, tm_min |-> i, tm_sec |-> s, tm_wday |-> 6]


Times == {Date(70, 1, 29, 23, 58, 59), Date(100, 1, 29, 0, 58, 58),
          Date(169, 11, 31, 12, 30, 30)}

Input == INSTANCE FpInput WITH
  RcKeys <- {k1, k2}, Codes <- {k1}, Cleared <- {k1}, Directions <- {1, 3},
  MaxCodes <- 2, task <- input_task, pressed <- input_pressed,
  pos <- input_pos, codes <- input_codes

Fp == INSTANCE FpControl WITH
  Procs <- {p1, p2}, Busy <- {0, 1, 4},
  Frequencies <- {30000, 500000, 1520499, 1520500, 1568438, 3815467, 3815468},
  Channels <- {50500000, 113000000, 858000000}, MaxCalls <- 3,
  sec <- fp_sec, clash <- fp_clash, calls <- fp_calls

Switch == INSTANCE Avs WITH
  Procs <- {p1, p2},
  Commands <- {"vsw2", "asw1", "asw2", "asw3", "pin8", "fnc", "log2"},
  Values <- {0, 2}, Percents <- {0, 50}, MaxCalls <- 2, MaxChanges <- 2,
  type <- avs_type, chip <- avs_chip, asked <- avs_asked,
  calls <- avs_calls, state <- avs_state, shown <- avs_shown,
  changes <- avs_changes

Encoder == INSTANCE VideoEncoder WITH
  Procs <- {p1, p2}, Board <- "philips", mode <- "yuv_v", ntsc <- FALSE,
  Modes <- {"yuv_v", "bad"}, Wss <- {7, 9}, Csync <- {31, 32},
  MaxCalls <- 2, chip <- encoder_chip, asked <- encoder_asked,
  clash <- encoder_clash, calls <- encoder_calls

Chips == INSTANCE FrontendChips WITH
  Kinds <- ChipKinds, Tunings <- Tunings, Codes <- {k1, k2},
  Levels <- {0, 3, 5}, MaxChanges <- 3, chip <- chips_chip,
  line <- chips_line, masked <- chips_masked, task <- chips_task,
  asked <- chips_asked, sec <- chips_sec, changes <- chips_changes

RtClock == INSTANCE Clock WITH
  Procs <- {p1, p2}, Times <- Times, Minutes <- {0, 300}, MaxCalls <- 2,
  chip <- clock_chip, told <- clock_told, timer <- clock_timer,
  asked <- clock_asked, calls <- clock_calls

Pictures == INSTANCE VideoEvents WITH
  Pictures <- {1, 2}, VRing <- 3, MaxVideoEvents <- 6,
  shown <- pictures_shown, told <- pictures_told

Fb == INSTANCE FrameBuffer WITH
  Widths <- {500, 720}, Heights <- {576}, Depths <- {4, 8, 16, 32},
  Alphas <- {0, 40000}, Levels <- {0, 2048, 65535}, Offsets <- {0, 3},
  chip <- fb_chip, asked <- fb_asked

Blitter == INSTANCE Accel WITH
  Addresses <- {8, 9}, Lengths <- {5, 6, 8, 13}, MaxGtx <- 4, Stride <- 6,
  Lines <- 3, Areas <- {0, 1, 3}, job <- accel_job, asked <- accel_asked

IrBits == INSTANCE IrFrame WITH
  Digits <- 3, MaxPulses <- 5, Jitter <- {-1, 0}, NoiseOns <- {2, 12, 16},
  NoisePauses <- {3, 5, 20, 50, 60}, MaxFrames <- 3

IrKey == INSTANCE IrKeys WITH
  Codes <- {k1, k2}, FnCodes <- {k1}, Modifiers <- {shift},
  Buttons <- {lmb}, MaxRecv <- 3, MaxCodes <- 3, pressed <- irkeys_pressed,
  timer <- irkeys_timer, codes <- irkeys_codes

Decoder == INSTANCE AviaDecoder WITH
  Callers <- {c1}, Watchdog <- w, APids <- {1}, MaxOps <- 3,
  chip <- decoder_chip, type <- decoder_type, state <- decoder_state,
  task <- decoder_task

Play == INSTANCE Playback WITH
  RingSize <- 6, Word <- 2, Counts <- {2, 3, 11}, MaxBytes <- 14,
  job <- playback_job, pos <- playback_pos, sent <- playback_sent

Cam == INSTANCE CamMessages WITH
  Senders <- {c1}, Size <- 6, Lengths <- {2, 4}, Counts <- {1, 8},
  MaxMessages <- 2, chip <- cam_chip, line <- cam_line,
  masked <- cam_masked, task <- cam_task, sent <- cam_sent

----------------------------------------------------------------------------
Parts == {"input", "fp", "avs", "encoder", "chips", "clock", "pictures",
          "fb", "accel", "irframe", "irkeys", "decoder", "playback", "cam"}

\* One part runs in a behaviour, chosen at the start.
Init ==
  /\ part \in Parts
  /\ Input!Init
  /\ part # "input" => ~philips_rc_patch
  /\ Fp!Init
  /\ part # "fp" => demod = "VES1820" /\ ~nokia
  /\ Switch!Init
  /\ part # "avs" => avs_type = "cxa2092" /\ ~blind
  /\ Encoder!Init
  /\ part # "encoder" => ids = 0
  /\ Chips!Init
  /\ part # "chips" => kind = "tda8083"
  /\ RtClock!Init
  /\ part # "clock" => clock_chip.sec = 0 /\ ~clock_timer.rang
  /\ Pictures!Init
  /\ Fb!Init
  /\ part # "fb" => fb_chip = "ENX"
  /\ Blitter!Init
  /\ IrBits!Init
  /\ IrKey!Init
  /\ Decoder!Init
  /\ Play!Init
  /\ Cam!Init

\* The others stay as they are.
Only(x) ==
  /\ part = x /\ UNCHANGED part
  /\ x # "input"    => UNCHANGED InputVars
  /\ x # "fp"       => UNCHANGED FpVars
  /\ x # "avs"      => UNCHANGED SwitchVars
  /\ x # "encoder"  => UNCHANGED EncoderVars
  /\ x # "chips"    => UNCHANGED ChipsVars
  /\ x # "clock"    => UNCHANGED RtClockVars
  /\ x # "pictures" => UNCHANGED PicturesVars
  /\ x # "fb"       => UNCHANGED FbVars
  /\ x # "accel"    => UNCHANGED BlitterVars
  /\ x # "irframe"  => UNCHANGED IrBitsVars
  /\ x # "irkeys"   => UNCHANGED IrKeyVars
  /\ x # "decoder"  => UNCHANGED DecoderVars
  /\ x # "playback" => UNCHANGED PlayVars
  /\ x # "cam"      => UNCHANGED CamVars

Next ==
  \/ Only("input")    /\ Input!Next
  \/ Only("fp")       /\ Fp!Next
  \/ Only("avs")      /\ Switch!Next
  \/ Only("encoder")  /\ Encoder!Next
  \/ Only("chips")    /\ Chips!Next
  \/ Only("clock")    /\ RtClock!Next
  \/ Only("pictures") /\ Pictures!Next
  \/ Only("fb")       /\ Fb!Next
  \/ Only("accel")    /\ Blitter!Next
  \/ Only("irframe")  /\ IrBits!Next
  \/ Only("irkeys")   /\ IrKey!Next
  \/ Only("decoder")  /\ Decoder!Next
  \/ Only("playback") /\ Play!Next
  \/ Only("cam")      /\ Cam!Next

vars == <<part,
          InputVars, FpVars, SwitchVars, EncoderVars, ChipsVars,
          RtClockVars, PicturesVars, FbVars, BlitterVars, IrBitsVars,
          IrKeyVars, DecoderVars, PlayVars, CamVars>>

\* Every variable of every part has its type.
TypeOK ==
  CASE part = "input"    -> Input!TypeOK
    [] part = "fp"       -> Fp!TypeOK
    [] part = "avs"      -> Switch!TypeOK
    [] part = "encoder"  -> Encoder!TypeOK
    [] part = "chips"    -> Chips!TypeOK
    [] part = "clock"    -> RtClock!TypeOK
    [] part = "pictures" -> Pictures!TypeOK
    [] part = "fb"       -> Fb!TypeOK
    [] part = "accel"    -> Blitter!TypeOK
    [] part = "irframe"  -> IrBits!TypeOK
    [] part = "irkeys"   -> IrKey!TypeOK
    [] part = "decoder"  -> Decoder!TypeOK
    [] part = "playback" -> Play!TypeOK
    [] part = "cam"      -> Cam!TypeOK

\* The fairness of the parts.  Only one part runs, so that a conjunct here is a
\* conjunct of the fairness of each: what comes by itself, what comes if no
\* signal or time-out is first, and what gets its turn in the end.
Fairness ==
  /\ WF_vars(\/ Only("playback") /\ Play!DecoderReads
             \/ Only("decoder")  /\ Decoder!ChipTakes
             \/ Only("cam")      /\ \/ Cam!RecvLength \/ Cam!RecvBody \/ Cam!RecvAgain
                                    \/ Cam!Store \/ Cam!StorePast \/ Cam!Request
                                    \/ Cam!AnswerSent \/ Cam!TaskEnds)
  /\ WF_vars(\/ Only("playback") /\ (Play!ReadLow \/ Play!ReadHigh \/ Play!Check \/ Play!Put)
             \/ Only("cam")      /\ Cam!SendEnds(c1))
  /\ SF_vars(\/ Only("decoder")  /\ (Decoder!Give(c1) \/ Decoder!Taken(c1) \/ Decoder!TimeOut(c1))
             \/ Only("cam")      /\ Cam!TaskDown)
  /\ SF_vars(\/ Only("decoder")  /\ (Decoder!Give(w) \/ Decoder!Taken(w) \/ Decoder!TimeOut(w))
             \/ Only("cam")      /\ Cam!AnswerDown)

Spec == Init /\ [][Next]_vars /\ Fairness

\* The hardware does what it was last told and programs are told what it does,
\* over refused, interrupted and overlapping calls.
DevicesFollow ==
  CASE part = "input"    -> Input!KeysFollow
    [] part = "fp"       -> Fp!Controlled
    [] part = "avs"      -> Switch!Follows
    [] part = "encoder"  -> Encoder!OutputsTrue
    [] part = "chips"    -> Chips!Follows
    [] part = "clock"    -> RtClock!ClockTrue
    [] part = "irframe"  -> IrBits!DecodesFrames
    [] part = "irkeys"   -> IrKey!NoneSticks
    [] part = "pictures" -> Pictures!SkipsAreTold
    [] part = "fb"       -> Fb!LinesAgree /\ Fb!ColorsReadBack
    [] part = "accel"    -> Blitter!SumsAll /\ Blitter!CopiesArea
    [] OTHER -> TRUE

\* What the chips were told holds: a stopped decoder is silent, all bytes written
\* are played once and in order, a message of the module is stored whole, and
\* one process at a time speaks to it.
AnswersKept ==
  CASE part = "decoder"  -> Decoder!SilentWhenStopped /\ Decoder!TypeTold
    [] part = "playback" -> Play!PlaysAll
    [] part = "cam"      -> Cam!StoresWhole /\ Cam!Exclusive
    [] OTHER -> TRUE

\* The messages of the module reach the reader as a stream that may lose.
LossyAtWorst == Cam!LossyAtWorst

\* A process that waits for a chip: a command of the decoder, a write to its
\* queue, the interrupt of the module that is masked until its task has run.
Waits(p) ==
  CASE part = "decoder"  -> decoder_task[p].at # "idle"
    [] part = "playback" -> p = c1 /\ playback_job.at # "idle"
    [] part = "cam"      -> p = c1 /\ cam_masked
    [] OTHER -> FALSE

\* Everyone who waits for a chip comes back: Returns, WriteEnds and Unmasks of
\* the parts.
WaitsEnd == \A p \in {c1, w} : Waits(p) ~> ~Waits(p)
=============================================================================
