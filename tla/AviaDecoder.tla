---------------------------- MODULE AviaDecoder ----------------------------
(***************************************************************************)
(* The audio and video decoder: commands (avia_av_core.c), play states of  *)
(* the device files and of the decoder's feeds (avia_av_napi.c), and the   *)
(* watchdog thread.  A command is written into a mailbox that the decoder  *)
(* empties; a process sleeps until it is empty before it writes and after. *)
(* A decoder that does not answer in time is reset by the process that     *)
(* waits.  The decoder is an AViA 600; an AViA 500 is sent more commands   *)
(* for the same changes.                                                   *)
(***************************************************************************)
EXTENDS Integers, FiniteSets

CONSTANTS
  Callers,   \* processes that use the device files, and the demux
  Watchdog,  \* the thread of the watchdog
  APids,     \* pids
  MaxOps     \* bound: operations

VARIABLES
  chip,  \* the decoder: its mailbox, the pid it plays per stream, its stream type, whether it hangs
  play, pid_av, type,  \* play_state_*, pid_*, stream_type_*
  state, have,         \* per stream: the state of the device, have_*
  task,    \* what each process does: [at, cmd, stream, new, op]
  ops,     \* bound
  raced,   \* history: two operations overlapped
  missed   \* history: the last command that set the stream type was not answered

vars == <<chip, play, pid_av, type, state, have, task, ops, raced, missed>>

Streams == {"video", "audio"}
Nothing == 0 - 1     \* the pid 0xFFFF
Processes == Callers \cup {Watchdog}
States == {"stopped", "playing", "paused"}
Types == {"spts", "0", "pes"}   \* the pairs of stream types that callers ask for

NoCmd == [stream |-> "none", pid |-> Nothing, type |-> "none"]
Cmds == [stream : Streams \cup {"none", "both"}, pid : APids \cup {Nothing}, type : Types \cup {"none"}]
Sleeping == [at |-> "idle", cmd |-> NoCmd, stream |-> "none", new |-> "none", op |-> "none"]

TypeOK ==
  /\ chip \in [box : Cmds, sel : [Streams -> APids \cup {Nothing}], type : Types, hangs : BOOLEAN]
  /\ play \in [Streams -> States] /\ state \in [Streams -> States] /\ type \in Types
  /\ pid_av \in [Streams -> APids \cup {Nothing}] /\ have \in [Streams -> BOOLEAN]
  /\ task \in [Processes -> [at : {"idle", "wait", "given"}, cmd : Cmds,
                             stream : Streams \cup {"none"}, new : States \cup {"none"},
                             op : {"none", "ioctl", "type", "start", "stop", "watchdog"}]]

Init ==
  /\ chip = [box |-> NoCmd, sel |-> [s \in Streams |-> Nothing], type |-> "spts", hangs |-> FALSE]
  /\ play = [s \in Streams |-> "stopped"] /\ state = [s \in Streams |-> "stopped"]
  /\ pid_av = [s \in Streams |-> Nothing] /\ have = [s \in Streams |-> FALSE] /\ type = "spts"
  /\ task = [p \in Processes |-> Sleeping]
  /\ ops = 0 /\ raced = FALSE /\ missed = FALSE

Other(s) == CHOOSE t \in Streams : t # s
Select(s, pid) == [stream |-> s, pid |-> pid, type |-> "none"]
SetStreamType(t) == [NoCmd EXCEPT !.type = t]

----------------------------------------------------------------------------
(* Commands.                                                               *)

Idle == \A p \in Processes : task[p].at = "idle"

Waits(s, cmd, new, op) == [at |-> "wait", cmd |-> cmd, stream |-> s, new |-> new, op |-> op]

Begin(p, s, cmd, new, op) ==
  /\ ops < MaxOps /\ ops' = ops + 1
  /\ task' = [task EXCEPT ![p] = Waits(s, cmd, new, op)]
  /\ raced' = (raced \/ ~Idle)

\* STATUS_ADDRESS is set again when the decoder has taken the command.
Empty == chip.box = NoCmd

\* avia_av_cmd, when the decoder is ready.
Give(p) ==
  /\ task[p].at = "wait" /\ Empty /\ ~chip.hangs
  /\ chip' = [chip EXCEPT !.box = task[p].cmd]
  /\ task' = [task EXCEPT ![p].at = "given"]
  /\ UNCHANGED <<play, pid_av, type, state, have, ops, raced, missed>>

\* Audio may be started again while it plays, video not.  Freezing and resuming video leaves its
\* pid selected.
MayPlay(plays, s)  == s = "audio" \/ plays[s] # "playing"
MayPause(s) == play[s] = "playing"
MayStop(s)  == play[s] # "stopped"
PlayCmd(plays, s) == IF s = "video" /\ plays[s] = "paused" THEN Select(s, chip.sel[s]) ELSE Select(s, pid_av[s])

\* The end of a command: the new states are stored, also if the decoder did not answer.  A feed that
\* has set the stream type goes on and plays.
Finish(p, plays, was) ==
  LET t == task[p]
      s == t.stream
      more == t.op = "start" /\ t.cmd.type # "none" /\ state[s] = "playing" /\ MayPlay(plays, s)
  IN  /\ play' = IF t.new = "none" THEN plays ELSE [plays EXCEPT ![s] = t.new]
      /\ type' = IF t.cmd.type = "none" THEN was ELSE t.cmd.type
      /\ state' = IF t.op = "ioctl" THEN [state EXCEPT ![s] = t.new] ELSE state
      /\ have' = IF t.op \in {"start", "stop"} /\ ~more THEN [have EXCEPT ![s] = (t.op = "start")] ELSE have
      /\ task' = [task EXCEPT ![p] = IF more THEN Waits(s, PlayCmd(plays, s), "playing", "start") ELSE Sleeping]

Taken(p) ==
  /\ task[p].at = "given" /\ Empty /\ ~chip.hangs
  /\ Finish(p, play, type)
  /\ missed' = (missed /\ task[p].cmd.type = "none")
  /\ UNCHANGED <<chip, pid_av, ops, raced>>

\* Wrong variant: the stream type is kept over a reset of the decoder.
TypeKept == type

\* What avia_av_init makes of the play states and of the stream type.
ResetStates == [s \in Streams |-> "stopped"]
ResetType == "spts"

\* No answer in time: avia_av_standby(1) and (0) reset the decoder, and the caller goes on.
TimeOut(p) ==
  /\ task[p].at \in {"wait", "given"} /\ chip.hangs
  /\ chip' = [box |-> NoCmd, sel |-> [s \in Streams |-> Nothing], type |-> "spts", hangs |-> FALSE]
  /\ Finish(p, ResetStates, ResetType)
  /\ missed' = (task[p].cmd.type # "none")
  /\ UNCHANGED <<pid_av, ops, raced>>

ChipTakes ==
  /\ chip.box # NoCmd /\ ~chip.hangs
  /\ chip' = [chip EXCEPT !.box = NoCmd,
                          !.sel = [s \in Streams |->
                                     IF chip.box.stream \in {s, "both"} THEN chip.box.pid ELSE @[s]],
                          !.type = IF chip.box.type = "none" THEN @ ELSE chip.box.type]
  /\ UNCHANGED <<play, pid_av, type, state, have, task, ops, raced, missed>>

ChipHangs ==
  /\ ~chip.hangs /\ chip' = [chip EXCEPT !.hangs = TRUE] /\ ~Idle
  /\ UNCHANGED <<play, pid_av, type, state, have, task, ops, raced, missed>>

----------------------------------------------------------------------------
(* Play states of the device files.                                        *)

PauseCmd(s) == IF s = "video" THEN Select(s, chip.sel[s]) ELSE Select(s, Nothing)

\* Wrong variant: nothing is deselected while the other stream plays.
StopCmdLate(s) == IF play[Other(s)] = "stopped" THEN Select("both", Nothing)
                  ELSE Select(Other(s), pid_av[Other(s)])

\* A new channel when the other stream is stopped, too.
StopCmd(s) == IF play[Other(s)] = "stopped" THEN Select("both", Nothing) ELSE Select(s, Nothing)

\* An operation that the play state refuses does nothing, and the caller ignores that.
Operate(p, s, allowed, cmd, new) ==
  /\ task[p].at = "idle"
  /\ IF allowed THEN Begin(p, s, cmd, new, "ioctl") /\ UNCHANGED state
     ELSE state' = [state EXCEPT ![s] = new] /\ UNCHANGED <<task, ops, raced>>
  /\ UNCHANGED <<chip, play, pid_av, type, have, missed>>

\* VIDEO_PLAY, AUDIO_PLAY: the stream starts when it has a feed; without one when that comes.
IoctlPlay(p, s) == Operate(p, s, have[s] /\ MayPlay(play, s), PlayCmd(play, s), "playing")

\* VIDEO_FREEZE, AUDIO_PAUSE, which looks at the state of the device first.
IoctlPause(p, s) == (s = "video" \/ state[s] = "playing") /\ Operate(p, s, MayPause(s), PauseCmd(s), "paused")

\* VIDEO_CONTINUE, AUDIO_CONTINUE.
IoctlContinue(p, s) ==
  (s = "video" \/ state[s] = "paused") /\ Operate(p, s, MayPlay(play, s), PlayCmd(play, s), "playing")

IoctlStop(p, s) == Operate(p, s, MayStop(s), StopCmd(s), "stopped")

\* avia_av_stream_type_set: only while nothing plays, and only another type than the last.
MayType(t) == (\A s \in Streams : play[s] = "stopped") /\ type # t

\* VIDEO_SET_STREAMTYPE, AUDIO_SET_STREAMTYPE: PES for either stream.
IoctlStreamType(p) ==
  /\ task[p].at = "idle" /\ MayType("pes") /\ Begin(p, "none", SetStreamType("pes"), "none", "type")
  /\ UNCHANGED <<chip, play, pid_av, type, state, have, missed>>

\* The demux starts and stops its feeds one at a time, under its mutex.
NoFeedCall == \A p \in Processes : task[p].op \notin {"start", "stop"}

\* avia_av_napi_decoder_start: the pid, the stream type of the feed, and it plays if the device does.
DecoderStart(p, s, n, t) ==
  LET plays == state[s] = "playing" /\ MayPlay(play, s)
      resumed == s = "video" /\ play[s] = "paused"
  IN  /\ task[p].at = "idle" /\ NoFeedCall /\ ~have[s]
      /\ pid_av' = [pid_av EXCEPT ![s] = n]
      /\ \/ MayType(t) /\ Begin(p, s, SetStreamType(t), "none", "start") /\ UNCHANGED have
         \/ ~MayType(t) /\ plays /\ UNCHANGED have
            /\ Begin(p, s, Select(s, IF resumed THEN chip.sel[s] ELSE n), "playing", "start")
         \/ ~MayType(t) /\ ~plays /\ have' = [have EXCEPT ![s] = TRUE] /\ UNCHANGED <<task, ops, raced>>
      /\ UNCHANGED <<chip, play, type, state, missed>>

DecoderStop(p, s) ==
  /\ task[p].at = "idle" /\ NoFeedCall /\ have[s]
  /\ IF MayStop(s) THEN Begin(p, s, StopCmd(s), "stopped", "stop") /\ UNCHANGED have
     ELSE have' = [have EXCEPT ![s] = FALSE] /\ UNCHANGED <<task, ops, raced>>
  /\ UNCHANGED <<chip, play, pid_av, type, state, missed>>

\* avia_av_wdt_thread: a stream that plays but decodes nothing is selected again.
WatchdogFinds(s) ==
  /\ task[Watchdog].at = "idle" /\ play[s] = "playing"
  /\ Begin(Watchdog, s, Select(s, pid_av[s]), "none", "watchdog")
  /\ UNCHANGED <<chip, play, pid_av, type, state, have, missed>>

Next ==
  \/ \E p \in Processes : Give(p) \/ Taken(p) \/ TimeOut(p)
  \/ ChipTakes \/ ChipHangs
  \/ \E p \in Callers : IoctlStreamType(p)
  \/ \E p \in Callers, s \in Streams :
       \/ IoctlPlay(p, s) \/ IoctlPause(p, s) \/ IoctlContinue(p, s) \/ IoctlStop(p, s)
       \/ DecoderStop(p, s)
       \/ \E n \in APids, t \in {"0", "pes"} : DecoderStart(p, s, n, t)
  \/ \E s \in Streams : WatchdogFinds(s)

\* The decoder answers or times out; a process that waits is woken by its timer.
Fairness == /\ WF_vars(ChipTakes)
            /\ \A p \in Processes : SF_vars(Give(p) \/ Taken(p) \/ TimeOut(p))
Spec == Init /\ [][Next]_vars /\ Fairness

----------------------------------------------------------------------------

\* When nothing runs, and operations did not overlap, a stream that is stopped has no pid
\* selected in the decoder, whatever timed out on the way.
SilentWhenStopped ==
  ~raced /\ Idle =>
    \A s \in Streams : play[s] = "stopped" => chip.sel[s] = Nothing

\* The decoder has the stream type that the driver takes it to have, unless the command that set it
\* was not answered: avia_av_stream_type_set stores the type whatever avia_av_cmd returns.
TypeTold == ~raced /\ ~missed /\ Idle => chip.type = type

\* Every operation returns, also when the decoder does not answer.
Returns == \A p \in Processes : task[p].at # "idle" ~> task[p].at = "idle"
=============================================================================
