------------------------------ MODULE IrKeys ------------------------------
(***************************************************************************)
(* The infrared keyboard, from key codes to input events                   *)
(* (avia_gt_ir_samsung.c): the queue between interrupt and tasklet, the    *)
(* tasklet, and the timer that stands in for a break code that was lost.   *)
(* A key is <<Fn, code>>; what the mouse moves is left out.                *)
(***************************************************************************)
EXTENDS Integers, Sequences, FiniteSets

CONSTANTS
  Codes,      \* codes of keys
  FnCodes,    \* codes that are keys together with Fn
  Modifiers, Buttons,
  MaxRecv,    \* MAX_RECV
  MaxCodes    \* bound: codes that arrive

VARIABLES
  received,          \* from read_ptr to write_ptr
  pressed,           \* keys the input device has reported as pressed
  timer,             \* key_timeout: [pending, data]
  old_status,        \* [mods, fn]: modifiers and Fn of the last code
  mods, buttons,     \* modifiers and buttons reported as pressed
  old_mouse_status,  \* buttons of the last mouse code
  codes,             \* bound
  foreign            \* history: a break code ended the timer of another key

vars == <<received, pressed, timer, old_status, mods, buttons, old_mouse_status, codes, foreign>>

Keys == BOOLEAN \X Codes
KeyCodes == [kind : {"key"}, mods : SUBSET Modifiers, fn : BOOLEAN, break : BOOLEAN, code : Codes]
MouseCodes == [kind : {"mouse"}, buttons : SUBSET Buttons]

TypeOK ==
  /\ received \in Seq(KeyCodes \cup MouseCodes) /\ Len(received) < MaxRecv
  /\ pressed \subseteq Keys /\ timer \in [pending : BOOLEAN, data : Keys]
  /\ mods = old_status.mods /\ buttons = old_mouse_status

NoKey == <<FALSE, CHOOSE c \in Codes : TRUE>>

Init ==
  /\ received = <<>> /\ pressed = {} /\ timer = [pending |-> FALSE, data |-> NoKey]
  /\ old_status = [mods |-> {}, fn |-> FALSE] /\ mods = {} /\ buttons = {} /\ old_mouse_status = {}
  /\ codes = 0 /\ foreign = FALSE

----------------------------------------------------------------------------

\* write_to_queue: a code that finds the queue full is lost.  One that is lost in the air never comes.
Arrive(c) ==
  /\ codes < MaxCodes /\ codes' = codes + 1
  /\ received' = IF Len(received) + 1 = MaxRecv THEN received ELSE Append(received, c)
  /\ UNCHANGED <<pressed, timer, old_status, mods, buttons, old_mouse_status, foreign>>

\* Wrong variant: the timer goes on with the key it was started for.
PressKeeps(k) ==
  /\ pressed' = pressed \cup {k}
  /\ timer' = IF timer.pending THEN timer ELSE [pending |-> TRUE, data |-> k]
  /\ UNCHANGED foreign

\* do_input_report_key.  Every press starts the timer anew; there is one for all keys.
Press(k) ==
  /\ pressed' = (IF timer.pending /\ k # timer.data THEN pressed \ {timer.data} ELSE pressed)
                \cup (IF timer.pending /\ k = timer.data THEN {} ELSE {k})
  /\ timer' = [pending |-> TRUE, data |-> k]
  /\ UNCHANGED foreign

Break(k) ==
  /\ pressed' = pressed \ {k}
  /\ timer' = [timer EXCEPT !.pending = FALSE]
  /\ foreign' = (foreign \/ (timer.pending /\ timer.data # k))

\* What changed since the last code is reported: the difference of the two statuses.
Toggled(reported, old, new) ==
  {m \in reported \cup old \cup new : IF (m \in old) # (m \in new) THEN m \in new ELSE m \in reported}

TaskMouse(c) ==
  /\ buttons' = Toggled(buttons, old_mouse_status, c.buttons)
  /\ old_mouse_status' = c.buttons
  /\ UNCHANGED <<pressed, timer, old_status, mods, foreign>>

IsKey(c) == c.fn => c.code \in FnCodes

TaskKey(c) ==
  /\ mods' = Toggled(mods, old_status.mods, c.mods)
  /\ old_status' = [mods |-> c.mods, fn |-> c.fn]
  /\ IF ~IsKey(c) THEN UNCHANGED <<pressed, timer, foreign>>
     ELSE IF c.break THEN Break(<<c.fn, c.code>>) ELSE Press(<<c.fn, c.code>>)
  /\ UNCHANGED <<buttons, old_mouse_status>>

\* samsung_task: one round of the loop, as interrupts come between the rounds.
SamsungTask ==
  /\ received # <<>> /\ received' = Tail(received)
  /\ IF Head(received).kind = "mouse" THEN TaskMouse(Head(received)) ELSE TaskKey(Head(received))
  /\ UNCHANGED codes

BreakMissed ==
  /\ timer.pending /\ timer' = [timer EXCEPT !.pending = FALSE]
  /\ pressed' = pressed \ {timer.data}
  /\ UNCHANGED <<received, old_status, mods, buttons, old_mouse_status, codes, foreign>>

Next == (\E c \in KeyCodes \cup MouseCodes : Arrive(c)) \/ SamsungTask \/ BreakMissed

Spec == Init /\ [][Next]_vars

----------------------------------------------------------------------------

\* A key that is reported as pressed is the one the timer will release, so that none sticks
\* when its break code is lost; a break code of another key takes the timer away.
NoneSticks == ~foreign => pressed = IF timer.pending THEN {timer.data} ELSE {}
=============================================================================
