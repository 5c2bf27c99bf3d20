------------------------------ MODULE FpInput ------------------------------
(***************************************************************************)
(* The front processor's input (src/fp): its interrupt, the task that      *)
(* reads its queues, and the handlers of remote controls, keyboard, mouse  *)
(* and buttons, which report to one input device.  The firmware is         *)
(* external: it keeps a code in its queue until the handler reads it.      *)
(***************************************************************************)
EXTENDS Integers, Sequences, SequencesExt

CONSTANTS
  RcKeys,     \* keys of the remote controls; the buttons on the box are among them
  Codes,      \* keys of the keyboard, each with a meaning of its own together with Fn
  Cleared,    \* codes 95 to 99
  Directions, \* directions of the mouse that occur, of 0..15
  MaxCodes    \* bound: codes that arrive

VARIABLES
  philips_rc_patch,
  waiting,    \* external: codes the firmware holds, [q, ...]
  irq, task,  \* interrupt enabled; fp_tasklet: "idle", "queued" or "running"
  status,     \* the queues of the status that was read which the round has yet to visit
  again,      \* the status asks for another round
  queue_list, \* queues with a handler
  pressed,    \* keys the input device has reported as pressed
  fups,       \* last_key and toggle_bits of the old and the new remote control
  keyup,      \* keyup_timer: [pending, data]
  old_rc_code, fn_pressed, mouse_directions,
  pos, run,   \* history: where the mouse is, and [dir, n, from] of the codes of one direction
  down,       \* history: keyboard codes whose last event was a press
  sources,    \* history: queues whose codes were taken
  codes

device == <<pressed, fups, keyup, old_rc_code, fn_pressed, mouse_directions, pos, run, down>>
vars == <<philips_rc_patch, waiting, irq, task, status, again, queue_list, device, sources, codes>>

None == <<"none">>
Rc(k) == <<"rc", k>>
Kb(fn, c) == <<"kb", fn, c>>
Keys == {Rc(k) : k \in RcKeys} \cup {Kb(fn, c) : fn \in BOOLEAN, c \in Codes}
Queues == 0..5  \* 5: scart status, which nobody handles

Rcs == {"break"} \cup RcKeys
CodesOf(q) ==
  CASE q = 0 -> [q : {0}, key : Rcs]
    [] q = 1 -> [q : {1}, code : Codes \cup {"Fn"}, up : BOOLEAN]
    [] q = 2 -> [q : {2}, dir : Directions]
    [] q = 3 -> [q : {3}, key : RcKeys, toggle : {0, 1}]
    [] q = 4 -> [q : {4}, key : RcKeys, down : BOOLEAN]
    [] q = 5 -> [q : {5}]

TypeOK ==
  /\ irq \in BOOLEAN /\ task \in {"idle", "queued", "running"} /\ irq = (task = "idle")
  /\ status \subseteq Queues /\ again \in BOOLEAN /\ pressed \subseteq Keys
  /\ queue_list \in {{}, 0..4}
  /\ fups \in [{"old", "new"} -> [last : Keys \cup {None}, toggle : {0, 1, 255}]]
  /\ keyup \in [pending : BOOLEAN, data : {"old", "new"}]
  /\ mouse_directions \in {0} \cup {d \in Directions : d % 2 = 1}

Init ==
  /\ philips_rc_patch \in BOOLEAN
  /\ waiting = <<>> /\ irq = TRUE /\ task = "idle" /\ status = {} /\ again = FALSE
  /\ queue_list = 0..4 /\ pressed = {}
  /\ fups = [s \in {"old", "new"} |-> [last |-> None, toggle |-> 255]]
  /\ keyup = [pending |-> FALSE, data |-> "old"] /\ old_rc_code = None
  /\ fn_pressed = FALSE /\ mouse_directions = 0
  /\ pos = <<0, 0>> /\ run = [dir |-> 16, n |-> 0, from |-> <<0, 0>>]
  /\ down = {} /\ sources = {} /\ codes = 0

----------------------------------------------------------------------------

\* The old remote control: a break code, or another key, releases the last one.
OldRc(c) ==
  LET last == fups["old"].last
      isBreak == c.key = "break" \/ (last # None /\ last # Rc(c.key))
  IN /\ pressed' = (IF isBreak THEN pressed \ {last} ELSE pressed)
                   \cup (IF c.key = "break" THEN {} ELSE {Rc(c.key)})
     /\ fups' = [fups EXCEPT !["old"].last = IF c.key = "break" THEN None ELSE Rc(c.key)]
     /\ keyup' = IF c.key = "break" THEN [keyup EXCEPT !.pending = FALSE] ELSE [pending |-> TRUE, data |-> "old"]
     /\ UNCHANGED <<old_rc_code, fn_pressed, mouse_directions, pos, run, down>>

\* Wrong variant: the other key is pressed without releasing the last one.
NewRcKeeps(c) ==
  /\ pressed' = pressed \cup {Rc(c.key)}
  /\ fups' = [fups EXCEPT !["new"] = [last |-> Rc(c.key), toggle |-> c.toggle]]
  /\ keyup' = [pending |-> TRUE, data |-> "new"]
  /\ UNCHANGED <<old_rc_code, fn_pressed, mouse_directions, pos, run, down>>

\* The new one has no break code: another key or toggle bit, or the timer, releases the last one.
NewRc(c) ==
  IF philips_rc_patch /\ old_rc_code # Rc(c.key)
  THEN /\ old_rc_code' = Rc(c.key)
       /\ UNCHANGED <<pressed, fups, keyup, fn_pressed, mouse_directions, pos, run, down>>
  ELSE LET f == fups["new"]
           ends == keyup.pending /\ f.last # None /\ (f.last # Rc(c.key) \/ f.toggle # c.toggle)
       IN /\ pressed' = (IF ends /\ f.toggle # 255 THEN pressed \ {f.last} ELSE pressed)
                        \cup (IF ~ends /\ f.toggle = c.toggle THEN {} ELSE {Rc(c.key)})
          /\ fups' = [fups EXCEPT !["new"] = [last |-> Rc(c.key), toggle |-> c.toggle]]
          /\ keyup' = [pending |-> TRUE, data |-> "new"]
          /\ UNCHANGED <<old_rc_code, fn_pressed, mouse_directions, pos, run, down>>

\* dbox2_fp_rc_keyup, a timer that interrupts the task between two handlers.
Keyup ==
  LET f == fups[keyup.data]
  IN /\ keyup.pending /\ keyup' = [keyup EXCEPT !.pending = FALSE]
     /\ IF f.last \in pressed
        THEN /\ pressed' = pressed \ {f.last}
             /\ fups' = [fups EXCEPT ![keyup.data] = [last |-> None, toggle |-> 255]]
        ELSE UNCHANGED <<pressed, fups>>
     /\ UNCHANGED <<philips_rc_patch, waiting, irq, task, status, again, queue_list, old_rc_code, fn_pressed,
                    mouse_directions, pos, run, down, sources, codes>>

\* The Fn key is remembered; the release of a key does not tell whether Fn was pressed with it.
Keyboard(c) ==
  /\ IF c.code = "Fn" THEN fn_pressed' = ~c.up /\ UNCHANGED <<pressed, down>>
     ELSE /\ pressed' = IF ~c.up THEN pressed \cup {Kb(fn_pressed, c.code)}
                        ELSE pressed \ ({Kb(fn_pressed, c.code)} \cup
                                        {Kb(TRUE, k) : k \in {c.code} \cap Cleared})
          /\ down' = IF c.up THEN down \ {c.code} ELSE down \cup {c.code}
          /\ UNCHANGED fn_pressed
  /\ UNCHANGED <<fups, keyup, old_rc_code, mouse_directions, pos, run>>

\* The sixteen directions, counted from right over up; the odd ones move along their smaller part
\* on every second code only.  Acceleration is left out.
Main(d) == CASE d \in {0, 1, 15} -> <<1, 0>> [] d \in {3, 4, 5} -> <<0, -1>>
             [] d \in {7, 8, 9} -> <<-1, 0>> [] d \in {11, 12, 13} -> <<0, 1>>
             [] d = 2 -> <<1, -1>> [] d = 6 -> <<-1, -1>> [] d = 10 -> <<-1, 1>> [] d = 14 -> <<1, 1>>
Minor(d) == CASE d \in {1, 7} -> <<0, -1>> [] d \in {9, 15} -> <<0, 1>>
              [] d \in {3, 13} -> <<1, 0>> [] d \in {5, 11} -> <<-1, 0>>
              [] OTHER -> <<0, 0>>
Plus(a, b) == <<a[1] + b[1], a[2] + b[2]>>
Times(n, a) == <<n * a[1], n * a[2]>>

Mouse(c) ==
  LET second == mouse_directions = c.dir /\ c.dir % 2 = 1
  IN /\ pos' = Plus(pos, IF second THEN Plus(Main(c.dir), Minor(c.dir)) ELSE Main(c.dir))
     /\ mouse_directions' = IF c.dir % 2 = 0 \/ second THEN 0 ELSE c.dir
     /\ run' = IF run.dir = c.dir THEN [run EXCEPT !.n = @ + 1]
               ELSE [dir |-> c.dir, n |-> 1, from |-> pos]
     /\ UNCHANGED <<pressed, fups, keyup, old_rc_code, fn_pressed, down>>

\* The mapping from bits to keys differs between two revisions of the board and is left out.
Button(c) ==
  /\ pressed' = IF c.down THEN pressed \cup {Rc(c.key)} ELSE pressed \ {Rc(c.key)}
  /\ UNCHANGED <<fups, keyup, old_rc_code, fn_pressed, mouse_directions, pos, run, down>>

Handle(c) ==
  CASE c.q = 0 -> OldRc(c) [] c.q = 1 -> Keyboard(c) [] c.q = 2 -> Mouse(c)
    [] c.q = 3 -> NewRc(c) [] c.q = 4 -> Button(c)

----------------------------------------------------------------------------

Arrive(c) ==
  /\ codes < MaxCodes /\ codes' = codes + 1
  /\ waiting' = Append(waiting, c)
  /\ UNCHANGED <<philips_rc_patch, irq, task, status, again, queue_list, device, sources>>

\* The line is a level; the interrupt stays disabled until the task has emptied the queues.
Interrupt ==
  /\ irq /\ waiting # <<>> /\ irq' = FALSE /\ task' = "queued"
  /\ UNCHANGED <<philips_rc_patch, waiting, status, again, queue_list, device, sources, codes>>

Pending == {waiting[i].q : i \in DOMAIN waiting}

\* fp_check_queues reads the status; a source without a queue of codes is acknowledged by that.
ReadStatus ==
  /\ task = "queued" \/ (task = "running" /\ status = {} /\ again)
  /\ task' = "running" /\ status' = Pending \ {5} /\ again' = (Pending \ {5} # {})
  /\ waiting' = SelectSeq(waiting, LAMBDA c : c.q # 5)
  /\ UNCHANGED <<philips_rc_patch, irq, queue_list, device, sources, codes>>

CallQueue ==
  /\ task = "running" /\ status # {}
  /\ LET q == CHOOSE q \in status : \A r \in status : q <= r
         i == SelectInSeq(waiting, LAMBDA c : c.q = q)
     IN /\ status' = status \ {q}
        /\ IF q \in queue_list
           THEN Handle(waiting[i]) /\ waiting' = RemoveAt(waiting, i) /\ sources' = sources \cup {q}
           ELSE UNCHANGED <<waiting, device, sources>>
  /\ UNCHANGED <<philips_rc_patch, irq, task, again, queue_list, codes>>

TaskEnds ==
  /\ task = "running" /\ status = {} /\ ~again
  /\ task' = "idle" /\ irq' = TRUE
  /\ UNCHANGED <<philips_rc_patch, waiting, status, again, queue_list, device, sources, codes>>

\* The input module goes (dbox2_fp_input_exit).  A code for it then keeps the task from ending.
InputExit ==
  /\ queue_list # {} /\ task # "running" /\ ~keyup.pending /\ queue_list' = {}
  /\ UNCHANGED <<philips_rc_patch, waiting, irq, task, status, again, device, sources, codes>>

Next ==
  \/ \E q \in Queues : \E c \in CodesOf(q) : Arrive(c)
  \/ Interrupt \/ ReadStatus \/ CallQueue \/ TaskEnds \/ Keyup \/ InputExit

Spec == Init /\ [][Next]_vars

----------------------------------------------------------------------------

\* With one remote control in use, a pressed key is the one that the pending timer releases
\* (the two share one timer, and the buttons some of the keys).
RcReleased ==
  sources \cap {0, 3, 4} \in {{0}, {3}} =>
    {k \in pressed : k[1] = "rc"} = IF keyup.pending THEN {fups[keyup.data].last} ELSE {}

\* A key pressed together with Fn is released with the key, Fn being up by then or not.
FnReleased == \A c \in Cleared : Kb(TRUE, c) \in pressed => c \in down

\* Codes of one direction move the mouse along it, the smaller part of it on half of them.
MouseStraight ==
  run.n > 0 => pos = Plus(run.from, Plus(Times(run.n, Main(run.dir)), Times(run.n \div 2, Minor(run.dir))))

KeysFollow == RcReleased /\ FnReleased /\ MouseStraight
=============================================================================
