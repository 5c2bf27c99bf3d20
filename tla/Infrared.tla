------------------------------ MODULE Infrared ------------------------------
(***************************************************************************)
(* Infrared receiver and transmitter: the LIRC device (avia_gt_lirc.c) on  *)
(* the IR unit (avia_gt_ir.c).  A received pulse is its number; a value    *)
(* that is sent is the number of the write it comes from.                  *)
(***************************************************************************)
EXTENDS Integers, Sequences, FiniteSets, SequencesExt

CONSTANTS
  RxMax,     \* RX_MAX
  Writers,   \* processes that send
  Counts,    \* numbers of values in a write
  MaxPulses, MaxWrites   \* bounds

VARIABLES
  ring, rp, wp, rx_unit_busy,  \* rx_buffer and its positions
  reader, got_pulse,           \* the process that reads: "idle", "arm", "wait"; a pulse is half read
  seen, came,                  \* history: pulses read; pulses received
  spoilt,                      \* history: the ring overran, or the read position left it
  pulse_buffer, count,  \* pulse_buffer; the pulses of the next transmission
  tx_unit_busy, writer,        \* per writer: [at, n, id]
  writes, sent, mixed          \* history: writes begun; transmissions; two writes at a time

rxVars == <<ring, rp, wp, rx_unit_busy, reader, got_pulse, seen, came, spoilt>>
txVars == <<pulse_buffer, count, tx_unit_busy, writer, writes, sent, mixed>>
vars == <<rxVars, txVars>>

Largest == CHOOSE n \in Counts : \A m \in Counts : m <= n
Idle == [at |-> "idle", n |-> 0, id |-> 0]

TypeOK ==
  /\ rp \in 0 .. RxMax /\ wp \in 0 .. RxMax - 1 /\ rx_unit_busy \in BOOLEAN
  /\ reader \in {"idle", "test", "arm", "wait"} /\ got_pulse \in BOOLEAN
  /\ count \in Nat /\ tx_unit_busy \in BOOLEAN
  /\ writer \in [Writers -> [at : {"idle", "queue"}, n : Counts \cup {0}, id : 0 .. MaxWrites]]

Init ==
  /\ ring = [i \in 0 .. RxMax |-> 0] /\ rp = 0 /\ wp = 0 /\ rx_unit_busy = FALSE
  /\ reader = "idle" /\ got_pulse = FALSE /\ seen = <<>> /\ came = 0 /\ spoilt = FALSE
  /\ pulse_buffer = [i \in 1 .. Largest + 1 |-> 0] /\ count = 0 
  /\ tx_unit_busy = FALSE /\ writer = [w \in Writers |-> Idle]
  /\ writes = 0 /\ sent = <<>> /\ mixed = FALSE

----------------------------------------------------------------------------
(* Receiving.  The ring has one place behind its end only in this model:   *)
(* it stands for what follows the array.                                   *)

RxIrq ==
  /\ came < MaxPulses /\ came' = came + 1
  /\ ring' = [ring EXCEPT ![wp] = came + 1]
  /\ wp' = IF wp < RxMax - 1 THEN wp + 1 ELSE 0
  /\ spoilt' = (spoilt \/ wp' = rp)
  /\ rx_unit_busy' = FALSE
  /\ UNCHANGED <<rp, reader, got_pulse, seen>> /\ UNCHANGED txVars

\* Wrong variant: the position goes on before the pulse is read.
PlaceNext == IF rp < RxMax THEN rp + 1 ELSE 0

Place == rp

TakePulse ==
  /\ seen' = Append(seen, ring[Place])
  /\ rp' = IF rp < RxMax THEN rp + 1 ELSE 0
  /\ spoilt' = (spoilt \/ rp' = RxMax)
  /\ got_pulse' = TRUE

\* avia_gt_lirc_read, one value at a time: space and pulse take turns.
ReadPulse ==
  /\ reader = "idle" /\ got_pulse /\ got_pulse' = FALSE
  /\ UNCHANGED <<ring, rp, wp, rx_unit_busy, reader, seen, came, spoilt>> /\ UNCHANGED txVars

ReadSpace ==
  /\ reader = "idle" /\ ~got_pulse
  /\ IF wp = rp THEN reader' = "arm" /\ UNCHANGED <<rp, seen, spoilt, got_pulse>>
     ELSE TakePulse /\ UNCHANGED reader
  /\ UNCHANGED <<ring, wp, rx_unit_busy, came>> /\ UNCHANGED txVars

\* A pulse that came since the test is forgotten here.
Arm(nonblock) ==
  /\ reader = "arm"
  /\ rx_unit_busy' = TRUE
  /\ reader' = IF nonblock THEN "idle" ELSE "wait"
  /\ UNCHANGED <<ring, rp, wp, got_pulse, seen, came, spoilt>> /\ UNCHANGED txVars

Woken ==
  /\ reader = "wait" /\ ~rx_unit_busy
  /\ reader' = "idle" /\ TakePulse
  /\ UNCHANGED <<ring, wp, rx_unit_busy, came>> /\ UNCHANGED txVars

ReadInterrupted ==
  /\ reader = "wait" /\ reader' = "idle"
  /\ UNCHANGED <<ring, rp, wp, rx_unit_busy, got_pulse, seen, came, spoilt>> /\ UNCHANGED txVars

----------------------------------------------------------------------------
(* Sending.                                                                *)

\* avia_gt_lirc_write copies into the common buffer before it waits for the unit.
Write(w, n) ==
  /\ writer[w].at = "idle" /\ writes < MaxWrites
  /\ writes' = writes + 1
  /\ pulse_buffer' = [i \in DOMAIN pulse_buffer |-> IF i <= n THEN writes + 1 ELSE pulse_buffer[i]]
  /\ writer' = [writer EXCEPT ![w] = [at |-> "queue", n |-> n, id |-> writes + 1]]
  /\ mixed' = (mixed \/ \E v \in Writers : writer[v].at # "idle")
  /\ UNCHANGED <<count, tx_unit_busy, sent>> /\ UNCHANGED rxVars

\* The unit is busy: the call does not block, or a signal ends the wait.
WriteFails(w) ==
  /\ writer[w].at = "queue" /\ tx_unit_busy
  /\ writer' = [writer EXCEPT ![w] = Idle]
  /\ UNCHANGED <<pulse_buffer, count, tx_unit_busy, writes, sent, mixed>> /\ UNCHANGED rxVars

\* avia_gt_ir_queue_pulse for two values each; an odd value is followed by what the buffer held.
Pulses(n) == [i \in 1 .. (n + 1) \div 2 |-> <<pulse_buffer[2 * i - 1], pulse_buffer[2 * i]>>]

\* Wrong variant: the pulses are counted on after a transmission.
CountOn(n) == n

CountReset(n) == 0

\* Once the unit is idle all is queued and sent without another wait.
QueueAndSend(w) ==
  LET all == [i \in 1 .. count |-> <<0, 0>>] \o Pulses(writer[w].n) IN
  /\ writer[w].at = "queue" /\ ~tx_unit_busy
  /\ sent' = Append(sent, [id |-> writer[w].id, n |-> writer[w].n, pulses |-> all])
  /\ count' = CountReset(Len(all))
  /\ tx_unit_busy' = TRUE
  /\ writer' = [writer EXCEPT ![w] = Idle]
  /\ UNCHANGED <<pulse_buffer, writes, mixed>> /\ UNCHANGED rxVars

TxIrq ==
  /\ tx_unit_busy /\ tx_unit_busy' = FALSE
  /\ UNCHANGED <<pulse_buffer, count, writer, writes, sent, mixed>> /\ UNCHANGED rxVars

Next ==
  \/ RxIrq \/ ReadPulse \/ ReadSpace \/ Woken \/ ReadInterrupted \/ TxIrq
  \/ \E b \in BOOLEAN : Arm(b)
  \/ \E w \in Writers : WriteFails(w) \/ QueueAndSend(w) \/ \E n \in Counts : Write(w, n)

Spec == Init /\ [][Next]_vars

----------------------------------------------------------------------------

\* Pulses are read in the order they came, none twice and none left out, until the ring
\* overruns or the read position leaves it, which it does in every round.
PulsesInOrder == ~spoilt => \A i \in DOMAIN seen : seen[i] = i

\* A transmission holds the values of one write and all of them, after an odd one whatever
\* the buffer held, unless two writes were under way at a time.
SendsOneWrite ==
  ~mixed => \A i \in DOMAIN sent :
    LET t == sent[i] IN
    /\ Len(t.pulses) = (t.n + 1) \div 2
    /\ \A j \in 1 .. t.n : t.pulses[(j + 1) \div 2][1 + ((j + 1) % 2)] = t.id
    /\ i > 1 => sent[i - 1].id < t.id
=============================================================================
