------------------------------- MODULE I2cBus -------------------------------
(***************************************************************************)
(* The I2C bus: transfers by the controller of the MPC8xx, message by      *)
(* message through its buffer descriptors (dbox2_i2c.c), and the drivers   *)
(* and buses that dvb_i2c.c matches, one bus for each adapter              *)
(* (dvb_i2c_bridge.c).  The controller is external: it works through the   *)
(* descriptors that are ready and interrupts where one asks for it.        *)
(***************************************************************************)
EXTENDS Integers, Sequences, FiniteSets, SequencesExt

CONSTANTS
  Procs, Shapes,    \* processes that transfer; sequences of "w" and "r", what they transfer
  Buses, Devices,
  MaxTransfers, MaxChanges  \* bounds

VARIABLES
  i2c_mutex,    \* who holds it, or "none"
  pc,           \* "idle" or "sleeping"
  msgs,         \* the shape that is transferred
  tx, rx,       \* buffer descriptors: [ready, int, last, nak] and [empty, int]
  at,           \* external: number of transmit descriptors the controller is done with
  on,           \* I2C is enabled
  woken,        \* i2c_interrupt has woken the sleeper
  acked,        \* history: messages the device acknowledged, of the last transfer
  result,       \* history: "ok", "error" or "abandoned", the last transfer
  transfers,
  buslist, devicelist,  \* dvb_i2c_buslist and dvb_i2c_devicelist, in order
  clients,      \* pairs of a bus and a device that attached to it
  uses,         \* module use count of a device's driver
  changes

transfer == <<i2c_mutex, pc, msgs, tx, rx, at, on, woken, acked, result, transfers>>
register == <<buslist, devicelist, clients, uses, changes>>
vars == <<transfer, register>>

MaxBd == 4
NoTx == [ready |-> FALSE, int |-> FALSE, last |-> FALSE, nak |-> FALSE]
NoRx == [empty |-> TRUE, int |-> FALSE]
Fresh(d) == [i \in 1..MaxBd |-> d]

TypeOK ==
  /\ i2c_mutex \in Procs \cup {"none"} /\ pc \in [Procs -> {"idle", "sleeping"}]
  /\ \A p \in Procs : pc[p] = "sleeping" <=> i2c_mutex = p
  /\ at \in 0..MaxBd /\ on \in BOOLEAN /\ woken \in BOOLEAN /\ acked \subseteq 1..MaxBd
  /\ buslist \in Seq(Buses) /\ devicelist \in Seq(Devices) /\ clients \subseteq Buses \X Devices

Init ==
  /\ i2c_mutex = "none" /\ pc = [p \in Procs |-> "idle"] /\ msgs = <<>>
  /\ tx = Fresh(NoTx) /\ rx = Fresh(NoRx) /\ at = 0 /\ on = FALSE /\ woken = FALSE
  /\ acked = {} /\ result = "ok" /\ transfers = 0
  /\ buslist = <<>> /\ devicelist = <<>> /\ clients = {} /\ uses = [d \in Devices |-> 0] /\ changes = 0

----------------------------------------------------------------------------

\* Number of the receive descriptor of message i.
RxNum(s, i) == Cardinality({j \in 1..i : s[j] = "r"})

\* parse_send_msg.  Only the last message asks for an interrupt.
ParseSend(s) ==
  [i \in 1..MaxBd |->
    IF i > Len(s) THEN NoTx
    ELSE [ready |-> TRUE, int |-> i = Len(s) /\ s[i] = "w", last |-> i = Len(s), nak |-> FALSE]]

\* Wrong variant: every receive descriptor asks for an interrupt.
RecvEach(s) == [k \in 1..MaxBd |-> [empty |-> TRUE, int |-> k <= RxNum(s, Len(s))]]

\* parse_recv_msg, which marks the receive descriptor with the number of the transmit descriptor.
ParseRecv(s) ==
  [k \in 1..MaxBd |->
    [empty |-> TRUE,
     int |-> \/ k <= Len(s) /\ s[k] = "r"
             \/ s[Len(s)] = "r" /\ k = RxNum(s, Len(s))]]

\* dbox2_i2c_xfer up to its sleep; interrupts are off until it sleeps.
Xfer(p, s) ==
  /\ i2c_mutex = "none" /\ transfers < MaxTransfers /\ transfers' = transfers + 1
  /\ i2c_mutex' = p /\ pc' = [pc EXCEPT ![p] = "sleeping"] /\ msgs' = s
  /\ tx' = ParseSend(s) /\ rx' = ParseRecv(s)
  /\ at' = 0 /\ on' = TRUE /\ woken' = FALSE /\ acked' = {}
  /\ UNCHANGED <<result, register>>

\* i2c_interrupt turns the controller off.
Interrupted(event) == on' = ~event /\ woken' = event

\* The controller transmits one message, or receives one, or is not acknowledged.
Transmit ==
  /\ on /\ at < MaxBd /\ tx[at + 1].ready
  /\ at' = at + 1
  /\ \/ /\ acked' = acked \cup {at + 1} /\ tx' = [tx EXCEPT ![at + 1].ready = FALSE]
        /\ LET k == RxNum(msgs, at + 1)
           IN IF msgs[at + 1] = "r"
              THEN rx' = [rx EXCEPT ![k].empty = FALSE] /\ Interrupted(rx[k].int)
              ELSE Interrupted(tx[at + 1].int) /\ UNCHANGED rx
     \/ /\ tx' = [tx EXCEPT ![at + 1].ready = FALSE, ![at + 1].nak = TRUE]
        /\ Interrupted(TRUE) /\ UNCHANGED <<acked, rx>>
  /\ UNCHANGED <<i2c_mutex, pc, msgs, result, transfers, register>>

\* Number of the transmit descriptor the driver looks at for message i: those of reads are not counted.
TxChecked(s, i) == Cardinality({j \in 1..i : s[j] = "w"})

\* After the sleep.  A signal or the timeout ends it too; what was only sent then counts as sent.
Failed ==
  \E i \in 1..Len(msgs) :
    IF msgs[i] = "r" THEN rx[RxNum(msgs, i)].empty ELSE tx[TxChecked(msgs, i)].nak

XferEnds(p, signal) ==
  /\ pc[p] = "sleeping" /\ (woken \/ signal)
  /\ result' = IF Failed THEN "error" ELSE IF ~woken THEN "abandoned" ELSE "ok"
  /\ on' = FALSE /\ i2c_mutex' = "none" /\ pc' = [pc EXCEPT ![p] = "idle"]
  /\ UNCHANGED <<msgs, tx, rx, at, woken, acked, transfers, register>>

----------------------------------------------------------------------------
(* dvb_i2c_mutex is held over each of the four. *)

Of(list) == {list[i] : i \in DOMAIN list}

\* Wrong variant: the module stays in use if its driver does not attach.
AttachKeeps(tried, taken) == uses' = [d \in Devices |-> uses[d] + Cardinality({x \in tried : x[2] = d})]

\* try_attach_device: the attach function of a driver decides.
Attach(tried, taken) ==
  uses' = [d \in Devices |-> uses[d] + Cardinality({x \in taken : x[2] = d})]

TryAttach(tried) == \E taken \in SUBSET tried : Attach(tried, taken) /\ clients' = clients \cup taken

Detach(gone) ==
  /\ clients' = clients \ gone
  /\ uses' = [d \in Devices |-> uses[d] - Cardinality({x \in gone : x[2] = d})]

Change == changes < MaxChanges /\ changes' = changes + 1 /\ UNCHANGED transfer

RegisterBus(b) ==
  /\ Change /\ b \notin Of(buslist) /\ buslist' = Append(buslist, b)
  /\ TryAttach({b} \X Of(devicelist)) /\ UNCHANGED devicelist

UnregisterBus(b) ==
  /\ Change /\ b \in Of(buslist) /\ buslist' = SelectSeq(buslist, LAMBDA x : x # b)
  /\ Detach({x \in clients : x[1] = b}) /\ UNCHANGED devicelist

RegisterDevice(d) ==
  /\ Change /\ d \notin Of(devicelist) /\ devicelist' = Append(devicelist, d)
  /\ TryAttach(Of(buslist) \X {d}) /\ UNCHANGED buslist

UnregisterDevice(d) ==
  /\ Change /\ d \in Of(devicelist) /\ devicelist' = SelectSeq(devicelist, LAMBDA x : x # d)
  /\ Detach({x \in clients : x[2] = d}) /\ UNCHANGED buslist

Next ==
  \/ \E p \in Procs : (\E s \in Shapes : Xfer(p, s)) \/ \E signal \in BOOLEAN : XferEnds(p, signal)
  \/ Transmit
  \/ \E b \in Buses : RegisterBus(b) \/ UnregisterBus(b)
  \/ \E d \in Devices : RegisterDevice(d) \/ UnregisterDevice(d)

Spec == Init /\ [][Next]_vars

----------------------------------------------------------------------------

\* A transfer is reported as done exactly if it was acknowledged message by message, and as failed
\* only if a message was not; unless a signal or the timeout ended the wait.
ReportsTrue ==
  i2c_mutex = "none" /\ woken =>
    /\ result = "ok" <=> acked = 1..Len(msgs)
    /\ result = "error" => \E i \in 1..MaxBd : tx[i].nak

\* A driver's module is in use as often as it is attached, and attached only to what is there.
UsesBalanced ==
  /\ \A d \in Devices : uses[d] = Cardinality({x \in clients : x[2] = d})
  /\ clients \subseteq Of(buslist) \X Of(devicelist)
=============================================================================
