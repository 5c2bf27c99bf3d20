------------------------------ MODULE Dvb2Eth ------------------------------
(***************************************************************************)
(* The bridge from the recorder's queue to the network (dvb2eth.c): one    *)
(* process sets it up and starts it, the demux driver calls its send       *)
(* routine with the bytes of the queue in one or two pieces, and datagrams *)
(* of a fixed size go to the Ethernet driver with a header from a ring.    *)
(***************************************************************************)
EXTENDS Integers, Sequences, SequencesExt

CONSTANTS
  Size,      \* payload of a datagram (1316: seven packets)
  Headers,   \* headers in the ring (32)
  Ring       \* size of the recorder's queue

VARIABLES
  busy, setup, running, hook,  \* dvb2eth_busy, setup_done, running, avia_gt_napi_dvr_send
  index,                       \* dvb2eth_header_index
  rd,                          \* the queue's read position
  sent                         \* history: addresses the last call sent, a datagram each

vars == <<busy, setup, running, hook, index, rd, sent>>

TypeOK ==
  /\ index \in 0 .. Headers - 1 /\ rd \in 0 .. Ring - 1
  /\ {busy, setup, running, hook} \subseteq BOOLEAN

Init ==
  /\ busy = FALSE /\ setup = FALSE /\ running = FALSE /\ hook = FALSE
  /\ index = 0 /\ rd = 0 /\ sent = <<>>

----------------------------------------------------------------------------
(* The send routine, called by the bottom half of the queue.  q is what is *)
(* left: the pieces [first, fl] and [second, sl] of an address and length. *)

Bytes(from, len) == [i \in 1 .. len |-> from + i - 1]

Datagram(q) ==
  IF q.fl >= Size THEN Bytes(q.first, Size)
  ELSE Bytes(q.first, q.fl) \o Bytes(q.second, Size - q.fl)

\* Wrong variant: a first piece that is used up is not replaced by the second.
NextPieceKeeps(q) == q

\* A first piece that is used up is replaced by the second.
NextPiece(q) ==
  IF q.fl = 0 THEN [first |-> q.second, fl |-> q.sl, second |-> 0, sl |-> 0] ELSE q

Left(q) ==
  IF q.fl >= Size THEN NextPiece([q EXCEPT !.first = @ + Size, !.fl = @ - Size])
  ELSE NextPiece([q EXCEPT !.fl = 0, !.second = @ + Size - q.fl, !.sl = @ - (Size - q.fl)])

\* len bytes from rd on, in two pieces where the ring wraps.
Send(len) ==
  LET fl == IF rd + len > Ring THEN Ring - rd ELSE len
      n  == len \div Size
      q[i \in 0 .. n] == IF i = 0 THEN [first |-> rd, fl |-> fl, second |-> 0, sl |-> len - fl]
                         ELSE Left(q[i - 1])
  IN  /\ hook
      /\ sent' = [i \in 1 .. n |-> Datagram(q[i - 1])]
      /\ index' = (index + n) % Headers
      /\ rd' = (rd + n * Size) % Ring
      /\ UNCHANGED <<busy, setup, running, hook>>

----------------------------------------------------------------------------
(* The device.                                                             *)

Open ==
  /\ ~busy
  /\ busy' = TRUE
  /\ UNCHANGED <<setup, running, hook, index, rd, sent>>

\* Wrong variant: the hook stays in the demux driver.
ReleaseKeepsHook ==
  /\ busy
  /\ busy' = FALSE /\ setup' = FALSE /\ running' = FALSE
  /\ UNCHANGED <<hook, index, rd, sent>>

Release ==
  /\ busy
  /\ busy' = FALSE /\ setup' = FALSE /\ running' = FALSE /\ hook' = FALSE
  /\ UNCHANGED <<index, rd, sent>>

Start ==
  /\ busy /\ setup
  /\ hook' = TRUE /\ running' = TRUE
  /\ UNCHANGED <<busy, setup, index, rd, sent>>

StopSending ==
  /\ busy
  /\ hook' = FALSE /\ running' = FALSE
  /\ UNCHANGED <<busy, setup, index, rd, sent>>

\* The headers of the ring are written: not while datagrams may use them.
SetDest ==
  /\ busy /\ ~running
  /\ setup' = TRUE
  /\ UNCHANGED <<busy, running, hook, index, rd, sent>>

Next ==
  \/ Open \/ Release \/ Start \/ StopSending \/ SetDest
  \/ \E len \in 0 .. Ring - 1 : Send(len)

Spec == Init /\ [][Next]_vars

\* Nothing is sent, and no header used, unless the device is open and its headers were
\* written by the user who has it open.
SendsOnlySetUp == hook => busy /\ setup /\ running

\* The datagrams of a call follow each other in the ring and end where it reads on.
SendsInOrder ==
  \A i \in DOMAIN sent : \A b \in DOMAIN sent[i] :
     sent[i][b] = (rd - (Len(sent) - i + 1) * Size + b - 1) % Ring
=============================================================================
