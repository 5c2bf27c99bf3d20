----------------------------- MODULE DvbDevices -----------------------------
(***************************************************************************)
(* The device files of an adapter (dvbdev.c): drivers register devices of  *)
(* a type and processes open them, within the numbers of readers, writers  *)
(* and users a device allows.  The digital video recorder (dmxdev.c) is    *)
(* one of them that does not count: a writer connects the demux to memory, *)
(* a reader has the one buffer.                                            *)
(***************************************************************************)
EXTENDS Integers, FiniteSets, FiniteSetsExt

CONSTANTS
  Drivers,   \* drivers, each registers a device
  Types,     \* types of devices
  MaxIds,    \* DVB_MAX_IDS
  Readers,   \* readers a device allows; it allows one writer, and all together as users
  MaxOpen    \* bound: files of a device

VARIABLES
  register_lock,       \* the driver that holds dvbdev_register_lock, or none
  device, pending,     \* per driver: its device, and one it has not put on the list yet
  dvr, frontend, orig_fe, buffer,   \* files of the recorder; demux->frontend; dvr_orig_fe; dvr_buffer
  crowded              \* history: two wrote or two read, or a close was interrupted

vars == <<register_lock, device, pending, dvr, frontend, orig_fe, buffer, crowded>>
dvrs == <<dvr, frontend, orig_fe, buffer, crowded>>

NoDriver == "none"
NoDevice == [type |-> "none", id |-> 0, ro |-> 0, rw |-> 0, readers |-> 0, writers |-> 0, users |-> 0]
Sources  == {"tuner", "memory", "none"}

TypeOK ==
  /\ register_lock \in Drivers \cup {NoDriver}
  /\ \A d \in Drivers : /\ device[d].type \in Types \cup {"none"} /\ pending[d].type \in Types \cup {"none"}
                        /\ device[d].id \in 0 .. MaxIds - 1
  /\ frontend \in Sources /\ orig_fe \in Sources /\ buffer \in BOOLEAN
  /\ dvr.ro \in 0 .. MaxOpen /\ dvr.wo \in 0 .. MaxOpen

Init ==
  /\ register_lock = NoDriver
  /\ device = [d \in Drivers |-> NoDevice] /\ pending = [d \in Drivers |-> NoDevice]
  /\ dvr = [ro |-> 0, wo |-> 0] /\ frontend = "tuner" /\ orig_fe = "none" /\ buffer = FALSE
  /\ crowded = FALSE

----------------------------------------------------------------------------
(* Registration.                                                           *)

IdsOf(type) == {device[d].id : d \in {e \in Drivers : device[e].type = type}}

Free(type) == 0 .. MaxIds - 1 \ IdsOf(type)

\* Wrong variant: the lock is not asked for.
UnlockedTurn(d) == TRUE

Turn(d) == register_lock = NoDriver

\* dvb_register_device finds an id, then waits for memory with the lock held.
FindId(d, type) ==
  /\ device[d] = NoDevice /\ pending[d] = NoDevice /\ Turn(d)
  /\ Free(type) # {}
  /\ register_lock' = d
  /\ pending' = [pending EXCEPT ![d] = [NoDevice EXCEPT
       !.type = type, !.id = Min(Free(type)), !.readers = Readers, !.writers = 1, !.users = Readers + 1]]
  /\ UNCHANGED <<device, dvrs>>

\* The lock is released just before the device is listed; nothing waits in between.
ListDevice(d) ==
  /\ pending[d] # NoDevice
  /\ device' = [device EXCEPT ![d] = pending[d]]
  /\ pending' = [pending EXCEPT ![d] = NoDevice]
  /\ register_lock' = NoDriver
  /\ UNCHANGED dvrs

NoMemory(d) ==
  /\ pending[d] # NoDevice
  /\ pending' = [pending EXCEPT ![d] = NoDevice] /\ register_lock' = NoDriver
  /\ UNCHANGED <<device, dvrs>>

\* Without the lock; a module whose device is open is not unloaded.
Unregister(d) ==
  /\ device[d] # NoDevice /\ device[d].ro = 0 /\ device[d].rw = 0
  /\ device' = [device EXCEPT ![d] = NoDevice]
  /\ UNCHANGED <<register_lock, pending, dvrs>>

----------------------------------------------------------------------------
(* dvb_generic_open and dvb_generic_release.                               *)

Open(d, readonly) ==
  LET v == device[d] IN
  /\ v # NoDevice /\ v.users > 0
  /\ IF readonly THEN v.readers > 0 ELSE v.writers > 0
  /\ device' = [device EXCEPT ![d] =
       IF readonly THEN [v EXCEPT !.ro = @ + 1, !.readers = @ - 1, !.users = @ - 1]
       ELSE [v EXCEPT !.rw = @ + 1, !.writers = @ - 1, !.users = @ - 1]]
  /\ UNCHANGED <<register_lock, pending, dvrs>>

\* Wrong variant: a reader that closes gives back the place of a writer.
ClosedAsWriter(v, readonly) ==
  IF readonly THEN [v EXCEPT !.ro = @ - 1, !.writers = @ + 1, !.users = @ + 1]
  ELSE [v EXCEPT !.rw = @ - 1, !.writers = @ + 1, !.users = @ + 1]

Closed(v, readonly) ==
  IF readonly THEN [v EXCEPT !.ro = @ - 1, !.readers = @ + 1, !.users = @ + 1]
  ELSE [v EXCEPT !.rw = @ - 1, !.writers = @ + 1, !.users = @ + 1]

Release(d, readonly) ==
  /\ IF readonly THEN device[d].ro > 0 ELSE device[d].rw > 0
  /\ device' = [device EXCEPT ![d] = Closed(@, readonly)]
  /\ UNCHANGED <<register_lock, pending, dvrs>>

----------------------------------------------------------------------------
(* The recorder.                                                           *)

DvrOpenRead ==
  /\ dvr.ro < MaxOpen
  /\ dvr' = [dvr EXCEPT !.ro = @ + 1]
  /\ buffer' = TRUE
  /\ crowded' = (crowded \/ dvr.ro > 0)
  /\ UNCHANGED <<register_lock, device, pending, frontend, orig_fe>>

\* The frontend of the demux is remembered, whatever it is.
DvrOpenWrite ==
  /\ dvr.wo < MaxOpen
  /\ dvr' = [dvr EXCEPT !.wo = @ + 1]
  /\ orig_fe' = frontend /\ frontend' = "memory"
  /\ crowded' = (crowded \/ dvr.wo > 0)
  /\ UNCHANGED <<register_lock, device, pending, buffer>>

DvrReleaseRead ==
  /\ dvr.ro > 0
  /\ dvr' = [dvr EXCEPT !.ro = @ - 1]
  /\ buffer' = FALSE
  /\ UNCHANGED <<register_lock, device, pending, frontend, orig_fe, crowded>>

DvrReleaseWrite ==
  /\ dvr.wo > 0
  /\ dvr' = [dvr EXCEPT !.wo = @ - 1]
  /\ frontend' = orig_fe
  /\ UNCHANGED <<register_lock, device, pending, orig_fe, buffer, crowded>>

\* A signal while the process waits for the mutex: the file is closed all the same.
DvrReleaseInterrupted(mode) ==
  /\ dvr[mode] > 0
  /\ dvr' = [dvr EXCEPT ![mode] = @ - 1]
  /\ crowded' = TRUE
  /\ UNCHANGED <<register_lock, device, pending, frontend, orig_fe, buffer>>

Next ==
  \/ \E d \in Drivers : \/ \E t \in Types : FindId(d, t)
                        \/ ListDevice(d) \/ NoMemory(d) \/ Unregister(d)
                        \/ \E ro \in BOOLEAN : Open(d, ro) \/ Release(d, ro)
  \/ DvrOpenRead \/ DvrOpenWrite \/ DvrReleaseRead \/ DvrReleaseWrite
  \/ \E mode \in {"ro", "wo"} : DvrReleaseInterrupted(mode)

Spec == Init /\ [][Next]_vars

----------------------------------------------------------------------------

\* Two devices of a type never have one id, so no minor number, whatever drivers register
\* while another waits for memory.
IdsUnique ==
  \A d, e \in Drivers : d # e /\ device[d].type # "none" /\ device[d].type = device[e].type
    => device[d].id # device[e].id

\* What is closed is given back: a device counts its open files and no others, never more
\* writers than one; and with no file of the recorder open the demux has its own frontend
\* again, as long as not two wrote or two read at a time.
GivenBack ==
  /\ \A d \in Drivers : LET v == device[d] IN
       v # NoDevice => v.ro + v.readers = Readers /\ v.rw + v.writers = 1
                       /\ v.users + v.ro + v.rw = Readers + 1
  /\ ~crowded => /\ buffer <=> dvr.ro > 0
                 /\ frontend = (IF dvr.wo > 0 THEN "memory" ELSE "tuner")
=============================================================================
