-------------------------- MODULE DmxBufferProofs --------------------------
(***************************************************************************)
(* What the ring buffer of a demux filter guarantees for buffers, sections *)
(* and reads of every size.                                                *)
(***************************************************************************)
EXTENDS DmxBuffer, TLAPS

\* The pointers lie in the buffer; an empty buffer has no memory.
PointersInRange ==
  /\ mem => size > 0
  /\ size > 0 => pread < size /\ pwrite < size
  /\ size = 0 => pread = 0 /\ pwrite = 0

\* The timeout is pending only while the filter runs.
TimerInv ==
  timer => state = "GO"

\* What the process knows at each step of its read.
ReaderInv ==
  /\ pc # "idle" => mem
  /\ pc \in {"flush", "clear"} => error # "none"
  /\ pc = "clear" => pwrite = pread
  /\ pc = "calc" => Holds(data, pread, pwrite, base)
  /\ pc = "sleep" => pread = pwrite /\ error = "none"
  /\ nonblock /\ pc \in {"wait", "sleep"} =>
       pc = "wait" /\ (pread # pwrite \/ error # "none")

\* A copy in progress: both parts still hold the stream, and while no error
\* is pending they are part of what the callback may not overwrite.
CopyInv ==
  pc = "copy" =>
    /\ pread + chunk <= size /\ rest <= pread
    /\ k <= chunk /\ chunk + rest <= todo
    /\ rest > 0 => pread + chunk = size
    /\ \A i \in 0 .. size - 1 :
         /\ pread <= i /\ i < pread + chunk => data[i] = base + (i - pread)
         /\ i < rest => data[i] = base + chunk + i
    /\ error = "none" => chunk + rest <= Used(pread, pwrite)

\* The inductive invariant.
IInv ==
  /\ TypeOK
  /\ PointersInRange
  /\ RunningHasMemory
  /\ TimerInv
  /\ HoldsUnread
  /\ ReaderInv
  /\ CopyInv

----------------------------------------------------------------------------
(* The arithmetic of the ring.                                             *)

\* Below two turns the remainder takes one subtraction.
LEMMA Wrap ==
  ASSUME NEW a \in Nat, NEW b \in Nat \ {0}, a < 2 * b
  PROVE  a % b = IF a < b THEN a ELSE a - b
  BY SMT

\* Advancing by less than a turn, without the remainder.
LEMMA WrapSum ==
  ASSUME NEW p \in Nat, NEW n \in Nat, size \in Nat \ {0}, p + n < 2 * size
  PROVE  Advance(p, n) = IF p + n < size THEN p + n ELSE p + n - size
<1> DEFINE a == p + n
<1>1. a \in Nat /\ a < 2 * size
  OBVIOUS
<1> HIDE DEF a
<1>2. a % size = IF a < size THEN a ELSE a - size
  BY <1>1, Wrap
<1> QED
  BY <1>2 DEF a, Advance

\* Two pointers into the ring, and a piece of n bytes that is not refused.
Ring(pr, pw) ==
  /\ size \in Nat \ {0} /\ size <= MaxSize
  /\ pr \in 0 .. size - 1 /\ pw \in 0 .. size - 1

\* The unread and the free part add up to the ring.
LEMMA UsedAndFree ==
  ASSUME NEW pr, NEW pw, Ring(pr, pw)
  PROVE  /\ Used(pr, pw) \in 0 .. size - 1
         /\ Free(pr, pw) = size - Used(pr, pw)
         /\ Used(pr, pw) = 0 <=> pr = pw
  BY DEF Ring, Used, Free

\* Writing n bytes grows the unread part by n.
LEMMA Push ==
  ASSUME NEW pr, NEW pw, Ring(pr, pw), NEW n \in Nat,
         n = 0 \/ n < Free(pr, pw)
  PROVE  /\ Ring(pr, Advance(pw, n))
         /\ Used(pr, Advance(pw, n)) = Used(pr, pw) + n
<1>1. size \in Nat \ {0} /\ pw \in Nat /\ pw + n \in Nat /\ pw + n < 2 * size
  BY DEF Ring, Free
<1>2. Advance(pw, n) = IF pw + n < size THEN pw + n ELSE pw + n - size
  BY <1>1, WrapSum
<1> QED
  BY <1>2 DEF Ring, Used, Free

\* Reading n bytes shrinks it by n.
LEMMA Pop ==
  ASSUME NEW pr, NEW pw, Ring(pr, pw), NEW n \in Nat, pr + n <= size
  PROVE  /\ Advance(pr, n) = IF pr + n < size THEN pr + n ELSE 0
         /\ Ring(Advance(pr, n), pw)
         /\ n <= Used(pr, pw) => Used(Advance(pr, n), pw) = Used(pr, pw) - n
<1>1. size \in Nat \ {0} /\ pr \in Nat /\ pr + n \in Nat /\ pr + n < 2 * size
  BY DEF Ring
<1>2. Advance(pr, n) = IF pr + n < size THEN pr + n ELSE pr + n - size
  BY <1>1, WrapSum
<1> QED
  BY <1>2 DEF Ring, Used

\* A write leaves every unread slot alone.
LEMMA StoredKeeps ==
  ASSUME NEW d, NEW pr, NEW pw, Ring(pr, pw), NEW n \in Nat, NEW pos \in Nat,
         n = 0 \/ n < Free(pr, pw),
         NEW i \in 0 .. size - 1, Offset(pr, i) < Used(pr, pw)
  PROVE  Stored(d, pw, n, pos)[i] = d[i]
  BY SizesAssumption DEF Ring, Offset, Used, Free, Stored, Slots

\* After a write the unread part holds the longer stream.
LEMMA StoredHolds ==
  ASSUME NEW d, NEW pr, NEW pw, Ring(pr, pw), NEW n \in Nat, NEW b \in Nat,
         n = 0 \/ n < Free(pr, pw),
         Holds(d, pr, pw, b)
  PROVE  Holds(Stored(d, pw, n, b + Used(pr, pw)), pr, Advance(pw, n), b)
<1> DEFINE e == Stored(d, pw, n, b + Used(pr, pw))
<1>1. Used(pr, Advance(pw, n)) = Used(pr, pw) + n
  BY Push
<1> SUFFICES ASSUME NEW i \in 0 .. size - 1, Offset(pr, i) < Used(pr, pw) + n
             PROVE  e[i] = b + Offset(pr, i)
  BY <1>1 DEF Holds
<1>2. CASE Offset(pr, i) < Used(pr, pw)
  <2>1. b + Used(pr, pw) \in Nat
    BY UsedAndFree
  <2>2. e[i] = d[i]
    BY <1>2, <2>1, StoredKeeps
  <2> QED
    BY <1>2, <2>2 DEF Holds
<1>3. CASE Offset(pr, i) >= Used(pr, pw)
  <2>1. i \in Slots /\ i < size
    BY SizesAssumption DEF Ring, Slots
  <2>2. e[i] = IF i >= pw /\ i - pw < n THEN b + Used(pr, pw) + (i - pw)
               ELSE IF i < pw /\ i + size - pw < n
                    THEN b + Used(pr, pw) + (i + size - pw)
                    ELSE d[i]
    BY <2>1 DEF Stored
  <2> HIDE DEF e
  <2> QED
    BY <1>3, <2>2 DEF Ring, Offset, Used, Free
<1> QED
  BY <1>2, <1>3 DEF Ring, Offset, Used

\* Storing keeps the type of the memory.
LEMMA StoredType ==
  ASSUME NEW d \in [Slots -> Int], NEW p \in Nat, NEW n \in Nat,
         NEW pos \in Nat, size \in Nat
  PROVE  Stored(d, p, n, pos) \in [Slots -> Int]
  BY DEF Stored, Slots

\* Two pieces written one after the other are one piece.
LEMMA TwoPieces ==
  ASSUME NEW pr, NEW pw, Ring(pr, pw), NEW n1 \in Nat, NEW n2 \in Nat,
         n1 = 0 \/ n1 < Free(pr, pw),
         n2 = 0 \/ n2 < Free(pr, Advance(pw, n1))
  PROVE  /\ n1 + n2 = 0 \/ n1 + n2 < Free(pr, pw)
         /\ Advance(Advance(pw, n1), n2) = Advance(pw, n1 + n2)
<1>1. /\ Ring(pr, Advance(pw, n1))
      /\ Used(pr, Advance(pw, n1)) = Used(pr, pw) + n1
  BY Push
<1>2. /\ Ring(pr, Advance(Advance(pw, n1), n2))
      /\ Used(pr, Advance(Advance(pw, n1), n2)) = Used(pr, pw) + n1 + n2
  BY <1>1, Push
<1>3. /\ Used(pr, pw) \in 0 .. size - 1
      /\ Free(pr, pw) = size - Used(pr, pw)
      /\ Free(pr, Advance(pw, n1)) = size - (Used(pr, pw) + n1)
      /\ Used(pr, pw) + n1 \in 0 .. size - 1
  BY <1>1, UsedAndFree
<1>4. n1 + n2 = 0 \/ n1 + n2 < Free(pr, pw)
  BY <1>3 DEF Ring
<1>5. /\ Ring(pr, Advance(pw, n1 + n2))
      /\ Used(pr, Advance(pw, n1 + n2)) = Used(pr, pw) + n1 + n2
  <2>1. /\ Ring(pr, Advance(pw, n1 + n2))
        /\ Used(pr, Advance(pw, n1 + n2)) = Used(pr, pw) + (n1 + n2)
    BY <1>4, Push
  <2> QED
    BY <2>1, <1>3
<1>6. ASSUME NEW x, NEW y, Ring(pr, x), Ring(pr, y), Used(pr, x) = Used(pr, y)
      PROVE  x = y
  BY <1>6 DEF Ring, Used
<1> QED
  BY <1>2, <1>4, <1>5, <1>6

----------------------------------------------------------------------------
(* The invariant is kept by every step.                                    *)

\* The invariant gives the lemmas above their hypotheses about the ring.
LEMMA RingOfInv ==
  ASSUME IInv, size > 0
  PROVE  Ring(pread, pwrite)
  BY SizesAssumption DEF IInv, TypeOK, PointersInRange, Ring

\* What a reader in the middle of a copy sees does not change when the
\* unread slots, the pointers and its own locals do not.
LEMMA StoreStep ==
  ASSUME IInv, mem, error = "none",
         NEW n \in Nat, n = 0 \/ n < Free(pread, pwrite),
         data' = Stored(data, pwrite, n, written)
  PROVE  /\ data' \in [Slots -> Int]
         /\ Holds(data', pread, Advance(pwrite, n), base)
         /\ \A i \in 0 .. size - 1 :
              Offset(pread, i) < Used(pread, pwrite) => data'[i] = data[i]
<1>1. Ring(pread, pwrite) /\ size > 0
  BY RingOfInv DEF IInv, PointersInRange
<1>2. /\ data \in [Slots -> Int] /\ pwrite \in Nat /\ written \in Nat
      /\ base \in Nat /\ size \in Nat
  BY <1>1 DEF IInv, TypeOK, Ring
<1>3. base + Used(pread, pwrite) = written /\ Holds(data, pread, pwrite, base)
  BY DEF IInv, HoldsUnread
<1>4. data' \in [Slots -> Int]
  BY <1>2, StoredType
<1>5. Holds(data', pread, Advance(pwrite, n), base)
  BY <1>1, <1>2, <1>3, StoredHolds
<1> QED
  BY <1>1, <1>2, <1>4, <1>5, StoredKeeps

\* The part of CopyInv that speaks of slots is about unread slots only.
LEMMA CopyUnread ==
  ASSUME IInv, pc = "copy", error = "none",
         NEW i \in 0 .. size - 1,
         (pread <= i /\ i < pread + chunk) \/ i < rest
  PROVE  Offset(pread, i) < Used(pread, pwrite)
<1>1. /\ pread \in Nat /\ chunk \in Nat /\ rest \in Nat /\ size \in Nat
      /\ Used(pread, pwrite) \in Int
  BY SizesAssumption DEF IInv, TypeOK, Used
<1>2. /\ pread + chunk <= size /\ rest <= pread
      /\ rest > 0 => pread + chunk = size
      /\ chunk + rest <= Used(pread, pwrite)
  BY DEF IInv, CopyInv
<1> HIDE DEF IInv
<1> QED
  BY <1>1, <1>2 DEF Offset

\* A section that fits keeps the invariant.
LEMMA StoresStep ==
  ASSUME IInv, NEW n1 \in Nat, NEW n2 \in Nat, CallbackStores(n1, n2)
  PROVE  IInv'
<1> DEFINE n == n1 + n2
<1>1. /\ mem /\ error = "none" /\ size > 0 /\ Ring(pread, pwrite)
      /\ n1 = 0 \/ n1 < Free(pread, pwrite)
      /\ n2 = 0 \/ n2 < Free(pread, Advance(pwrite, n1))
  <2>1. mem /\ error = "none" /\ size > 0 /\ Ring(pread, pwrite)
    BY RingOfInv DEF CallbackStores, IInv, PointersInRange
  <2>2. Ring(pread, Advance(pwrite, n1)) \/ n1 # 0
    BY <2>1, Push
  <2>3. n1 = 0 \/ n1 < Free(pread, pwrite)
    BY <2>1 DEF CallbackStores, Refused, Ring, Free
  <2>4. Ring(pread, Advance(pwrite, n1))
    BY <2>1, <2>3, Push
  <2> QED
    BY <2>1, <2>3, <2>4 DEF CallbackStores, Refused, Ring, Free
<1>2. /\ n \in Nat /\ (n = 0 \/ n < Free(pread, pwrite))
      /\ pwrite' = Advance(pwrite, n)
  BY <1>1, TwoPieces DEF CallbackStores
<1>3. /\ Ring(pread, pwrite')
      /\ Used(pread, pwrite') = Used(pread, pwrite) + n
      /\ Used(pread, pwrite) \in 0 .. size - 1
      /\ Used(pread, pwrite') \in 0 .. size - 1
      /\ Used(pread, pwrite) = 0 <=> pread = pwrite
      /\ Used(pread, pwrite') = 0 <=> pread = pwrite'
  BY <1>1, <1>2, Push, UsedAndFree
<1>4. /\ data' \in [Slots -> Int]
      /\ Holds(data', pread, pwrite', base)
      /\ \A i \in 0 .. size - 1 :
           Offset(pread, i) < Used(pread, pwrite) => data'[i] = data[i]
  BY <1>1, <1>2, StoreStep DEF CallbackStores
<1>5. UNCHANGED <<mem, size, pread, error, oneshot, reader, base>>
  BY DEF CallbackStores
<1>6. TypeOK'
  <2>1. pwrite' \in Nat
    BY <1>3 DEF Ring
  <2>2. state' \in States /\ pc' \in {"idle", "enter", "loop", "wait", "sleep",
                                     "check", "flush", "clear", "calc", "copy"}
    BY DEF CallbackStores, OneShot, WakeUp, IInv, TypeOK, States
  <2>3. timer' \in BOOLEAN
    BY Zenon DEF CallbackStores
  <2>4. written' \in Nat
    BY DEF CallbackStores, IInv, TypeOK
  <2> QED
    BY <1>4, <1>5, <2>1, <2>2, <2>3, <2>4 DEF IInv, TypeOK, reader
<1>7. PointersInRange' /\ RunningHasMemory' /\ TimerInv'
  BY <1>1, <1>3, <1>5
  DEF CallbackStores, IInv, PointersInRange, RunningHasMemory, TimerInv, Ring,
                    OneShot, Active
<1>8. HoldsUnread'
  <2>1. (base + Used(pread, pwrite) = written)'
    BY <1>1, <1>3, <1>5 DEF CallbackStores, IInv, HoldsUnread, TypeOK, Used
  <2>2. Holds(data, pread, pwrite, base)'
    BY <1>4, <1>5 DEF Holds, Offset, Used
  <2> QED
    BY <2>1, <2>2 DEF HoldsUnread
<1>9. ReaderInv'
  BY <1>1, <1>3, <1>4, <1>5
     DEF CallbackStores, WakeUp, IInv, ReaderInv, reader, Holds, Offset, Used
<1>10. CopyInv'
  <2> SUFFICES ASSUME pc' = "copy" PROVE CopyInv'
    BY DEF CopyInv
  <2>1. pc = "copy"
    BY DEF CallbackStores, WakeUp
  <2>2. ASSUME NEW i \in 0 .. size - 1,
               (pread <= i /\ i < pread + chunk) \/ i < rest
        PROVE  data'[i] = data[i]
    BY <1>1, <1>4, <2>1, <2>2, CopyUnread
  <2>3. chunk + rest <= Used(pread, pwrite')
    BY <1>1, <1>3, <2>1 DEF IInv, CopyInv, TypeOK
  <2> QED
    BY <1>5, <2>1, <2>2, <2>3 DEF IInv, CopyInv, reader, Used
<1> QED
  BY <1>6, <1>7, <1>8, <1>9, <1>10 DEF IInv

\* An overflow empties the ring and leaves an error: only what a reader may be
\* copying at that moment has to stay, and it does.
LEMMA FailsStep ==
  ASSUME IInv, CallbackFails, mem, error = "none",
         data' \in [Slots -> Int], written' \in Nat,
         \A i \in 0 .. size - 1 :
           Offset(pread, i) < Used(pread, pwrite) => data'[i] = data[i]
  PROVE  IInv'
<1>1. /\ UNCHANGED <<oneshot, mem, size, pread, reader, base>>
      /\ pwrite' = pread /\ error' = "EOVERFLOW"
      /\ size > 0 /\ Ring(pread, pread)
  BY RingOfInv DEF CallbackFails, IInv, PointersInRange, Ring
<1>2. TypeOK'
  <2>1. state' \in States /\ pc' \in {"idle", "enter", "loop", "wait", "sleep",
                                     "check", "flush", "clear", "calc", "copy"}
    BY DEF CallbackFails, OneShot, WakeUp, IInv, TypeOK, States
  <2>2. timer' \in BOOLEAN
    BY Zenon DEF CallbackFails
  <2> QED
    BY <1>1, <2>1, <2>2 DEF IInv, TypeOK, reader, Errors
<1>3. PointersInRange' /\ RunningHasMemory' /\ TimerInv' /\ HoldsUnread'
  BY <1>1 DEF CallbackFails, IInv, PointersInRange, RunningHasMemory, TimerInv,
              HoldsUnread, Ring
<1>4. ReaderInv'
  <2>1. Holds(data, pread, pwrite, base)'
    BY <1>1 DEF Holds, Offset, Used, Ring
  <2> QED
    BY <1>1, <2>1 DEF CallbackFails, WakeUp, IInv, ReaderInv, reader
<1>5. CopyInv'
  <2> SUFFICES ASSUME pc' = "copy" PROVE CopyInv'
    BY DEF CopyInv
  <2>1. pc = "copy"
    BY DEF CallbackFails, WakeUp
  <2>2. ASSUME NEW i \in 0 .. size - 1,
               (pread <= i /\ i < pread + chunk) \/ i < rest
        PROVE  data'[i] = data[i]
    BY <2>1, <2>2, CopyUnread
  <2> QED
    BY <1>1, <2>1, <2>2 DEF IInv, CopyInv, reader
<1> QED
  BY <1>2, <1>3, <1>4, <1>5 DEF IInv

\* A section that overflows the ring, in either piece, keeps the invariant.
LEMMA OverflowStep ==
  ASSUME IInv, NEW n1 \in Nat, NEW n2 \in Nat,
         CallbackOverflowFirst(n1, n2) \/ CallbackOverflowSecond(n1, n2)
  PROVE  IInv'
<1>1. written' \in Nat
  BY DEF CallbackOverflowFirst, CallbackOverflowSecond, IInv, TypeOK
<1>2. CASE CallbackOverflowFirst(n1, n2)
  <2>1. /\ CallbackFails /\ mem /\ error = "none"
        /\ data' = data /\ data \in [Slots -> Int]
    BY <1>2 DEF CallbackOverflowFirst, Refused, IInv, TypeOK
  <2> QED
    BY <1>1, <2>1, FailsStep
<1>3. CASE CallbackOverflowSecond(n1, n2)
  <2>1. /\ CallbackFails /\ mem /\ error = "none"
        /\ ~Refused(pread, pwrite, n1)
        /\ data' = Stored(data, pwrite, n1, written)
    BY <1>3 DEF CallbackOverflowSecond
  <2>2. Ring(pread, pwrite)
    BY <2>1, RingOfInv DEF IInv, PointersInRange
  <2>3. n1 = 0 \/ n1 < Free(pread, pwrite)
    BY <2>1, <2>2 DEF Refused, Ring, Free
  <2>4. /\ data' \in [Slots -> Int]
        /\ \A i \in 0 .. size - 1 :
             Offset(pread, i) < Used(pread, pwrite) => data'[i] = data[i]
    BY <2>1, <2>3, StoreStep
  <2> QED
    BY <1>1, <2>1, <2>4, FailsStep
<1> QED
  BY <1>2, <1>3

\* A section dropped behind a pending error keeps the invariant.
LEMMA PendingStep ==
  ASSUME IInv, NEW n1 \in Nat, NEW n2 \in Nat, CallbackPending(n1, n2)
  PROVE  IInv'
<1>1. /\ UNCHANGED <<device, ring, error, reader, base>> /\ error # "none"
      /\ written' \in Nat
  BY DEF CallbackPending, IInv, TypeOK
<1>2. TypeOK'
  BY <1>1 DEF CallbackPending, WakeUp, IInv, TypeOK, device, ring, reader
<1>3. PointersInRange' /\ RunningHasMemory' /\ TimerInv' /\ HoldsUnread'
  BY <1>1 DEF IInv, PointersInRange, RunningHasMemory, TimerInv, HoldsUnread,
              device, ring
<1>4. ReaderInv' /\ CopyInv'
  BY <1>1 DEF CallbackPending, WakeUp, IInv, ReaderInv, CopyInv, Holds, Offset,
              Used, ring, reader
<1> QED
  BY <1>2, <1>3, <1>4 DEF IInv

\* The timeout keeps the invariant.
LEMMA TimeoutStep ==
  ASSUME IInv, Timeout
  PROVE  IInv'
<1>1. /\ UNCHANGED <<oneshot, ring, reader, written, base>>
      /\ error' = "ETIMEDOUT" /\ state' = "TIMEDOUT"
  BY DEF Timeout
<1>2. TypeOK'
  <2>1. timer' \in BOOLEAN
    BY Zenon DEF Timeout
  <2> QED
    BY <1>1, <2>1 DEF Timeout, WakeUp, IInv, TypeOK, ring, reader, States, Errors
<1>3. PointersInRange' /\ RunningHasMemory' /\ TimerInv' /\ HoldsUnread'
  BY <1>1 DEF Timeout, IInv, PointersInRange, RunningHasMemory, TimerInv, Active,
              HoldsUnread, ring
<1>4. ReaderInv' /\ CopyInv'
  BY <1>1 DEF Timeout, WakeUp, IInv, ReaderInv, CopyInv, Holds, Offset,
              Used, ring, reader
<1> QED
  BY <1>1, <1>2, <1>3, <1>4 DEF IInv

\* An empty ring holds everything there is to hold.
LEMMA EmptyRing ==
  ASSUME NEW p \in Nat, NEW n \in Nat, n > 0 => p < n, NEW w \in Nat,
         pread' = p, pwrite' = p, size' = n, base' = w, written' = w
  PROVE  HoldsUnread'
<1>1. Used(pread, pwrite)' = 0
  BY DEF Used
<1>2. ASSUME NEW i \in 0 .. n - 1
      PROVE  ~(Offset(pread, i) < Used(pread, pwrite))'
  BY <1>1, <1>2 DEF Offset
<1>3. (base + Used(pread, pwrite) = written)'
  BY <1>1
<1>4. Holds(data, pread, pwrite, base)'
  BY <1>2 DEF Holds
<1> QED
  BY <1>3, <1>4 DEF HoldsUnread

\* An ioctl finds no read in progress and leaves an empty ring.
LEMMA IoctlStep ==
  ASSUME IInv, pc = "idle", Rewind, UNCHANGED <<error, pc, reader, written>>,
         mem' => size' > 0, RunningHasMemory', TimerInv',
         state' \in States, oneshot' \in BOOLEAN, timer' \in BOOLEAN,
         mem' \in BOOLEAN, data' \in [Slots -> Int], size' \in Sizes
  PROVE  IInv'
<1>1. size' \in Nat
  BY SizesAssumption
<1>2. TypeOK'
  BY DEF Rewind, IInv, TypeOK, reader
<1>3. PointersInRange'
  BY <1>1 DEF Rewind, PointersInRange
<1>4. HoldsUnread'
  <2>1. /\ pread' = 0 /\ pwrite' = 0 /\ base' = written /\ written' = written
        /\ written \in Nat
    BY DEF Rewind, IInv, TypeOK
  <2> QED
    BY <1>1, <2>1, EmptyRing
<1>5. ReaderInv' /\ CopyInv'
  BY DEF ReaderInv, CopyInv
<1> QED
  BY <1>2, <1>3, <1>4, <1>5 DEF IInv

\* DMX_START keeps the invariant.
LEMMA StartStep ==
  ASSUME IInv, NEW once \in BOOLEAN, NEW timeout \in BOOLEAN, Start(once, timeout)
  PROVE  IInv'
<1>1. pc = "idle" /\ UNCHANGED <<error, pc, reader, written>>
  BY DEF Start
<1>2. CASE StartNoMemory
  <2>1. state \notin Active
    BY <1>2 DEF StartNoMemory, IInv, RunningHasMemory
  <2>2. UNCHANGED <<pread, pwrite, base, oneshot, mem, data, size>>
    BY <1>2, <2>1 DEF StartNoMemory
  <2>3. state' = "SET" /\ timer' = FALSE
    BY <1>2 DEF StartNoMemory
  <2>4. TypeOK'
    <3>1. timer' \in BOOLEAN
      BY <2>3, Zenon
    <3> QED
      BY <1>1, <2>2, <2>3, <3>1 DEF IInv, TypeOK, reader, States
  <2> QED
    BY <1>1, <2>2, <2>3, <2>4
       DEF IInv, PointersInRange, RunningHasMemory, TimerInv, HoldsUnread, Holds,
           Offset, Used, ReaderInv, CopyInv, Active
<1>3. CASE StartBuffer /\ ~StartNoMemory
  <2>1. /\ mem' = TRUE /\ Rewind /\ size' = size /\ size' > 0
        /\ size' \in Sizes
    BY <1>3 DEF StartBuffer, IInv, TypeOK, PointersInRange
  <2>2. data' \in [Slots -> Int]
    BY <1>3 DEF StartBuffer, IInv, TypeOK
  <2>3. oneshot' = once /\ (state' = "GO" \/ (state' = "SET" /\ timer' = FALSE))
    BY <1>3 DEF Start
  <2>4. timer' \in BOOLEAN /\ mem' \in BOOLEAN /\ oneshot' \in BOOLEAN
    BY <1>3, Zenon DEF Start, StartBuffer
  <2>5. state' \in States /\ RunningHasMemory' /\ TimerInv'
    BY <2>1, <2>3 DEF States, RunningHasMemory, TimerInv
  <2> QED
    BY <1>1, <2>1, <2>2, <2>4, <2>5, IoctlStep
<1> QED
  BY <1>2, <1>3 DEF Start

\* DMX_STOP keeps the invariant.
LEMMA StopStep ==
  ASSUME IInv, Stop
  PROVE  IInv'
<1>1. /\ pc = "idle" /\ Rewind /\ state' = "SET" /\ timer' = FALSE
      /\ UNCHANGED <<oneshot, mem, data, size, error, pc, reader, written>>
  BY DEF Stop
<1>2. timer' \in BOOLEAN
  BY <1>1, Zenon
<1>3. /\ state' \in States /\ oneshot' \in BOOLEAN /\ mem' \in BOOLEAN
      /\ data' \in [Slots -> Int] /\ size' \in Sizes /\ (mem' => size' > 0)
      /\ RunningHasMemory' /\ TimerInv'
  BY <1>1 DEF IInv, TypeOK, PointersInRange, RunningHasMemory, TimerInv, Active,
              States
<1> QED
  BY <1>1, <1>2, <1>3, IoctlStep

\* DMX_SET_BUFFER_SIZE keeps the invariant.
LEMMA SetBufferSizeStep ==
  ASSUME IInv, NEW n \in Sizes, SetBufferSize(n)
  PROVE  IInv'
<1>1. /\ pc = "idle" /\ Rewind /\ state \notin Active /\ size' = n
      /\ data' = [i \in Slots |-> -1]
      /\ UNCHANGED <<device, error, pc, reader, written>>
  BY DEF SetBufferSize
<1>2. mem' \in BOOLEAN /\ (mem' => size' > 0)
  BY <1>1 DEF SetBufferSize
<1>3. /\ state' \in States /\ oneshot' \in BOOLEAN /\ timer' \in BOOLEAN
      /\ data' \in [Slots -> Int] /\ size' \in Sizes
      /\ RunningHasMemory' /\ TimerInv'
  BY <1>1 DEF IInv, TypeOK, RunningHasMemory, TimerInv, Active, device
<1> QED
  BY <1>1, <1>2, <1>3, IoctlStep

----------------------------------------------------------------------------
(* The steps of read().                                                    *)

\* A step that only moves the process leaves the ring as it is.
LEMMA MoveStep ==
  ASSUME IInv, UNCHANGED <<device, ring, error, chunk, rest, written, base>>,
         TypeOK', ReaderInv', CopyInv'
  PROVE  IInv'
<1>1. PointersInRange' /\ RunningHasMemory' /\ TimerInv' /\ HoldsUnread'
  BY DEF IInv, PointersInRange, RunningHasMemory, TimerInv, HoldsUnread, Holds,
         Offset, Used, device, ring
<1> QED
  BY <1>1 DEF IInv

\* read() is entered.
LEMMA ReadEnterStep ==
  ASSUME IInv, NEW count \in Nat, NEW nb \in BOOLEAN, ReadEnter(count, nb)
  PROVE  IInv'
<1>1. /\ UNCHANGED <<device, ring, error, chunk, rest, k, err, written, base>>
      /\ mem /\ pc' = "enter" /\ todo' = count /\ nonblock' = nb
  BY DEF ReadEnter, Goto
<1>2. TypeOK'
  BY <1>1 DEF IInv, TypeOK, device, ring
<1>3. ReaderInv' /\ CopyInv'
  BY <1>1 DEF ReaderInv, CopyInv, ring
<1> QED
  BY <1>1, <1>2, <1>3, MoveStep

\* read() looks at the error.
LEMMA ReadErrorStep ==
  ASSUME IInv, ReadError
  PROVE  IInv'
<1>1. /\ UNCHANGED <<device, ring, error, todo, nonblock, chunk, rest, k,
                     written, base>>
      /\ pc \in {"enter", "check"} /\ err' = error
      /\ pc' \in {"flush", "calc", "idle", "loop"}
      /\ pc' = "flush" => error # "none"
      /\ pc' = "calc" => error = "none"
  BY DEF ReadError, Goto
<1>2. TypeOK'
  BY <1>1 DEF IInv, TypeOK, device, ring
<1>3. ReaderInv'
  BY <1>1 DEF IInv, ReaderInv, HoldsUnread, Holds, Offset, Used, ring
<1>4. CopyInv'
  BY <1>1 DEF CopyInv
<1> QED
  BY <1>1, <1>2, <1>3, <1>4, MoveStep

\* read() flushes the ring behind an error.
LEMMA ReadFlushStep ==
  ASSUME IInv, ReadFlush
  PROVE  IInv'
<1>1. /\ UNCHANGED <<device, mem, data, size, pread, error, reader, written, base>>
      /\ pwrite' = pread /\ pc = "flush" /\ pc' = "clear" /\ error # "none"
  BY DEF ReadFlush, Goto, IInv, ReaderInv
<1>2. TypeOK'
  BY <1>1 DEF IInv, TypeOK, device, reader
<1>3. PointersInRange' /\ RunningHasMemory' /\ TimerInv' /\ HoldsUnread'
  BY <1>1 DEF IInv, PointersInRange, RunningHasMemory, TimerInv, HoldsUnread,
              device
<1>4. ReaderInv' /\ CopyInv'
  BY <1>1 DEF IInv, ReaderInv, CopyInv
<1> QED
  BY <1>2, <1>3, <1>4 DEF IInv

\* read() clears the error it returns.
LEMMA ReadClearStep ==
  ASSUME IInv, ReadClear
  PROVE  IInv'
<1>1. /\ UNCHANGED <<device, ring, reader, written>>
      /\ error' = "none" /\ base' = written /\ pc = "clear" /\ pc' = "idle"
  BY DEF ReadClear, Goto
<1>2. pwrite = pread
  BY <1>1 DEF IInv, ReaderInv
<1>3. TypeOK'
  BY <1>1 DEF IInv, TypeOK, device, ring, reader, Errors
<1>4. PointersInRange' /\ RunningHasMemory' /\ TimerInv'
  BY <1>1 DEF IInv, PointersInRange, RunningHasMemory, TimerInv, device, ring
<1>5. HoldsUnread'
  <2>1. /\ pread' = pread /\ pwrite' = pread /\ size' = size /\ written' = written
        /\ base' = written /\ pread \in Nat /\ size \in Nat /\ written \in Nat
        /\ size > 0 => pread < size
    BY <1>1, <1>2, SizesAssumption DEF IInv, TypeOK, PointersInRange, ring
  <2> QED
    BY <2>1, EmptyRing
<1>6. ReaderInv' /\ CopyInv'
  BY <1>1 DEF ReaderInv, CopyInv
<1> QED
  BY <1>3, <1>4, <1>5, <1>6 DEF IInv

\* read() tests the condition of its wait.
LEMMA ReadWaitStep ==
  ASSUME IInv, ReadLoop \/ ReadWait \/ ReadInterrupted
  PROVE  IInv'
<1>1. /\ UNCHANGED <<device, ring, error, reader, written, base>>
      /\ pc \in {"loop", "wait", "sleep"}
      /\ pc' \in {"idle", "wait", "check", "sleep"}
      /\ pc' = "sleep" => pread = pwrite /\ error = "none" /\ pc = "wait"
      /\ pc' = "wait" => pc = "loop" /\ ~(nonblock /\ pwrite = pread)
  BY DEF ReadLoop, ReadWait, ReadInterrupted, Goto
<1>2. TypeOK'
  BY <1>1 DEF IInv, TypeOK, device, ring, reader
<1>3. ReaderInv' /\ CopyInv'
  BY <1>1 DEF IInv, ReaderInv, CopyInv, ring, reader
<1> QED
  BY <1>1, <1>2, <1>3, MoveStep DEF reader

\* read() copies one byte.
LEMMA ReadCopyStep ==
  ASSUME IInv, ReadCopy \/ ReadFault
  PROVE  IInv'
<1>1. /\ UNCHANGED <<device, ring, error, todo, nonblock, err, chunk, rest,
                     written, base>>
      /\ pc = "copy" /\ k < chunk /\ k' \in {k, k + 1} /\ pc' \in {"copy", "idle"}
  BY DEF ReadCopy, ReadFault, Goto, reader
<1>2. TypeOK'
  BY <1>1 DEF IInv, TypeOK, device, ring
<1>3. ReaderInv'
  BY <1>1 DEF IInv, ReaderInv, ring
<1>4. CopyInv'
  BY <1>1 DEF IInv, TypeOK, CopyInv, Used, ring
<1> QED
  BY <1>1, <1>2, <1>3, <1>4, MoveStep

\* The copy that is set up covers unread slots, whichever way they wrap.
LEMMA ReadCalcStep ==
  ASSUME IInv, ReadCalc
  PROVE  IInv'
<1> DEFINE used  == Used(pread, pwrite)
           avail == IF used > todo THEN todo ELSE used
           split == IF pwrite < pread THEN size - pread ELSE size
           c     == IF split < avail THEN split ELSE avail
           r     == IF split < avail THEN avail - split ELSE 0
<1>1. /\ UNCHANGED <<device, ring, error, todo, nonblock, err, written, base>>
      /\ pc = "calc" /\ pc' = "copy" /\ k' = 0
      /\ chunk' = c /\ rest' = r
  BY DEF ReadCalc, Goto
<1>2. /\ Ring(pread, pwrite) /\ mem /\ Holds(data, pread, pwrite, base)
      /\ todo \in Nat /\ size \in Nat
  BY <1>1, RingOfInv, SizesAssumption DEF IInv, ReaderInv, PointersInRange, TypeOK
<1>3. /\ used \in 0 .. size - 1 /\ avail \in 0 .. used /\ avail <= todo
      /\ split \in Nat
  BY <1>2, UsedAndFree DEF Ring
<1>4. /\ c \in Nat /\ r \in Nat /\ c + r = avail
      /\ pread + c <= size
      /\ r <= pread
      /\ r > 0 => pread + c = size
  <2> HIDE DEF avail
  <2> QED
    BY <1>2, <1>3 DEF Ring, Used
<1>5. TypeOK'
  BY <1>1, <1>4 DEF IInv, TypeOK, device, ring
<1>6. ReaderInv'
  BY <1>1, <1>2 DEF ReaderInv, ring
<1>7. CopyInv'
  <2>1. ASSUME NEW i \in 0 .. size - 1
        PROVE  /\ pread <= i /\ i < pread + c => data[i] = base + (i - pread)
               /\ i < r => data[i] = base + c + i
    <3>1. Offset(pread, i) < used => data[i] = base + Offset(pread, i)
      BY <1>2 DEF Holds
    <3>2. base \in Nat
      BY DEF IInv, TypeOK
    <3> HIDE DEF used, avail, split, c, r
    <3>3. CASE pread <= i
      <4>1. Offset(pread, i) = i - pread
        BY <1>2, <3>3 DEF Ring, Offset
      <4> QED
        BY <1>2, <1>3, <1>4, <3>1, <3>2, <3>3, <4>1 DEF Ring
    <3>4. CASE i < pread
      <4>1. Offset(pread, i) = i - pread + size
        BY <1>2, <3>4 DEF Ring, Offset
      <4> QED
        BY <1>2, <1>3, <1>4, <3>1, <3>2, <3>4, <4>1 DEF Ring
    <3> QED
      BY <1>2, <3>3, <3>4 DEF Ring
  <2>2. size' = size /\ pread' = pread /\ data' = data /\ base' = base /\ todo' = todo
        /\ Used(pread, pwrite)' = used
    BY <1>1 DEF ring, Used
  <2>3. 0 <= c /\ c + r <= todo /\ c + r <= used
    BY <1>3, <1>4
  <2> HIDE DEF avail, used, split, c, r
  <2> QED
    BY <1>1, <1>4, <2>1, <2>2, <2>3 DEF CopyInv
<1>8. PointersInRange' /\ RunningHasMemory' /\ TimerInv' /\ HoldsUnread'
  BY <1>1 DEF IInv, PointersInRange, RunningHasMemory, TimerInv, HoldsUnread,
              Holds, Offset, Used, device, ring
<1> QED
  BY <1>5, <1>6, <1>7, <1>8 DEF IInv

\* Handing out a chunk moves pread past slots the callback kept its hands off.
LEMMA ReadAdvanceStep ==
  ASSUME IInv, ReadAdvance
  PROVE  IInv'
<1> DEFINE p == IF rest > 0 THEN 0 ELSE Advance(pread, chunk)
           c == IF rest > 0 THEN rest ELSE 0
<1>1. /\ UNCHANGED <<device, mem, data, size, pwrite, error, nonblock, err, written>>
      /\ pc = "copy" /\ k = chunk /\ k' = 0
      /\ todo' = todo - chunk /\ base' = base + chunk
      /\ pread' = p /\ chunk' = c /\ rest' = 0
      /\ pc' = IF rest > 0 THEN "copy" ELSE "loop"
  BY DEF ReadAdvance, Goto
<1>2. /\ Ring(pread, pwrite) /\ size > 0 /\ mem
      /\ todo \in Nat /\ chunk \in Nat /\ rest \in Nat /\ base \in Nat
      /\ written \in Nat
  BY <1>1, RingOfInv DEF IInv, TypeOK, ReaderInv, PointersInRange
<1>3. /\ pread + chunk <= size /\ rest <= pread /\ chunk + rest <= todo
      /\ rest > 0 => pread + chunk = size
      /\ error = "none" => chunk + rest <= Used(pread, pwrite)
      /\ \A i \in 0 .. size - 1 : i < rest => data[i] = base + chunk + i
  BY <1>1 DEF IInv, CopyInv
<1>4. /\ p = IF pread + chunk < size THEN pread + chunk ELSE 0
      /\ Ring(p, pwrite)
      /\ chunk <= Used(pread, pwrite) => Used(p, pwrite) = Used(pread, pwrite) - chunk
  <2>1. /\ Advance(pread, chunk) = IF pread + chunk < size THEN pread + chunk ELSE 0
        /\ Ring(Advance(pread, chunk), pwrite)
        /\ chunk <= Used(pread, pwrite) =>
             Used(Advance(pread, chunk), pwrite) = Used(pread, pwrite) - chunk
    BY <1>2, <1>3, Pop
  <2>2. p = Advance(pread, chunk)
    BY <1>2, <1>3, <2>1 DEF Ring
  <2> QED
    BY <2>1, <2>2
<1>5. Used(pread, pwrite) \in 0 .. size - 1 /\ Used(p, pwrite) \in 0 .. size - 1
  BY <1>2, <1>4, UsedAndFree
<1>6. Used(pread, pwrite)' = Used(p, pwrite)
  BY <1>1 DEF Used
<1> HIDE DEF p
<1>7. TypeOK'
  <2>1. todo - chunk \in Nat /\ base + chunk \in Nat /\ p \in Nat /\ c \in Nat
    BY <1>2, <1>3, <1>4 DEF Ring
  <2> HIDE DEF c
  <2> QED
    BY <1>1, <2>1 DEF IInv, TypeOK, device
<1>8. PointersInRange' /\ RunningHasMemory' /\ TimerInv'
  BY <1>1, <1>2, <1>4
     DEF IInv, PointersInRange, RunningHasMemory, TimerInv, device, Ring
<1>9. HoldsUnread'
  <2> SUFFICES ASSUME error = "none" PROVE HoldsUnread'
    BY <1>1 DEF HoldsUnread
  <2>1. /\ base + Used(pread, pwrite) = written /\ Holds(data, pread, pwrite, base)
        /\ Used(p, pwrite) = Used(pread, pwrite) - chunk
    BY <1>2, <1>3, <1>4, <1>5 DEF IInv, HoldsUnread
  <2>2. base + chunk + Used(p, pwrite) = written
    BY <1>2, <1>5, <2>1
  <2>3. ASSUME NEW i \in 0 .. size - 1, Offset(p, i) < Used(p, pwrite)
        PROVE  data[i] = base + chunk + Offset(p, i)
    <3>1. Offset(pread, i) = Offset(p, i) + chunk
      BY <1>2, <1>3, <1>4, <1>5, <2>1, <2>3 DEF Ring, Offset, Used
    <3>2. Offset(pread, i) < Used(pread, pwrite)
      BY <1>2, <1>4, <1>5, <2>1, <2>3, <3>1 DEF Ring, Offset
    <3> QED
      BY <1>2, <1>4, <2>1, <3>1, <3>2 DEF Holds, Ring, Offset
  <2>4. Holds(data, p, pwrite, base + chunk)
    BY <2>3 DEF Holds
  <2>5. Holds(data, pread, pwrite, base)'
    BY <1>1, <2>4 DEF Holds, Offset, Used
  <2> QED
    BY <1>1, <1>6, <2>2, <2>5 DEF HoldsUnread
<1>10. ReaderInv'
  BY <1>1, <1>2 DEF ReaderInv
<1>11. CopyInv'
  <2> SUFFICES ASSUME rest > 0 PROVE CopyInv'
    BY <1>1 DEF CopyInv
  <2>1. p = 0 /\ c = rest
    BY <1>2, <1>3, <1>4 DEF Ring
  <2>2. /\ rest <= size /\ rest <= todo - chunk /\ 0 <= rest
        /\ \A i \in 0 .. size - 1 : i < rest => data[i] = base + chunk + (i - 0)
        /\ error = "none" => rest <= Used(p, pwrite)
    BY <1>2, <1>3, <1>4, <1>5 DEF Ring
  <2> HIDE DEF c
  <2>3. /\ pread' = 0 /\ chunk' = rest /\ rest' = 0 /\ k' = 0 /\ todo' = todo - chunk
        /\ base' = base + chunk /\ data' = data /\ size' = size /\ error' = error
        /\ Used(pread, pwrite)' = Used(p, pwrite)
    BY <1>1, <1>6, <2>1
  <2> QED
    BY <1>2, <2>2, <2>3 DEF CopyInv
<1> QED
  BY <1>7, <1>8, <1>9, <1>10, <1>11 DEF IInv

----------------------------------------------------------------------------
(* The theorems.                                                           *)

\* The empty ring satisfies the invariant.
LEMMA InitInv ==
  Init => IInv
<1> SUFFICES ASSUME Init PROVE IInv
  OBVIOUS
<1>1. size \in Nat /\ size > 0 /\ size \in Sizes
  BY SizesAssumption DEF Init
<1>2. TypeOK
  <2>1. oneshot \in BOOLEAN /\ timer \in BOOLEAN /\ mem \in BOOLEAN
        /\ nonblock \in BOOLEAN
    BY Zenon DEF Init
  <2> QED
    BY <1>1, <2>1 DEF Init, TypeOK, States, Errors
<1>3. PointersInRange /\ RunningHasMemory /\ TimerInv
  BY <1>1 DEF Init, PointersInRange, RunningHasMemory, TimerInv, Active
<1>4. HoldsUnread /\ ReaderInv /\ CopyInv
  BY <1>1 DEF Init, HoldsUnread, Holds, Offset, Used, ReaderInv, CopyInv
<1> QED
  BY <1>2, <1>3, <1>4 DEF IInv

\* Every step keeps the invariant.
LEMMA NextInv ==
  IInv /\ [Next]_vars => IInv'
<1> SUFFICES ASSUME IInv, [Next]_vars PROVE IInv'
  OBVIOUS
<1>1. ASSUME NEW n1 \in 0 .. MaxLen, NEW n2 \in 0 .. MaxLen, SectionCallback(n1, n2)
      PROVE  IInv'
  <2>1. n1 \in Nat /\ n2 \in Nat
    BY BoundsAssumption
  <2> QED
    BY <1>1, <2>1, PendingStep, OverflowStep, StoresStep DEF SectionCallback
<1>2. ASSUME NEW count \in 1 .. MaxCount, NEW nb \in BOOLEAN, ReadEnter(count, nb)
      PROVE  IInv'
  <2>1. count \in Nat
    BY BoundsAssumption
  <2> QED
    BY <1>2, <2>1, ReadEnterStep
<1>3. CASE ReadStep
  BY <1>3, ReadErrorStep, ReadFlushStep, ReadClearStep, ReadWaitStep, ReadCalcStep,
     ReadCopyStep, ReadAdvanceStep DEF ReadStep
<1>4. CASE UNCHANGED vars
  BY <1>4 DEF vars, device, ring, reader, IInv, TypeOK, PointersInRange,
              RunningHasMemory, TimerInv, HoldsUnread, Holds, Offset, Used,
              ReaderInv, CopyInv
<1> QED
  BY <1>1, <1>2, <1>3, <1>4, TimeoutStep, StartStep, StopStep, SetBufferSizeStep,
     ReadWaitStep, ReadCopyStep DEF Next

\* The inductive invariant holds in every reachable state.
THEOREM Invariance == Spec => []IInv
<1>1. Init => IInv
  BY InitInv
<1>2. IInv /\ [Next]_vars => IInv'
  BY NextInv
<1> QED
  BY <1>1, <1>2, PTL DEF Spec

\* Whatever the sizes of the buffer, of the sections and of the reads: read()
\* hands out the stream byte by byte, never a byte the callback overwrote.
THEOREM CopiesNextByteAlways == Spec => []CopiesNextByte
<1>1. IInv => CopiesNextByte
  <2> SUFFICES ASSUME IInv, pc = "copy", k < chunk
               PROVE  data[pread + k] = base + k
    BY DEF CopiesNextByte
  <2>1. /\ pread \in Nat /\ k \in Nat /\ chunk \in Nat /\ size \in Nat
        /\ base \in Nat /\ pread + chunk <= size
        /\ \A i \in 0 .. size - 1 :
             pread <= i /\ i < pread + chunk => data[i] = base + (i - pread)
    BY SizesAssumption DEF IInv, TypeOK, CopyInv
  <2>2. pread + k \in 0 .. size - 1 /\ (pread + k) - pread = k
    BY <2>1
  <2> QED
    BY <2>1, <2>2
<1> QED
  BY <1>1, Invariance, PTL

\* read() never copies from outside the buffer.
THEOREM CopiesInsideAlways == Spec => []CopiesInside
<1>1. IInv => CopiesInside
  BY DEF IInv, CopyInv, ReaderInv, CopiesInside
<1> QED
  BY <1>1, Invariance, PTL

\* Nothing that was accepted is lost, reordered or duplicated in the ring.
THEOREM HoldsUnreadAlways == Spec => []HoldsUnread
<1>1. IInv => HoldsUnread
  BY DEF IInv
<1> QED
  BY <1>1, Invariance, PTL

\* No wake-up is lost between the reader's test and its sleep.
THEOREM NoLostWakeupAlways == Spec => []NoLostWakeup
<1>1. IInv => NoLostWakeup
  BY DEF IInv, ReaderInv, NoLostWakeup
<1> QED
  BY <1>1, Invariance, PTL

\* A non-blocking read never sleeps.
THEOREM NonblockNeverSleepsAlways == Spec => []NonblockNeverSleeps
<1>1. IInv => NonblockNeverSleeps
  BY DEF IInv, ReaderInv, NonblockNeverSleeps
<1> QED
  BY <1>1, Invariance, PTL

\* A running filter has memory for its sections.
THEOREM RunningHasMemoryAlways == Spec => []RunningHasMemory
<1>1. IInv => RunningHasMemory
  BY DEF IInv
<1> QED
  BY <1>1, Invariance, PTL

\* The variables keep their types.
THEOREM TypeCorrect == Spec => []TypeOK
<1>1. IInv => TypeOK
  BY DEF IInv
<1> QED
  BY <1>1, Invariance, PTL
=============================================================================
