------------------------------- MODULE GtCore -------------------------------
(***************************************************************************)
(* avia_gt_core.c: the AViA GTX/eNX driver is loaded in stages, each of    *)
(* which may fail, and unloaded from the last stage to the first; its one  *)
(* interrupt is dispatched to the handlers of the units.                   *)
(* Interrupts are numbered; RegOf is the status register of each.  The     *)
(* watchdog thread, which nothing stops, is left out.                      *)
(***************************************************************************)
EXTENDS Integers, Sequences, FiniteSets, TLAPS

CONSTANTS
  Units,      \* the sequence of units the build configures
  Irqs,       \* interrupts of the chip: a set of numbers
  Regs,       \* status registers: 1 .. Regs
  MaxLoads    \* bound: how often the module is loaded

VARIABLES
  module,      \* what init or exit is about to do: [at, stage], and how often it was loaded
  init_state,
  held,        \* stages whose resources are held
  gt_isr_proc_list, unmasked,   \* interrupts with a handler; interrupts that are not masked
  status,      \* interrupts whose status bit is set
  cpu,         \* avia_gt_irq: [at, reg, seen, mask, bit]
  unserved,    \* history: interrupts with an event that no handler has run for
  late         \* history: interrupts whose last event came after the handler, before the clear

vars == <<module, init_state, held, gt_isr_proc_list, unmasked, status, cpu, unserved, late>>

Stages == <<"info", "reg", "regmap", "mem", "memmap", "irq", "chip">> \o Units
RegOf(i) == 1 + (i % Regs)
Idle == [at |-> "idle", reg |-> 0, seen |-> {}, mask |-> {}, bit |-> 0]
NoBit == 0 - 1

TypeOK ==
  /\ init_state \in 0 .. Len(Stages) /\ held \subseteq 1 .. Len(Stages)
  /\ module.at \in {"out", "init", "in", "exit"}
  /\ gt_isr_proc_list \subseteq Irqs /\ unmasked \subseteq Irqs /\ status \subseteq Irqs
  /\ cpu.at \in {"idle", "sample", "bits", "clear"} /\ cpu.seen \subseteq Irqs

Init ==
  /\ module = [at |-> "out", stage |-> 0, loads |-> 0]
  /\ init_state = 0 /\ held = {}
  /\ gt_isr_proc_list = {} /\ unmasked = {} /\ status = {} /\ cpu = Idle
  /\ unserved = {} /\ late = {}

irqState == <<gt_isr_proc_list, unmasked, status, cpu, unserved, late>>
InProcess == cpu = Idle

----------------------------------------------------------------------------
(* Loading and unloading.                                                  *)

Load ==
  /\ InProcess /\ module.at = "out" /\ module.loads < MaxLoads
  /\ module' = [at |-> "init", stage |-> 1, loads |-> module.loads + 1]
  /\ init_state' = 0 /\ held' = {}
  /\ gt_isr_proc_list' = {} /\ UNCHANGED <<unmasked, status, cpu, unserved, late>>

\* Stage number n succeeds; enx_irq_enable clears and masks all interrupts.
Acquire ==
  LET n == module.stage IN
  /\ InProcess /\ module.at = "init"
  /\ held' = held \cup {n} /\ init_state' = n
  /\ module' = IF n = Len(Stages) THEN [module EXCEPT !.at = "in"]
               ELSE [module EXCEPT !.stage = n + 1]
  /\ IF Stages[n] = "chip"
       THEN status' = {} /\ unmasked' = {} /\ unserved' = {} /\ late' = {}
       ELSE UNCHANGED <<status, unmasked, unserved, late>>
  /\ UNCHANGED <<gt_isr_proc_list, cpu>>

\* It fails: avia_gt_exit.  The chip's own set-up returns nothing and cannot fail.
AcquireFails ==
  /\ InProcess /\ module.at = "init" /\ Stages[module.stage] # "chip"
  /\ module' = [module EXCEPT !.at = "exit", !.stage = Len(Stages)]
  /\ UNCHANGED <<init_state, held>> /\ UNCHANGED irqState

Unload ==
  /\ InProcess /\ module.at = "in"
  /\ module' = [module EXCEPT !.at = "exit", !.stage = Len(Stages)]
  /\ UNCHANGED <<init_state, held>> /\ UNCHANGED irqState

\* Wrong variant: a stage is released when the one before it was reached.
ReachedEarly(n) == init_state >= n - 1

Reached(n) == init_state >= n

\* avia_gt_exit goes down the stages; the chip's exit masks all interrupts.
Release ==
  LET n == module.stage IN
  /\ InProcess /\ module.at = "exit"
  /\ module' = IF n = 1 THEN [module EXCEPT !.at = "out", !.stage = 0]
               ELSE [module EXCEPT !.stage = n - 1]
  /\ held' = IF Reached(n) THEN (IF n \in held THEN held \ {n} ELSE held \cup {0 - n}) ELSE held
  /\ unmasked' = IF Reached(n) /\ Stages[n] = "chip" THEN {} ELSE unmasked
  /\ UNCHANGED <<init_state, gt_isr_proc_list, status, cpu, unserved, late>>

----------------------------------------------------------------------------
(* Handlers.                                                               *)

ChipUp == 7 \in held

\* Units and their users take and give up interrupts while the chip is set up.
AllocIrq(i) ==
  /\ InProcess /\ ChipUp /\ i \notin gt_isr_proc_list
  /\ gt_isr_proc_list' = gt_isr_proc_list \cup {i}
  /\ unmasked' = unmasked \cup {i}
  /\ status' = status \ {i} /\ unserved' = unserved \ {i} /\ late' = late \ {i}
  /\ UNCHANGED <<module, init_state, held, cpu>>

FreeIrq(i) ==
  /\ InProcess /\ ChipUp /\ i \in gt_isr_proc_list
  /\ gt_isr_proc_list' = gt_isr_proc_list \ {i}
  /\ unmasked' = unmasked \ {i}
  /\ UNCHANGED <<module, init_state, held, status, cpu, unserved, late>>

\* An event in the chip.
Raise(i) ==
  /\ ChipUp
  /\ status' = status \cup {i}
  /\ unserved' = unserved \cup {i}
  /\ late' = IF cpu.at = "clear" /\ cpu.bit = i THEN late \cup {i} ELSE late \ {i}
  /\ UNCHANGED <<module, init_state, held, gt_isr_proc_list, unmasked, cpu>>

Interrupt ==
  /\ InProcess /\ 6 \in held /\ status \cap unmasked # {}
  /\ cpu' = [Idle EXCEPT !.at = "sample", !.reg = 1]
  /\ UNCHANGED <<module, init_state, held, gt_isr_proc_list, unmasked, status, unserved, late>>

\* Mask and status of a register are read once.
Sample ==
  /\ cpu.at = "sample"
  /\ cpu' = [cpu EXCEPT !.at = "bits", !.mask = unmasked, !.bit = NoBit,
                        !.seen = {i \in status : RegOf(i) = cpu.reg}]
  /\ UNCHANGED <<module, init_state, held, gt_isr_proc_list, unmasked, status, unserved, late>>

\* The next bit that was set: its handler runs, or the interrupt is masked.
HandleBit(i) ==
  /\ cpu.at = "bits" /\ i \in cpu.seen /\ \A j \in cpu.seen : i <= j
  /\ cpu' = [cpu EXCEPT !.at = "clear", !.bit = i, !.seen = @ \ {i}]
  /\ IF i \in gt_isr_proc_list
       THEN unserved' = unserved \ {i} /\ UNCHANGED unmasked
       ELSE /\ unmasked' = IF i \in cpu.mask THEN unmasked \ {i} ELSE unmasked
            /\ UNCHANGED unserved
  /\ UNCHANGED <<module, init_state, held, gt_isr_proc_list, status, late>>

\* Wrong variant: the whole register is cleared.
ClearedAll == {i \in Irqs : RegOf(i) = cpu.reg}

Cleared == {cpu.bit}

ClearBit ==
  /\ cpu.at = "clear"
  /\ status' = status \ Cleared
  /\ cpu' = [cpu EXCEPT !.at = "bits", !.bit = NoBit]
  /\ UNCHANGED <<module, init_state, held, gt_isr_proc_list, unmasked, unserved, late>>

NextReg ==
  /\ cpu.at = "bits" /\ cpu.seen = {}
  /\ cpu' = IF cpu.reg = Regs THEN Idle ELSE [Idle EXCEPT !.at = "sample", !.reg = cpu.reg + 1]
  /\ UNCHANGED <<module, init_state, held, gt_isr_proc_list, unmasked, status, unserved, late>>

Next ==
  \/ Load \/ Acquire \/ AcquireFails \/ Unload \/ Release
  \/ \E i \in Irqs : AllocIrq(i) \/ FreeIrq(i) \/ Raise(i) \/ HandleBit(i)
  \/ Interrupt \/ Sample \/ ClearBit \/ NextReg

Spec == Init /\ [][Next]_vars

----------------------------------------------------------------------------

\* At every moment of a load, of one that fails and of an unload, a stage is held only with
\* all stages below it, none is released that was not held, and nothing is held outside.
HeldInOrder ==
  /\ \A n \in held : n > 0 /\ \A m \in 1 .. n : m \in held
  /\ module.at = "out" => held = {}

\* An event of an interrupt with a handler is served or still shows in the status register,
\* unless it came in the gap between the run of its handler and the clear.
NoneOverlooked == \A i \in unserved \cap gt_isr_proc_list : i \in status \cup late

----------------------------------------------------------------------------
(* Both, for any sequence of units, any interrupts and any registers.      *)

\* Where a load or an unload is, and how far the load had come, tells exactly what is held.
HeldExactly ==
  /\ module.at = "out" => held = {}
  /\ module.at = "in" => held = 1 .. Len(Stages) /\ init_state = Len(Stages)
  /\ module.at = "init" => /\ module.stage \in 1 .. Len(Stages)
                           /\ init_state = module.stage - 1
                           /\ held = 1 .. init_state
  /\ module.at = "exit" => /\ module.stage \in 1 .. Len(Stages)
                           /\ held = {n \in 1 .. init_state : n <= module.stage}

ModuleOK == module \in [at : {"out", "init", "in", "exit"}, stage : Int, loads : Int]

CpuOK == cpu \in [at : {"idle", "sample", "bits", "clear"}, reg : Int,
                  seen : SUBSET Irqs, mask : SUBSET Irqs, bit : Int]

\* The bit that is about to be cleared has no event its handler still has to see, but a late one.
ClearsServed ==
  cpu.at = "clear" /\ cpu.bit \in unserved \cap gt_isr_proc_list => cpu.bit \in late

CoreInv ==
  /\ TypeOK /\ ModuleOK /\ CpuOK
  /\ unserved \subseteq Irqs /\ late \subseteq Irqs
  /\ HeldExactly
  /\ NoneOverlooked /\ ClearsServed

LEMMA StagesCount ==
  ASSUME Units \in Seq(STRING)
  PROVE  Len(Stages) \in Nat /\ Len(Stages) >= 7
  BY DEF Stages

LEMMA CoreInit ==
  ASSUME Units \in Seq(STRING), Init
  PROVE  CoreInv
  <1>1. Len(Stages) \in Nat /\ Len(Stages) >= 7
    BY StagesCount
  <1> QED BY <1>1 DEF Init, CoreInv, TypeOK, ModuleOK, CpuOK, HeldExactly, NoneOverlooked, ClearsServed,
                     Idle, NoBit

\* The steps of a load and an unload, which leave the processor's dispatcher alone.
LEMMA StagesStep ==
  ASSUME Units \in Seq(STRING), CoreInv, Load \/ Acquire \/ AcquireFails \/ Unload \/ Release
  PROVE  /\ ModuleOK' /\ HeldExactly'
         /\ init_state' \in 0 .. Len(Stages) /\ held' \subseteq 1 .. Len(Stages)
  <1> DEFINE N == Len(Stages)
  <1>0. /\ N \in Nat /\ N >= 7
        /\ ModuleOK /\ HeldExactly /\ init_state \in 0 .. N /\ held \subseteq 1 .. N
    BY StagesCount DEF CoreInv, TypeOK
  <1>a. ModuleOK /\ N \in Int
    BY <1>0
  <1>1. CASE Load
    BY <1>0, <1>1 DEF Load, ModuleOK, HeldExactly
  <1>2. CASE Acquire
    <2>1. /\ module.stage \in 1 .. N /\ init_state = module.stage - 1 /\ held = 1 .. init_state
          /\ held' = held \cup {module.stage} /\ init_state' = module.stage
      BY <1>0, <1>2 DEF Acquire, HeldExactly
    <2>2. held' = 1 .. init_state'
      BY <2>1
    <2>3. CASE module.stage = N
      BY <1>0, <1>2, <2>1, <2>2, <2>3 DEF Acquire, ModuleOK, HeldExactly
    <2>4. CASE module.stage # N
      <3>1. module' = [module EXCEPT !.stage = module.stage + 1]
        BY <1>2, <2>4 DEF Acquire
      <3>2. module'.at = "init" /\ module'.stage = module.stage + 1 /\ ModuleOK'
        BY <1>0, <1>2, <2>1, <3>1 DEF Acquire, ModuleOK
      <3> QED BY <1>0, <2>1, <2>2, <2>4, <3>2 DEF HeldExactly
    <2> QED BY <2>3, <2>4
  <1>3. CASE AcquireFails \/ Unload
    <2>1. /\ module' = [module EXCEPT !.at = "exit", !.stage = N]
          /\ UNCHANGED <<init_state, held>>
          /\ module.at \in {"init", "in"}
      BY <1>3 DEF AcquireFails, Unload
    <2>2. module'.at = "exit" /\ module'.stage = N /\ ModuleOK'
      <3> HIDE DEF N
      <3> QED BY <1>a, <2>1 DEF ModuleOK
    <2>3. held = 1 .. init_state
      BY <1>0, <2>1 DEF HeldExactly
    <2>4. held = {n \in 1 .. init_state : n <= N}
      BY <1>0, <2>3
    <2> QED BY <1>0, <2>1, <2>2, <2>4 DEF HeldExactly
  <1>4. CASE Release
    <2> DEFINE n == module.stage
    <2>1. /\ n \in 1 .. N /\ held = {m \in 1 .. init_state : m <= n}
          /\ init_state' = init_state
      BY <1>0, <1>4 DEF Release, HeldExactly
    <2>2. held' = {m \in 1 .. init_state : m <= n - 1}
      <3>1. CASE init_state >= n
        <4>1. n \in held
          BY <1>0, <2>1, <3>1
        <4>2. held' = held \ {n}
          BY <1>4, <3>1, <4>1 DEF Release, Reached
        <4> QED BY <1>0, <2>1, <4>2
      <3>2. CASE ~(init_state >= n)
        <4>1. held' = held
          BY <1>4, <3>2 DEF Release, Reached
        <4> QED BY <1>0, <2>1, <3>2, <4>1
      <3> QED BY <3>1, <3>2
    <2>3. held' \subseteq 1 .. N
      BY <1>0, <2>2
    <2>4. CASE n = 1
      <3>1. held' = {}
        BY <2>2, <2>4, <1>0
      <3>2. module' = [module EXCEPT !.at = "out", !.stage = 0]
        BY <1>4, <2>4 DEF Release
      <3>3. module'.at = "out" /\ ModuleOK'
        <4>1. module' = [at |-> "out", stage |-> 0, loads |-> module.loads] /\ module.loads \in Int
          BY <1>a, <3>2 DEF ModuleOK
        <4> QED BY <4>1 DEF ModuleOK
      <3> QED BY <1>0, <2>1, <3>1, <3>3 DEF HeldExactly
    <2>5. CASE n # 1
      <3>1. module' = [module EXCEPT !.stage = n - 1] /\ module.at = "exit"
        BY <1>4, <2>5 DEF Release
      <3>2. module'.at = "exit" /\ module'.stage = n - 1 /\ ModuleOK'
        BY <1>0, <2>1, <3>1 DEF ModuleOK
      <3>3. n - 1 \in 1 .. N
        BY <1>0, <2>1, <2>5
      <3> QED BY <1>0, <2>1, <2>2, <2>3, <3>2, <3>3 DEF HeldExactly
    <2> QED BY <2>4, <2>5
  <1> QED BY <1>1, <1>2, <1>3, <1>4

LEMMA CoreNext ==
  ASSUME Units \in Seq(STRING), Irqs \subseteq Int, Regs \in Int, CoreInv, [Next]_vars
  PROVE  CoreInv'
  <1> USE DEF CoreInv, TypeOK
  <1>1. CASE Load \/ Acquire \/ AcquireFails \/ Unload \/ Release
    <2>1. /\ ModuleOK' /\ HeldExactly'
          /\ init_state' \in 0 .. Len(Stages) /\ held' \subseteq 1 .. Len(Stages)
      BY <1>1, StagesStep
    <2>2. UNCHANGED cpu /\ cpu.at = "idle"
      BY <1>1 DEF Load, Acquire, AcquireFails, Unload, Release, InProcess, Idle, irqState
    <2>3. /\ gt_isr_proc_list' \subseteq gt_isr_proc_list /\ unmasked' \subseteq unmasked
          /\ \/ UNCHANGED <<status, unserved, late>>
             \/ status' = {} /\ unserved' = {} /\ late' = {}
      BY <1>1 DEF Load, Acquire, AcquireFails, Unload, Release, irqState
    <2>4. NoneOverlooked' /\ ClearsServed'
      BY <2>2, <2>3 DEF NoneOverlooked, ClearsServed
    <2> QED BY <2>1, <2>2, <2>3, <2>4 DEF CpuOK, ModuleOK
  <1>2. ASSUME NEW i \in Irqs, AllocIrq(i) \/ FreeIrq(i) \/ Raise(i) \/ HandleBit(i)
        PROVE  CoreInv'
    <2>1. UNCHANGED <<module, init_state, held>>
      BY <1>2 DEF AllocIrq, FreeIrq, Raise, HandleBit
    <2>2. ModuleOK' /\ HeldExactly'
      BY <2>1 DEF ModuleOK, HeldExactly
    <2>3. CASE AllocIrq(i) \/ FreeIrq(i)
      <3>1. UNCHANGED cpu /\ cpu.at = "idle"
        BY <2>3 DEF AllocIrq, FreeIrq, InProcess, Idle
      <3> QED BY <2>1, <2>2, <2>3, <3>1 DEF AllocIrq, FreeIrq, NoneOverlooked, ClearsServed, CpuOK
    <2>4. CASE Raise(i)
      BY <2>1, <2>2, <2>4 DEF Raise, NoneOverlooked, ClearsServed, CpuOK
    <2>5. CASE HandleBit(i)
      <3>1. cpu'.at = "clear" /\ cpu'.bit = i /\ CpuOK'
        BY <2>5 DEF HandleBit, CpuOK
      <3>2. CASE i \in gt_isr_proc_list
        BY <2>1, <2>2, <2>5, <3>1, <3>2 DEF HandleBit, NoneOverlooked, ClearsServed, CpuOK
      <3>3. CASE i \notin gt_isr_proc_list
        BY <2>1, <2>2, <2>5, <3>1, <3>3 DEF HandleBit, NoneOverlooked, ClearsServed, CpuOK
      <3> QED BY <3>2, <3>3
    <2> QED BY <1>2, <2>3, <2>4, <2>5
  <1>3. CASE Interrupt \/ Sample \/ NextReg
    <2>1. UNCHANGED <<module, init_state, held, gt_isr_proc_list, unmasked, status, unserved, late>>
      BY <1>3 DEF Interrupt, Sample, NextReg
    <2>2. CpuOK' /\ cpu'.at # "clear"
      <3>1. CASE Interrupt
        <4>1. cpu' = [Idle EXCEPT !.at = "sample", !.reg = 1]
          BY <3>1 DEF Interrupt
        <4>2. cpu' = [at |-> "sample", reg |-> 1, seen |-> {}, mask |-> {}, bit |-> 0]
          BY <4>1 DEF Idle
        <4> QED BY <4>2 DEF CpuOK
      <3>2. CASE Sample
        <4> DEFINE seen == {i \in status : RegOf(i) = cpu.reg}
        <4>1. status \subseteq Irqs /\ unmasked \in SUBSET Irqs
          OBVIOUS
        <4>3. seen \in SUBSET Irqs
          BY <4>1
        <4>4. NoBit \in Int
          BY DEF NoBit
        <4>5. CpuOK
          OBVIOUS
        <4>2. cpu' = [cpu EXCEPT !.at = "bits", !.mask = unmasked, !.bit = NoBit, !.seen = seen]
          BY <3>2, Zenon DEF Sample
        <4> HIDE DEF seen
        <4> QED BY <4>1, <4>2, <4>3, <4>4, <4>5 DEF CpuOK
      <3>3. CASE NextReg
        <4>1. CASE cpu.reg = Regs
          <5>1. cpu' = [at |-> "idle", reg |-> 0, seen |-> {}, mask |-> {}, bit |-> 0]
            BY <3>3, <4>1 DEF NextReg, Idle
          <5> QED BY <5>1 DEF CpuOK
        <4>2. CASE cpu.reg # Regs
          <5>1. cpu' = [Idle EXCEPT !.at = "sample", !.reg = cpu.reg + 1]
            BY <3>3, <4>2 DEF NextReg
          <5>2. cpu' = [at |-> "sample", reg |-> cpu.reg + 1, seen |-> {}, mask |-> {}, bit |-> 0]
            BY <5>1 DEF Idle
          <5>3. cpu.reg + 1 \in Int
            BY DEF CpuOK
          <5> QED BY <5>2, <5>3 DEF CpuOK
        <4> QED BY <4>1, <4>2
      <3> QED BY <1>3, <3>1, <3>2, <3>3
    <2> QED BY <2>1, <2>2 DEF NoneOverlooked, ClearsServed, ModuleOK, HeldExactly, CpuOK
  <1>4. CASE ClearBit
    <2>1. CpuOK' /\ cpu'.at = "bits" /\ cpu.at = "clear"
      <3>1. /\ cpu' = [cpu EXCEPT !.at = "bits", !.bit = NoBit]
            /\ cpu.at = "clear" /\ CpuOK /\ NoBit \in Int
        BY <1>4 DEF ClearBit, NoBit
      <3> QED BY <3>1 DEF CpuOK
    <2>2. status' = status \ {cpu.bit}
      BY <1>4 DEF ClearBit, Cleared
    <2>3. UNCHANGED <<module, init_state, held, gt_isr_proc_list, unmasked, unserved, late>>
      BY <1>4 DEF ClearBit
    <2>4. NoneOverlooked'
      BY <2>1, <2>2, <2>3 DEF NoneOverlooked, ClearsServed
    <2> QED BY <2>1, <2>2, <2>3, <2>4 DEF ClearsServed, ModuleOK, HeldExactly, CpuOK
  <1>5. CASE UNCHANGED vars
    BY <1>5 DEF vars, NoneOverlooked, ClearsServed, ModuleOK, HeldExactly, CpuOK
  <1> QED BY <1>1, <1>2, <1>3, <1>4, <1>5 DEF Next

\* Whatever stage of a load fails, and however the driver is unloaded, avia_gt_exit releases
\* what was acquired, in order and nothing else, and the dispatcher of avia_gt_irq overlooks
\* no event but one that comes between its handler and its clear.
THEOREM CoreSound ==
  ASSUME Units \in Seq(STRING), Irqs \subseteq Int, Regs \in Int
  PROVE  Spec => [](TypeOK /\ HeldInOrder /\ NoneOverlooked)
  <1>1. Init => CoreInv
    BY CoreInit
  <1>2. CoreInv /\ [Next]_vars => CoreInv'
    BY CoreNext
  <1>3. CoreInv => HeldInOrder
    <2> SUFFICES ASSUME CoreInv PROVE HeldInOrder
      OBVIOUS
    <2>1. Len(Stages) \in Nat /\ HeldExactly /\ ModuleOK /\ init_state \in 0 .. Len(Stages)
      BY StagesCount DEF CoreInv, TypeOK
    <2>2. CASE module.at = "out"
      BY <2>1, <2>2 DEF HeldExactly, HeldInOrder
    <2>3. CASE module.at \in {"in", "init"}
      <3>1. held = 1 .. init_state
        BY <2>1, <2>3 DEF HeldExactly
      <3> QED BY <2>1, <2>3, <3>1 DEF HeldInOrder
    <2>4. CASE module.at = "exit"
      <3>1. /\ module.stage \in 1 .. Len(Stages)
            /\ held = {n \in 1 .. init_state : n <= module.stage}
        BY <2>1, <2>4 DEF HeldExactly
      <3> QED BY <2>1, <2>4, <3>1 DEF HeldInOrder
    <2> QED BY <2>1, <2>2, <2>3, <2>4 DEF ModuleOK
  <1>4. CoreInv => TypeOK /\ NoneOverlooked
    BY DEF CoreInv
  <1> QED BY <1>1, <1>2, <1>3, <1>4, PTL DEF Spec
=============================================================================
