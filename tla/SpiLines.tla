------------------------------ MODULE SpiLines ------------------------------
(***************************************************************************)
(* How the memory card drivers move bits over the lines of two ports.      *)
(* Port B has the clock, port A or B the data line to the card.  A routine *)
(* is the order in which it writes the ports for a bit, and whether it     *)
(* works on values of the ports it has read before the first bit.  Others  *)
(* write lines of the same ports from interrupts.                          *)
(***************************************************************************)
EXTENDS Integers, Sequences, FiniteSets

CONSTANTS
  Width,        \* bits of a byte
  MaxTransfers, MaxOthers   \* bounds

VARIABLES
  port,          \* per port, the lines that are high
  routine, out,  \* the transfer: its routine; the bits to send
  held, fresh,   \* the values of the ports the routine works on; the one it has just read
  at, bit,       \* place in the routine; number of the bit
  card, latched, received,  \* bits the card sends; bits it has taken; bits the driver has taken
  others, transfers,        \* bounds
  kept, overtaken           \* history: the lines of the others; they wrote while a value was held

vars == <<port, routine, out, held, fresh, at, bit, card, latched, received, others, transfers,
          kept, overtaken>>

Nothing == [port |-> "none", lines |-> {}]

\* "first" comes before the bits, "last" after them.  "di" puts the bit on the line, "one" a one;
\* "low" puts it there and lowers the clock, in one write.
Io(data) == [data |-> data, cached |-> {}, first |-> <<>>, step |-> <<"di", "up", "sample", "down">>, last |-> <<>>]
WriteSlow == [data |-> "A", cached |-> {}, first |-> <<>>, step |-> <<"di", "up", "down">>, last |-> <<>>]
WriteHalf == [WriteSlow EXCEPT !.cached = {"B"}]
WriteCached == [WriteSlow EXCEPT !.cached = {"A", "B"}]
\* The data line is never lowered, so it has to be low before.
WriteOr == [WriteCached EXCEPT !.step = <<"or", "up", "down">>]
WriteB == [data |-> "B", cached |-> {"B"}, first |-> <<>>, step |-> <<"low", "up">>, last |-> <<"rest">>]
ReadSlow == [data |-> "A", cached |-> {}, first |-> <<"one">>, step |-> <<"up", "sample", "down">>, last |-> <<>>]
ReadCached == [ReadSlow EXCEPT !.cached = {"B"}]
\* The data line is on the clock's port and is set in the values that are held as well.
ReadB == [ReadCached EXCEPT !.data = "B"]
\* Variants that put the bits together in another way, with shifts, four bytes at a time, or
\* with an instruction that moves a bit; they write the ports in the same order.
ReadShift == ReadCached
ReadInt == ReadCached
ReadMove == ReadCached
Routines == {Io("A"), Io("B"), WriteSlow, WriteHalf, WriteCached, WriteOr, WriteB,
             ReadSlow, ReadCached, ReadB, ReadShift, ReadInt, ReadMove}

Idle == [WriteSlow EXCEPT !.step = <<>>]

Reads(r) == r.first # <<>>
Bits == [1 .. Width -> BOOLEAN]

TypeOK ==
  /\ port \in [{"A", "B"} -> SUBSET {"clk", "di", "a", "b"}]
  /\ routine \in Routines \cup {Idle} /\ fresh \in [port : {"A", "B", "none"}, lines : SUBSET {"clk", "di", "a", "b"}]
  /\ bit \in 0 .. Width + 1 /\ Len(latched) <= Width /\ Len(received) <= Width

Init ==
  /\ port = [p \in {"A", "B"} |-> {}] /\ routine = Idle /\ out = [i \in 1 .. Width |-> TRUE]
  /\ held = port /\ fresh = Nothing /\ at = 1 /\ bit = 0
  /\ card = out /\ latched = <<>> /\ received = <<>> /\ others = 0 /\ transfers = 0
  /\ kept = port /\ overtaken = FALSE

----------------------------------------------------------------------------

\* The values that are held read the ports before anything is written.
Begin(r, o, c) ==
  /\ routine = Idle /\ transfers < MaxTransfers /\ transfers' = transfers + 1
  /\ routine' = r /\ card' = c /\ latched' = <<>> /\ received' = <<>>
  /\ out' = IF Reads(r) THEN [i \in 1 .. Width |-> TRUE] ELSE o
  /\ held' = [p \in {"A", "B"} |-> IF r = ReadB /\ p = "B" THEN port[p] \cup {"di"} ELSE port[p]]
  /\ fresh' = Nothing /\ at' = 1 /\ bit' = 0 /\ overtaken' = FALSE
  /\ kept' = [p \in {"A", "B"} |-> port[p] \cap {"a", "b"}]
  /\ UNCHANGED <<port, others>>

Steps == IF bit = 0 THEN routine.first ELSE IF bit > Width THEN routine.last ELSE routine.step
Busy == routine # Idle /\ at <= Len(Steps)
Op == Steps[at]
PortOf(op) == IF op \in {"up", "down"} THEN "B" ELSE routine.data

\* The first writes of a read are not done with a value that is held.
Cached(op) == PortOf(op) \in routine.cached /\ op # "one"

NextBit ==
  /\ routine # Idle /\ at > Len(Steps) /\ bit <= Width
  /\ bit' = bit + 1 /\ at' = 1
  /\ UNCHANGED <<port, routine, out, held, fresh, card, latched, received, others, transfers, kept, overtaken>>

End ==
  /\ routine # Idle /\ at > Len(Steps) /\ bit = Width + 1
  /\ routine' = Idle /\ bit' = 0 /\ at' = 1 /\ fresh' = Nothing
  /\ UNCHANGED <<port, out, held, card, latched, received, others, transfers, kept, overtaken>>

Load ==
  /\ Busy /\ Op # "sample" /\ ~Cached(Op) /\ fresh = Nothing
  /\ fresh' = [port |-> PortOf(Op), lines |-> port[PortOf(Op)]]
  /\ UNCHANGED <<port, routine, out, held, at, bit, card, latched, received, others, transfers, kept, overtaken>>

With(lines, line, high) == IF high THEN lines \cup {line} ELSE lines \ {line}

\* Wrong variant: the clock is raised with the data line as it was before the bit.
ValueStale(op) ==
  LET h == IF Cached(op) THEN held[PortOf(op)] ELSE fresh.lines IN
  CASE op \in {"di", "low"} -> With(h, "di", out[bit]) \ {"clk"}
    [] op = "or"   -> IF out[bit] THEN h \cup {"di"} ELSE h
    [] op = "one"  -> h \cup {"di"}
    [] op = "up"   -> h \cup {"clk"}
    [] op = "down" -> h \ {"clk"}
    [] op = "rest" -> (h \cup {"di"}) \ {"clk"}

Value(op) ==
  LET h == IF Cached(op) THEN held[PortOf(op)] ELSE fresh.lines IN
  CASE op = "di"   -> With(h, "di", out[bit])
    [] op = "or"   -> IF out[bit] THEN h \cup {"di"} ELSE h
    [] op = "one"  -> h \cup {"di"}
    [] op = "low"  -> With(h, "di", out[bit]) \ {"clk"}
    \* In a routine that holds the clock's port the data line is in the value that is written.
    [] op = "up"   -> (IF routine = WriteB THEN With(h, "di", out[bit]) ELSE h) \cup {"clk"}
    [] op = "down" -> h \ {"clk"}
    [] op = "rest" -> (h \cup {"di"}) \ {"clk"}

\* The card takes a bit when the clock rises.
Store ==
  /\ Busy /\ Op # "sample" /\ (Cached(Op) \/ fresh # Nothing)
  /\ LET p == PortOf(Op)
         rises == "clk" \in Value(Op) /\ "clk" \notin port["B"] /\ p = "B" IN
     /\ port' = [port EXCEPT ![p] = Value(Op)]
     /\ latched' = IF rises THEN Append(latched, "di" \in port'[routine.data]) ELSE latched
  /\ fresh' = Nothing /\ at' = at + 1
  /\ UNCHANGED <<routine, out, held, bit, card, received, others, transfers, kept, overtaken>>

\* While the clock is high the card has its bit on the line.
Sample ==
  /\ Busy /\ Op = "sample"
  /\ received' = Append(received, card[Len(latched)])
  /\ at' = at + 1
  /\ UNCHANGED <<port, routine, out, held, fresh, bit, card, latched, others, transfers, kept, overtaken>>

Holds(p) == routine # Idle /\ (fresh.port = p \/ p \in routine.cached)

Other(p, line) ==
  /\ others < MaxOthers /\ others' = others + 1
  /\ port' = [port EXCEPT ![p] = IF line \in @ THEN @ \ {line} ELSE @ \cup {line}]
  /\ kept' = [kept EXCEPT ![p] = IF line \in port'[p] THEN {line} ELSE {}]
  /\ overtaken' = (overtaken \/ Holds(p))
  /\ UNCHANGED <<routine, out, held, fresh, at, bit, card, latched, received, transfers>>

Next ==
  \/ \E r \in Routines, o, c \in Bits : Begin(r, o, c)
  \/ NextBit \/ End \/ Load \/ Store \/ Sample \/ Other("A", "a") \/ Other("B", "b")

Spec == Init /\ [][Next]_vars

----------------------------------------------------------------------------

\* After a transfer the card has the bits that were sent and the driver those the card sent, by
\* every routine and whatever others do to their lines; and their lines are as they left them,
\* unless they wrote while the routine held the value of their port.
LinesRight ==
  routine # Idle /\ bit = Width + 1 =>
    /\ routine = WriteOr \/ latched = [i \in 1 .. Width |-> out[i]]
    /\ received = <<>> \/ received = [i \in 1 .. Width |-> card[i]]
    /\ overtaken \/ (port["A"] \cap {"a"} = kept["A"] /\ port["B"] \cap {"b"} = kept["B"])
=============================================================================
