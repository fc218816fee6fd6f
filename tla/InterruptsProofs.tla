--------------------------- MODULE InterruptsProofs ---------------------------
(***************************************************************************)
(* Theorems about six programs of MCInterrupts: calls of pinint.c in any   *)
(* order and for any set of pins, the watchdog tests for all clocks within *)
(* their tolerances, the wake-up timer with a reset at any moment, the     *)
(* multi-rate timer for intervals of any length, the echo of characters    *)
(* through a ring of any size, and the button that toggles an LED.         *)
(***************************************************************************)
EXTENDS MCInterrupts, FiniteSetTheorems, SequenceTheorems, TLAPS

-----------------------------------------------------------------------------
(* Modes of the pin interrupts.                                            *)

Kinds == {"rise", "fall"}

\* What the registers hold of one pin, as its mode and its edges say.  The kind
\* of a disabled pin may be either.
PinAsTold(q) ==
  /\ told[q] \in Modes!Port!Modes
  /\ told[q] \in {"low", "high"} => q \in reg.isel
  /\ told[q] \in {"rising", "falling", "both"} => q \notin reg.isel
  /\ q \in reg.ienr <=> told[q] \in {"low", "high", "rising", "both"}
  /\ q \in reg.ienf <=> told[q] \in {"high", "falling", "both"}
  /\ went[q] \subseteq Kinds
  /\ q \in reg.rise <=> "rise" \in went[q]
  /\ q \in reg.fall <=> "fall" \in went[q]

Names == {"isel", "ienr", "ienf", "rise", "fall", "pmatch", "rxev", "endpoints",
          "sticky", "src", "cfg"}

ModesInv ==
  /\ DOMAIN reg = Names /\ reg = [f \in Names |-> reg[f]]
  /\ DOMAIN told = Pins /\ DOMAIN went = Pins
  /\ \A q \in Pins : PinAsTold(q)

LEMMA ModesInitially == Modes!Init => ModesInv
<1> SUFFICES ASSUME Modes!Init PROVE ModesInv
  OBVIOUS
<1>1. /\ reg = Modes!Port!Reset
      /\ told = [q \in Pins |-> "disable"] /\ went = [q \in Pins |-> {}]
  BY DEF Modes!Init
<1>2. QED
  BY <1>1 DEF ModesInv, PinAsTold, Names, Modes!Port!Reset, Modes!Port!Modes

LEMMA SetModeStep ==
  ASSUME ModesInv, NEW mode \in Modes!Port!Modes, NEW pins \in SUBSET Pins,
         Modes!SetMode(mode, pins)
  PROVE  ModesInv'
<1>1. /\ reg' = Modes!Port!pinint_set_interrupt_mode(reg, mode, pins)
      /\ told' = [q \in Pins |-> IF q \in pins THEN mode ELSE told[q]]
      /\ went' = went
  BY DEF Modes!SetMode
<1>2. QED
  BY <1>1 DEF ModesInv, PinAsTold, Names, Modes!Port!pinint_set_interrupt_mode, Modes!Port!Modes

LEMMA ClearStep ==
  ASSUME ModesInv, NEW pins \in SUBSET Pins, Modes!Clear(pins)
  PROVE  ModesInv'
<1>1. /\ pins \cap reg.isel = {}
      /\ reg' = Modes!Port!pinint_clear_interrupt(reg, pins)
      /\ went' = [q \in Pins |-> IF q \in pins THEN went[q] \ Kinds ELSE went[q]]
      /\ told' = told
  BY DEF Modes!Clear, Modes!Forget, Kinds
<1>2. QED
  BY <1>1 DEF ModesInv, PinAsTold, Names, Kinds, Modes!Port!pinint_clear_interrupt

LEMMA ClearEdgeStep ==
  ASSUME ModesInv, NEW pins \in SUBSET Pins, Modes!ClearEdge(pins)
  PROVE  ModesInv'
<1>1. told' = told
  BY DEF Modes!ClearEdge
<1>2. CASE reg' = Modes!Port!pinint_clear_rising_edge(reg, pins) /\ Modes!Forget(pins, {"rise"})
  BY <1>1, <1>2
     DEF ModesInv, PinAsTold, Names, Kinds, Modes!Forget, Modes!Port!pinint_clear_rising_edge
<1>3. CASE reg' = Modes!Port!pinint_clear_falling_edge(reg, pins) /\ Modes!Forget(pins, {"fall"})
  BY <1>1, <1>3
     DEF ModesInv, PinAsTold, Names, Kinds, Modes!Forget, Modes!Port!pinint_clear_falling_edge
<1>4. QED
  BY <1>2, <1>3 DEF Modes!ClearEdge

LEMMA EdgeStep ==
  ASSUME ModesInv, NEW q \in Pins, Modes!Edge(q)
  PROVE  ModesInv'
<1>1. /\ reg' = Modes!Port!Edge(reg, q, q \notin levels)
      /\ went' = [went EXCEPT ![q] = @ \cup {IF q \in levels THEN "fall" ELSE "rise"}]
      /\ told' = told
  BY DEF Modes!Edge
<1>2. CASE q \in levels
  BY <1>1, <1>2 DEF ModesInv, PinAsTold, Names, Kinds, Modes!Port!Edge
<1>3. CASE q \notin levels
  BY <1>1, <1>3 DEF ModesInv, PinAsTold, Names, Kinds, Modes!Port!Edge
<1>4. QED
  BY <1>2, <1>3

LEMMA ModesInductive == ModesInv /\ [Modes!Next]_ofModes => ModesInv'
<1> SUFFICES ASSUME ModesInv, [Modes!Next]_ofModes
             PROVE  ModesInv'
  OBVIOUS
<1>1. ASSUME NEW pins \in (SUBSET Pins) \ {{}},
             \/ \E mode \in Modes!Port!Modes : Modes!SetMode(mode, pins)
             \/ Modes!Clear(pins) \/ Modes!ClearEdge(pins)
      PROVE  ModesInv'
  BY <1>1, SetModeStep, ClearStep, ClearEdgeStep
<1>2. ASSUME NEW q \in Pins, Modes!Edge(q)
      PROVE  ModesInv'
  BY <1>2, EdgeStep
<1>3. CASE UNCHANGED ofModes
  BY <1>3 DEF ofModes, ModesInv, PinAsTold
<1>4. QED
  BY <1>1, <1>2, <1>3 DEF Modes!Next

LEMMA ModesReadBack == ModesInv => Modes!ReadsBack
<1> SUFFICES ASSUME ModesInv, NEW pins \in (SUBSET Pins) \ {{}}, NEW mode \in Modes!Port!Modes,
                    \A q \in pins : told[q] = mode
             PROVE  Modes!Port!pinint_get_interrupt_mode(reg, pins) =
                      IF mode # "disable" \/ pins \cap reg.isel \in {{}, pins}
                        THEN mode ELSE "unknown"
  BY DEF Modes!ReadsBack
<1>1. \A q \in pins : PinAsTold(q)
  BY DEF ModesInv
<1>2. PICK q : q \in pins
  OBVIOUS
<1> USE DEF Modes!Port!pinint_get_interrupt_mode, Modes!Port!AllIn, Modes!Port!NoneIn,
            Modes!Port!Modes
<1>3. CASE mode = "disable"
  <2>1. pins \cap reg.ienr = {} /\ pins \cap reg.ienf = {}
    BY <1>1, <1>3 DEF PinAsTold
  <2>2. ~(pins \subseteq reg.ienr) /\ ~(pins \subseteq reg.ienf)
    BY <1>2, <2>1
  <2>3. QED
    BY <1>2, <1>3, <2>1, <2>2
<1>4. CASE mode \in {"low", "high"}
  <2>1. pins \subseteq reg.isel /\ pins \subseteq reg.ienr
    BY <1>1, <1>4 DEF PinAsTold
  <2>2. IF mode = "high" THEN pins \subseteq reg.ienf ELSE pins \cap reg.ienf = {}
    BY <1>1, <1>4 DEF PinAsTold
  <2>3. QED
    BY <1>2, <1>4, <2>1, <2>2
<1>5. CASE mode \in {"rising", "falling", "both"}
  <2>1. pins \cap reg.isel = {}
    BY <1>1, <1>5 DEF PinAsTold
  <2>2. IF mode = "falling" THEN pins \cap reg.ienr = {} ELSE pins \subseteq reg.ienr
    BY <1>1, <1>5 DEF PinAsTold
  <2>3. IF mode = "rising" THEN pins \cap reg.ienf = {} ELSE pins \subseteq reg.ienf
    BY <1>1, <1>5 DEF PinAsTold
  <2>4. QED
    BY <1>2, <1>5, <2>1, <2>2, <2>3
<1>6. QED
  BY <1>3, <1>4, <1>5

LEMMA ModesAsk == ModesInv => Modes!AsksAsTold
<1> SUFFICES ASSUME ModesInv, NEW q \in Pins
             PROVE  (q \in Modes!Port!pinint_get_interrupt_status(reg, levels, Pins)) =
                      CASE told[q] = "disable" -> FALSE
                        [] told[q] = "low"     -> q \notin levels
                        [] told[q] = "high"    -> q \in levels
                        [] told[q] = "rising"  -> "rise" \in went[q]
                        [] told[q] = "falling" -> "fall" \in went[q]
                        [] told[q] = "both"    -> went[q] # {}
  BY DEF Modes!AsksAsTold
<1>1. PinAsTold(q)
  BY DEF ModesInv
<1>2. q \in Modes!Port!pinint_get_interrupt_status(reg, levels, Pins) <=>
        IF q \in reg.isel
          THEN q \in reg.ienr /\ (q \in levels <=> q \in reg.ienf)
          ELSE (q \in reg.rise /\ q \in reg.ienr) \/ (q \in reg.fall /\ q \in reg.ienf)
  BY DEF Modes!Port!pinint_get_interrupt_status, Modes!Port!Status
<1>3. went[q] # {} <=> "rise" \in went[q] \/ "fall" \in went[q]
  BY <1>1 DEF PinAsTold, Kinds
<1> DEFINE asks == q \in Modes!Port!pinint_get_interrupt_status(reg, levels, Pins)
           should == CASE told[q] = "disable" -> FALSE
                       [] told[q] = "low"     -> q \notin levels
                       [] told[q] = "high"    -> q \in levels
                       [] told[q] = "rising"  -> "rise" \in went[q]
                       [] told[q] = "falling" -> "fall" \in went[q]
                       [] told[q] = "both"    -> went[q] # {}
<1>4. /\ told[q] = "disable" => should = FALSE
      /\ told[q] = "low" => should = (q \notin levels)
      /\ told[q] = "high" => should = (q \in levels)
      /\ told[q] = "rising" => should = ("rise" \in went[q])
      /\ told[q] = "falling" => should = ("fall" \in went[q])
      /\ told[q] = "both" => should = (went[q] # {})
  OBVIOUS
<1>5. /\ told[q] = "disable" => asks = FALSE
      /\ told[q] = "low" => asks = (q \notin levels)
      /\ told[q] = "high" => asks = (q \in levels)
      /\ told[q] = "rising" => asks = ("rise" \in went[q])
      /\ told[q] = "falling" => asks = ("fall" \in went[q])
      /\ told[q] = "both" => asks = (went[q] # {})
  <2>1. asks <=> IF q \in reg.isel
                   THEN q \in reg.ienr /\ (q \in levels <=> q \in reg.ienf)
                   ELSE (q \in reg.rise /\ q \in reg.ienr) \/ (q \in reg.fall /\ q \in reg.ienf)
    BY <1>2
  <2>2. QED
    BY <1>1, <1>3, <2>1 DEF PinAsTold
<1>6. told[q] \in {"disable", "low", "high", "rising", "falling", "both"}
  BY <1>1 DEF PinAsTold, Modes!Port!Modes
<1>7. asks = should
  <2> HIDE DEF asks, should
  <2>1. CASE told[q] = "disable"
    BY <1>4, <1>5, <2>1
  <2>2. CASE told[q] = "low"
    BY <1>4, <1>5, <2>2
  <2>3. CASE told[q] = "high"
    BY <1>4, <1>5, <2>3
  <2>4. CASE told[q] = "rising"
    BY <1>4, <1>5, <2>4
  <2>5. CASE told[q] = "falling"
    BY <1>4, <1>5, <2>5
  <2>6. CASE told[q] = "both"
    BY <1>4, <1>5, <2>6
  <2>7. QED
    BY <1>6, <2>1, <2>2, <2>3, <2>4, <2>5, <2>6
<1>8. QED
  BY <1>7

-----------------------------------------------------------------------------
(* Delays of the watchdog tests, in ticks of the watchdog.                 *)

LEMMA Quotient ==
  ASSUME NEW a \in Nat, NEW b \in Nat \ {0}
  PROVE  /\ a \div b \in Nat
         /\ b * (a \div b) <= a
         /\ a < b * (a \div b) + b
BY SMT

LEMMA Product ==
  ASSUME NEW a \in Nat, NEW b \in Nat, NEW c \in Nat, a <= b
  PROVE  a * c \in Nat /\ b * c \in Nat /\ a * c <= b * c /\ c * a <= c * b
BY SMT

\* A quotient grows with the dividend and shrinks as the divisor grows.
LEMMA QuotientGrows ==
  ASSUME NEW a \in Nat, NEW b \in Nat, NEW v \in Nat \ {0}, NEW w \in Nat \ {0}, a <= b, w <= v
  PROVE  a \div v <= b \div w
<1> DEFINE x == a \div v
           y == b \div w
<1>1. /\ x \in Nat /\ v * x <= a
      /\ y \in Nat /\ b < w * y + w
  BY Quotient
<1> HIDE DEF x, y
<1>2. w * x <= v * x /\ w * x \in Nat /\ v * x \in Nat
  BY <1>1, Product
<1>3. w * x < w * y + w
  BY <1>1, <1>2, SMT
<1>4. SUFFICES ASSUME y + 1 <= x PROVE FALSE
  BY <1>1 DEF x, y
<1>5. w * (y + 1) <= w * x
  BY <1>1, <1>4, Product
<1>6. w * (y + 1) = w * y + w
  BY <1>1, SMT
<1>7. QED
  BY <1>1, <1>2, <1>3, <1>5, <1>6, SMT

\* A delay of m units, u of which are a second at a clock of 1000, for a
\* watchdog of t ticks.
Delayed(m, t, c, u) == (((m * t) \div 1000) * c) \div u

MinClock == 985
MaxClock == 1015

LEMMA DelayBounds ==
  ASSUME NEW r \in Nat, NEW t \in Nat, NEW s \in Nat, r <= t, t <= s,
         NEW c \in Clocks, NEW m \in Nat, NEW u \in Nat \ {0}
  PROVE  /\ Delayed(m, t, c, u) \in Nat
         /\ Delayed(m, r, MinClock, u) <= Delayed(m, t, c, u)
         /\ Delayed(m, t, c, u) <= Delayed(m, s, MaxClock, u)
<1>1. c \in Nat /\ 985 <= c /\ c <= 1015
  BY InterruptsAssumption
<1>2. /\ m * r \in Nat /\ m * t \in Nat /\ m * s \in Nat
      /\ m * r <= m * t /\ m * t <= m * s
  BY Product
<1> DEFINE x == (m * r) \div 1000
           y == (m * t) \div 1000
           z == (m * s) \div 1000
<1>3. x \in Nat /\ y \in Nat /\ z \in Nat /\ x <= y /\ y <= z
  BY <1>2, Quotient, QuotientGrows
<1> HIDE DEF x, y, z
<1>4. x * 985 <= y * 985 /\ y * c <= z * c
  BY <1>1, <1>3, Product
<1>5. y * 985 <= y * c /\ z * c <= z * 1015
  BY <1>1, <1>3, Product
<1>6. x * 985 \in Nat /\ y * 985 \in Nat /\ y * c \in Nat /\ z * c \in Nat /\ z * 1015 \in Nat
  BY <1>1, <1>3, Product
<1>7. x * 985 <= y * c /\ y * c <= z * 1015
  BY <1>4, <1>5, <1>6
<1>8. (x * 985) \div u <= (y * c) \div u /\ (y * c) \div u <= (z * 1015) \div u
  <2> DEFINE e == x * 985
             f == y * c
             g == z * 1015
  <2>1. e \in Nat /\ f \in Nat /\ g \in Nat /\ e <= f /\ f <= g /\ u <= u
    BY <1>6, <1>7
  <2> HIDE DEF e, f, g
  <2>2. e \div u <= f \div u
    BY <2>1, QuotientGrows, Zenon
  <2>3. f \div u <= g \div u
    BY <2>1, QuotientGrows, Zenon
  <2>4. QED
    BY <2>2, <2>3 DEF e, f, g
<1>9. (y * c) \div u \in Nat
  BY <1>6, Quotient
<1>10. QED
  BY <1>8, <1>9 DEF x, y, z, Delayed, MinClock, MaxClock

\* The ticks of the watchdog in a second, with either oscillator.
FastRates == {v \in Int : 410714 <= v /\ v <= 958333}
SlowRates == {v \in Int : 1674 <= v /\ v <= 3906}

LEMMA RateBounds ==
  ASSUME NEW c \in Rates
  PROVE  (575000 * c) \div 1000 \in FastRates /\ (2344 * c) \div 1000 \in SlowRates
<1>1. c \in Nat /\ 715 <= c /\ c <= 1666
  BY InterruptsAssumption
<1>2. /\ 411125000 <= 575000 * c /\ 575000 * c <= 957950000
      /\ 1675960 <= 2344 * c /\ 2344 * c <= 3905104
  BY <1>1, SMT
<1>3. QED
  BY <1>1, <1>2, SMT DEF FastRates, SlowRates

\* All delays of the tests, with the fast oscillator: at least so many ticks,
\* and at most so many.
LEMMA FastTicks ==
  ASSUME NEW r \in FastRates, NEW c \in Clocks
  PROVE  /\ Delayed(260, r, c, 1000000) \in {v \in Int : 105 <= v /\ v <= 252}
         /\ Delayed(640, r, c, 1000000) \in {v \in Int : 258 <= v /\ v <= 622}
         /\ Delayed(8, r, c, 1000) \in {v \in Int : 3235 <= v /\ v <= 7780}
         /\ Delayed(21, r, c, 1000) \in {v \in Int : 8494 <= v /\ v <= 20425}
         /\ Delayed(3, r, c, 1000) \in {v \in Int : 1213 <= v /\ v <= 2917}
         /\ Delayed(500, r, c, 1000) \in {v \in Int : 202276 <= v /\ v <= 486353}
<1> DEFINE lo == 410714
           hi == 958333
<1>1. lo \in Nat /\ hi \in Nat /\ r \in Nat /\ lo <= r /\ r <= hi
  BY SMT DEF FastRates
<1>2. /\ Delayed(260, lo, MinClock, 1000000) = 105 /\ Delayed(260, hi, MaxClock, 1000000) = 252
      /\ Delayed(640, lo, MinClock, 1000000) = 258 /\ Delayed(640, hi, MaxClock, 1000000) = 622
      /\ Delayed(8, lo, MinClock, 1000) = 3235 /\ Delayed(8, hi, MaxClock, 1000) = 7780
      /\ Delayed(21, lo, MinClock, 1000) = 8494 /\ Delayed(21, hi, MaxClock, 1000) = 20425
      /\ Delayed(3, lo, MinClock, 1000) = 1213 /\ Delayed(3, hi, MaxClock, 1000) = 2917
      /\ Delayed(500, lo, MinClock, 1000) = 202276 /\ Delayed(500, hi, MaxClock, 1000) = 486353
  BY SMT DEF Delayed, MinClock, MaxClock
<1>3. /\ {260, 640, 8, 21, 3, 500} \subseteq Nat /\ {1000, 1000000} \subseteq Nat \ {0}
  BY SMT
<1> HIDE DEF lo, hi
<1>4. \A m \in Nat, u \in Nat \ {0} :
        /\ Delayed(m, r, c, u) \in Nat
        /\ Delayed(m, lo, MinClock, u) <= Delayed(m, r, c, u)
        /\ Delayed(m, r, c, u) <= Delayed(m, hi, MaxClock, u)
  BY <1>1, DelayBounds
<1>5. QED
  BY <1>2, <1>3, <1>4, SMT

\* Test 4 runs with the slow one, and so does test 0 after some resets.
LEMMA SlowTicks ==
  ASSUME NEW r \in SlowRates, NEW c \in Clocks
  PROVE  /\ Delayed(64, r, c, 1000) \in {v \in Int : 105 <= v /\ v <= 252}
         /\ Delayed(156, r, c, 1000) \in {v \in Int : 257 <= v /\ v <= 618}
         /\ Delayed(260, r, c, 1000000) \in {v \in Int : 0 <= v /\ v <= 1}
         /\ Delayed(640, r, c, 1000000) \in Nat
<1> DEFINE lo == 1674
           hi == 3906
<1>1. lo \in Nat /\ hi \in Nat /\ r \in Nat /\ lo <= r /\ r <= hi
  BY SMT DEF SlowRates
<1>2. /\ Delayed(64, lo, MinClock, 1000) = 105 /\ Delayed(64, hi, MaxClock, 1000) = 252
      /\ Delayed(156, lo, MinClock, 1000) = 257 /\ Delayed(156, hi, MaxClock, 1000) = 618
      /\ Delayed(260, hi, MaxClock, 1000000) = 1
  BY SMT DEF Delayed, MinClock, MaxClock
<1>3. {64, 156} \subseteq Nat /\ 1000 \in Nat \ {0}
  BY SMT
<1> HIDE DEF lo, hi
<1>4. \A m \in Nat, u \in Nat \ {0} :
        /\ Delayed(m, r, c, u) \in Nat
        /\ Delayed(m, lo, MinClock, u) <= Delayed(m, r, c, u)
        /\ Delayed(m, r, c, u) <= Delayed(m, hi, MaxClock, u)
  BY <1>1, DelayBounds
<1>5. /\ Delayed(64, r, c, 1000) \in {v \in Int : 105 <= v /\ v <= 252}
      /\ Delayed(156, r, c, 1000) \in {v \in Int : 257 <= v /\ v <= 618}
  BY <1>2, <1>3, <1>4, SMT
<1>6. /\ Delayed(260, r, c, 1000000) \in Nat /\ Delayed(640, r, c, 1000000) \in Nat
      /\ Delayed(260, r, c, 1000000) <= 1
  <2>1. 260 \in Nat /\ 640 \in Nat /\ 1000000 \in Nat \ {0}
    BY SMT
  <2>2. /\ Delayed(260, r, c, 1000000) \in Nat /\ Delayed(640, r, c, 1000000) \in Nat
        /\ Delayed(260, r, c, 1000000) <= Delayed(260, hi, MaxClock, 1000000)
    BY <1>4, <2>1
  <2>3. QED
    BY <1>2, <2>2
<1>7. QED
  BY <1>5, <1>6

-----------------------------------------------------------------------------
(* The watchdog tests.                                                     *)

\* The ticks of one delay before a feed, and of one after the last feed.
StepTicks == Wwdt!Ticks(Wwdt!T.step)
WaitTicks == Wwdt!Ticks(Wwdt!T.wait)

\* A test runs with the oscillator that it was written for, or test 0 with that
\* of test 4.
Rated ==
  /\ TESTNUM \in 0 .. 5
  /\ osc = IF TESTNUM = 4 THEN "slow" ELSE "fast"
  /\ rate \in Rates /\ clock \in Clocks

OddTest == TESTNUM = 0 /\ osc = "slow" /\ rate \in Rates /\ clock \in Clocks

\* The inductive invariant: at a reset, the flags and the RAM say which test it
\* ended, and that it was due, or that it comes after a test that failed; in a
\* test, the watchdog has counted the delays.
AtBoot ==
  /\ status \in {{}, {"WDT_RST"}, {"SYSRST"}}
  /\ status = {"WDT_RST"} => \/ phase = 1 /\ TESTNUM \in 0 .. 4
                             \/ phase = 2 /\ TESTNUM = 0
  /\ status = {"SYSRST"} => phase = 1 /\ TESTNUM = 5 /\ INTSTATUS = {"TIME_OUT", "WARNING"}

Failed ==
  /\ TESTNUM = 0 /\ phase = 2
  /\ elapsed # Wwdt!NotStarted => osc = "slow"

WwdtInv ==
  /\ pc \in {"boot", "test", "loop", "final", "error2"}
  /\ pc = "boot" => AtBoot
  /\ pc = "error2" => Failed
  /\ pc \in {"test", "loop", "final"} => Rated \/ OddTest
  /\ pc = "loop" => phase = 0 /\ j \in 0 .. Wwdt!T.delays /\ elapsed = j * StepTicks
  /\ pc = "final" => phase = 1 /\ j \in 0 .. Wwdt!T.last - 1 /\ elapsed = j * WaitTicks

\* What makes a test pass: a feed after all its delays is neither late nor
\* early, and the time-out, or the early feed of test 2, is not after the last
\* wait.
WellFed(step, wait) ==
  /\ step \in Nat /\ wait \in Nat
  /\ Wwdt!T.delays \in Nat \ {0} /\ Wwdt!T.last \in Nat \ {0}
  /\ Wwdt!T.tc \in Nat /\ Wwdt!T.window \in Nat
  /\ Wwdt!T.delays * step <= Wwdt!T.tc
  /\ Wwdt!T.tc - Wwdt!T.delays * step < Wwdt!T.window
  /\ Wwdt!T.reset <=> TESTNUM # 5

EndsInTime(wait) ==
  \/ Wwdt!T.last * wait > Wwdt!T.tc
  \/ TESTNUM = 2 /\ Wwdt!T.last = 1 /\ Wwdt!T.tc - wait >= Wwdt!T.window

GoodTest(step, wait) == WellFed(step, wait) /\ EndsInTime(wait)

LEMMA TestsAreGood == Rated => GoodTest(StepTicks, WaitTicks)
<1> SUFFICES ASSUME Rated PROVE GoodTest(StepTicks, WaitTicks)
  OBVIOUS
<1> DEFINE r == Wwdt!Rate
<1>1. /\ TESTNUM # 4 => r \in FastRates
      /\ TESTNUM = 4 => r \in SlowRates
      /\ clock \in Clocks
  BY RateBounds DEF Rated, Wwdt!Rate, Wwdt!Nominal
<1>2. \A m : /\ Wwdt!Ticks(Wwdt!us(m)) = Delayed(m, r, clock, 1000000)
             /\ Wwdt!Ticks(Wwdt!ms(m)) = Delayed(m, r, clock, 1000)
  BY DEF Wwdt!Ticks, Wwdt!us, Wwdt!ms, Delayed
<1> HIDE DEF r
<1>3. TESTNUM \in {0, 1, 2, 3, 4, 5}
  BY DEF Rated
<1> USE DEF Wwdt!T, Wwdt!Test, Wwdt!Form
<1>4. CASE TESTNUM = 0
  <2>1. Wwdt!T = Wwdt!test0
    BY <1>4
  <2>2. /\ StepTicks = Delayed(260, r, clock, 1000000)
        /\ WaitTicks = Delayed(640, r, clock, 1000000)
    BY <1>2, <2>1 DEF Wwdt!test0, StepTicks, WaitTicks
  <2>3. QED
    BY <1>1, <1>4, <2>1, <2>2, FastTicks, SMT DEF Wwdt!test0, Wwdt!MaxCount, GoodTest, WellFed, EndsInTime
<1>5. CASE TESTNUM = 1
  <2>1. Wwdt!T = Wwdt!test1
    BY <1>5
  <2>2. StepTicks = Delayed(8, r, clock, 1000) /\ WaitTicks = Delayed(21, r, clock, 1000)
    BY <1>2, <2>1 DEF Wwdt!test1, StepTicks, WaitTicks
  <2>3. QED
    BY <1>1, <1>5, <2>1, <2>2, FastTicks, SMT DEF Wwdt!test1, GoodTest, WellFed, EndsInTime
<1>6. CASE TESTNUM = 2
  <2>1. Wwdt!T = Wwdt!test2
    BY <1>6
  <2>2. StepTicks = Delayed(8, r, clock, 1000) /\ WaitTicks = Delayed(3, r, clock, 1000)
    BY <1>2, <2>1 DEF Wwdt!test2, StepTicks, WaitTicks
  <2>3. QED
    BY <1>1, <1>6, <2>1, <2>2, FastTicks, SMT DEF Wwdt!test2, GoodTest, WellFed, EndsInTime
<1>7. CASE TESTNUM = 3
  <2>1. Wwdt!T = Wwdt!test3
    BY <1>7
  <2>2. StepTicks = Delayed(500, r, clock, 1000) /\ WaitTicks = Delayed(500, r, clock, 1000)
    BY <1>2, <2>1 DEF Wwdt!test3, StepTicks, WaitTicks
  <2>3. QED
    BY <1>1, <1>7, <2>1, <2>2, FastTicks, SMT DEF Wwdt!test3, Wwdt!MaxCount, GoodTest, WellFed, EndsInTime
<1>8. CASE TESTNUM = 4
  <2>1. Wwdt!T = Wwdt!test4
    BY <1>8
  <2>2. StepTicks = Delayed(64, r, clock, 1000) /\ WaitTicks = Delayed(156, r, clock, 1000)
    BY <1>2, <2>1 DEF Wwdt!test4, StepTicks, WaitTicks
  <2>3. QED
    BY <1>1, <1>8, <2>1, <2>2, SlowTicks, SMT DEF Wwdt!test4, Wwdt!MaxCount, GoodTest, WellFed, EndsInTime
<1>9. CASE TESTNUM = 5
  <2>1. Wwdt!T = Wwdt!test5
    BY <1>9
  <2>2. StepTicks = Delayed(8, r, clock, 1000) /\ WaitTicks = Delayed(21, r, clock, 1000)
    BY <1>2, <2>1 DEF Wwdt!test5, StepTicks, WaitTicks
  <2>3. QED
    BY <1>1, <1>9, <2>1, <2>2, FastTicks, SMT DEF Wwdt!test5, GoodTest, WellFed, EndsInTime
<1>10. QED
  BY <1>3, <1>4, <1>5, <1>6, <1>7, <1>8, <1>9

\* Test 0 with the slow oscillator is fed well, too.
LEMMA OddIsFed == OddTest => WellFed(StepTicks, WaitTicks)
<1> SUFFICES ASSUME OddTest PROVE WellFed(StepTicks, WaitTicks)
  OBVIOUS
<1> DEFINE r == Wwdt!Rate
<1>1. r \in SlowRates /\ clock \in Clocks /\ TESTNUM = 0
  BY RateBounds DEF OddTest, Wwdt!Rate, Wwdt!Nominal
<1>2. \A m : Wwdt!Ticks(Wwdt!us(m)) = Delayed(m, r, clock, 1000000)
  BY DEF Wwdt!Ticks, Wwdt!us, Delayed
<1> HIDE DEF r
<1>3. Wwdt!T = Wwdt!test0
  BY <1>1 DEF Wwdt!T, Wwdt!Test
<1>4. /\ StepTicks = Delayed(260, r, clock, 1000000)
      /\ WaitTicks = Delayed(640, r, clock, 1000000)
  BY <1>2, <1>3 DEF Wwdt!test0, Wwdt!Form, StepTicks, WaitTicks
<1>5. QED
  BY <1>1, <1>3, <1>4, SlowTicks, SMT DEF Wwdt!test0, Wwdt!Form, Wwdt!MaxCount, WellFed

LEMMA AlwaysFed == Rated \/ OddTest => WellFed(StepTicks, WaitTicks)
BY TestsAreGood, OddIsFed DEF GoodTest

LEMMA WwdtInitially == Wwdt!Init => WwdtInv
BY InterruptsAssumption, SMT DEF Wwdt!Init, WwdtInv, AtBoot

\* Within a test the delays are always of the same length.
LEMMA SameTest ==
  ASSUME UNCHANGED <<TESTNUM, osc, rate, clock>>
  PROVE  /\ Wwdt!T' = Wwdt!T /\ StepTicks' = StepTicks /\ WaitTicks' = WaitTicks
         /\ Rated => Rated'
         /\ OddTest => OddTest'
<1>1. Wwdt!T' = Wwdt!T
  BY DEF Wwdt!T, Wwdt!Test
<1>2. \A delay : Wwdt!Ticks(delay)' = Wwdt!Ticks(delay)
  BY DEF Wwdt!Ticks, Wwdt!Rate
<1>3. QED
  BY <1>1, <1>2 DEF StepTicks, WaitTicks, Rated, OddTest, Wwdt!Ticks, Wwdt!Rate

LEMMA BootStep == WwdtInv /\ Wwdt!Boot => WwdtInv'
<1> SUFFICES ASSUME WwdtInv, Wwdt!Boot PROVE WwdtInv'
  OBVIOUS
<1>1. AtBoot
  BY DEF WwdtInv, Wwdt!Boot
<1>2. CASE status = {"WDT_RST"} /\ phase = 2
  <2>1. Wwdt!Verdict = "error2" /\ TESTNUM = 0
    BY <1>1, <1>2 DEF AtBoot, Wwdt!Verdict
  <2>2. pc' = "error2" /\ TESTNUM' = 0 /\ phase' = 2 /\ elapsed' = Wwdt!NotStarted
    BY <1>2, <2>1 DEF Wwdt!Boot
  <2>3. QED
    BY <2>2 DEF WwdtInv, Failed, Wwdt!NotStarted
<1>3. CASE ~(status = {"WDT_RST"} /\ phase = 2)
  <2>1. Wwdt!Verdict = "test"
    BY <1>1, <1>3 DEF AtBoot, Wwdt!Verdict
  <2>2. /\ pc' = "test" /\ TESTNUM' = Wwdt!Following
        /\ osc' = Wwdt!clock_setup /\ rate' \in Rates /\ clock' \in Clocks
    BY <2>1 DEF Wwdt!Boot
  <2>3. /\ Wwdt!Following \in 0 .. 5
        /\ \/ Wwdt!clock_setup = IF Wwdt!Following = 4 THEN "slow" ELSE "fast"
           \/ Wwdt!Following = 0 /\ Wwdt!clock_setup = "slow"
    BY <1>1, <1>3 DEF AtBoot, Wwdt!Following, Wwdt!clock_setup
  <2>4. QED
    BY <2>2, <2>3 DEF WwdtInv, Rated, OddTest
<1>4. QED
  BY <1>2, <1>3

LEMMA StartStep == WwdtInv /\ Wwdt!Start => WwdtInv'
<1> SUFFICES ASSUME WwdtInv, Wwdt!Start PROVE WwdtInv'
  OBVIOUS
<1>1. /\ Rated \/ OddTest
      /\ UNCHANGED <<TESTNUM, osc, rate, clock>>
      /\ pc' = "loop" /\ phase' = 0 /\ j' = 0 /\ elapsed' = 0
  BY DEF WwdtInv, Wwdt!Start, Wwdt!rates
<1>2. (Rated' \/ OddTest') /\ Wwdt!T' = Wwdt!T /\ StepTicks' = StepTicks
  BY <1>1, SameTest
<1>3. Wwdt!T.delays \in Nat \ {0} /\ StepTicks \in Nat
  BY <1>1, AlwaysFed DEF WellFed
<1>4. j' \in 0 .. Wwdt!T.delays /\ elapsed' = j' * StepTicks
  BY <1>1, <1>3
<1>5. QED
  BY <1>1, <1>2, <1>4 DEF WwdtInv

LEMMA DelayStep == WwdtInv /\ Wwdt!Delay => WwdtInv'
<1> SUFFICES ASSUME WwdtInv, Wwdt!Delay PROVE WwdtInv'
  OBVIOUS
<1>1. /\ Rated \/ OddTest
      /\ phase = 0 /\ j \in 0 .. Wwdt!T.delays /\ elapsed = j * StepTicks
      /\ j < Wwdt!T.delays /\ elapsed' = elapsed + StepTicks
      /\ UNCHANGED <<osc, rate, clock>>
  BY DEF WwdtInv, Wwdt!Delay, Wwdt!rates, StepTicks
<1>2. /\ Wwdt!T.delays \in Nat \ {0} /\ StepTicks \in Nat /\ Wwdt!T.tc \in Nat
      /\ Wwdt!T.delays * StepTicks <= Wwdt!T.tc
  BY <1>1, AlwaysFed DEF WellFed
<1>3. j + 1 \in 0 .. Wwdt!T.delays /\ elapsed' = (j + 1) * StepTicks
  <2>1. \A k, t \in Nat : (k + 1) * t = k * t + t
    BY SMT
  <2>2. j \in Nat /\ j + 1 \in 0 .. Wwdt!T.delays
    BY <1>1, <1>2
  <2>3. QED
    BY <1>1, <1>2, <2>1, <2>2
<1>4. elapsed' \in Nat /\ elapsed' <= Wwdt!T.tc
  <2>1. (j + 1) * StepTicks <= Wwdt!T.delays * StepTicks /\ (j + 1) * StepTicks \in Nat
    <3>1. j + 1 \in Nat /\ j + 1 <= Wwdt!T.delays
      BY <1>2, <1>3
    <3>2. QED
      BY <1>2, <3>1, Product
  <2>2. Wwdt!T.delays * StepTicks \in Nat
    BY <1>2, Product
  <2>3. QED
    BY <1>2, <1>3, <2>1, <2>2
<1>5. ~(elapsed' > Wwdt!T.tc)
  BY <1>2, <1>4
<1>6. j' = j + 1 /\ UNCHANGED <<TESTNUM, phase, pc>>
  BY <1>5 DEF Wwdt!Delay, Wwdt!ram
<1>7. (Rated' \/ OddTest') /\ Wwdt!T' = Wwdt!T /\ StepTicks' = StepTicks
  BY <1>1, <1>6, SameTest
<1>8. QED
  BY <1>1, <1>3, <1>6, <1>7 DEF WwdtInv, Wwdt!Delay

LEMMA FeedStep == WwdtInv /\ Wwdt!Feed => WwdtInv'
<1> SUFFICES ASSUME WwdtInv, Wwdt!Feed PROVE WwdtInv'
  OBVIOUS
<1>1. /\ Rated \/ OddTest
      /\ phase = 0 /\ j = Wwdt!T.delays /\ elapsed = j * StepTicks
      /\ UNCHANGED <<osc, rate, clock>>
  BY DEF WwdtInv, Wwdt!Feed, Wwdt!rates
<1>2. /\ Wwdt!T.delays \in Nat \ {0} /\ Wwdt!T.last \in Nat \ {0}
      /\ StepTicks \in Nat /\ WaitTicks \in Nat
      /\ Wwdt!T.tc \in Nat /\ Wwdt!T.window \in Nat
      /\ Wwdt!T.tc - Wwdt!T.delays * StepTicks < Wwdt!T.window
  BY <1>1, AlwaysFed DEF WellFed
<1>3. ~Wwdt!TooEarly(elapsed)
  <2>1. elapsed = Wwdt!T.delays * StepTicks /\ Wwdt!T.delays * StepTicks \in Nat
    BY <1>1, <1>2, Product
  <2>2. QED
    BY <1>2, <2>1 DEF Wwdt!TooEarly
<1>4. /\ elapsed' = 0 /\ j' = 0 /\ TESTNUM' = TESTNUM
      /\ \/ phase' = 1 /\ pc' = "final"
         \/ phase' = 0 /\ pc' = "loop"
  BY <1>1, <1>3 DEF Wwdt!Feed
<1>5. (Rated' \/ OddTest') /\ Wwdt!T' = Wwdt!T /\ StepTicks' = StepTicks /\ WaitTicks' = WaitTicks
  BY <1>1, <1>4, SameTest
<1>6. /\ j' \in 0 .. Wwdt!T.delays /\ elapsed' = j' * StepTicks
      /\ j' \in 0 .. Wwdt!T.last - 1 /\ elapsed' = j' * WaitTicks
  BY <1>2, <1>4
<1>7. QED
  BY <1>4, <1>5, <1>6 DEF WwdtInv

LEMMA LastStep == WwdtInv /\ Wwdt!Last => WwdtInv'
<1> SUFFICES ASSUME WwdtInv, Wwdt!Last PROVE WwdtInv'
  OBVIOUS
<1>1. /\ Rated \/ OddTest
      /\ phase = 1 /\ j \in 0 .. Wwdt!T.last - 1 /\ elapsed = j * WaitTicks
      /\ elapsed' = elapsed + WaitTicks
      /\ UNCHANGED <<osc, rate, clock>>
  BY DEF WwdtInv, Wwdt!Last, Wwdt!rates, WaitTicks
<1>2. /\ Wwdt!T.last \in Nat \ {0} /\ WaitTicks \in Nat /\ Wwdt!T.tc \in Nat
      /\ Rated => EndsInTime(WaitTicks)
      /\ Wwdt!T.reset <=> TESTNUM # 5
  BY <1>1, AlwaysFed, TestsAreGood DEF WellFed, GoodTest
<1>3. j + 1 \in 1 .. Wwdt!T.last /\ elapsed' = (j + 1) * WaitTicks
  <2>1. \A k, t \in Nat : (k + 1) * t = k * t + t
    BY SMT
  <2>2. j \in Nat /\ j + 1 \in 1 .. Wwdt!T.last
    BY <1>1, <1>2
  <2>3. QED
    BY <1>1, <1>2, <2>1, <2>2
<1> DEFINE bites == elapsed' > Wwdt!T.tc \/ (TESTNUM = 2 /\ Wwdt!TooEarly(elapsed'))
<1>4. CASE bites
  <2>1. /\ Wwdt!Bite({"TIME_OUT", "WARNING"}) /\ TESTNUM \in 0 .. 5
    BY <1>1, <1>4 DEF Wwdt!Last, Rated, OddTest
  <2>2. AtBoot'
    <3>1. phase' = 1 /\ TESTNUM' = TESTNUM
      BY <1>1, <2>1 DEF Wwdt!Bite
    <3>2. CASE TESTNUM = 5
      <4>1. status' = {"SYSRST"} /\ INTSTATUS' = {"TIME_OUT", "WARNING"}
        BY <1>2, <2>1, <3>2 DEF Wwdt!Bite
      <4>2. QED
        BY <3>1, <3>2, <4>1 DEF AtBoot
    <3>3. CASE TESTNUM # 5
      <4>1. status' = {"WDT_RST"} /\ TESTNUM \in 0 .. 4
        BY <1>2, <2>1, <3>3 DEF Wwdt!Bite
      <4>2. QED
        BY <3>1, <4>1 DEF AtBoot
    <3>4. QED
      BY <3>2, <3>3
  <2>3. QED
    BY <2>1, <2>2 DEF WwdtInv, Wwdt!Bite
<1>5. CASE ~bites
  <2>1. CASE Rated /\ j + 1 = Wwdt!T.last
    <3>1. CASE Wwdt!T.last * WaitTicks > Wwdt!T.tc
      BY <1>3, <1>5, <2>1, <3>1
    <3>2. CASE TESTNUM = 2 /\ Wwdt!T.last = 1 /\ Wwdt!T.tc - WaitTicks >= Wwdt!T.window
      <4>1. elapsed' = WaitTicks
        BY <1>2, <1>3, <3>2
      <4>2. QED
        BY <1>5, <3>2, <4>1 DEF Wwdt!TooEarly
    <3>3. QED
      BY <1>2, <2>1, <3>1, <3>2 DEF EndsInTime
  <2>2. CASE OddTest /\ j + 1 = Wwdt!T.last
    <3>1. phase' = 2 /\ pc' = "error2" /\ UNCHANGED <<TESTNUM, osc>>
      BY <1>1, <1>5, <2>2 DEF Wwdt!Last
    <3>2. QED
      BY <2>2, <3>1 DEF WwdtInv, Failed, OddTest
  <2>3. CASE j + 1 # Wwdt!T.last
    <3>1. j' = j + 1 /\ UNCHANGED <<phase, pc, TESTNUM>>
      BY <1>5, <2>3 DEF Wwdt!Last
    <3>2. (Rated' \/ OddTest') /\ Wwdt!T' = Wwdt!T /\ WaitTicks' = WaitTicks
      BY <1>1, <3>1, SameTest
    <3>3. j' \in 0 .. Wwdt!T.last - 1
      BY <1>2, <1>3, <2>3, <3>1
    <3>4. QED
      BY <1>1, <1>3, <3>1, <3>2, <3>3 DEF WwdtInv, Wwdt!Last
  <2>4. QED
    BY <1>1, <2>1, <2>2, <2>3
<1>6. QED
  BY <1>4, <1>5

LEMMA LateStep == WwdtInv /\ Wwdt!Late => WwdtInv'
<1> SUFFICES ASSUME WwdtInv, Wwdt!Late PROVE WwdtInv'
  OBVIOUS
<1>1. TESTNUM = 0 /\ phase = 2
  BY DEF WwdtInv, Wwdt!Late, Failed
<1>2. Wwdt!T.reset
  BY <1>1 DEF Wwdt!T, Wwdt!Test, Wwdt!test0, Wwdt!Form
<1>3. pc' = "boot" /\ status' = {"WDT_RST"} /\ UNCHANGED <<TESTNUM, phase>>
  BY <1>2 DEF Wwdt!Late, Wwdt!Bite
<1>4. QED
  BY <1>1, <1>3 DEF WwdtInv, AtBoot

LEMMA WwdtInductive == WwdtInv /\ [Wwdt!Next]_ofWwdt => WwdtInv'
<1> SUFFICES ASSUME WwdtInv, [Wwdt!Next]_ofWwdt PROVE WwdtInv'
  OBVIOUS
<1>1. CASE Wwdt!main
  BY <1>1, BootStep, StartStep, DelayStep, FeedStep, LastStep DEF Wwdt!main
<1>2. CASE Wwdt!Late \/ Wwdt!Button
  BY <1>2, LateStep DEF Wwdt!Button, WwdtInv, AtBoot
<1>3. CASE UNCHANGED ofWwdt
  <2>1. /\ UNCHANGED <<TESTNUM, osc, rate, clock>>
        /\ UNCHANGED <<phase, INTSTATUS, status, elapsed, j, pc>>
    BY <1>3 DEF ofWwdt
  <2>2. /\ Wwdt!T' = Wwdt!T /\ StepTicks' = StepTicks /\ WaitTicks' = WaitTicks
        /\ (Rated \/ OddTest) => (Rated' \/ OddTest')
    BY <2>1, SameTest
  <2>3. QED
    BY <2>1, <2>2 DEF WwdtInv, AtBoot, Failed, Wwdt!NotStarted
<1>4. QED
  BY <1>1, <1>2, <1>3 DEF Wwdt!Next

-----------------------------------------------------------------------------
(* The wake-up timer.                                                      *)

\* The inductive invariant.  The clock of the timer follows the count; an alarm
\* that waits has stopped the counter; and where no reset has cut main() off
\* between the two, the flag and PMU_GPREG0 agree at its start.
Starting == {"boot", "flag", "forget", "start"}
Sleepy == {"deep", "wfi", "sleep"}

\* The registers of the timer and of the power management unit.
Controls == [clock : {"irc", "low-power"}, alarm : BOOLEAN]
Powers == [mode : {"default", "deep-power-down"}, flags : {{}, {"DPDFLAG"}}]

WktInv ==
  /\ pc \in Starting \cup {"wait", "mark", "error"} \cup Sleepy
  /\ isr \in {"none", "clear"} /\ count \in Nat
  /\ ctrl \in Controls
  /\ ctrl.clock = "irc" <=> count < 10
  /\ counter \in {0, 749999, 9999, 29999}
  /\ counter > 0 => (counter = 749999 <=> ctrl.clock = "irc")
  /\ ctrl.alarm \/ isr = "clear" => pc = "wait"
  /\ ctrl.alarm /\ isr = "none" => counter = 0
  /\ pc \in Starting => count = 0
  /\ pc \in {"mark"} \cup Sleepy => count >= 20 /\ pcon.mode = "deep-power-down"
  /\ pc # "boot" => osc = {"LPOSCEN", "LPOSCDPDEN"}
  /\ pc \in {"wfi", "sleep"} => counter = 29999 /\ sleep = {"SLEEPDEEP"}
  /\ pcon \in Powers
  /\ PMU_GPREG0 \in {0, -1}
  /\ pc \in {"boot", "flag"} /\ ~cut => (PMU_GPREG0 # 0 <=> pcon.flags = {"DPDFLAG"})
  /\ pc \in {"start", "wait", "mark"} => PMU_GPREG0 = 0
  /\ pc \in {"forget", "start", "wait", "mark"} \cup Sleepy => pcon.flags = {}
  /\ pc \in Sleepy => PMU_GPREG0 # 0
  /\ pc = "error" => cut

\* What the calls make of the registers.
LEMMA AlarmField ==
  ASSUME NEW c \in Controls, NEW a \in BOOLEAN
  PROVE  /\ [c EXCEPT !.alarm = a] \in Controls
         /\ [c EXCEPT !.alarm = a].clock = c.clock
         /\ [c EXCEPT !.alarm = a].alarm = a
BY Zenon DEF Controls

LEMMA NewControl ==
  ASSUME NEW s \in {"irc", "low-power"}
  PROVE  /\ [clock |-> s, alarm |-> FALSE] \in Controls
         /\ [clock |-> s, alarm |-> FALSE].clock = s
         /\ ~[clock |-> s, alarm |-> FALSE].alarm
BY Zenon DEF Controls

LEMMA NewPower ==
  ASSUME NEW m \in {"default", "deep-power-down"}, NEW f \in {{}, {"DPDFLAG"}}
  PROVE  /\ [mode |-> m, flags |-> f] \in Powers
         /\ [mode |-> m, flags |-> f].mode = m
         /\ [mode |-> m, flags |-> f].flags = f
BY Zenon DEF Powers

LEMMA FlagsField ==
  ASSUME NEW p \in Powers
  PROVE  /\ [p EXCEPT !.flags = {}] \in Powers
         /\ [p EXCEPT !.flags = {}].mode = p.mode
         /\ [p EXCEPT !.flags = {}].flags = {}
BY Zenon DEF Powers

LEMMA WktInitially == Wkt!Init => WktInv
<1> SUFFICES ASSUME Wkt!Init PROVE WktInv
  OBVIOUS
<1>1. /\ pc = "boot" /\ isr = "none" /\ count = 0 /\ counter = 0 /\ PMU_GPREG0 = 0
      /\ ctrl \in Controls /\ ctrl.clock = "irc"
      /\ pcon \in Powers
      /\ pcon.flags = {}
  BY SMT DEF Wkt!Init, Controls, Powers
<1>2. ~ctrl.alarm
  BY DEF Wkt!Init
<1>3. QED
  BY <1>1, <1>2, SMT DEF WktInv, Starting, Sleepy

LEMMA AlarmStep == WktInv /\ Wkt!Alarm => WktInv'
<1> SUFFICES ASSUME WktInv, Wkt!Alarm PROVE WktInv'
  OBVIOUS
<1>1. ctrl \in Controls
  BY SMT DEF WktInv
<1>2. ctrl' = [ctrl EXCEPT !.alarm = TRUE]
  BY Zenon DEF Wkt!Alarm
<1>3. ctrl'.clock = ctrl.clock /\ ctrl' \in Controls
  BY <1>1, <1>2, AlarmField, Zenon
<1>4. counter' = 0 /\ pc = "wait" /\ isr = "none"
  BY SMT DEF Wkt!Alarm
<1>5. UNCHANGED <<pcon, osc, PMU_GPREG0, sleep, count, isr, pc, cut>>
  BY Zenon DEF Wkt!Alarm, Wkt!power
<1>6. QED
  BY <1>3, <1>4, <1>5, SMT DEF WktInv, Starting, Sleepy

LEMMA Restarted ==
  Wkt!Restart => /\ ctrl' \in Controls /\ ctrl'.clock = "irc" /\ ~ctrl'.alarm
                 /\ counter' = 0 /\ count' = 0 /\ isr' = "none" /\ pc' = "boot"
                 /\ PMU_GPREG0' = PMU_GPREG0
<1> SUFFICES ASSUME Wkt!Restart
             PROVE  /\ ctrl' \in Controls /\ ctrl'.clock = "irc" /\ ~ctrl'.alarm
                    /\ counter' = 0 /\ count' = 0 /\ isr' = "none" /\ pc' = "boot"
                    /\ PMU_GPREG0' = PMU_GPREG0
  OBVIOUS
<1>1. ctrl' = [clock |-> "irc", alarm |-> FALSE]
  BY Zenon DEF Wkt!Restart
<1>2. ctrl' \in Controls /\ ctrl'.clock = "irc" /\ ~ctrl'.alarm
  BY <1>1, NewControl, Zenon
<1>3. QED
  BY <1>2, Zenon DEF Wkt!Restart

\* A reset: main() starts again.
LEMMA WakeStep == WktInv /\ Wkt!Wake => WktInv'
<1> SUFFICES ASSUME WktInv, Wkt!Wake PROVE WktInv'
  OBVIOUS
<1>1. /\ pcon' = [mode |-> "default", flags |-> {"DPDFLAG"}] /\ cut' = cut
      /\ pc = "sleep" /\ Wkt!Restart
  BY Zenon DEF Wkt!Wake
<1>2. pcon' \in Powers /\ pcon'.flags = {"DPDFLAG"}
  BY <1>1, NewPower, Zenon
<1>3. PMU_GPREG0 # 0 /\ PMU_GPREG0 \in {0, -1}
  BY <1>1, SMT DEF WktInv, Sleepy
<1>4. QED
  BY <1>2, <1>3, <1>1, Restarted, SMT DEF WktInv, Starting, Sleepy

LEMMA ButtonStep == WktInv /\ Wkt!Button => WktInv'
<1> SUFFICES ASSUME WktInv, Wkt!Button PROVE WktInv'
  OBVIOUS
<1>1. PICK flags \in {{}, pcon.flags} : pcon' = [mode |-> "default", flags |-> flags]
  BY Zenon DEF Wkt!Button
<1>2. pc # "sleep" /\ Wkt!Restart
  BY Zenon DEF Wkt!Button
<1>3. cut' <=> cut \/ pc \in {"boot", "flag", "forget", "deep", "wfi"}
  BY Zenon DEF Wkt!Button
<1>4. pcon \in Powers
  BY SMT DEF WktInv
<1>5. pcon.flags \in {{}, {"DPDFLAG"}} /\ pcon' \in Powers /\ pcon'.flags = flags
  BY <1>1, <1>4, NewPower, Zenon DEF Powers
<1>6. pc \notin {"boot", "flag", "forget", "deep", "wfi"} 
                                  => (PMU_GPREG0 = 0 /\ pcon.flags = {}) \/ cut
  BY <1>2, SMT DEF WktInv, Starting, Sleepy
<1>7. ~cut' => (PMU_GPREG0 # 0 <=> pcon'.flags = {"DPDFLAG"})
  <2>1. CASE pc \in {"boot", "flag", "forget", "deep", "wfi"}
    BY <1>3, <2>1
  <2>2. CASE pc \notin {"boot", "flag", "forget", "deep", "wfi"}
    BY <1>1, <1>3, <1>5, <1>6, <2>2, Zenon
  <2>3. QED
    BY <2>1, <2>2
<1>8. PMU_GPREG0 \in {0, -1}
  BY SMT DEF WktInv
<1>9. QED
  BY <1>2, <1>5, <1>7, <1>8, Restarted, SMT DEF WktInv, Starting, Sleepy

LEMMA EnterStep == WktInv /\ Wkt!Enter => WktInv'
<1> SUFFICES ASSUME WktInv, Wkt!Enter PROVE WktInv'
  OBVIOUS
<1>1. ctrl \in Controls /\ count \in Nat
  BY SMT DEF WktInv
<1>2. ctrl.alarm /\ isr = "none" /\ isr' = "clear" /\ count' = count + 1
  BY SMT DEF Wkt!Enter, Wkt!wkt_get_status
<1>3. ctrl' = IF count' = 10 THEN [clock |-> "low-power", alarm |-> FALSE] ELSE ctrl
  BY SMT DEF Wkt!Enter, Wkt!wkt_set_clock
<1>4. ctrl' \in Controls /\ ctrl'.clock = IF count' = 10 THEN "low-power" ELSE ctrl.clock
  BY <1>1, <1>3, NewControl, Zenon
<1>5. UNCHANGED <<pcon, osc, PMU_GPREG0, sleep, pc, cut>>
  BY SMT DEF Wkt!power, Wkt!Enter
<1>6. counter' = IF count' < 10 THEN 749999 ELSE IF count' < 20 THEN 9999 ELSE counter
  BY SMT DEF Wkt!Enter
<1>7. pc = "wait" /\ counter = 0
  BY <1>2, SMT DEF WktInv
<1>8. QED
  BY <1>1, <1>2, <1>4, <1>5, <1>6, <1>7, SMT DEF WktInv, Starting, Sleepy

LEMMA ClearIsrStep == WktInv /\ Wkt!Clear => WktInv'
<1> SUFFICES ASSUME WktInv, Wkt!Clear PROVE WktInv'
  OBVIOUS
<1>1. ctrl \in Controls
  BY SMT DEF WktInv
<1>2. ctrl' = [ctrl EXCEPT !.alarm = FALSE]
  BY Zenon DEF Wkt!Clear, Wkt!wkt_clear_status
<1>3. ctrl'.clock = ctrl.clock /\ ctrl' \in Controls /\ ~ctrl'.alarm
  BY <1>1, <1>2, AlarmField, Zenon
<1>4. /\ UNCHANGED <<counter, pcon, osc, PMU_GPREG0, sleep, count, pc, cut>>
      /\ isr = "clear" /\ isr' = "none"
  BY Zenon DEF Wkt!Clear, Wkt!power
<1>5. QED
  BY <1>3, <1>4, SMT DEF WktInv, Starting, Sleepy


LEMMA SetupStep == WktInv /\ Wkt!Setup => WktInv'
<1> SUFFICES ASSUME WktInv, Wkt!Setup PROVE WktInv'
  OBVIOUS
<1>1. ctrl' = [clock |-> "irc", alarm |-> FALSE]
  BY Zenon DEF Wkt!Setup, Wkt!wkt_set_clock
<1>2. ctrl' \in Controls /\ ctrl'.clock = "irc" /\ ~ctrl'.alarm
  BY <1>1, NewControl, Zenon
<1>3. osc' = {"LPOSCEN", "LPOSCDPDEN"}
  BY SMT DEF Wkt!Setup, Wkt!pmu_enable_low_power_osc
<1>4. /\ UNCHANGED <<counter, pcon, PMU_GPREG0, sleep, count, isr, cut>>
      /\ pc = "boot" /\ pc' = "flag" /\ isr = "none"
  BY Zenon DEF Wkt!Setup, Wkt!At
<1>5. QED
  BY <1>2, <1>3, <1>4, SMT DEF WktInv, Starting, Sleepy

\* Two Booleans differ.
LEMMA Differ ==
  ASSUME NEW a \in BOOLEAN, NEW b \in BOOLEAN
  PROVE  (a # b) <=> ~(a <=> b)
BY Zenon

LEMMA FlagStep == WktInv /\ Wkt!Flag => WktInv'
<1> SUFFICES ASSUME WktInv, Wkt!Flag PROVE WktInv'
  OBVIOUS
<1> DEFINE down == pcon.flags = {"DPDFLAG"}
<1>1. pcon \in Powers
  BY SMT DEF WktInv
<1>2. Wkt!pmu_get_flag(pcon, "DPDFLAG") <=> down
  BY <1>1, SMT DEF Powers, Wkt!pmu_get_flag
<1>3. ((PMU_GPREG0 # 0) # Wkt!pmu_get_flag(pcon, "DPDFLAG")) <=> ~(PMU_GPREG0 # 0 <=> down)
  <2>1. (PMU_GPREG0 # 0) \in BOOLEAN
    OBVIOUS
  <2>2. Wkt!pmu_get_flag(pcon, "DPDFLAG") \in BOOLEAN
    BY DEF Wkt!pmu_get_flag
  <2>3. QED
    BY <1>2, <2>1, <2>2, Differ, Zenon
<1>4. /\ pc' \in {"error", "forget", "start"}
      /\ pc' = "error" => ~(PMU_GPREG0 # 0 <=> down)
      /\ pc' = "start" => PMU_GPREG0 = 0
  <2>1. pc' = IF (PMU_GPREG0 # 0) # Wkt!pmu_get_flag(pcon, "DPDFLAG") THEN "error"
              ELSE IF Wkt!pmu_get_flag(pcon, "DPDFLAG") THEN "forget" ELSE "start"
    BY Zenon DEF Wkt!Flag
  <2>2. CASE ~(PMU_GPREG0 # 0 <=> down)
    <3>1. pc' = "error"
      BY <1>3, <2>1, <2>2, Zenon
    <3>2. QED
      BY <2>2, <3>1, Zenon
  <2>3. CASE (PMU_GPREG0 # 0 <=> down)
    <3>1. pc' = IF Wkt!pmu_get_flag(pcon, "DPDFLAG") THEN "forget" ELSE "start"
      BY <1>3, <2>1, <2>3, Zenon
    <3>2. QED
      BY <1>2, <2>3, <3>1, Zenon
  <2>4. QED
    BY <2>2, <2>3
<1>5. pcon' = IF down THEN [pcon EXCEPT !.flags = {}] ELSE pcon
  BY <1>2, Zenon DEF Wkt!Flag, Wkt!pmu_clear_flag
<1>6. pcon' \in Powers /\ pcon'.mode = pcon.mode /\ pcon'.flags = {}
  BY <1>1, <1>5, FlagsField, SMT DEF Powers
<1>7. /\ UNCHANGED <<ctrl, counter, osc, PMU_GPREG0, sleep, count, isr, cut>>
      /\ pc = "flag" /\ isr = "none" /\ ~ctrl.alarm
  BY Zenon DEF Wkt!Flag, Wkt!At, Wkt!timer
<1>8. QED
  BY <1>4, <1>6, <1>7, SMT DEF WktInv, Starting, Sleepy

LEMMA ForgetStep == WktInv /\ Wkt!Forget => WktInv'
<1> SUFFICES ASSUME WktInv, Wkt!Forget PROVE WktInv'
  OBVIOUS
<1>1. /\ UNCHANGED <<ctrl, counter, pcon, osc, sleep, count, isr, cut>>
      /\ pc = "forget" /\ pc' = "start" /\ PMU_GPREG0' = 0 /\ isr = "none" /\ ~ctrl.alarm
  BY Zenon DEF Wkt!Forget, Wkt!At, Wkt!timer
<1>2. QED
  BY <1>1, SMT DEF WktInv, Starting, Sleepy

LEMMA FirstSecondStep == WktInv /\ Wkt!Start => WktInv'
<1> SUFFICES ASSUME WktInv, Wkt!Start PROVE WktInv'
  OBVIOUS
<1>1. /\ UNCHANGED <<ctrl, pcon, osc, PMU_GPREG0, sleep, count, isr, cut>>
      /\ pc = "start" /\ pc' = "wait" /\ counter' = 749999 /\ isr = "none" /\ ~ctrl.alarm
  BY SMT DEF Wkt!Start, Wkt!At, Wkt!power
<1>2. QED
  BY <1>1, SMT DEF WktInv, Starting, Sleepy

LEMMA CountedStep == WktInv /\ Wkt!Counted => WktInv'
<1> SUFFICES ASSUME WktInv, Wkt!Counted PROVE WktInv'
  OBVIOUS
<1>1. pcon' = [mode |-> "deep-power-down", flags |-> {}]
  BY Zenon DEF Wkt!Counted, Wkt!pmu_set_power_mode
<1>2. pcon' \in Powers /\ pcon'.mode = "deep-power-down" /\ pcon'.flags = {}
  BY <1>1, NewPower, Zenon
<1>3. /\ UNCHANGED <<ctrl, counter, osc, PMU_GPREG0, sleep, count, isr, cut>>
      /\ pc = "wait" /\ pc' = "mark" /\ count >= 20 /\ isr = "none" /\ ~ctrl.alarm
  BY Zenon DEF Wkt!Counted, Wkt!At, Wkt!timer
<1>4. QED
  BY <1>2, <1>3, SMT DEF WktInv, Starting, Sleepy

LEMMA MarkStep == WktInv /\ Wkt!Mark => WktInv'
<1> SUFFICES ASSUME WktInv, Wkt!Mark PROVE WktInv'
  OBVIOUS
<1>1. /\ UNCHANGED <<ctrl, counter, pcon, osc, sleep, count, isr, cut>>
      /\ pc = "mark" /\ pc' = "deep" /\ PMU_GPREG0' = -1 /\ isr = "none" /\ ~ctrl.alarm
  BY SMT DEF Wkt!Mark, Wkt!At, Wkt!timer
<1>2. QED
  BY <1>1, SMT DEF WktInv, Starting, Sleepy

LEMMA DeepStep == WktInv /\ Wkt!Deep => WktInv'
<1> SUFFICES ASSUME WktInv, Wkt!Deep PROVE WktInv'
  OBVIOUS
<1>1. /\ UNCHANGED <<ctrl, pcon, osc, PMU_GPREG0, count, isr, cut>>
      /\ pc = "deep" /\ pc' = "wfi" /\ counter' = 29999 /\ sleep' = {"SLEEPDEEP"}
      /\ isr = "none" /\ ~ctrl.alarm
  BY SMT DEF Wkt!Deep, Wkt!At
<1>2. QED
  BY <1>1, SMT DEF WktInv, Starting, Sleepy

LEMMA WfiStep == WktInv /\ Wkt!Wfi => WktInv'
<1> SUFFICES ASSUME WktInv, Wkt!Wfi PROVE WktInv'
  OBVIOUS
<1>1. /\ pc = "wfi" /\ isr = "none" /\ ~ctrl.alarm
      /\ UNCHANGED <<ctrl, counter, pcon, osc, PMU_GPREG0, sleep, count, isr, cut>>
  BY Zenon DEF Wkt!Wfi, Wkt!At, Wkt!timer, Wkt!power
<1>2. pcon.mode = "deep-power-down" /\ sleep = {"SLEEPDEEP"}
  BY <1>1, SMT DEF WktInv, Sleepy
<1>3. pc' = "sleep"
  BY <1>2, Zenon DEF Wkt!Wfi
<1>4. QED
  BY <1>1, <1>3, SMT DEF WktInv, Starting, Sleepy

LEMMA WktInductive == WktInv /\ [Wkt!Next]_ofWkt => WktInv'
<1> SUFFICES ASSUME WktInv, [Wkt!Next]_ofWkt PROVE WktInv'
  OBVIOUS
<1>1. CASE Wkt!main
  BY <1>1, SetupStep, FlagStep, ForgetStep, FirstSecondStep, CountedStep, MarkStep,
     DeepStep, WfiStep, Zenon
     DEF Wkt!main
<1>2. CASE Wkt!Alarm \/ Wkt!Wake \/ Wkt!Button \/ Wkt!wkt_isr
  BY <1>2, AlarmStep, WakeStep, ButtonStep, EnterStep, ClearIsrStep, Zenon DEF Wkt!wkt_isr
<1>3. CASE UNCHANGED ofWkt
  <2>1. UNCHANGED <<ctrl, counter, pcon, osc, PMU_GPREG0, sleep, count, isr, pc, cut>>
    BY <1>3, Zenon DEF ofWkt
  <2>2. QED
    BY <2>1, SMT DEF WktInv
<1>4. QED
  BY <1>1, <1>2, <1>3, Zenon DEF Wkt!Next

LEMMA WktPromises == WktInv => Wkt!Seconds /\ Wkt!WillWake /\ Wkt!NoFalseError
<1> SUFFICES ASSUME WktInv PROVE Wkt!Seconds /\ Wkt!WillWake /\ Wkt!NoFalseError
  OBVIOUS
<1>1. counter > 0 => ((counter = 749999) <=> (ctrl.clock = "irc"))
  BY SMT DEF WktInv
<1>2. Wkt!Seconds
  BY <1>1, SMT DEF Wkt!Seconds
<1>3. Wkt!WillWake
  BY SMT DEF WktInv, Wkt!WillWake, Wkt!Wakes, Starting, Sleepy, Controls
<1>4. pc = "error" => cut
  BY SMT DEF WktInv
<1>5. Wkt!NoFalseError
  BY <1>4, SMT DEF Wkt!NoFalseError
<1>6. QED
  BY <1>2, <1>3, <1>5, Zenon

-----------------------------------------------------------------------------
(* The multi-rate timer.                                                   *)

Channel == [mode : Mrt!Timer!mrt_mode, inten : BOOLEAN, intval : Nat, timer : Nat,
            int : BOOLEAN, run : BOOLEAN]

LEMMA CountChannel ==
  ASSUME NEW ch \in Channel, NEW d, d = Mrt!Timer!Count(ch)
  PROVE  /\ d \in Channel /\ d.mode = ch.mode /\ d.inten = ch.inten /\ d.intval = ch.intval
         /\ ~ch.run => d = ch
         /\ ch.run /\ ch.timer > 1 => d.run /\ d.int = ch.int
         /\ ch.run /\ ~(ch.timer > 1) =>
              /\ d.int <=> ch.mode # "bus_stall"
              /\ d.run <=> ch.mode = "repeat" /\ ch.intval > 0
         /\ (ch.run => ch.timer > 0) => (d.run => d.timer > 0)
<1>1. CASE ~ch.run
  BY <1>1 DEF Mrt!Timer!Count
<1>2. CASE ch.run /\ ch.timer > 1
  <2>1. d = [ch EXCEPT !.timer = ch.timer - 1]
    BY <1>2 DEF Mrt!Timer!Count
  <2>2. ch.timer - 1 \in Nat
    BY <1>2 DEF Channel
  <2>3. QED
    BY <1>2, <2>1, <2>2 DEF Channel
<1>3. CASE ch.run /\ ~(ch.timer > 1)
  <2> DEFINE next == IF ch.mode = "repeat" THEN ch.intval ELSE 0
             B == ch.mode # "bus_stall"
             R == next > 0
  <2>1. d = [ch EXCEPT !.int = B, !.timer = next, !.run = R]
    BY <1>3 DEF Mrt!Timer!Count
  <2>2. next \in Nat /\ B \in BOOLEAN /\ R \in BOOLEAN
    BY DEF Channel
  <2>3. R <=> ch.mode = "repeat" /\ ch.intval > 0
    BY DEF Channel
  <2> HIDE DEF next, B, R
  <2>4. /\ d \in Channel /\ d.mode = ch.mode /\ d.inten = ch.inten /\ d.intval = ch.intval
        /\ d.int = B /\ d.run = R /\ d.timer = next
    BY <2>1, <2>2 DEF Channel
  <2>5. R => next > 0
    BY DEF R
  <2>6. QED
    BY <1>3, <2>3, <2>4, <2>5 DEF B
<1>4. QED
  BY <1>1, <1>2, <1>3

LEMMA LoadChannel ==
  ASSUME NEW ch \in Channel, NEW v \in Nat, NEW d, d = Mrt!Timer!Load(ch, v)
  PROVE  /\ d \in Channel /\ d.mode = ch.mode /\ d.inten = ch.inten /\ d.intval = v
         /\ d.int = ch.int
         /\ d.run <=> ch.run \/ v > 0
         /\ (ch.run => ch.timer > 0) => (d.run => d.timer > 0)
<1>1. CASE ch.run
  <2>1. d = [ch EXCEPT !.intval = v]
    BY <1>1 DEF Mrt!Timer!Load
  <2>2. QED
    BY <1>1, <2>1 DEF Channel
<1>2. CASE ~ch.run
  <2> DEFINE R == v > 0
  <2>1. d = [ch EXCEPT !.intval = v, !.timer = v, !.run = R]
    BY <1>2 DEF Mrt!Timer!Load
  <2> HIDE DEF R
  <2>2. R \in BOOLEAN
    BY DEF R
  <2>3. /\ d \in Channel /\ d.mode = ch.mode /\ d.inten = ch.inten /\ d.intval = v
        /\ d.int = ch.int /\ d.run = R /\ d.timer = v
    BY <2>1, <2>2 DEF Channel
  <2>4. QED
    BY <1>2, <2>3 DEF R
<1>3. QED
  BY <1>1, <1>2

\* The flag of a channel is cleared.
LEMMA ClearChannel ==
  ASSUME NEW ch \in Channel, NEW d, d = [ch EXCEPT !.int = FALSE]
  PROVE  /\ d \in Channel /\ d.mode = ch.mode /\ d.inten = ch.inten /\ d.intval = ch.intval
         /\ ~d.int /\ d.run = ch.run /\ d.timer = ch.timer
BY DEF Channel

\* Three channels are set up, each in its mode, and the first asks for interrupts.
Channels ==
  /\ mrt \in [0 .. 3 -> Channel]
  /\ mrt[0].mode = "repeat" /\ mrt[0].inten /\ (mrt[0].run => mrt[0].timer > 0)
  /\ mrt[1].mode = "one_shot"
  /\ \A c \in 1 .. 3 : ~mrt[c].inten

Idle(c) == ~mrt[c].run /\ ~mrt[c].int

\* A round of ten interrupts: the handler takes the interval back at the ninth,
\* and the interval that runs then is the last one.
Round10 ==
  /\ count \in 0 .. 10 /\ toggles = count
  /\ isr # "none" => mrt[0].int
  /\ count < 9 => isr # "stop" /\ mrt[0].run /\ mrt[0].intval > 0
  /\ count = 9 => \/ isr = "stop" /\ mrt[0].run
                  \/ isr = "clear" /\ mrt[0].run /\ mrt[0].intval = 0
                  \/ isr = "none" /\ mrt[0].intval = 0 /\ (mrt[0].run <=> ~mrt[0].int)
  /\ count = 10 => isr # "stop" /\ ~mrt[0].run /\ (isr = "none" => ~mrt[0].int)

MrtInv ==
  /\ Channels
  /\ pc \in {"start", "wait", "one", "poll", "stall"} /\ isr \in {"none", "stop", "clear"}
  /\ pc = "wait" => Round10
  /\ pc # "wait" => Idle(0) /\ isr = "none" /\ count = 0
  /\ pc # "poll" => Idle(1)
  /\ pc = "poll" => mrt[1].run <=> ~mrt[1].int
  /\ pc \in {"one", "poll", "stall"} => i \in 0 .. 9
  /\ pc = "one" => i = 0 \/ toggles = i
  /\ pc = "poll" => toggles = i
  /\ pc = "stall" => (i = 0 /\ j = 0) \/ toggles = i
  /\ pc = "stall" => j \in 0 .. Stalls
  /\ pc # "stall" => j = 0

\* The line of the timer is that of its first channel.
LEMMA OneLine == Channels => (Mrt!Timer!Line(mrt) <=> mrt[0].int)
<1> SUFFICES ASSUME Channels
             PROVE  Mrt!Timer!Line(mrt) <=> mrt[0].int
  OBVIOUS
<1>1. \A c \in 0 .. 3 : mrt[c].inten <=> c = 0
  BY DEF Channels
<1>2. QED
  BY <1>1 DEF Mrt!Timer!Line, Mrt!Timer!mrt_channel

LEMMA SetMode ==
  ASSUME NEW x \in [0 .. 3 -> Channel], NEW c \in 0 .. 3, NEW m \in Mrt!Timer!mrt_mode,
         NEW y, y = Mrt!Timer!mrt_set_mode(x, c, m)
  PROVE  /\ y \in [0 .. 3 -> Channel]
         /\ y[c].mode = m /\ ~y[c].inten /\ y[c].run = x[c].run /\ y[c].int = x[c].int
         /\ \A d \in 0 .. 3 : d # c => y[d] = x[d]
<1> DEFINE ch == [x[c] EXCEPT !.mode = m, !.inten = FALSE]
<1>1. ch \in Channel /\ ch.mode = m /\ ~ch.inten /\ ch.run = x[c].run /\ ch.int = x[c].int
  <2>1. x[c] \in Channel
    OBVIOUS
  <2>2. QED
    BY <2>1 DEF Channel
<1>2. y = [x EXCEPT ![c] = ch]
  BY DEF Mrt!Timer!mrt_set_mode
<1> HIDE DEF ch
<1>3. QED
  BY <1>1, <1>2

LEMMA EnableFirst ==
  ASSUME NEW x \in [0 .. 3 -> Channel], NEW y, y = Mrt!Timer!mrt_enable_interrupt(x, {0})
  PROVE  /\ y \in [0 .. 3 -> Channel]
         /\ y[0].mode = x[0].mode /\ y[0].inten /\ y[0].run = x[0].run /\ y[0].int = x[0].int
         /\ \A d \in 0 .. 3 : d # 0 => y[d] = x[d]
<1> DEFINE ch == [x[0] EXCEPT !.inten = TRUE]
<1>1. ch \in Channel /\ ch.mode = x[0].mode /\ ch.inten /\ ch.run = x[0].run /\ ch.int = x[0].int
  <2>1. x[0] \in Channel
    OBVIOUS
  <2>2. QED
    BY <2>1 DEF Channel
<1>2. y = [c \in 0 .. 3 |-> IF c = 0 THEN ch ELSE x[c]]
  <2>1. \A c \in 0 .. 3 : (c \in {0}) <=> (c = 0)
    OBVIOUS
  <2>2. QED
    BY <2>1 DEF Mrt!Timer!mrt_enable_interrupt, Mrt!Timer!SetInten, Mrt!Timer!mrt_channel
<1> HIDE DEF ch
<1>3. QED
  BY <1>1, <1>2

LEMMA MrtInitially == Mrt!Init => MrtInv
<1> SUFFICES ASSUME Mrt!Init PROVE MrtInv
  OBVIOUS
<1>1. /\ mrt = Mrt!mrt_setup /\ count = 0 /\ isr = "none" /\ pc = "start" /\ i = 0 /\ j = 0
      /\ toggles = 0
  BY DEF Mrt!Init
<1> DEFINE r0 == Mrt!Timer!Reset
           r1 == Mrt!Timer!mrt_set_mode(r0, 0, "repeat")
           r2 == Mrt!Timer!mrt_enable_interrupt(r1, {0})
           r3 == Mrt!Timer!mrt_set_mode(r2, 1, "one_shot")
           r4 == Mrt!Timer!mrt_set_mode(r3, 2, "bus_stall")
<1>2. mrt = r4
  BY <1>1 DEF Mrt!mrt_setup
<1>3. r0 \in [0 .. 3 -> Channel] /\ \A c \in 0 .. 3 : ~r0[c].inten /\ ~r0[c].run /\ ~r0[c].int
  BY DEF Mrt!Timer!Reset, Mrt!Timer!mrt_channel, Channel, Mrt!Timer!mrt_mode
<1>4. {"repeat", "one_shot", "bus_stall"} = Mrt!Timer!mrt_mode
  BY DEF Mrt!Timer!mrt_mode
<1>5. /\ r1 \in [0 .. 3 -> Channel] /\ r1[0].mode = "repeat"
      /\ \A c \in 0 .. 3 : ~r1[c].inten /\ ~r1[c].run /\ ~r1[c].int
  <2> HIDE DEF r0
  <2>1. /\ r1 \in [0 .. 3 -> Channel]
        /\ r1[0].mode = "repeat" /\ ~r1[0].inten /\ r1[0].run = r0[0].run /\ r1[0].int = r0[0].int
        /\ \A d \in 0 .. 3 : d # 0 => r1[d] = r0[d]
    BY <1>3, <1>4, SetMode
  <2> HIDE DEF r1
  <2>2. QED
    BY <1>3, <2>1
<1> HIDE DEF r1
<1>6. /\ r2 \in [0 .. 3 -> Channel] /\ r2[0].mode = "repeat" /\ r2[0].inten
      /\ \A c \in 1 .. 3 : ~r2[c].inten
      /\ \A c \in 0 .. 3 : ~r2[c].run /\ ~r2[c].int
  <2>1. /\ r2 \in [0 .. 3 -> Channel]
        /\ r2[0].mode = r1[0].mode /\ r2[0].inten /\ r2[0].run = r1[0].run /\ r2[0].int = r1[0].int
        /\ \A d \in 0 .. 3 : d # 0 => r2[d] = r1[d]
    BY <1>5, EnableFirst
  <2> HIDE DEF r2
  <2>2. QED
    BY <1>5, <2>1
<1> HIDE DEF r2
<1>7. /\ r3 \in [0 .. 3 -> Channel] /\ r3[0].mode = "repeat" /\ r3[0].inten
      /\ r3[1].mode = "one_shot"
      /\ \A c \in 1 .. 3 : ~r3[c].inten
      /\ \A c \in 0 .. 3 : ~r3[c].run /\ ~r3[c].int
  <2>1. /\ r3 \in [0 .. 3 -> Channel]
        /\ r3[1].mode = "one_shot" /\ ~r3[1].inten /\ r3[1].run = r2[1].run /\ r3[1].int = r2[1].int
        /\ \A d \in 0 .. 3 : d # 1 => r3[d] = r2[d]
    BY <1>4, <1>6, SetMode
  <2> HIDE DEF r3
  <2>2. QED
    BY <1>6, <2>1
<1> HIDE DEF r3
<1>8. /\ r4 \in [0 .. 3 -> Channel] /\ r4[0].mode = "repeat" /\ r4[0].inten
      /\ r4[1].mode = "one_shot"
      /\ \A c \in 1 .. 3 : ~r4[c].inten
      /\ \A c \in 0 .. 3 : ~r4[c].run /\ ~r4[c].int
  <2>1. /\ r4 \in [0 .. 3 -> Channel]
        /\ r4[2].mode = "bus_stall" /\ ~r4[2].inten /\ r4[2].run = r3[2].run /\ r4[2].int = r3[2].int
        /\ \A d \in 0 .. 3 : d # 2 => r4[d] = r3[d]
    BY <1>4, <1>7, SetMode
  <2> HIDE DEF r4
  <2>2. QED
    BY <1>7, <2>1
<1> HIDE DEF r4
<1>9. Channels /\ Idle(0) /\ Idle(1)
  BY <1>2, <1>8 DEF Channels, Idle
<1>10. QED
  BY <1>1, <1>9 DEF MrtInv

\* What a channel keeps, whatever is counted, loaded or cleared.
Same(ch, d) == d \in Channel /\ d.mode = ch.mode /\ d.inten = ch.inten

Live(ch) == ch.run => ch.timer > 0

LEMMA SameChannels ==
  ASSUME Channels, mrt' \in [0 .. 3 -> Channel],
         \A c \in 0 .. 3 : Same(mrt[c], mrt'[c]),
         Live(mrt[0]) => Live(mrt'[0])
  PROVE  Channels'
<1>1. /\ mrt'[0].mode = mrt[0].mode /\ mrt'[0].inten = mrt[0].inten
      /\ mrt'[1].mode = mrt[1].mode
      /\ \A c \in 1 .. 3 : mrt'[c].inten = mrt[c].inten
  BY DEF Same
<1>2. QED
  BY <1>1 DEF Channels, Live

\* The clock.
LEMMA TickStep ==
  ASSUME Channels, mrt' = Mrt!Timer!Tick(mrt)
  PROVE  Channels' /\ \A c \in 0 .. 3 : mrt'[c] = Mrt!Timer!Count(mrt[c])
<1>1. \A c \in 0 .. 3 : mrt[c] \in Channel
  BY DEF Channels
<1>2. \A c \in 0 .. 3 : mrt'[c] = Mrt!Timer!Count(mrt[c])
  BY DEF Mrt!Timer!Tick, Mrt!Timer!mrt_channel
<1>3. \A c \in 0 .. 3 : Same(mrt[c], mrt'[c]) /\ (Live(mrt[c]) => Live(mrt'[c]))
  BY <1>1, <1>2, CountChannel DEF Same, Live
<1>4. mrt' \in [0 .. 3 -> Channel]
  <2>1. mrt' = [c \in 0 .. 3 |-> Mrt!Timer!Count(mrt[c])]
    BY DEF Mrt!Timer!Tick, Mrt!Timer!mrt_channel
  <2>2. \A c \in 0 .. 3 : Mrt!Timer!Count(mrt[c]) \in Channel
    BY <1>2, <1>3 DEF Same
  <2>3. QED
    BY <2>1, <2>2
<1>5. QED
  BY <1>2, <1>3, <1>4, SameChannels

\* An interval is written.
LEMMA SetIntervalStep ==
  ASSUME Channels, NEW b \in 0 .. 3, NEW v \in Nat, mrt' = Mrt!Timer!mrt_set_interval(mrt, b, v)
  PROVE  /\ Channels'
         /\ \A c \in 0 .. 3 : mrt'[c] = IF c = b THEN Mrt!Timer!Load(mrt[c], v) ELSE mrt[c]
<1> DEFINE d == Mrt!Timer!Load(mrt[b], v)
<1>1. mrt \in [0 .. 3 -> Channel] /\ \A c \in 0 .. 3 : mrt[c] \in Channel
  BY DEF Channels
<1>2. mrt' = [mrt EXCEPT ![b] = d]
  BY DEF Mrt!Timer!mrt_set_interval
<1>3. Same(mrt[b], d) /\ (Live(mrt[b]) => Live(d))
  <2>1. mrt[b] \in Channel
    BY <1>1
  <2>2. QED
    BY <2>1, LoadChannel DEF Same, Live
<1>4. \A c \in 0 .. 3 : mrt'[c] = IF c = b THEN d ELSE mrt[c]
  BY <1>1, <1>2
<1> HIDE DEF d
<1>5. mrt' \in [0 .. 3 -> Channel]
  BY <1>1, <1>2, <1>3 DEF Same
<1>6. \A c \in 0 .. 3 : Same(mrt[c], mrt'[c])
  BY <1>1, <1>3, <1>4 DEF Same
<1>7. Live(mrt[0]) => Live(mrt'[0])
  BY <1>3, <1>4
<1>8. Channels'
  BY <1>5, <1>6, <1>7, SameChannels
<1>9. QED
  BY <1>4, <1>8 DEF d

\* A flag is cleared.
LEMMA ClearFlagStep ==
  ASSUME Channels, NEW b \in 0 .. 3, mrt' = Mrt!Timer!mrt_clear_interrupt(mrt, {b})
  PROVE  /\ Channels'
         /\ \A c \in 0 .. 3 : mrt'[c] = IF c = b THEN [mrt[c] EXCEPT !.int = FALSE] ELSE mrt[c]
<1> DEFINE d == [mrt[b] EXCEPT !.int = FALSE]
<1>1. mrt \in [0 .. 3 -> Channel] /\ \A c \in 0 .. 3 : mrt[c] \in Channel
  BY DEF Channels
<1>2. mrt' = [c \in 0 .. 3 |-> IF c = b THEN d ELSE mrt[c]]
  BY DEF Mrt!Timer!mrt_clear_interrupt, Mrt!Timer!mrt_channel
<1>3. Same(mrt[b], d) /\ (Live(mrt[b]) => Live(d))
  <2>1. mrt[b] \in Channel
    BY <1>1
  <2>2. QED
    BY <2>1, ClearChannel DEF Same, Live
<1>4. \A c \in 0 .. 3 : mrt'[c] = IF c = b THEN d ELSE mrt[c]
  BY <1>2
<1> HIDE DEF d
<1>5. mrt' \in [0 .. 3 -> Channel]
  BY <1>1, <1>2, <1>3 DEF Same
<1>6. \A c \in 0 .. 3 : Same(mrt[c], mrt'[c])
  BY <1>1, <1>3, <1>4 DEF Same
<1>7. Live(mrt[0]) => Live(mrt'[0])
  BY <1>3, <1>4
<1>8. Channels'
  BY <1>5, <1>6, <1>7, SameChannels
<1>9. QED
  BY <1>4, <1>8 DEF d

\* The flag is cleared twice by the handler, which makes no difference.
LEMMA ClearTwice ==
  ASSUME Channels
  PROVE  Mrt!Timer!mrt_clear_interrupt(Mrt!Timer!mrt_clear_channel_status(mrt, 0, {"int"}), {0})
           = Mrt!Timer!mrt_clear_interrupt(mrt, {0})
<1> DEFINE d == [mrt[0] EXCEPT !.int = FALSE]
           once == [c \in 0 .. 3 |-> IF c \in {0} THEN [mrt[c] EXCEPT !.int = FALSE] ELSE mrt[c]]
<1>1. mrt[0] \in Channel
  BY DEF Channels
<1>2. [d EXCEPT !.int = FALSE] = d
  BY <1>1 DEF Channel
<1>3. Mrt!Timer!mrt_clear_channel_status(mrt, 0, {"int"}) = once
  BY DEF Mrt!Timer!mrt_clear_channel_status, Mrt!Timer!mrt_clear_interrupt, Mrt!Timer!mrt_channel
<1>4. Mrt!Timer!mrt_clear_interrupt(mrt, {0}) = once
  BY DEF Mrt!Timer!mrt_clear_interrupt, Mrt!Timer!mrt_channel
<1>5. Mrt!Timer!mrt_clear_interrupt(once, {0})
        = [c \in 0 .. 3 |-> IF c \in {0} THEN [once[c] EXCEPT !.int = FALSE] ELSE once[c]]
  BY DEF Mrt!Timer!mrt_clear_interrupt, Mrt!Timer!mrt_channel
<1>6. once[0] = d /\ \A c \in 0 .. 3 : c # 0 => once[c] = mrt[c]
  OBVIOUS
<1>7. \A c \in 0 .. 3 : (IF c \in {0} THEN [once[c] EXCEPT !.int = FALSE] ELSE once[c]) = once[c]
  <2> HIDE DEF once
  <2>1. [once[0] EXCEPT !.int = FALSE] = once[0]
    BY <1>2, <1>6
  <2>2. QED
    BY <2>1
<1>8. [c \in 0 .. 3 |-> IF c \in {0} THEN [once[c] EXCEPT !.int = FALSE] ELSE once[c]]
        = [c \in 0 .. 3 |-> once[c]]
  <2> HIDE DEF once
  <2>1. QED
    BY <1>7
<1>9. QED
  BY <1>3, <1>4, <1>5, <1>8

LEMMA MrtClockStep == MrtInv /\ Mrt!Clock => MrtInv'
<1> SUFFICES ASSUME MrtInv, Mrt!Clock PROVE MrtInv'
  OBVIOUS
<1>1. Channels
  BY DEF MrtInv
<1>2. UNCHANGED <<count, isr, pc, i, j, toggles>> /\ ~(mrt[0].int /\ mrt[0].timer = 1)
  BY <1>1, OneLine DEF Mrt!Clock
<1>3. Channels' /\ \A c \in 0 .. 3 : mrt'[c] = Mrt!Timer!Count(mrt[c])
  <2>1. mrt' = Mrt!Timer!Tick(mrt)
    BY DEF Mrt!Clock
  <2>2. QED
    BY <1>1, <2>1, TickStep
<1>4. /\ mrt[0] \in Channel /\ mrt[0].mode = "repeat" /\ (mrt[0].run => mrt[0].timer > 0)
      /\ mrt[1] \in Channel /\ mrt[1].mode = "one_shot"
  BY <1>1 DEF Channels
<1>5. /\ mrt'[0].intval = mrt[0].intval
      /\ ~mrt[0].run => mrt'[0] = mrt[0]
      /\ mrt[0].run /\ mrt[0].timer > 1 => mrt'[0].run /\ mrt'[0].int = mrt[0].int
      /\ mrt[0].run /\ ~(mrt[0].timer > 1) => mrt'[0].int /\ (mrt'[0].run <=> mrt[0].intval > 0)
  <2>1. mrt'[0] = Mrt!Timer!Count(mrt[0])
    BY <1>3
  <2>2. QED
    BY <1>4, <2>1, CountChannel
<1>6. /\ ~mrt[1].run => mrt'[1] = mrt[1]
      /\ mrt[1].run => \/ mrt'[1].run /\ mrt'[1].int = mrt[1].int
                       \/ ~mrt'[1].run /\ mrt'[1].int
  <2>1. mrt'[1] = Mrt!Timer!Count(mrt[1])
    BY <1>3
  <2>2. QED
    BY <1>4, <2>1, CountChannel
<1>7. pc = "wait" => Round10'
  <2> SUFFICES ASSUME pc = "wait" PROVE Round10'
    OBVIOUS
  <2>1. Round10
    BY DEF MrtInv
  <2>2. mrt[0].timer \in Nat /\ mrt[0].intval \in Nat
    BY <1>4 DEF Channel
  <2>3. mrt[0].int => mrt'[0].int /\ (mrt[0].run => mrt'[0].run)
    <3>1. CASE ~mrt[0].run
      BY <1>5, <3>1
    <3>2. CASE mrt[0].int /\ mrt[0].run
      <4>1. mrt[0].timer > 1
        BY <1>2, <1>4, <2>2, <3>2
      <4>2. QED
        BY <1>5, <3>2, <4>1
    <3>3. CASE ~mrt[0].int
      BY <3>3
    <3>4. QED
      BY <3>1, <3>2, <3>3
  <2>4. mrt[0].run /\ mrt[0].intval > 0 => mrt'[0].run
    BY <1>5
  <2>5. mrt[0].run /\ mrt[0].intval = 0 /\ ~mrt[0].int => (mrt'[0].run <=> ~mrt'[0].int)
    BY <1>5
  <2>6. QED
    BY <1>2, <1>5, <2>1, <2>3, <2>4, <2>5, <2>2 DEF Round10
<1>8. /\ Idle(0) => Idle(0)'
      /\ Idle(1) => Idle(1)'
      /\ (mrt[1].run <=> ~mrt[1].int) => (mrt'[1].run <=> ~mrt'[1].int)
  BY <1>5, <1>6 DEF Idle
<1>9. QED
  BY <1>2, <1>3, <1>7, <1>8 DEF MrtInv

LEMMA MrtEnterStep == MrtInv /\ Mrt!Enter => MrtInv'
<1> SUFFICES ASSUME MrtInv, Mrt!Enter PROVE MrtInv'
  OBVIOUS
<1>1. Channels
  BY DEF MrtInv
<1>2. /\ isr = "none" /\ mrt[0].int
      /\ UNCHANGED <<mrt, pc, i, j>>
      /\ toggles' = toggles + 1 /\ count' = count + 1
      /\ isr' = IF count' = 9 THEN "stop" ELSE "clear"
  BY <1>1, OneLine DEF Mrt!Enter
<1>3. pc = "wait" /\ Round10
  BY <1>2 DEF MrtInv, Idle
<1>4. Round10'
  BY <1>2, <1>3 DEF Round10
<1>5. Channels' /\ (Idle(1) => Idle(1)')
  BY <1>1, <1>2 DEF Channels, Idle
<1>6. isr' \in {"none", "stop", "clear"}
  BY <1>2
<1>7. QED
  BY <1>2, <1>3, <1>4, <1>5, <1>6 DEF MrtInv

LEMMA MrtStopStep == MrtInv /\ Mrt!Stop => MrtInv'
<1> SUFFICES ASSUME MrtInv, Mrt!Stop PROVE MrtInv'
  OBVIOUS
<1>1. Channels
  BY DEF MrtInv
<1>2. /\ isr = "stop" /\ isr' = "clear"
      /\ UNCHANGED <<count, pc, i, j, toggles>>
      /\ mrt' = Mrt!Timer!mrt_set_interval(mrt, 0, 0)
  BY DEF Mrt!Stop
<1>3. pc = "wait" /\ Round10
  BY <1>2 DEF MrtInv
<1>4. Channels' /\ \A c \in 0 .. 3 : mrt'[c] = IF c = 0 THEN Mrt!Timer!Load(mrt[c], 0) ELSE mrt[c]
  BY <1>1, <1>2, SetIntervalStep
<1>5. mrt'[0].intval = 0 /\ mrt'[0].int = mrt[0].int /\ (mrt'[0].run <=> mrt[0].run)
  <2>1. mrt'[0] = Mrt!Timer!Load(mrt[0], 0) /\ mrt[0] \in Channel
    BY <1>1, <1>4 DEF Channels
  <2>2. QED
    BY <2>1, LoadChannel
<1>6. Round10'
  BY <1>2, <1>3, <1>5 DEF Round10
<1>7. Idle(1) => Idle(1)'
  BY <1>4 DEF Idle
<1>8. QED
  BY <1>2, <1>3, <1>4, <1>6, <1>7 DEF MrtInv

LEMMA MrtClearStep == MrtInv /\ Mrt!Clear => MrtInv'
<1> SUFFICES ASSUME MrtInv, Mrt!Clear PROVE MrtInv'
  OBVIOUS
<1>1. Channels
  BY DEF MrtInv
<1>2. /\ isr = "clear" /\ isr' = "none"
      /\ UNCHANGED <<count, pc, i, j, toggles>>
      /\ mrt' = Mrt!Timer!mrt_clear_interrupt(mrt, {0})
  BY <1>1, ClearTwice DEF Mrt!Clear
<1>3. pc = "wait" /\ Round10
  BY <1>2 DEF MrtInv
<1>4. /\ Channels'
      /\ \A c \in 0 .. 3 : mrt'[c] = IF c = 0 THEN [mrt[c] EXCEPT !.int = FALSE] ELSE mrt[c]
  BY <1>1, <1>2, ClearFlagStep
<1>5. mrt'[0].intval = mrt[0].intval /\ ~mrt'[0].int /\ mrt'[0].run = mrt[0].run
  <2>1. mrt'[0] = [mrt[0] EXCEPT !.int = FALSE] /\ mrt[0] \in Channel
    BY <1>1, <1>4 DEF Channels
  <2>2. QED
    BY <2>1, ClearChannel
<1>6. Round10'
  BY <1>2, <1>3, <1>5 DEF Round10
<1>7. Idle(1) => Idle(1)'
  BY <1>4 DEF Idle
<1>8. QED
  BY <1>2, <1>3, <1>4, <1>6, <1>7 DEF MrtInv

LEMMA RepeatStep == MrtInv /\ Mrt!Repeat => MrtInv'
<1> SUFFICES ASSUME MrtInv, Mrt!Repeat PROVE MrtInv'
  OBVIOUS
<1>1. Channels /\ Half \in Nat /\ Half > 0
  BY InterruptsAssumption DEF MrtInv
<1>2. /\ isr = "none" /\ pc = "start" /\ pc' = "wait" /\ toggles' = 0
      /\ UNCHANGED <<count, isr, i, j>>
      /\ mrt' = Mrt!Timer!mrt_set_interval(mrt, 0, Half)
  BY DEF Mrt!Repeat, Mrt!Runs
<1>3. Idle(0) /\ Idle(1) /\ count = 0 /\ j = 0
  BY <1>2 DEF MrtInv
<1>4. /\ Channels'
      /\ \A c \in 0 .. 3 : mrt'[c] = IF c = 0 THEN Mrt!Timer!Load(mrt[c], Half) ELSE mrt[c]
  BY <1>1, <1>2, SetIntervalStep
<1>5. mrt'[0].intval = Half /\ mrt'[0].run
  <2>1. mrt'[0] = Mrt!Timer!Load(mrt[0], Half) /\ mrt[0] \in Channel
    BY <1>1, <1>4 DEF Channels
  <2>2. QED
    BY <1>1, <2>1, LoadChannel
<1>6. Round10'
  BY <1>1, <1>2, <1>3, <1>5 DEF Round10
<1>7. Idle(1)'
  BY <1>3, <1>4 DEF Idle
<1>8. QED
  BY <1>2, <1>3, <1>4, <1>6, <1>7 DEF MrtInv

LEMMA RoundEnds == MrtInv /\ Mrt!Counted => count = 10 /\ toggles = 10 /\ Idle(0) /\ Idle(1)
BY DEF MrtInv, Mrt!Counted, Mrt!Runs, Round10, Idle

LEMMA MrtCountedStep == MrtInv /\ Mrt!Counted => MrtInv'
<1> SUFFICES ASSUME MrtInv, Mrt!Counted PROVE MrtInv'
  OBVIOUS
<1>1. /\ isr = "none" /\ pc = "wait" /\ pc' = "one" /\ count' = 0 /\ i' = 0
      /\ UNCHANGED <<mrt, isr, j, toggles>>
  BY DEF Mrt!Counted, Mrt!Runs
<1>2. Idle(0)' /\ Idle(1)' /\ Channels'
  BY <1>1, RoundEnds DEF MrtInv, Idle, Channels
<1>3. j = 0
  BY <1>1 DEF MrtInv
<1>4. QED
  BY <1>1, <1>2, <1>3 DEF MrtInv

LEMMA OneShotStep == MrtInv /\ Mrt!OneShot => MrtInv'
<1> SUFFICES ASSUME MrtInv, Mrt!OneShot PROVE MrtInv'
  OBVIOUS
<1> DEFINE v == 2 * Half
<1>1. Channels /\ v \in Nat /\ v > 0
  BY InterruptsAssumption DEF MrtInv
<1>2. /\ isr = "none" /\ pc = "one" /\ pc' = "poll" /\ toggles' = IF i = 0 THEN 0 ELSE toggles
      /\ UNCHANGED <<count, isr, i, j>>
      /\ mrt' = Mrt!Timer!mrt_set_interval(mrt, 1, v)
  BY DEF Mrt!OneShot, Mrt!Runs
<1> HIDE DEF v
<1>3. Idle(0) /\ Idle(1) /\ count = 0 /\ j = 0 /\ i \in 0 .. 9 /\ toggles' = i
  BY <1>2 DEF MrtInv
<1>4. /\ Channels'
      /\ \A c \in 0 .. 3 : mrt'[c] = IF c = 1 THEN Mrt!Timer!Load(mrt[c], v) ELSE mrt[c]
  BY <1>1, <1>2, SetIntervalStep
<1>5. ~mrt'[1].int /\ mrt'[1].run
  <2>1. mrt'[1] = Mrt!Timer!Load(mrt[1], v) /\ mrt[1] \in Channel
    BY <1>1, <1>4 DEF Channels
  <2>2. mrt'[1].int = mrt[1].int /\ mrt'[1].run
    BY <1>1, <2>1, LoadChannel
  <2>3. QED
    BY <1>3, <2>2 DEF Idle
<1>6. Idle(0)'
  BY <1>3, <1>4 DEF Idle
<1>7. QED
  BY <1>2, <1>3, <1>4, <1>5, <1>6 DEF MrtInv

\* A delay that is polled for is over when its channel has counted down.
LEMMA DelayEnds == MrtInv /\ Mrt!TimedOut => pc = "poll" /\ mrt[1].int /\ ~mrt[1].run /\ toggles = i
BY DEF MrtInv, Mrt!TimedOut, Mrt!Runs, Mrt!Timer!mrt_get_channel_status

LEMMA TimedOutStep == MrtInv /\ Mrt!TimedOut => MrtInv'
<1> SUFFICES ASSUME MrtInv, Mrt!TimedOut PROVE MrtInv'
  OBVIOUS
<1>1. Channels
  BY DEF MrtInv
<1>2. /\ isr = "none" /\ pc = "poll" /\ toggles' = toggles + 1
      /\ i' = IF i + 1 < 10 THEN i + 1 ELSE 0
      /\ pc' = IF i + 1 < 10 THEN "one" ELSE "stall"
      /\ UNCHANGED <<count, isr, j>>
      /\ mrt' = Mrt!Timer!mrt_clear_interrupt(mrt, {1})
  BY DEF Mrt!TimedOut, Mrt!Runs, Mrt!Timer!mrt_clear_channel_status
<1>3. Idle(0) /\ count = 0 /\ j = 0 /\ i \in 0 .. 9 /\ toggles = i /\ ~mrt[1].run
  BY <1>2, DelayEnds DEF MrtInv
<1>4. /\ Channels'
      /\ \A c \in 0 .. 3 : mrt'[c] = IF c = 1 THEN [mrt[c] EXCEPT !.int = FALSE] ELSE mrt[c]
  BY <1>1, <1>2, ClearFlagStep
<1>5. Idle(0)' /\ Idle(1)'
  <2>1. mrt'[1] = [mrt[1] EXCEPT !.int = FALSE] /\ mrt[1] \in Channel
    BY <1>1, <1>4 DEF Channels
  <2>2. QED
    BY <1>3, <1>4, <2>1, ClearChannel DEF Idle
<1>6. \/ pc' = "one" /\ i' \in 0 .. 9 /\ toggles' = i'
      \/ pc' = "stall" /\ i' = 0
  BY <1>2, <1>3
<1>7. Stalls \in Nat
  BY InterruptsAssumption
<1>8. QED
  BY <1>2, <1>3, <1>4, <1>5, <1>6, <1>7 DEF MrtInv

LEMMA BusStallStep == MrtInv /\ Mrt!BusStall => MrtInv'
<1> SUFFICES ASSUME MrtInv, Mrt!BusStall PROVE MrtInv'
  OBVIOUS
<1>1. Channels /\ Ms \in Nat /\ Stalls \in Nat
  BY InterruptsAssumption DEF MrtInv
<1>2. /\ isr = "none" /\ pc = "stall" /\ j < Stalls /\ j' = j + 1
      /\ toggles' = IF i = 0 /\ j = 0 THEN 0 ELSE toggles
      /\ UNCHANGED <<count, isr, pc, i>>
      /\ mrt' = Mrt!Timer!mrt_set_interval(mrt, 2, Ms)
  BY DEF Mrt!BusStall, Mrt!Runs
<1>3. /\ Idle(0) /\ Idle(1) /\ count = 0 /\ i \in 0 .. 9 /\ j \in 0 .. Stalls
      /\ (i = 0 /\ j = 0) \/ toggles = i
  BY <1>2 DEF MrtInv
<1>4. /\ Channels'
      /\ \A c \in 0 .. 3 : mrt'[c] = IF c = 2 THEN Mrt!Timer!Load(mrt[c], Ms) ELSE mrt[c]
  BY <1>1, <1>2, SetIntervalStep
<1>5. Idle(0)' /\ Idle(1)'
  BY <1>3, <1>4 DEF Idle
<1>6. toggles' = i /\ j' \in 0 .. Stalls
  BY <1>1, <1>2, <1>3
<1>7. QED
  BY <1>2, <1>3, <1>4, <1>5, <1>6 DEF MrtInv

\* A delay of stalls is over: one at least was waited for.
LEMMA StallsEnd == MrtInv /\ Mrt!Stalled => toggles = i /\ i \in 0 .. 9
<1> SUFFICES ASSUME MrtInv, Mrt!Stalled PROVE toggles = i /\ i \in 0 .. 9
  OBVIOUS
<1>1. j # 0
  BY InterruptsAssumption DEF Mrt!Stalled
<1>2. QED
  BY <1>1 DEF MrtInv, Mrt!Stalled, Mrt!Runs

LEMMA StalledStep == MrtInv /\ Mrt!Stalled => MrtInv'
<1> SUFFICES ASSUME MrtInv, Mrt!Stalled PROVE MrtInv'
  OBVIOUS
<1>1. /\ isr = "none" /\ pc = "stall" /\ toggles' = toggles + 1
      /\ i' = (IF i + 1 < 10 THEN i + 1 ELSE 0)
      /\ j' = 0 /\ pc' = IF i + 1 < 10 THEN "stall" ELSE "start"
      /\ UNCHANGED <<mrt, count, isr>>
  BY DEF Mrt!Stalled, Mrt!Runs
<1>2. Idle(0) /\ Idle(1) /\ count = 0 /\ Channels
  BY <1>1 DEF MrtInv
<1>3. Idle(0)' /\ Idle(1)' /\ Channels'
  BY <1>1, <1>2 DEF Idle, Channels
<1>4. \/ pc' = "stall" /\ i' \in 0 .. 9 /\ toggles' = i'
      \/ pc' = "start"
  BY <1>1, StallsEnd
<1>5. Stalls \in Nat
  BY InterruptsAssumption
<1>6. QED
  BY <1>1, <1>2, <1>3, <1>4, <1>5 DEF MrtInv

LEMMA MrtInductive == MrtInv /\ [Mrt!Next]_ofMrt => MrtInv'
<1> SUFFICES ASSUME MrtInv, [Mrt!Next]_ofMrt PROVE MrtInv'
  OBVIOUS
<1>1. CASE Mrt!Clock
  BY <1>1, MrtClockStep
<1>2. CASE Mrt!mrt_isr
  BY <1>2, MrtEnterStep, MrtStopStep, MrtClearStep, Zenon DEF Mrt!mrt_isr
<1>3. CASE Mrt!main
  BY <1>3, RepeatStep, MrtCountedStep, OneShotStep, TimedOutStep, BusStallStep, StalledStep, Zenon
     DEF Mrt!main
<1>4. CASE UNCHANGED ofMrt
  <2>1. UNCHANGED <<mrt, count, isr, pc, i, j, toggles>>
    BY <1>4 DEF ofMrt
  <2>2. QED
    BY <2>1 DEF MrtInv, Channels, Idle, Round10
<1>5. QED
  BY <1>1, <1>2, <1>3, <1>4, Zenon DEF Mrt!Next

LEMMA MrtAtRest == MrtInv => Mrt!AtRest
<1> SUFFICES ASSUME MrtInv, pc # "wait"
             PROVE  ~mrt[0].run /\ isr = "none" /\ ~Mrt!Timer!Line(mrt)
  BY DEF Mrt!AtRest
<1>1. Idle(0) /\ isr = "none" /\ Channels
  BY DEF MrtInv
<1>2. QED
  BY <1>1, OneLine DEF Idle

LEMMA MrtPhases == MrtInv /\ [Mrt!Next]_ofMrt => Mrt!TenEach /\ Mrt!FullDelay
<1> SUFFICES ASSUME MrtInv, [Mrt!Next]_ofMrt PROVE Mrt!TenEach /\ Mrt!FullDelay
  OBVIOUS
<1>1. CASE UNCHANGED pc
  BY <1>1 DEF Mrt!TenEach, Mrt!Ends, Mrt!FullDelay
<1>2. CASE Mrt!Repeat
  BY <1>2 DEF Mrt!Repeat, Mrt!Runs, Mrt!TenEach, Mrt!Ends, Mrt!FullDelay
<1>3. CASE Mrt!Counted
  <2>1. pc = "wait" /\ toggles' = 10
    BY <1>3, RoundEnds DEF Mrt!Counted, Mrt!Runs
  <2>2. QED
    BY <2>1 DEF Mrt!TenEach, Mrt!FullDelay
<1>4. CASE Mrt!OneShot
  BY <1>4 DEF Mrt!OneShot, Mrt!Runs, Mrt!TenEach, Mrt!Ends, Mrt!FullDelay
<1>5. CASE Mrt!TimedOut
  <2>1. /\ pc = "poll" /\ ~mrt[1].run /\ toggles = i /\ i \in 0 .. 9
        /\ toggles' = toggles + 1 /\ pc' = IF i + 1 < 10 THEN "one" ELSE "stall"
    BY <1>5, DelayEnds DEF MrtInv, Mrt!TimedOut
  <2>2. pc' = "stall" => toggles' = 10
    BY <2>1
  <2>3. QED
    BY <2>1, <2>2 DEF Mrt!TenEach, Mrt!Ends, Mrt!FullDelay
<1>6. CASE Mrt!Stalled
  <2>1. /\ pc = "stall" /\ toggles = i /\ i \in 0 .. 9
        /\ toggles' = toggles + 1 /\ pc' = IF i + 1 < 10 THEN "stall" ELSE "start"
    BY <1>6, StallsEnd DEF Mrt!Stalled, Mrt!Runs
  <2>2. pc' = "start" => toggles' = 10
    BY <2>1
  <2>3. QED
    BY <2>1, <2>2 DEF Mrt!TenEach, Mrt!Ends, Mrt!FullDelay
<1>7. QED
  BY <1>1, <1>2, <1>3, <1>4, <1>5, <1>6
     DEF Mrt!Next, Mrt!Clock, Mrt!mrt_isr, Mrt!Enter, Mrt!Stop, Mrt!Clear, Mrt!main,
         Mrt!BusStall, ofMrt

-----------------------------------------------------------------------------
(* The ring of usart_irq.                                                  *)

LEMMA EchoSizes == QUEUESIZE \in Nat \ {0} /\ MaxChars \in Nat /\ NoChar \notin Nat
BY InterruptsAssumption

\* An index that is advanced by one and wrapped at the end of the ring.
LEMMA RingWrap ==
  ASSUME NEW k \in 0 .. QUEUESIZE - 1
  PROVE  (k + 1) % QUEUESIZE = IF k + 1 = QUEUESIZE THEN 0 ELSE k + 1
<1>1. QUEUESIZE \in Nat \ {0} /\ k \in Int
  BY EchoSizes
<1>2. CASE k + 1 = QUEUESIZE
  BY <1>1, <1>2
<1>3. CASE k + 1 # QUEUESIZE
  BY <1>1, <1>3
<1>4. QED
  BY <1>2, <1>3

\* The handler works with the mask and the status it has read; until it uses
\* them the receiver stays full and the transmitter empty.
Snapshot ==
  /\ pc = "rx" => mask = inten
  /\ pc = "rx" /\ "RXRDY" \in seen => rxdat # NoChar
  /\ pc \in {"rx", "tx"} /\ "TXRDY" \in seen => txdat = NoChar

\* The write pointer is the slot behind the last waiting character.
RingPointers == tail = Echo!Slot(qlen)

EchoInv == Echo!TypeOK /\ Echo!Conserved /\ Echo!Armed /\ Snapshot /\ RingPointers

\* Characters are numbers, so none is mistaken for an empty register.
LEMMA CharIsNat == Echo!Char \subseteq Nat /\ NoChar \notin Echo!Char /\ QUEUESIZE \in Nat \ {0}
BY EchoSizes DEF Echo!Char

LEMMA EchoInitially == Echo!Init => EchoInv
<1> SUFFICES ASSUME Echo!Init PROVE EchoInv
  OBVIOUS
<1>1. Echo!TypeOK
  BY EchoSizes DEF Echo!Init, Echo!TypeOK, Echo!Interrupt, Echo!Char
<1>2. Echo!Conserved
  BY DEF Echo!Init, Echo!Conserved, Echo!InTransmitter
<1>3. Echo!Armed /\ Snapshot /\ RingPointers
  BY CharIsNat DEF Echo!Init, Echo!Armed, Snapshot, RingPointers, Echo!Slot
<1>4. QED
  BY <1>1, <1>2, <1>3 DEF EchoInv

\* A character arrives.
LEMMA EchoArriveStep == EchoInv /\ Echo!Arrive => EchoInv'
<1> SUFFICES ASSUME EchoInv, Echo!Arrive PROVE EchoInv'
  OBVIOUS
<1>1. Echo!TypeOK'
  BY EchoSizes DEF EchoInv, Echo!Arrive, Echo!TypeOK, Echo!Char
<1>2. Echo!Conserved'
  BY DEF EchoInv, Echo!Arrive, Echo!Conserved, Echo!InTransmitter, Echo!Slot
<1>3. Echo!Armed' /\ Snapshot' /\ RingPointers'
  BY CharIsNat DEF EchoInv, Echo!Arrive, Echo!Armed, Snapshot, RingPointers, Echo!Slot,
                   Echo!TypeOK, Echo!Char
<1>4. QED
  BY <1>1, <1>2, <1>3 DEF EchoInv

\* A character leaves the transmitter.
LEMMA EchoTransmitStep == EchoInv /\ Echo!Transmit => EchoInv'
<1> SUFFICES ASSUME EchoInv, Echo!Transmit PROVE EchoInv'
  OBVIOUS
<1>1. Echo!TypeOK'
  BY DEF EchoInv, Echo!Transmit, Echo!TypeOK
<1>2. Echo!Conserved'
  <2>1. /\ Len(wire') = Len(wire) + 1
        /\ \A k \in 1 .. Len(wire) : wire'[k] = wire[k]
        /\ wire'[Len(wire) + 1] = txdat
    BY DEF EchoInv, Echo!TypeOK, Echo!Transmit
  <2>2. Echo!InTransmitter = 1 /\ Echo!InTransmitter' = 0
    BY DEF Echo!Transmit, Echo!InTransmitter
  <2>3. Len(wire) \in Nat
    BY DEF EchoInv, Echo!TypeOK
  <2>4. QED
    BY <2>1, <2>2, <2>3 DEF EchoInv, Echo!TypeOK, Echo!Transmit, Echo!Conserved, Echo!Slot
<1>3. Echo!Armed' /\ Snapshot' /\ RingPointers'
  BY DEF EchoInv, Echo!Transmit, Echo!Armed, Snapshot, RingPointers, Echo!Slot
<1>4. QED
  BY <1>1, <1>2, <1>3 DEF EchoInv

\* The handler begins.
LEMMA EchoEnterStep == EchoInv /\ Echo!Enter => EchoInv'
<1> SUFFICES ASSUME EchoInv, Echo!Enter PROVE EchoInv'
  OBVIOUS
<1>1. Echo!TypeOK'
  BY DEF EchoInv, Echo!Enter, Echo!TypeOK, Echo!Status
<1>2. Echo!Conserved' /\ Echo!Armed' /\ RingPointers'
  BY DEF EchoInv, Echo!Enter, Echo!Conserved, Echo!Armed, RingPointers, Echo!InTransmitter,
         Echo!Slot
<1>3. Snapshot'
  BY DEF Echo!Enter, Snapshot, Echo!Status
<1>4. QED
  BY <1>1, <1>2, <1>3 DEF EchoInv

\* Two waiting characters are in different slots, and so is the free slot
\* behind them.
LEMMA RingSlots ==
  ASSUME Echo!TypeOK, NEW k \in 0 .. QUEUESIZE - 1, NEW l \in 0 .. QUEUESIZE - 1, k # l
  PROVE  Echo!Slot(k) \in 0 .. QUEUESIZE - 1 /\ Echo!Slot(k) # Echo!Slot(l)
BY CharIsNat DEF Echo!TypeOK, Echo!Slot

\* A character goes into the ring.
LEMMA EchoPutStep == EchoInv /\ Echo!Put => EchoInv'
<1> SUFFICES ASSUME EchoInv, Echo!Put PROVE EchoInv'
  OBVIOUS
<1> USE CharIsNat
<1>1. rxdat \in Echo!Char /\ rxdat # NoChar
  BY DEF EchoInv, Echo!TypeOK, Echo!Put, Snapshot
<1>2. tail' = IF tail + 1 = QUEUESIZE THEN 0 ELSE tail + 1
  BY RingWrap DEF EchoInv, Echo!TypeOK, Echo!Put
<1>3. /\ Len(accepted') = Len(accepted) + 1
      /\ \A k \in 1 .. Len(accepted) : accepted'[k] = accepted[k]
      /\ accepted'[Len(accepted) + 1] = rxdat
  BY <1>1 DEF EchoInv, Echo!TypeOK, Echo!Put
<1>4. Echo!TypeOK'
  BY <1>1, <1>2 DEF EchoInv, Echo!TypeOK, Echo!Put, Echo!Interrupt
<1>5. Echo!Conserved'
  <2>1. /\ Echo!InTransmitter' = Echo!InTransmitter /\ Echo!InTransmitter \in {0, 1}
        /\ wire' = wire /\ txdat' = txdat /\ qlen' = qlen + 1
        /\ Len(wire) \in Nat /\ qlen \in Nat /\ qlen < QUEUESIZE
        /\ Len(accepted) = Len(wire) + Echo!InTransmitter + qlen
    BY DEF EchoInv, Echo!TypeOK, Echo!Put, Echo!InTransmitter, Echo!Conserved
  <2>2. Len(accepted') = Len(wire') + Echo!InTransmitter' + qlen'
    BY <1>3, <2>1
  <2>3. \A k \in 1 .. Len(wire') : accepted'[k] = wire'[k]
    BY <1>3, <2>1 DEF EchoInv, Echo!Conserved
  <2>4. txdat' # NoChar => accepted'[Len(wire') + 1] = txdat'
    BY <1>3, <2>1 DEF EchoInv, Echo!Conserved, Echo!InTransmitter
  <2>5. ASSUME NEW k \in 0 .. qlen' - 1
        PROVE  queue'[Echo!Slot(k)'] = accepted'[Len(wire') + Echo!InTransmitter' + k + 1]
    <3>1. Echo!Slot(k)' = Echo!Slot(k) /\ tail = Echo!Slot(qlen)
      BY DEF Echo!Put, Echo!Slot, EchoInv, RingPointers
    <3>2. CASE k = qlen
      <4>1. queue'[tail] = rxdat
        BY DEF Echo!Put, EchoInv, Echo!TypeOK
      <4>2. QED
        BY <1>3, <2>1, <3>1, <3>2, <4>1
    <3>3. CASE k \in 0 .. qlen - 1
      <4>1. Echo!Slot(k) \in 0 .. QUEUESIZE - 1 /\ Echo!Slot(k) # tail
        BY <2>1, <3>1, <3>3, RingSlots DEF EchoInv
      <4>2. queue'[Echo!Slot(k)] = queue[Echo!Slot(k)]
        BY <4>1 DEF Echo!Put, EchoInv, Echo!TypeOK
      <4>3. queue[Echo!Slot(k)] = accepted[Len(wire) + Echo!InTransmitter + k + 1]
        BY <3>3 DEF EchoInv, Echo!Conserved
      <4>4. Len(wire) + Echo!InTransmitter + k + 1 \in 1 .. Len(accepted)
        BY <2>1, <3>3
      <4>5. QED
        BY <1>3, <2>1, <3>1, <4>2, <4>3, <4>4
    <3>4. QED
      BY <2>1, <3>2, <3>3
  <2>6. QED
    BY <2>2, <2>3, <2>4, <2>5 DEF Echo!Conserved
<1>6. Echo!Armed' /\ Snapshot'
  BY DEF EchoInv, Echo!TypeOK, Echo!Put, Echo!Armed, Snapshot
<1>7. RingPointers'
  <2>1. /\ head' = head /\ qlen' = qlen + 1 /\ tail = Echo!Slot(qlen)
        /\ head \in 0 .. QUEUESIZE - 1 /\ qlen \in 0 .. QUEUESIZE - 1
    BY DEF EchoInv, Echo!TypeOK, Echo!Put, RingPointers
  <2>2. QED
    BY <1>2, <2>1 DEF RingPointers, Echo!Slot
<1>8. QED
  BY <1>4, <1>5, <1>6, <1>7 DEF EchoInv

\* The receiver is emptied although the ring is full, or nothing is there.
LEMMA EchoNoPutStep == EchoInv /\ (Echo!Overflow \/ Echo!NothingReceived) => EchoInv'
<1> SUFFICES ASSUME EchoInv, Echo!Overflow \/ Echo!NothingReceived PROVE EchoInv'
  OBVIOUS
<1>1. Echo!TypeOK'
  BY DEF EchoInv, Echo!Overflow, Echo!NothingReceived, Echo!TypeOK
<1>2. Echo!Conserved' /\ Echo!Armed' /\ RingPointers'
  BY DEF EchoInv, Echo!Overflow, Echo!NothingReceived, Echo!Conserved, Echo!Armed,
         RingPointers, Echo!InTransmitter, Echo!Slot
<1>3. Snapshot'
  BY DEF EchoInv, Echo!Overflow, Echo!NothingReceived, Snapshot
<1>4. QED
  BY <1>1, <1>2, <1>3 DEF EchoInv

\* A character goes from the ring to the transmitter.
LEMMA EchoGetStep == EchoInv /\ Echo!Get => EchoInv'
<1> SUFFICES ASSUME EchoInv, Echo!Get PROVE EchoInv'
  OBVIOUS
<1> USE CharIsNat
<1>1. txdat = NoChar /\ Echo!InTransmitter = 0
  BY DEF EchoInv, Echo!TypeOK, Echo!Get, Snapshot, Echo!InTransmitter
<1>2. head' = IF head + 1 = QUEUESIZE THEN 0 ELSE head + 1
  BY RingWrap DEF EchoInv, Echo!TypeOK, Echo!Get
<1>3. /\ Echo!Slot(0) = head /\ qlen \in Nat /\ qlen > 0 /\ qlen <= QUEUESIZE
      /\ Len(wire) \in Nat
  BY DEF EchoInv, Echo!TypeOK, Echo!Get, Echo!Slot
<1>4. /\ Len(accepted) = Len(wire) + qlen
      /\ queue[head] = accepted[Len(wire) + 1]
  BY <1>1, <1>3 DEF EchoInv, Echo!Conserved
<1>5. txdat' \in Echo!Char /\ txdat' # NoChar
  <2>1. Len(wire) + 1 \in 1 .. Len(accepted)
    BY <1>3, <1>4
  <2>2. accepted[Len(wire) + 1] \in Echo!Char
    BY <2>1 DEF EchoInv, Echo!TypeOK
  <2>3. QED
    BY <1>4, <2>2 DEF Echo!Get
<1>6. Echo!TypeOK'
  BY <1>2, <1>5 DEF EchoInv, Echo!TypeOK, Echo!Get
<1>7. Echo!Conserved'
  <2>1. /\ Echo!InTransmitter' = 1 /\ qlen' = qlen - 1
        /\ wire' = wire /\ accepted' = accepted /\ queue' = queue
    BY <1>5 DEF Echo!Get, Echo!InTransmitter
  <2>2. txdat' = accepted'[Len(wire') + 1]
    BY <1>4, <2>1 DEF Echo!Get
  <2>3. ASSUME NEW k \in 0 .. qlen' - 1
        PROVE  queue'[Echo!Slot(k)'] = accepted'[Len(wire') + Echo!InTransmitter' + k + 1]
    <3>1. Echo!Slot(k)' = Echo!Slot(k + 1)
      BY <1>2, <1>3, <2>1 DEF Echo!Slot, EchoInv, Echo!TypeOK
    <3>2. k + 1 \in 0 .. qlen - 1
      BY <1>3, <2>1
    <3>3. queue[Echo!Slot(k + 1)] = accepted[Len(wire) + Echo!InTransmitter + (k + 1) + 1]
      BY <3>2 DEF EchoInv, Echo!Conserved
    <3>4. QED
      BY <1>1, <1>3, <2>1, <3>1, <3>3
  <2>4. QED
    BY <1>3, <1>4, <2>1, <2>2, <2>3 DEF EchoInv, Echo!Conserved
<1>8. Echo!Armed' /\ Snapshot'
  BY DEF EchoInv, Echo!TypeOK, Echo!Get, Echo!Armed, Snapshot
<1>9. RingPointers'
  <2>1. /\ tail' = tail /\ qlen' = qlen - 1 /\ tail = Echo!Slot(qlen)
        /\ head \in 0 .. QUEUESIZE - 1 /\ qlen \in 1 .. QUEUESIZE
    BY <1>3 DEF EchoInv, Echo!TypeOK, Echo!Get, RingPointers
  <2>2. QED
    BY <1>2, <2>1 DEF RingPointers, Echo!Slot
<1>10. QED
  BY <1>6, <1>7, <1>8, <1>9 DEF EchoInv

\* Nothing is sent.
LEMMA EchoNoGetStep == EchoInv /\ (Echo!Disable \/ Echo!NotReady) => EchoInv'
<1> SUFFICES ASSUME EchoInv, Echo!Disable \/ Echo!NotReady PROVE EchoInv'
  OBVIOUS
<1>1. Echo!TypeOK'
  BY DEF EchoInv, Echo!Disable, Echo!NotReady, Echo!TypeOK
<1>2. Echo!Conserved' /\ RingPointers'
  BY DEF EchoInv, Echo!Disable, Echo!NotReady, Echo!Conserved, RingPointers,
         Echo!InTransmitter, Echo!Slot
<1>3. Echo!Armed' /\ Snapshot'
  BY CharIsNat DEF EchoInv, Echo!TypeOK, Echo!Disable, Echo!NotReady, Echo!Armed, Snapshot
<1>4. QED
  BY <1>1, <1>2, <1>3 DEF EchoInv

LEMMA EchoStutterStep == EchoInv /\ UNCHANGED ofEcho => EchoInv'
BY DEF EchoInv, ofEcho, Echo!TypeOK, Echo!Conserved, Echo!Armed, Snapshot, RingPointers,
       Echo!InTransmitter, Echo!Slot

LEMMA EchoInductive == EchoInv /\ [Echo!Next]_ofEcho => EchoInv'
BY EchoArriveStep, EchoTransmitStep, EchoEnterStep, EchoPutStep, EchoNoPutStep, EchoGetStep,
   EchoNoGetStep, EchoStutterStep DEF Echo!Next, Echo!uart0_isr

\* Sequences that agree element by element.
LEMMA EqualsAppend ==
  ASSUME NEW S, NEW q \in Seq(S), NEW e \in S, NEW r \in Seq(S),
         Len(r) = Len(q) + 1, \A k \in 1 .. Len(q) : r[k] = q[k], r[Len(q) + 1] = e
  PROVE  r = Append(q, e)
<1>1. /\ Append(q, e) \in Seq(S) /\ Len(Append(q, e)) = Len(q) + 1
      /\ \A k \in 1 .. Len(q) : Append(q, e)[k] = q[k]
      /\ Append(q, e)[Len(q) + 1] = e
  BY AppendProperties
<1>2. \A k \in 1 .. Len(r) : r[k] = Append(q, e)[k]
  BY <1>1
<1>3. QED
  BY <1>1, <1>2, SeqEqual

LEMMA EqualsTail ==
  ASSUME NEW S, NEW q \in Seq(S), q # <<>>, NEW r \in Seq(S),
         Len(r) = Len(q) - 1, \A k \in 1 .. Len(r) : r[k] = q[k + 1]
  PROVE  r = Tail(q)
BY HeadTailProperties, SeqEqual

\* What waits is a sequence of characters.
WaitingOK ==
  /\ Echo!Waiting \in Seq(Echo!Char) /\ Len(Echo!Waiting) = Echo!InTransmitter + qlen
  /\ Echo!InTransmitter + qlen \in Nat
  /\ \A k \in 1 .. Echo!InTransmitter + qlen :
       Echo!Waiting[k] = IF k = Echo!InTransmitter
                           THEN txdat ELSE queue[Echo!Slot(k - 1 - Echo!InTransmitter)]

LEMMA WaitingIsSeq == EchoInv => WaitingOK
<1> SUFFICES ASSUME EchoInv PROVE WaitingOK
  OBVIOUS
<1>1. Echo!InTransmitter \in {0, 1} /\ qlen \in 0 .. QUEUESIZE /\ Echo!InTransmitter + qlen \in Nat
  BY CharIsNat DEF EchoInv, Echo!TypeOK, Echo!InTransmitter
<1>2. ASSUME NEW k \in 1 .. Echo!InTransmitter + qlen
      PROVE  (IF k = Echo!InTransmitter
                THEN txdat ELSE queue[Echo!Slot(k - 1 - Echo!InTransmitter)]) \in Echo!Char
  <2>1. CASE k = Echo!InTransmitter
    BY <1>1, <2>1 DEF EchoInv, Echo!TypeOK, Echo!InTransmitter
  <2>2. CASE k # Echo!InTransmitter
    <3>1. k - 1 - Echo!InTransmitter \in 0 .. qlen - 1
      BY <1>1, <2>2
    <3>2. queue[Echo!Slot(k - 1 - Echo!InTransmitter)]
            = accepted[Len(wire) + Echo!InTransmitter + (k - 1 - Echo!InTransmitter) + 1]
      BY <3>1 DEF EchoInv, Echo!Conserved
    <3>3. Len(wire) \in Nat /\ Len(accepted) = Len(wire) + Echo!InTransmitter + qlen
      BY DEF EchoInv, Echo!TypeOK, Echo!Conserved
    <3>4. Len(wire) + Echo!InTransmitter + (k - 1 - Echo!InTransmitter) + 1 \in 1 .. Len(accepted)
      BY <1>1, <3>1, <3>3
    <3>5. accepted[Len(wire) + Echo!InTransmitter + (k - 1 - Echo!InTransmitter) + 1] \in Echo!Char
      BY <3>4 DEF EchoInv, Echo!TypeOK
    <3>6. QED
      BY <2>2, <3>2, <3>5
  <2>3. QED
    BY <2>1, <2>2
<1> DEFINE slot(k) == IF k = Echo!InTransmitter
                        THEN txdat ELSE queue[Echo!Slot(k - 1 - Echo!InTransmitter)]
           n == Echo!InTransmitter + qlen
<1>3. Echo!Waiting = [k \in 1 .. n |-> slot(k)]
  BY DEF Echo!Waiting
<1>4. n \in Nat /\ \A k \in 1 .. n : slot(k) \in Echo!Char
  BY <1>1, <1>2
<1>5. /\ Echo!Waiting \in Seq(Echo!Char) /\ Len(Echo!Waiting) = n
      /\ \A k \in 1 .. n : Echo!Waiting[k] = slot(k)
  <2> HIDE DEF slot, n
  <2> QED
    BY <1>3, <1>4
<1>6. QED
  BY <1>4, <1>5 DEF WaitingOK

\* A character put into the ring waits behind all others.
LEMMA PutAppends == EchoInv /\ EchoInv' /\ Echo!Put => Echo!Waiting' = Append(Echo!Waiting, rxdat)
<1> SUFFICES ASSUME EchoInv, EchoInv', Echo!Put PROVE Echo!Waiting' = Append(Echo!Waiting, rxdat)
  OBVIOUS
<1> USE CharIsNat
<1> DEFINE n == Echo!InTransmitter + qlen
<1>1. rxdat \in Echo!Char
  BY DEF EchoInv, Echo!TypeOK, Echo!Put, Snapshot
<1>2. /\ Echo!InTransmitter' = Echo!InTransmitter /\ Echo!InTransmitter \in {0, 1} /\ txdat' = txdat
      /\ qlen' = qlen + 1 /\ qlen \in 0 .. QUEUESIZE - 1 /\ n' = n + 1 /\ n \in Nat
      /\ tail \in 0 .. QUEUESIZE - 1 /\ tail = Echo!Slot(qlen)
  BY SMTT(30) DEF EchoInv, Echo!TypeOK, Echo!Put, Echo!InTransmitter, RingPointers
<1>3. \A k \in 0 .. QUEUESIZE : Echo!Slot(k)' = Echo!Slot(k)
  BY DEF Echo!Put, Echo!Slot
<1>4. /\ Echo!Waiting \in Seq(Echo!Char) /\ Len(Echo!Waiting) = n
      /\ \A k \in 1 .. n : Echo!Waiting[k] = IF k = Echo!InTransmitter
                                  THEN txdat ELSE queue[Echo!Slot(k - 1 - Echo!InTransmitter)]
  BY WaitingIsSeq DEF WaitingOK
<1>5. /\ Echo!Waiting' \in Seq(Echo!Char) /\ Len(Echo!Waiting') = n + 1
      /\ \A k \in 1 .. n + 1 :
           Echo!Waiting'[k] = IF k = Echo!InTransmitter
                           THEN txdat ELSE queue'[Echo!Slot(k - 1 - Echo!InTransmitter)]
  <2>1. WaitingOK'
    BY WaitingIsSeq, PTL
  <2>2. \A k \in 1 .. n + 1 :
          k # Echo!InTransmitter => k - 1 - Echo!InTransmitter \in 0 .. QUEUESIZE
    BY <1>2
  <2>3. QED
    BY <1>2, <1>3, <2>1, <2>2 DEF WaitingOK
<1>6. queue'[tail] = rxdat /\ \A l \in 0 .. QUEUESIZE - 1 : l # tail => queue'[l] = queue[l]
  BY <1>1, <1>2 DEF Echo!Put, EchoInv, Echo!TypeOK
<1>7. ASSUME NEW k \in 1 .. n
      PROVE  Echo!Waiting'[k] = Echo!Waiting[k]
  <2>1. CASE k = Echo!InTransmitter
    BY <1>2, <1>4, <1>5, <2>1, SMTT(30)
  <2>2. CASE k # Echo!InTransmitter
    <3>1. k - 1 - Echo!InTransmitter \in 0 .. qlen - 1
      BY <1>2, <2>2
    <3>2. Echo!Slot(k - 1 - Echo!InTransmitter) \in 0 .. QUEUESIZE - 1
          /\ Echo!Slot(k - 1 - Echo!InTransmitter) # Echo!Slot(qlen)
      BY <1>2, <3>1, RingSlots DEF EchoInv
    <3>3. QED
      BY <1>2, <1>4, <1>5, <1>6, <2>2, <3>2, SMTT(30)
  <2>3. QED
    BY <2>1, <2>2
<1>8. Echo!Waiting'[n + 1] = rxdat
  <2>1. /\ n + 1 \in 1 .. n + 1 /\ n + 1 # Echo!InTransmitter
        /\ (n + 1) - 1 - Echo!InTransmitter = qlen
    BY <1>2
  <2>2. Echo!Waiting'[n + 1] = queue'[Echo!Slot((n + 1) - 1 - Echo!InTransmitter)]
    BY <1>5, <2>1
  <2>3. Echo!Slot((n + 1) - 1 - Echo!InTransmitter) = tail
    BY <1>2, <2>1
  <2>4. QED
    BY <1>6, <2>2, <2>3
<1> HIDE DEF n
<1>9. QED
  BY <1>1, <1>2, <1>4, <1>5, <1>7, <1>8, EqualsAppend

\* The next character to send moves to the transmitter: the same wait.
LEMMA GetKeepsWaiting == EchoInv /\ EchoInv' /\ Echo!Get => Echo!Waiting' = Echo!Waiting
<1> SUFFICES ASSUME EchoInv, EchoInv', Echo!Get PROVE Echo!Waiting' = Echo!Waiting
  OBVIOUS
<1> USE CharIsNat
<1>1. txdat = NoChar /\ Echo!InTransmitter = 0 /\ WaitingOK
  BY WaitingIsSeq DEF EchoInv, Echo!TypeOK, Echo!Get, Snapshot, Echo!InTransmitter
<1>2. /\ head' = IF head + 1 = QUEUESIZE THEN 0 ELSE head + 1
      /\ head \in 0 .. QUEUESIZE - 1 /\ qlen \in 1 .. QUEUESIZE /\ qlen' = qlen - 1
      /\ queue' = queue /\ queue[head] = txdat'
  BY RingWrap DEF EchoInv, Echo!TypeOK, Echo!Get
<1>3. queue[head] # NoChar
  <2>1. /\ queue[Echo!Slot(0)] = Echo!Waiting[1] /\ Echo!Waiting[1] \in Echo!Char
        /\ Echo!Slot(0) = head
    BY <1>1, <1>2 DEF WaitingOK, Echo!Slot
  <2>2. QED
    BY <2>1
<1>4. Echo!InTransmitter' = 1
  BY <1>2, <1>3 DEF Echo!InTransmitter
<1>5. WaitingOK'
  BY WaitingIsSeq, PTL
<1>6. ASSUME NEW k \in 1 .. qlen
      PROVE  Echo!Waiting'[k] = Echo!Waiting[k]
  <2>1. Echo!Waiting[k] = queue[Echo!Slot(k - 1)]
    BY <1>1, <1>2 DEF WaitingOK
  <2>2. CASE k = 1
    <3>1. Echo!Waiting'[1] = txdat' /\ Echo!Slot(0) = head
      BY <1>2, <1>4, <1>5 DEF WaitingOK, Echo!Slot
    <3>2. QED
      BY <1>2, <2>1, <2>2, <3>1
  <2>3. CASE k # 1
    <3>1. Echo!Waiting'[k] = queue'[Echo!Slot(k - 2)']
      BY <1>2, <1>4, <1>5, <2>3 DEF WaitingOK
    <3>2. Echo!Slot(k - 2)' = Echo!Slot(k - 1)
      BY <1>2, <2>3 DEF Echo!Slot
    <3>3. QED
      BY <1>2, <2>1, <3>1, <3>2
  <2>4. QED
    BY <2>2, <2>3
<1>7. /\ Echo!Waiting \in Seq(Echo!Char) /\ Echo!Waiting' \in Seq(Echo!Char)
      /\ Len(Echo!Waiting) = qlen /\ Len(Echo!Waiting') = qlen
  BY <1>1, <1>2, <1>4, <1>5 DEF WaitingOK
<1>8. QED
  BY <1>6, <1>7, SeqEqual

\* The transmitted character is the first that waited.
LEMMA TransmitEmits ==
  EchoInv /\ EchoInv' /\ Echo!Transmit
    => /\ Echo!Waiting # <<>> /\ wire' = Append(wire, Head(Echo!Waiting))
       /\ Echo!Waiting' = Tail(Echo!Waiting)
<1> SUFFICES ASSUME EchoInv, EchoInv', Echo!Transmit
             PROVE  /\ Echo!Waiting # <<>> /\ wire' = Append(wire, Head(Echo!Waiting))
                    /\ Echo!Waiting' = Tail(Echo!Waiting)
  OBVIOUS
<1> USE CharIsNat
<1>1. /\ Echo!InTransmitter = 1 /\ Echo!InTransmitter' = 0
      /\ qlen' = qlen /\ queue' = queue /\ qlen \in Nat
  BY DEF EchoInv, Echo!TypeOK, Echo!Transmit, Echo!InTransmitter
<1>2. WaitingOK /\ WaitingOK'
  BY WaitingIsSeq, PTL
<1>3. \A k \in 0 .. QUEUESIZE : Echo!Slot(k)' = Echo!Slot(k)
  BY DEF Echo!Transmit, Echo!Slot
<1>4. /\ Echo!Waiting \in Seq(Echo!Char) /\ Len(Echo!Waiting) = qlen + 1 /\ Echo!Waiting[1] = txdat
      /\ \A k \in 1 .. qlen : Echo!Waiting[k + 1] = queue[Echo!Slot(k - 1)]
  BY <1>1, <1>2 DEF WaitingOK
<1>5. /\ Echo!Waiting' \in Seq(Echo!Char) /\ Len(Echo!Waiting') = qlen
      /\ \A k \in 1 .. qlen : Echo!Waiting'[k] = queue[Echo!Slot(k - 1)]
  <2>1. \A k \in 1 .. qlen : k - 1 \in 0 .. QUEUESIZE
    BY DEF EchoInv, Echo!TypeOK
  <2>2. ASSUME NEW k \in 1 .. qlen
        PROVE  Echo!Waiting'[k] = queue[Echo!Slot(k - 1)]
    <3>1. /\ k \in 1 .. Echo!InTransmitter' + qlen' /\ k # Echo!InTransmitter'
          /\ k - 1 - Echo!InTransmitter' = k - 1
      BY <1>1
    <3>2. Echo!Waiting'[k] = queue'[Echo!Slot(k - 1 - Echo!InTransmitter)']
      BY <1>2, <3>1 DEF WaitingOK
    <3>3. QED
      BY <1>1, <1>3, <2>1, <3>1, <3>2
  <2>3. QED
    BY <1>1, <1>2, <2>2 DEF WaitingOK
<1>6. Echo!Waiting # <<>> /\ Head(Echo!Waiting) = txdat
  BY <1>1, <1>4
<1>7. Echo!Waiting' = Tail(Echo!Waiting)
  BY <1>1, <1>4, <1>5, <1>6, EqualsTail
<1>8. QED
  BY <1>6, <1>7 DEF Echo!Transmit

\* The handler starts as a channel, and every step of it is one of a channel
\* or leaves it alone.
LEMMA ChannelInitially == Echo!Init => Echo!Channel!Init
<1> USE CharIsNat
<1> SUFFICES ASSUME Echo!Init PROVE Echo!Channel!Init
  OBVIOUS
<1>1. Echo!InTransmitter + qlen = 0 /\ rxdat = NoChar /\ wire = <<>>
  BY DEF Echo!Init, Echo!InTransmitter
<1>2. WaitingOK
  BY EchoInitially, WaitingIsSeq
<1>3. Echo!Waiting = <<>>
  BY <1>1, <1>2, EmptySeq DEF WaitingOK
<1>4. QED
  BY <1>1, <1>3 DEF Echo!Channel!Init

LEMMA ChannelSteps ==
  EchoInv /\ EchoInv' /\ [Echo!Next]_ofEcho => [Echo!Channel!Next]_Echo!Channel!vars
<1> USE CharIsNat
<1> SUFFICES ASSUME EchoInv, EchoInv', [Echo!Next]_ofEcho
             PROVE  [Echo!Channel!Next]_Echo!Channel!vars
  OBVIOUS
<1> USE DEF Echo!Channel!Next, Echo!Channel!vars
<1>1. ASSUME UNCHANGED <<txdat, queue, head, qlen>>
      PROVE  Echo!Waiting' = Echo!Waiting
  BY <1>1 DEF Echo!Waiting, Echo!InTransmitter, Echo!Slot
<1>2. CASE Echo!Arrive
  <2>1. Echo!Waiting' = Echo!Waiting /\ wire' = wire
    BY <1>1, <1>2 DEF Echo!Arrive
  <2>2. rxdat' = rxdat \/ (rxdat = NoChar /\ rxdat' \in Echo!Char)
    BY <1>2, EchoSizes DEF Echo!Arrive, EchoInv, Echo!TypeOK, Echo!Char
  <2>3. QED
    BY <2>1, <2>2 DEF Echo!Channel!Arrive
<1>3. CASE Echo!Transmit
  BY <1>3, TransmitEmits DEF Echo!Transmit, Echo!Channel!Emit
<1>4. CASE Echo!Enter \/ Echo!NothingReceived \/ Echo!Disable \/ Echo!NotReady
  BY <1>1, <1>4 DEF Echo!Enter, Echo!NothingReceived, Echo!Disable, Echo!NotReady
<1>5. CASE Echo!Put
  <2>1. rxdat # NoChar /\ rxdat' = NoChar /\ wire' = wire
    BY <1>5 DEF Echo!Put, EchoInv, Echo!TypeOK, Snapshot
  <2>2. QED
    BY <1>5, <2>1, PutAppends DEF Echo!Channel!Take
<1>6. CASE Echo!Overflow
  <2>1. rxdat # NoChar /\ rxdat' = NoChar /\ wire' = wire /\ qlen = QUEUESIZE
    BY <1>6 DEF Echo!Overflow, EchoInv, Echo!TypeOK, Snapshot
  <2>2. Echo!Waiting' = Echo!Waiting
    BY <1>1, <1>6 DEF Echo!Overflow
  <2>3. Len(Echo!Waiting) >= QUEUESIZE
    BY <2>1, WaitingIsSeq DEF WaitingOK, Echo!InTransmitter
  <2>4. QED
    BY <2>1, <2>2, <2>3 DEF Echo!Channel!Discard
<1>7. CASE Echo!Get
  BY <1>7, GetKeepsWaiting DEF Echo!Get
<1>8. CASE UNCHANGED ofEcho
  BY <1>1, <1>8 DEF ofEcho
<1>9. QED
  BY <1>2, <1>3, <1>4, <1>5, <1>6, <1>7, <1>8 DEF Echo!Next, Echo!uart0_isr

-----------------------------------------------------------------------------
(* The button that toggles an LED.  The edges served so far, modulo 36,     *)
(* determine the state of the program.                                     *)

\* The registers have their names, and pin 0 is never level sensitive.
PinForm(r) ==
  /\ DOMAIN r = Names /\ r = [f \in Names |-> r[f]]
  /\ r.isel = {} /\ r.ienr \subseteq {0} /\ r.ienf \subseteq {0}
  /\ r.rise \subseteq {0} /\ r.fall \subseteq {0}
  /\ r.pmatch \in BOOLEAN /\ r.endpoints \subseteq {1}
  /\ DOMAIN r.src = 0 .. 7 /\ DOMAIN r.cfg = 0 .. 7

\* The program asks for falling edges, and for rising ones, after the first n
\* of 36.
OnFall(n) == n <= 4 \/ (12 <= n /\ n <= 22) \/ n >= 30
OnRise(n) == (5 <= n /\ n <= 17) \/ n >= 23

\* A push is a falling edge.
IsAsked(n) == IF n % 2 = 0 THEN OnFall(n) ELSE OnRise(n)

Sticky(n) ==
  IF n >= 30 THEN "sticky_both" ELSE IF n >= 23 THEN "sticky_rising" ELSE "sticky_falling"

\* The registers after n edges; from the 18th on the pattern match is in use.
InMode(r, n) ==
  /\ PinForm(r)
  /\ n < 18 => /\ r.pmatch = FALSE
               /\ 0 \in r.ienr <=> OnRise(n)
               /\ 0 \in r.ienf <=> OnFall(n)
  /\ n >= 18 => /\ r.pmatch = TRUE /\ r.endpoints = {1}
                /\ r.src[1] = 0 /\ r.cfg[0] = "const_high" /\ r.cfg[1] = Sticky(n)

\* The registers ask for the interrupt of their mode.
AsksFor(r) ==
  IF r.pmatch = TRUE THEN 1 \in r.sticky
  ELSE (0 \in r.rise /\ 0 \in r.ienr) \/ (0 \in r.fall /\ 0 \in r.ienf)

\* Both counts after n edges.
\* The first count restarts at -1 in the rising mode, with the release that ends
\* the third push.
Counted0(n, c) ==
  /\ c \in Int
  /\ n <= 4 => 2 * c = n \/ 2 * c = n + 1
  /\ 5 <= n /\ n <= 11 => 2 * c = n - 7 \/ 2 * c = n - 6
  /\ 12 <= n /\ n <= 17 => c = n - 12
  /\ n >= 18 => c = 0

Counted1(n, c) ==
  /\ c \in Int
  /\ n < 18 => c = 0
  /\ 18 <= n /\ n <= 22 => 2 * c = n - 18 \/ 2 * c = n - 17
  /\ 23 <= n /\ n <= 29 => 2 * c = n - 17 \/ 2 * c = n - 16
  /\ n >= 30 => c = n - 23

\* The edges after which the LED is on.
LedOn(n) == n \in {1, 2, 5, 6, 7, 10, 11, 13, 15, 17, 19, 20, 23, 24, 25, 28, 29, 31, 33, 35}

Lit(n) == led \in BOOLEAN /\ (led <=> LedOn(n))

\* The edges before edge n that toggle the LED.
Toggling(n) == {e \in 0 .. n - 1 : Slow!Toggles(e)}

\* The LED after n edges, as the example promises it.
Odd(n) == Cardinality(Toggling(n)) % 2 = 1

Following(n) == IF n = 35 THEN 0 ELSE n + 1

\* The interrupt of edge n.
Line(n) == IF n < 18 THEN 0 ELSE 1

\* No handler is due.
AtRest(n) ==
  /\ isr = "none" /\ pending = {} /\ InMode(reg, n) /\ ~AsksFor(reg)
  /\ Counted0(n, count0) /\ Counted1(n, count1) /\ Lit(n)

\* Edge n waits for its handler.
Due(n) ==
  /\ isr = "none" /\ pending = {Line(n)} /\ InMode(reg, n) /\ AsksFor(reg)
  /\ Counted0(n, count0) /\ Counted1(n, count1) /\ Lit(n)

\* pinint0_isr has counted it, and is to clear the flags.
Clearing(n) ==
  /\ isr = "clear" /\ pending = {} /\ n < 18 /\ InMode(reg, n + 1)
  /\ n = 17 => 1 \notin reg.sticky
  /\ Counted0(n + 1, count0) /\ count1 = 0 /\ Lit(n + 1)

\* pinint1_isr has counted it, and is to set up the slice.
Resting(n) ==
  /\ isr = "rest" /\ pending = {} /\ n >= 18 /\ InMode(reg, n)
  /\ count0 = 0 /\ count1 \in Int /\ Counted1(n, count1 - 1) /\ Lit(Following(n))

\* The last edge, which the program asks for, is being served.
Served(n) == edge = Following(n) /\ IsAsked(n) /\ (Due(n) \/ Clearing(n) \/ Resting(n))

\* At rest, or serving the last edge.
DemoInv ==
  /\ edge \in 0 .. 35
  /\ levels = IF edge % 2 = 0 THEN {0} ELSE {}
  /\ LedOn(edge) <=> Odd(edge)
  /\ AtRest(edge) \/ \E n \in 0 .. 35 : Served(n)

\* One more edge that toggles the LED.
LEMMA OneMore ==
  ASSUME NEW n \in 0 .. 34
  PROVE  (LedOn(n) <=> Odd(n)) => (LedOn(n + 1) <=> Odd(n + 1))
<1>1. LedOn(n + 1) <=> ~(LedOn(n) <=> Slow!Toggles(n))
  BY DEF LedOn, Slow!Toggles
<1>2. IsFiniteSet(Toggling(n)) /\ n \notin Toggling(n)
  <2>1. IsFiniteSet(0 .. n - 1)
    BY FS_Interval
  <2>2. QED
    BY <2>1, FS_Subset DEF Toggling
<1>3. Cardinality(Toggling(n)) \in Nat
  BY <1>2, FS_CardinalityType
<1>4. Toggling(n + 1) = IF Slow!Toggles(n) THEN Toggling(n) \cup {n} ELSE Toggling(n)
  <2>1. \A e : e \in 0 .. (n + 1) - 1 <=> e \in 0 .. n - 1 \/ e = n
    OBVIOUS
  <2>2. QED
    BY <2>1 DEF Toggling
<1>5. CASE Slow!Toggles(n)
  <2>1. Cardinality(Toggling(n + 1)) = Cardinality(Toggling(n)) + 1
    BY <1>2, <1>4, <1>5, FS_AddElement
  <2>2. Odd(n + 1) <=> ~Odd(n)
    BY <1>3, <2>1 DEF Odd
  <2>3. QED
    BY <1>1, <1>5, <2>2
<1>6. CASE ~Slow!Toggles(n)
  BY <1>1, <1>4, <1>6 DEF Odd
<1>7. QED
  BY <1>5, <1>6

LEMMA NoneYet == LedOn(0) <=> Odd(0)
<1>1. Toggling(0) = {}
  BY DEF Toggling
<1>2. Cardinality(Toggling(0)) = 0
  BY <1>1, FS_EmptySet
<1>3. QED
  BY <1>2 DEF LedOn, Odd

\* The interrupt line is as the registers say.
LEMMA LinesAre ==
  ASSUME NEW n \in 0 .. 35, NEW r, InMode(r, n), NEW l
  PROVE  Slow!Lines(r, l) = IF AsksFor(r) THEN {Line(n)} ELSE {}
<1>1. CASE n < 18
  <2>1. /\ ~Slow!Port!pinint_pattern_match_enabled(r) /\ r.isel = {}
        /\ AsksFor(r) <=> (0 \in r.rise /\ 0 \in r.ienr) \/ (0 \in r.fall /\ 0 \in r.ienf)
    BY <1>1 DEF InMode, PinForm, AsksFor, Slow!Port!pinint_pattern_match_enabled
  <2>2. Slow!Lines(r, l) = Slow!Port!Status(r, l) \cap {0}
    BY <2>1 DEF Slow!Lines, Slow!Port!pinint_get_interrupt_status, Slow!Pin
  <2>3. 0 \in Slow!Port!Status(r, l) <=> AsksFor(r)
    BY <2>1 DEF Slow!Port!Status
  <2>4. QED
    BY <1>1, <2>2, <2>3 DEF Line
<1>2. CASE n >= 18
  <2>1. /\ Slow!Port!pinint_pattern_match_enabled(r) /\ r.endpoints = {1}
        /\ r.cfg[0] = "const_high"
        /\ r.cfg[1] \in {"sticky_both", "sticky_rising", "sticky_falling"}
        /\ AsksFor(r) <=> 1 \in r.sticky
    BY <1>2 DEF InMode, PinForm, AsksFor, Sticky, Slow!Port!pinint_pattern_match_enabled
  <2>2. Slow!Port!SliceMatches(r, l, 0)
    BY <2>1 DEF Slow!Port!SliceMatches
  <2>3. Slow!Port!SliceMatches(r, l, 1) <=> 1 \in r.sticky
    BY <2>1 DEF Slow!Port!SliceMatches
  <2>4. Slow!Lines(r, l) = {b \in {1} : \A c \in 0 .. b : Slow!Port!SliceMatches(r, l, c)}
    <3>1. Slow!Lines(r, l) = Slow!Port!pinint_get_pattern_match_state(r, l, {0, 1})
      BY <2>1 DEF Slow!Lines
    <3>2. \A b \in {1}, c \in 0 .. 1 : \A e \in {1} : ~(c <= e /\ e < b)
      OBVIOUS
    <3>3. QED
      BY <2>1, <3>1, <3>2 DEF Slow!Port!pinint_get_pattern_match_state
  <2>5. (\A c \in 0 .. 1 : Slow!Port!SliceMatches(r, l, c)) <=> 1 \in r.sticky
    BY <2>2, <2>3
  <2>6. QED
    BY <1>2, <2>1, <2>4, <2>5 DEF Line
<1>3. QED
  BY <1>1, <1>2

\* An edge that nobody asked for changes nothing.
LEMMA NotAsked ==
  ASSUME NEW n \in 0 .. 35, ~IsAsked(n)
  PROVE  /\ n <= 34 /\ Following(n) = n + 1 /\ n + 1 \in 0 .. 35
         /\ LedOn(n + 1) <=> LedOn(n)
         /\ \A c : Counted0(n, c) => Counted0(n + 1, c)
         /\ \A c : Counted1(n, c) => Counted1(n + 1, c)
         /\ \A r : InMode(r, n) => InMode(r, n + 1)
<1>1. /\ n <= 34 /\ Following(n) = n + 1 /\ n + 1 \in 0 .. 35
      /\ OnRise(n + 1) <=> OnRise(n)
      /\ OnFall(n + 1) <=> OnFall(n)
      /\ n < 18 <=> n + 1 < 18
  BY DEF IsAsked, OnFall, OnRise, Following
<1>2. LedOn(n + 1) <=> LedOn(n)
  BY DEF IsAsked, OnFall, OnRise, LedOn
<1>3. \A c : Counted0(n, c) => Counted0(n + 1, c)
  BY DEF IsAsked, OnFall, OnRise, Counted0
<1>4. \A c : Counted1(n, c) => Counted1(n + 1, c)
  BY DEF IsAsked, OnFall, OnRise, Counted1
<1>5. n >= 18 => Sticky(n + 1) = Sticky(n)
  BY DEF IsAsked, OnFall, OnRise, Sticky
<1>6. \A r : InMode(r, n) => InMode(r, n + 1)
  BY <1>1, <1>5 DEF InMode
<1>7. QED
  BY <1>1, <1>2, <1>3, <1>4, <1>6

\* An edge asks for an interrupt if its direction is asked for.
LEMMA FallIs ==
  ASSUME NEW n \in 0 .. 35, n % 2 = 0, NEW r, InMode(r, n),
         NEW q, q = Slow!Port!Edge(r, 0, FALSE)
  PROVE  InMode(q, n) /\ (AsksFor(q) <=> AsksFor(r) \/ IsAsked(n))
<1>1. InMode(q, n)
  BY DEF InMode, PinForm, Slow!Port!Edge, Names
<1>2. IsAsked(n) <=> OnFall(n)
  BY DEF IsAsked
<1>3. CASE n < 18
  <2>1. /\ r.pmatch = FALSE /\ q.pmatch = FALSE /\ q.ienr = r.ienr /\ q.ienf = r.ienf
        /\ q.rise = r.rise /\ q.fall = r.fall \cup {0}
        /\ 0 \in r.ienf <=> OnFall(n)
    BY <1>3 DEF InMode, PinForm, Slow!Port!Edge, Names
  <2>2. AsksFor(r) <=> (0 \in r.rise /\ 0 \in r.ienr) \/ (0 \in r.fall /\ 0 \in r.ienf)
    BY <2>1 DEF AsksFor
  <2>3. AsksFor(q) <=> (0 \in r.rise /\ 0 \in r.ienr) \/ 0 \in r.ienf
    BY <2>1 DEF AsksFor
  <2>4. QED
    BY <1>1, <1>2, <2>1, <2>2, <2>3
<1>4. CASE n >= 18
  <2>1. /\ r.pmatch = TRUE /\ q.pmatch = TRUE /\ r.src[1] = 0 /\ r.cfg[1] = Sticky(n)
        /\ 1 \in q.sticky <=>
             1 \in r.sticky \/ (r.src[1] = 0 /\ r.cfg[1] \in {"sticky_both"} \cup {"sticky_falling"})
    BY <1>4 DEF InMode, PinForm, Slow!Port!Edge, Slow!Port!Slices, Names
  <2>2. r.cfg[1] \in {"sticky_both"} \cup {"sticky_falling"} <=> OnFall(n)
    BY <1>4, <2>1 DEF Sticky, OnFall
  <2>3. (AsksFor(r) <=> 1 \in r.sticky) /\ (AsksFor(q) <=> 1 \in q.sticky)
    BY <2>1 DEF AsksFor
  <2>4. QED
    BY <1>1, <1>2, <2>1, <2>2, <2>3
<1>5. n < 18 \/ n >= 18
  OBVIOUS
<1>6. QED
  BY <1>3, <1>4, <1>5, Zenon

LEMMA RiseIs ==
  ASSUME NEW n \in 0 .. 35, n % 2 # 0, NEW r, InMode(r, n),
         NEW q, q = Slow!Port!Edge(r, 0, TRUE)
  PROVE  InMode(q, n) /\ (AsksFor(q) <=> AsksFor(r) \/ IsAsked(n))
<1>1. InMode(q, n)
  BY DEF InMode, PinForm, Slow!Port!Edge, Names
<1>2. IsAsked(n) <=> OnRise(n)
  BY DEF IsAsked
<1>3. CASE n < 18
  <2>1. /\ r.pmatch = FALSE /\ q.pmatch = FALSE /\ q.ienr = r.ienr /\ q.ienf = r.ienf
        /\ q.rise = r.rise \cup {0} /\ q.fall = r.fall
        /\ 0 \in r.ienr <=> OnRise(n)
    BY <1>3 DEF InMode, PinForm, Slow!Port!Edge, Names
  <2>2. AsksFor(r) <=> (0 \in r.rise /\ 0 \in r.ienr) \/ (0 \in r.fall /\ 0 \in r.ienf)
    BY <2>1 DEF AsksFor
  <2>3. AsksFor(q) <=> 0 \in r.ienr \/ (0 \in r.fall /\ 0 \in r.ienf)
    BY <2>1 DEF AsksFor
  <2>4. QED
    BY <1>1, <1>2, <2>1, <2>2, <2>3
<1>4. CASE n >= 18
  <2>1. /\ r.pmatch = TRUE /\ q.pmatch = TRUE /\ r.src[1] = 0 /\ r.cfg[1] = Sticky(n)
        /\ 1 \in q.sticky <=>
             1 \in r.sticky \/ (r.src[1] = 0 /\ r.cfg[1] \in {"sticky_both"} \cup {"sticky_rising"})
    BY <1>4 DEF InMode, PinForm, Slow!Port!Edge, Slow!Port!Slices, Names
  <2>2. r.cfg[1] \in {"sticky_both"} \cup {"sticky_rising"} <=> OnRise(n)
    BY <1>4, <2>1 DEF Sticky, OnRise
  <2>3. (AsksFor(r) <=> 1 \in r.sticky) /\ (AsksFor(q) <=> 1 \in q.sticky)
    BY <2>1 DEF AsksFor
  <2>4. QED
    BY <1>1, <1>2, <2>1, <2>2, <2>3
<1>5. n < 18 \/ n >= 18
  OBVIOUS
<1>6. QED
  BY <1>3, <1>4, <1>5, Zenon

\* What a step of a handler leaves to be shown.
LEMMA ToRest ==
  ASSUME DemoInv, UNCHANGED <<edge, levels>>, AtRest(edge)'
  PROVE  DemoInv'
<1>1. (LedOn(edge) <=> Odd(edge))'
  BY DEF DemoInv, LedOn, Odd, Toggling, Slow!Toggles
<1>2. edge' \in 0 .. 35 /\ levels' = IF edge' % 2 = 0 THEN {0} ELSE {}
  BY DEF DemoInv
<1>3. QED
  BY <1>1, <1>2 DEF DemoInv

LEMMA ToServed ==
  ASSUME DemoInv, UNCHANGED <<edge, levels>>, NEW n \in 0 .. 35, Served(n)'
  PROVE  DemoInv'
<1>1. (LedOn(edge) <=> Odd(edge))'
  BY DEF DemoInv, LedOn, Odd, Toggling, Slow!Toggles
<1>2. edge' \in 0 .. 35 /\ levels' = IF edge' % 2 = 0 THEN {0} ELSE {}
  BY DEF DemoInv
<1>3. QED
  BY <1>1, <1>2 DEF DemoInv

LEMMA ButtonStepIs ==
  ASSUME DemoInv, Slow!Button
  PROVE  DemoInv'
<1>1. /\ pending = {} /\ isr = "none" /\ reg' = Slow!Port!Edge(reg, 0, levels = {})
      /\ levels' = {0} \ levels /\ edge' = (edge + 1) % 36
      /\ pending' = (pending \ {}) \cup (Slow!Lines(reg', levels') \ Slow!Lines(reg, levels)) \cup {}
      /\ led' = led /\ count0' = count0 /\ count1' = count1 /\ isr' = isr
  BY DEF Slow!Button, Slow!Latch, Slow!Pin
<1>2. edge \in 0 .. 35 /\ levels = (IF edge % 2 = 0 THEN {0} ELSE {}) /\ (LedOn(edge) <=> Odd(edge))
  BY DEF DemoInv
<1>3. AtRest(edge)
  BY <1>1 DEF DemoInv, Served, Due, Clearing, Resting
<1>4. edge' = Following(edge) /\ edge' \in 0 .. 35
  BY <1>1, <1>2 DEF Following
<1>5. levels' = IF edge' % 2 = 0 THEN {0} ELSE {}
  BY <1>1, <1>2
<1>6. LedOn(edge') <=> Odd(edge')
  BY <1>2, <1>4, OneMore, NoneYet DEF Following
<1>7. (LedOn(edge) <=> Odd(edge))'
  BY <1>6 DEF LedOn, Odd, Toggling, Slow!Toggles
<1>8. /\ InMode(reg, edge) /\ ~AsksFor(reg)
      /\ Counted0(edge, count0) /\ Counted1(edge, count1) /\ Lit(edge)
  BY <1>3 DEF AtRest
<1>9. InMode(reg', edge) /\ (AsksFor(reg') <=> IsAsked(edge))
  <2>1. CASE edge % 2 = 0
    <3>1. (levels = {}) = FALSE
      BY <1>2, <2>1
    <3>2. QED
      BY <1>1, <1>2, <1>8, <2>1, <3>1, FallIs
  <2>2. CASE edge % 2 # 0
    <3>1. (levels = {}) = TRUE
      BY <1>2, <2>2
    <3>2. QED
      BY <1>1, <1>2, <1>8, <2>2, <3>1, RiseIs
  <2>3. QED
    BY <2>1, <2>2
<1>10. pending' = IF IsAsked(edge) THEN {Line(edge)} ELSE {}
  BY <1>1, <1>2, <1>8, <1>9, LinesAre
<1>11. CASE IsAsked(edge)
  <2>1. PICK n \in 0 .. 35 : n = edge
    BY <1>2
  <2>2. Due(n)'
    BY <1>1, <1>8, <1>9, <1>10, <1>11, <2>1 DEF Due, Lit
  <2>3. Served(n)'
    BY <1>4, <1>11, <2>1, <2>2 DEF Served
  <2>4. QED
    BY <1>4, <1>5, <1>7, <2>3 DEF DemoInv
<1>12. CASE ~IsAsked(edge)
  <2>1. edge' = edge + 1 /\ InMode(reg', edge') /\ (LedOn(edge') <=> LedOn(edge))
    BY <1>2, <1>4, <1>9, <1>12, NotAsked
  <2>2. Counted0(edge', count0) /\ Counted1(edge', count1)
    BY <1>2, <1>4, <1>8, <1>12, NotAsked
  <2>3. AtRest(edge)'
    BY <1>1, <1>8, <1>9, <1>10, <1>12, <2>1, <2>2 DEF AtRest, Lit
  <2>4. QED
    BY <1>4, <1>5, <1>7, <2>3 DEF DemoInv
<1>13. QED
  BY <1>11, <1>12

\* The mode of the pin, in the first half of the program.
LEMMA ModeIs ==
  ASSUME NEW n \in 0 .. 35, n < 18, NEW r, InMode(r, n)
  PROVE  Slow!Port!pinint_get_interrupt_mode(r, {0}) =
           IF n <= 4 THEN "falling" ELSE IF n <= 11 THEN "rising" ELSE "both"
<1>1. /\ r.isel = {} /\ r.ienr \in {{}, {0}} /\ r.ienf \in {{}, {0}}
      /\ 0 \in r.ienr <=> OnRise(n)
      /\ 0 \in r.ienf <=> OnFall(n)
  BY DEF InMode, PinForm
<1>2. /\ ~Slow!Port!AllIn({0}, r.isel) /\ Slow!Port!NoneIn({0}, r.isel)
      /\ Slow!Port!AllIn({0}, r.ienr) <=> OnRise(n)
      /\ Slow!Port!NoneIn({0}, r.ienr) <=> ~OnRise(n)
      /\ Slow!Port!AllIn({0}, r.ienf) <=> OnFall(n)
  BY <1>1 DEF Slow!Port!AllIn, Slow!Port!NoneIn
<1>3. CASE n <= 4
  <2>1. ~OnRise(n) /\ OnFall(n)
    BY <1>3 DEF OnRise, OnFall
  <2>2. QED
    BY <1>2, <1>3, <2>1 DEF Slow!Port!pinint_get_interrupt_mode
<1>4. CASE n > 4 /\ n <= 11
  <2>1. OnRise(n) /\ ~OnFall(n)
    BY <1>4 DEF OnRise, OnFall
  <2>2. QED
    BY <1>2, <1>4, <2>1 DEF Slow!Port!pinint_get_interrupt_mode
<1>5. CASE n > 11
  <2>1. OnRise(n) /\ OnFall(n)
    BY <1>5 DEF OnRise, OnFall
  <2>2. QED
    BY <1>2, <1>5, <2>1 DEF Slow!Port!pinint_get_interrupt_mode
<1>6. QED
  BY <1>3, <1>4, <1>5

\* A handler that starts has an edge to count.
LEMMA StartsAt ==
  ASSUME DemoInv, isr = "none", NEW h, h \in pending
  PROVE  \E n \in 0 .. 35 : edge = Following(n) /\ IsAsked(n) /\ Due(n) /\ h = Line(n)
<1>1. PICK n \in 0 .. 35 : Served(n)
  BY DEF DemoInv, AtRest
<1>2. Due(n)
  BY <1>1 DEF Served, Clearing, Resting
<1>3. QED
  BY <1>1, <1>2 DEF Served, Due

\* What pinint0_isr() sees.
LEMMA SeesEdge ==
  ASSUME NEW n \in 0 .. 35, Due(n), 0 = Line(n)
  PROVE  /\ n < 18 /\ ~Slow!Port!pinint_pattern_match_enabled(reg)
         /\ Slow!Port!pinint_get_interrupt_status(reg, levels, Slow!Pin) = {0}
         /\ OnRise(n) \/ 0 \in reg.fall
         /\ OnFall(n) \/ 0 \in reg.rise
<1>1. n < 18
  BY DEF Line
<1>2. InMode(reg, n) /\ AsksFor(reg)
  BY DEF Due
<1>3. ~Slow!Port!pinint_pattern_match_enabled(reg)
  BY <1>1, <1>2 DEF InMode, Slow!Port!pinint_pattern_match_enabled
<1>4. Slow!Lines(reg, levels) = {0}
  BY <1>2, LinesAre
<1>5. Slow!Port!pinint_get_interrupt_status(reg, levels, Slow!Pin) = {0}
  BY <1>3, <1>4 DEF Slow!Lines
<1>6. (OnRise(n) \/ 0 \in reg.fall) /\ (OnFall(n) \/ 0 \in reg.rise)
  BY <1>1, <1>2 DEF InMode, AsksFor
<1>7. QED
  BY <1>1, <1>3, <1>5, <1>6

\* It does not return early.
LEMMA NoReturn ==
  ASSUME DemoInv, Slow!Return0
  PROVE  DemoInv'
<1>1. isr = "none" /\ 0 \in pending
  BY DEF Slow!Return0, Slow!Enter0
<1>2. PICK n \in 0 .. 35 : Due(n) /\ 0 = Line(n)
  BY <1>1, StartsAt
<1>3. InMode(reg, n)
  BY <1>2 DEF Due
<1>4. Slow!Mode # "disable"
  BY <1>2, <1>3, SeesEdge, ModeIs DEF Slow!Mode, Slow!Pin
<1>5. QED
  BY <1>2, <1>4, SeesEdge DEF Slow!Return0

\* A handler that has counted edge n, and the LED with it.
LEMMA ToClearing ==
  ASSUME DemoInv, UNCHANGED <<levels, count1, edge>>,
         NEW n \in 0 .. 35, n < 18, edge = Following(n), IsAsked(n), Due(n),
         isr' = "clear", InMode(reg', n + 1), n = 17 => 1 \notin reg'.sticky,
         Counted0(n + 1, count0'), led' \in BOOLEAN, led' <=> LedOn(n + 1),
         Slow!Latch({0}, FALSE)
  PROVE  DemoInv'
<1>1. n + 1 \in 0 .. 35 /\ InMode(reg, n) /\ AsksFor(reg) /\ pending = {0} /\ count1 = 0
  BY DEF Due, Line, Counted1
<1>2. Slow!Lines(reg, levels) = {0}
  BY <1>1, LinesAre DEF Line
<1>3. Slow!Lines(reg', levels') \subseteq {0}
  <2>1. CASE n = 17
    <3>1. ~AsksFor(reg')
      BY <2>1 DEF InMode, AsksFor
    <3>2. QED
      BY <1>1, <3>1, LinesAre
  <2>2. CASE n # 17
    <3>1. Line(n + 1) = 0
      BY <2>2 DEF Line
    <3>2. QED
      BY <1>1, <3>1, LinesAre
  <2>3. QED
    BY <2>1, <2>2
<1>4. pending' = {}
  BY <1>1, <1>2, <1>3 DEF Slow!Latch
<1>5. Clearing(n)'
  BY <1>1, <1>4 DEF Clearing, Lit
<1>6. Served(n)'
  BY <1>5 DEF Served
<1>7. QED
  BY <1>6, ToServed

\* What is common to the three cases of the switch.
LEMMA CountsAt ==
  ASSUME DemoInv, Slow!Asked0
  PROVE  \E n \in 0 .. 35 :
           /\ edge = Following(n) /\ IsAsked(n) /\ Due(n) /\ n < 18
           /\ OnRise(n) \/ 0 \in reg.fall
           /\ OnFall(n) \/ 0 \in reg.rise
           /\ Slow!Mode = IF n <= 4 THEN "falling" ELSE IF n <= 11 THEN "rising" ELSE "both"
           /\ UNCHANGED <<levels, count1, edge>> /\ isr' = "clear"
<1>1. isr = "none" /\ 0 \in pending
  BY DEF Slow!Asked0, Slow!Enter0
<1>2. PICK n \in 0 .. 35 : edge = Following(n) /\ IsAsked(n) /\ Due(n) /\ 0 = Line(n)
  BY <1>1, StartsAt
<1>3. /\ n < 18
      /\ OnRise(n) \/ 0 \in reg.fall
      /\ OnFall(n) \/ 0 \in reg.rise
  BY <1>2, SeesEdge
<1>4. Slow!Mode = IF n <= 4 THEN "falling" ELSE IF n <= 11 THEN "rising" ELSE "both"
  BY <1>2, <1>3, ModeIs DEF Due, Slow!Mode, Slow!Pin
<1>5. UNCHANGED <<levels, count1, edge>> /\ isr' = "clear"
  BY DEF Slow!Asked0, Slow!Enter0
<1>6. QED
  BY <1>2, <1>3, <1>4, <1>5

LEMMA FallingCounts ==
  ASSUME DemoInv, Slow!Falling
  PROVE  DemoInv'
<1>1. Slow!Asked0 /\ Slow!Mode = "falling" /\ Slow!Latch({0}, FALSE)
  BY DEF Slow!Falling
<1>2. PICK n \in 0 .. 35 :
        /\ edge = Following(n) /\ IsAsked(n) /\ Due(n) /\ n < 18
        /\ OnRise(n) \/ 0 \in reg.fall
        /\ Slow!Mode = IF n <= 4 THEN "falling" ELSE IF n <= 11 THEN "rising" ELSE "both"
        /\ UNCHANGED <<levels, count1, edge>> /\ isr' = "clear"
  BY <1>1, CountsAt
<1>3. n \in {0, 2, 4}
  <2>1. n <= 4
    BY <1>1, <1>2
  <2>2. n % 2 = 0
    BY <1>2, <2>1 DEF IsAsked, OnRise
  <2>3. QED
    BY <2>1, <2>2
<1>4. 0 \in reg.fall
  BY <1>2, <1>3 DEF OnRise
<1>5. /\ InMode(reg, n) /\ Counted0(n, count0) /\ led \in BOOLEAN /\ (led <=> LedOn(n))
  BY <1>2 DEF Due, Lit
<1>6. (n = 0 /\ count0 = 0) \/ (n = 2 /\ count0 = 1) \/ (n = 4 /\ count0 = 2)
  <2>1. count0 \in Int /\ (2 * count0 = n \/ 2 * count0 = n + 1)
    BY <1>3, <1>5 DEF Counted0
  <2>2. QED
    BY <1>3, <2>1
<1>7. /\ led' = ~led
      /\ count0' = IF count0 + 1 >= 3 THEN -1 ELSE count0 + 1
      /\ reg' = IF count0 + 1 >= 3
                  THEN Slow!Port!pinint_set_interrupt_mode(reg, "rising", Slow!Pin) ELSE reg
  BY <1>4 DEF Slow!Falling, Slow!Pin, Slow!Port!pinint_falling_edge_detected
<1>8. InMode(reg', n + 1) /\ n # 17
  <2>1. CASE n = 4
    <3>1. reg' = Slow!Port!pinint_set_interrupt_mode(reg, "rising", {0})
      BY <1>6, <1>7, <2>1 DEF Slow!Pin
    <3>2. PinForm(reg) /\ reg.pmatch = FALSE
      BY <1>5, <2>1 DEF InMode
    <3>3. /\ PinForm(reg') /\ reg'.pmatch = FALSE
          /\ 0 \in reg'.ienr /\ 0 \notin reg'.ienf
      BY <3>1, <3>2 DEF PinForm, Names, Slow!Port!pinint_set_interrupt_mode
    <3>4. n + 1 = 5 /\ OnRise(5) /\ ~OnFall(5)
      BY <2>1 DEF OnRise, OnFall
    <3>5. QED
      BY <2>1, <3>3, <3>4 DEF InMode
  <2>2. CASE n # 4
    <3>1. reg' = reg
      BY <1>6, <1>7, <2>2
    <3>2. n < 17 /\ (OnRise(n + 1) <=> OnRise(n)) /\ (OnFall(n + 1) <=> OnFall(n))
      BY <1>3, <2>2 DEF OnRise, OnFall
    <3>3. QED
      BY <1>5, <3>1, <3>2 DEF InMode
  <2>3. QED
    BY <2>1, <2>2
<1>9. Counted0(n + 1, count0')
  <2>1. (n = 0 /\ count0' = 1) \/ (n = 2 /\ count0' = 2) \/ (n = 4 /\ count0' = -1)
    BY <1>6, <1>7
  <2>2. QED
    BY <2>1 DEF Counted0
<1>10. led' \in BOOLEAN /\ (led' <=> LedOn(n + 1))
  <2>1. LedOn(n + 1) <=> ~LedOn(n)
    BY <1>3 DEF LedOn
  <2>2. QED
    BY <1>5, <1>7, <2>1
<1>11. QED
  BY <1>1, <1>2, <1>3, <1>8, <1>9, <1>10, ToClearing

LEMMA RisingCounts ==
  ASSUME DemoInv, Slow!Rising
  PROVE  DemoInv'
<1>1. Slow!Asked0 /\ Slow!Mode = "rising" /\ Slow!Latch({0}, FALSE)
  BY DEF Slow!Rising
<1>2. PICK n \in 0 .. 35 :
        /\ edge = Following(n) /\ IsAsked(n) /\ Due(n) /\ n < 18
        /\ OnFall(n) \/ 0 \in reg.rise
        /\ Slow!Mode = IF n <= 4 THEN "falling" ELSE IF n <= 11 THEN "rising" ELSE "both"
        /\ UNCHANGED <<levels, count1, edge>> /\ isr' = "clear"
  BY <1>1, CountsAt
<1>3. n \in {5, 7, 9, 11}
  <2>1. 5 <= n /\ n <= 11
    BY <1>1, <1>2
  <2>2. n % 2 # 0
    BY <1>2, <2>1 DEF IsAsked, OnFall
  <2>3. QED
    BY <2>1, <2>2
<1>4. 0 \in reg.rise
  BY <1>2, <1>3 DEF OnFall
<1>5. /\ InMode(reg, n) /\ Counted0(n, count0) /\ led \in BOOLEAN /\ (led <=> LedOn(n))
  BY <1>2 DEF Due, Lit
<1>6. \/ n = 5 /\ count0 = -1
      \/ n = 7 /\ count0 = 0
      \/ n = 9 /\ count0 = 1
      \/ n = 11 /\ count0 = 2
  <2>1. count0 \in Int /\ (2 * count0 = n - 7 \/ 2 * count0 = n - 6)
    BY <1>3, <1>5 DEF Counted0
  <2>2. QED
    BY <1>3, <2>1
<1>7. /\ led' = (led # (count0 >= 0))
      /\ count0' = IF count0 + 1 >= 3 THEN 0 ELSE count0 + 1
      /\ reg' = IF count0 + 1 >= 3
                  THEN Slow!Port!pinint_set_interrupt_mode(reg, "both", Slow!Pin) ELSE reg
  BY <1>4 DEF Slow!Rising, Slow!Pin, Slow!Port!pinint_rising_edge_detected
<1>8. InMode(reg', n + 1) /\ n # 17
  <2>1. CASE n = 11
    <3>1. reg' = Slow!Port!pinint_set_interrupt_mode(reg, "both", {0})
      BY <1>6, <1>7, <2>1 DEF Slow!Pin
    <3>2. PinForm(reg) /\ reg.pmatch = FALSE
      BY <1>5, <2>1 DEF InMode
    <3>3. /\ PinForm(reg') /\ reg'.pmatch = FALSE
          /\ 0 \in reg'.ienr /\ 0 \in reg'.ienf
      BY <3>1, <3>2 DEF PinForm, Names, Slow!Port!pinint_set_interrupt_mode
    <3>4. n + 1 = 12 /\ OnRise(12) /\ OnFall(12)
      BY <2>1 DEF OnRise, OnFall
    <3>5. QED
      BY <2>1, <3>3, <3>4 DEF InMode
  <2>2. CASE n # 11
    <3>1. reg' = reg
      BY <1>6, <1>7, <2>2
    <3>2. n < 17 /\ (OnRise(n + 1) <=> OnRise(n)) /\ (OnFall(n + 1) <=> OnFall(n))
      BY <1>3, <2>2 DEF OnRise, OnFall
    <3>3. QED
      BY <1>5, <3>1, <3>2 DEF InMode
  <2>3. QED
    BY <2>1, <2>2
<1>9. Counted0(n + 1, count0')
  <2>1. \/ n = 5 /\ count0' = 0
        \/ n = 7 /\ count0' = 1
        \/ n = 9 /\ count0' = 2
        \/ n = 11 /\ count0' = 0
    BY <1>6, <1>7
  <2>2. QED
    BY <2>1 DEF Counted0
<1>10. led' \in BOOLEAN /\ (led' <=> LedOn(n + 1))
  <2>1. CASE n = 5
    <3>1. (count0 >= 0) = FALSE
      BY <1>6, <2>1
    <3>2. led' \in BOOLEAN /\ (led' <=> led)
      BY <1>5, <1>7, <3>1
    <3>3. LedOn(n + 1) <=> LedOn(n)
      BY <2>1 DEF LedOn
    <3>4. QED
      BY <1>5, <3>2, <3>3
  <2>2. CASE n # 5
    <3>1. (count0 >= 0) = TRUE
      BY <1>3, <1>6, <2>2
    <3>2. led' \in BOOLEAN /\ (led' <=> ~led)
      BY <1>5, <1>7, <3>1
    <3>3. LedOn(n + 1) <=> ~LedOn(n)
      BY <1>3, <2>2 DEF LedOn
    <3>4. QED
      BY <1>5, <3>2, <3>3
  <2>3. QED
    BY <2>1, <2>2
<1>11. QED
  BY <1>1, <1>2, <1>3, <1>8, <1>9, <1>10, ToClearing

\* The two slices of the pattern match.
LEMMA FirstSlice ==
  ASSUME NEW r, PinForm(r),
         NEW q, q = Slow!Port!pinint_set_bit_slice(r, 0, 0, "const_high", FALSE)
  PROVE  PinForm(q) /\ q.cfg[0] = "const_high"
<1>1. q = [r EXCEPT !.src[0] = 0, !.cfg[0] = "const_high", !.endpoints = @ \ {0}, !.sticky = {}]
  BY DEF Slow!Port!pinint_set_bit_slice, PinForm, Names
<1>2. /\ DOMAIN q = Names /\ q = [f \in Names |-> q[f]]
      /\ q.isel = r.isel /\ q.ienr = r.ienr /\ q.ienf = r.ienf
      /\ q.rise = r.rise /\ q.fall = r.fall /\ q.pmatch = r.pmatch
      /\ q.endpoints = r.endpoints \ {0} /\ q.sticky = {}
      /\ q.src = [r.src EXCEPT ![0] = 0] /\ q.cfg = [r.cfg EXCEPT ![0] = "const_high"]
  BY <1>1 DEF PinForm, Names
<1>3. 0 \in 0 .. 7 /\ DOMAIN r.src = 0 .. 7 /\ DOMAIN r.cfg = 0 .. 7
  BY DEF PinForm
<1>4. /\ DOMAIN q.src = 0 .. 7 /\ DOMAIN q.cfg = 0 .. 7 /\ q.cfg[0] = "const_high"
  BY <1>2, <1>3
<1>5. QED
  BY <1>2, <1>4 DEF PinForm

LEMMA SecondSlice ==
  ASSUME NEW r, PinForm(r), NEW cond, NEW q, q = Slow!Match(r, cond)
  PROVE  /\ PinForm(q) /\ q.pmatch = r.pmatch /\ q.endpoints = {1} /\ q.src[1] = 0
         /\ q.cfg[0] = r.cfg[0] /\ q.cfg[1] = cond /\ q.sticky = {}
<1>1. q = [r EXCEPT !.src[1] = 0, !.cfg[1] = cond, !.endpoints = @ \cup {1}, !.sticky = {}]
  BY DEF Slow!Match, Slow!Port!pinint_set_bit_slice, PinForm, Names
<1>2. /\ DOMAIN q = Names /\ q = [f \in Names |-> q[f]]
      /\ q.isel = r.isel /\ q.ienr = r.ienr /\ q.ienf = r.ienf
      /\ q.rise = r.rise /\ q.fall = r.fall /\ q.pmatch = r.pmatch
      /\ q.endpoints = r.endpoints \cup {1} /\ q.sticky = {}
      /\ q.src = [r.src EXCEPT ![1] = 0] /\ q.cfg = [r.cfg EXCEPT ![1] = cond]
  BY <1>1 DEF PinForm, Names
<1>3. 1 \in 0 .. 7 /\ DOMAIN r.src = 0 .. 7 /\ DOMAIN r.cfg = 0 .. 7
  BY DEF PinForm
<1>4. /\ DOMAIN q.src = 0 .. 7 /\ DOMAIN q.cfg = 0 .. 7 /\ q.cfg[1] = cond /\ q.src[1] = 0
      /\ q.cfg[0] = r.cfg[0]
  BY <1>2, <1>3
<1>5. QED
  BY <1>2, <1>4 DEF PinForm

LEMMA BothCount ==
  ASSUME DemoInv, Slow!Both
  PROVE  DemoInv'
<1>1. Slow!Asked0 /\ Slow!Mode = "both" /\ Slow!Latch({0}, FALSE)
  BY DEF Slow!Both
<1>2. PICK n \in 0 .. 35 :
        /\ edge = Following(n) /\ IsAsked(n) /\ Due(n) /\ n < 18
        /\ Slow!Mode = IF n <= 4 THEN "falling" ELSE IF n <= 11 THEN "rising" ELSE "both"
        /\ UNCHANGED <<levels, count1, edge>> /\ isr' = "clear"
  BY <1>1, CountsAt
<1>3. 12 <= n
  BY <1>1, <1>2
<1>4. /\ InMode(reg, n) /\ Counted0(n, count0) /\ led \in BOOLEAN /\ (led <=> LedOn(n))
  BY <1>2 DEF Due, Lit
<1>5. count0 = n - 12
  BY <1>2, <1>3, <1>4 DEF Counted0
<1>6. /\ led' = ~led
      /\ count0' = IF count0 + 1 >= 6 THEN 0 ELSE count0 + 1
  BY DEF Slow!Both
<1>7. InMode(reg', n + 1) /\ (n = 17 => 1 \notin reg'.sticky)
  <2>1. CASE n = 17
    <3>1. /\ PinForm(reg)
          /\ reg' = Slow!Port!pinint_enable_pattern_match(
                      Slow!Match(Slow!Port!pinint_set_bit_slice(reg, 0, 0, "const_high", FALSE),
                                 "sticky_falling"))
      BY <1>4, <1>5, <2>1 DEF Slow!Both, InMode
    <3>2. PICK p : p = Slow!Port!pinint_set_bit_slice(reg, 0, 0, "const_high", FALSE)
      OBVIOUS
    <3>3. PinForm(p) /\ p.cfg[0] = "const_high"
      BY <3>1, <3>2, FirstSlice
    <3>4. PICK q : q = Slow!Match(p, "sticky_falling")
      OBVIOUS
    <3>5. /\ PinForm(q) /\ q.endpoints = {1} /\ q.src[1] = 0
          /\ q.cfg[0] = "const_high" /\ q.cfg[1] = "sticky_falling" /\ q.sticky = {}
      BY <3>3, <3>4, SecondSlice
    <3>6. reg' = Slow!Port!pinint_enable_pattern_match(q)
      BY <3>1, <3>2, <3>4
    <3>7. /\ PinForm(reg') /\ reg'.pmatch = TRUE /\ reg'.endpoints = {1} /\ reg'.src[1] = 0
          /\ reg'.cfg[0] = "const_high" /\ reg'.cfg[1] = "sticky_falling" /\ reg'.sticky = {}
      BY <3>5, <3>6 DEF PinForm, Names, Slow!Port!pinint_enable_pattern_match
    <3>8. QED
      BY <2>1, <3>7 DEF InMode, Sticky
  <2>2. CASE n # 17
    <3>1. ~(count0 + 1 >= 6) /\ n < 17
      BY <1>2, <1>3, <1>5, <2>2
    <3>2. reg' = reg
      BY <3>1 DEF Slow!Both
    <3>3. (OnRise(n + 1) <=> OnRise(n)) /\ (OnFall(n + 1) <=> OnFall(n))
      BY <1>3, <3>1 DEF OnRise, OnFall
    <3>4. QED
      BY <1>4, <3>1, <3>2, <3>3 DEF InMode
  <2>3. QED
    BY <2>1, <2>2
<1>8. Counted0(n + 1, count0')
  BY <1>2, <1>3, <1>5, <1>6 DEF Counted0
<1>9. led' \in BOOLEAN /\ (led' <=> LedOn(n + 1))
  <2>1. LedOn(n + 1) <=> ~LedOn(n)
    BY <1>2, <1>3 DEF LedOn
  <2>2. QED
    BY <1>4, <1>6, <2>1
<1>10. QED
  BY <1>1, <1>2, <1>7, <1>8, <1>9, ToClearing

LEMMA ClearRests ==
  ASSUME DemoInv, Slow!Clear0
  PROVE  DemoInv'
<1>1. /\ isr = "clear" /\ reg' = Slow!Port!pinint_clear_interrupt(reg, {0}) /\ isr' = "none"
      /\ UNCHANGED <<levels, led, count0, count1, edge>>
      /\ Slow!Latch({}, TRUE)
  BY DEF Slow!Clear0, Slow!Pin
<1>2. PICK n \in 0 .. 35 : edge = Following(n) /\ Clearing(n)
  BY <1>1 DEF DemoInv, AtRest, Served, Due, Resting
<1>3. /\ n < 18 /\ edge = n + 1 /\ n + 1 \in 0 .. 35 /\ pending = {} /\ InMode(reg, n + 1)
      /\ n = 17 => 1 \notin reg.sticky
      /\ Counted0(n + 1, count0) /\ count1 = 0 /\ Lit(n + 1)
  BY <1>2 DEF Clearing, Following
<1>4. PinForm(reg)
  BY <1>3 DEF InMode
<1>5. /\ PinForm(reg') /\ reg'.ienr = reg.ienr /\ reg'.ienf = reg.ienf /\ reg'.pmatch = reg.pmatch
      /\ reg'.endpoints = reg.endpoints /\ reg'.src = reg.src /\ reg'.cfg = reg.cfg
      /\ reg'.sticky = reg.sticky /\ 0 \notin reg'.rise /\ 0 \notin reg'.fall
  BY <1>1, <1>4 DEF PinForm, Names, Slow!Port!pinint_clear_interrupt
<1>6. InMode(reg', n + 1)
  BY <1>3, <1>5 DEF InMode
<1>7. ~AsksFor(reg')
  <2>1. CASE n = 17
    BY <1>3, <1>5, <2>1 DEF InMode, AsksFor
  <2>2. CASE n # 17
    <3>1. reg'.pmatch = FALSE
      BY <1>3, <1>5, <2>2 DEF InMode
    <3>2. QED
      BY <1>5, <3>1 DEF AsksFor
  <2>3. QED
    BY <2>1, <2>2
<1>8. Slow!Lines(reg', levels') = {}
  BY <1>3, <1>6, <1>7, LinesAre
<1>9. pending' = {}
  BY <1>3, <1>8, <1>1 DEF Slow!Latch
<1>10. Counted1(n + 1, count1)
  BY <1>3 DEF Counted1
<1>11. AtRest(edge)'
  BY <1>1, <1>3, <1>6, <1>7, <1>9, <1>10 DEF AtRest, Lit
<1>12. QED
  BY <1>1, <1>11, ToRest

\* The operator that PinintDemo counts with.
LEMMA SameCardinality ==
  ASSUME NEW S
  PROVE  Slow!Cardinality(S) = Cardinality(S)
BY DEF Slow!Cardinality, Cardinality

\* pinint1_isr() has an edge to count, too.
LEMMA EnterCounts ==
  ASSUME DemoInv, Slow!Enter1
  PROVE  DemoInv'
<1>1. isr = "none" /\ pending = {1} /\ UNCHANGED <<reg, levels, count0, edge>>
  BY DEF Slow!Enter1
<1>2. PICK n \in 0 .. 35 : edge = Following(n) /\ IsAsked(n) /\ Due(n) /\ 1 = Line(n)
  BY <1>1, StartsAt
<1>3. /\ n >= 18 /\ InMode(reg, n) /\ count0 = 0
      /\ Counted1(n, count1) /\ led \in BOOLEAN /\ (led <=> LedOn(n))
  BY <1>2 DEF Due, Line, Lit, Counted0
<1>4. Slow!Port!pinint_pattern_match_enabled(reg)
  BY <1>3 DEF InMode, Slow!Port!pinint_pattern_match_enabled
<1>5. /\ led' = (led # (count1 # 3)) /\ count1' = count1 + 1 /\ isr' = "rest"
      /\ Slow!Latch({1}, FALSE)
  BY <1>4 DEF Slow!Enter1
<1>6. pending' = {}
  BY <1>1, <1>5 DEF Slow!Latch, Slow!Lines
<1>7. count1 \in Int /\ count1' - 1 = count1
  BY <1>3, <1>5 DEF Counted1
<1>8. count1 = 3 <=> n = 23
  BY <1>2, <1>3 DEF Counted1, IsAsked, OnFall, OnRise
<1>9. led' \in BOOLEAN /\ (led' <=> LedOn(Following(n)))
  <2>1. CASE n = 23
    <3>1. (count1 # 3) = FALSE
      BY <1>8, <2>1
    <3>2. led' \in BOOLEAN /\ (led' <=> led)
      BY <1>3, <1>5, <3>1
    <3>3. LedOn(Following(n)) <=> LedOn(n)
      BY <2>1 DEF LedOn, Following
    <3>4. QED
      BY <1>3, <3>2, <3>3
  <2>2. CASE n # 23
    <3>1. (count1 # 3) = TRUE
      BY <1>8, <2>2
    <3>2. led' \in BOOLEAN /\ (led' <=> ~led)
      BY <1>3, <1>5, <3>1
    <3>3. LedOn(Following(n)) <=> ~LedOn(n)
      BY <1>2, <1>3, <2>2 DEF LedOn, Following, IsAsked, OnFall, OnRise
    <3>4. QED
      BY <1>3, <3>2, <3>3
  <2>3. QED
    BY <2>1, <2>2
<1>10. Resting(n)'
  BY <1>1, <1>3, <1>5, <1>6, <1>7, <1>9 DEF Resting, Lit
<1>11. Served(n)'
  BY <1>1, <1>2, <1>10 DEF Served
<1>12. QED
  BY <1>1, <1>11, ToServed

\* The last edge starts the program over again.
LEMMA StartsOver ==
  ASSUME NEW r, PinForm(r), r.pmatch = FALSE,
         NEW q, q = Slow!Port!pinint_set_interrupt_mode(
                      Slow!Port!pinint_clear_interrupt(r, {0}), "falling", {0})
  PROVE  InMode(q, 0) /\ ~AsksFor(q)
<1>1. PICK o : o = Slow!Port!pinint_clear_interrupt(r, {0})
  OBVIOUS
<1>2. PinForm(o) /\ o.pmatch = FALSE /\ 0 \notin o.rise /\ 0 \notin o.fall
  BY <1>1 DEF PinForm, Names, Slow!Port!pinint_clear_interrupt
<1>3. q = [o EXCEPT !.isel = @ \ {0}, !.ienr = @ \ {0}, !.ienf = @ \cup {0}]
  BY <1>1 DEF Slow!Port!pinint_set_interrupt_mode
<1>4. /\ DOMAIN q = Names /\ q = [f \in Names |-> q[f]]
      /\ q.isel = o.isel \ {0} /\ q.ienr = o.ienr \ {0} /\ q.ienf = o.ienf \cup {0}
      /\ q.rise = o.rise /\ q.fall = o.fall /\ q.pmatch = o.pmatch
      /\ q.endpoints = o.endpoints /\ q.src = o.src /\ q.cfg = o.cfg
  BY <1>2, <1>3 DEF PinForm, Names
<1>5. /\ PinForm(q) /\ q.pmatch = FALSE /\ 0 \notin q.rise /\ 0 \notin q.fall
      /\ 0 \in q.ienf /\ 0 \notin q.ienr
  BY <1>2, <1>4 DEF PinForm
<1>6. OnFall(0) /\ ~OnRise(0)
  BY DEF OnFall, OnRise
<1>7. QED
  BY <1>5, <1>6 DEF InMode, AsksFor

LEMMA RestRests ==
  ASSUME DemoInv, Slow!Rest1
  PROVE  DemoInv'
<1>1. /\ isr = "rest" /\ isr' = "none" /\ Slow!Latch({}, TRUE)
      /\ UNCHANGED <<levels, led, count0, edge>>
      /\ count1' = IF count1 < 13 THEN count1 ELSE 0
  BY DEF Slow!Rest1
<1>2. PICK n \in 0 .. 35 : edge = Following(n) /\ IsAsked(n) /\ Resting(n)
  BY <1>1 DEF DemoInv, AtRest, Served, Due, Clearing
<1>3. /\ n >= 18 /\ pending = {} /\ InMode(reg, n) /\ PinForm(reg) /\ count0 = 0
      /\ Counted1(n, count1 - 1) /\ Lit(edge)
  BY <1>2 DEF Resting, InMode
<1>4. count1 \in Int
  BY <1>2 DEF Resting
<1>5. CASE n = 35
  <2>1. count1 = 13 /\ edge = 0
    BY <1>2, <1>3, <1>4, <1>5 DEF Counted1, Following
  <2>2. reg' = Slow!Port!pinint_set_interrupt_mode(
                 Slow!Port!pinint_clear_interrupt(
                   Slow!Port!pinint_disable_pattern_match(reg), {0}), "falling", {0})
    BY <2>1 DEF Slow!Rest1, Slow!Pin
  <2>3. InMode(reg', 0) /\ ~AsksFor(reg')
    <3>1. PICK o : o = Slow!Port!pinint_disable_pattern_match(reg)
      OBVIOUS
    <3>2. PinForm(o) /\ o.pmatch = FALSE
      BY <1>3, <3>1 DEF PinForm, Names, Slow!Port!pinint_disable_pattern_match
    <3>3. QED
      BY <2>2, <3>1, <3>2, StartsOver
  <2>4. Slow!Lines(reg', levels') = {}
    BY <2>3, LinesAre
  <2>5. pending' = {}
    BY <1>1, <1>3, <2>4 DEF Slow!Latch
  <2>6. count1' = 0 /\ Counted0(0, 0) /\ Counted1(0, 0)
    BY <1>1, <2>1 DEF Counted0, Counted1
  <2>7. AtRest(edge)'
    BY <1>1, <1>3, <2>1, <2>3, <2>5, <2>6 DEF AtRest, Lit
  <2>8. QED
    BY <1>1, <2>7, ToRest
<1>6. CASE n # 35
  <2>1. edge = n + 1 /\ n + 1 \in 0 .. 35 /\ n < 35
    BY <1>2, <1>6 DEF Following
  <2>2. /\ count1 < 13
        /\ count1 < 3 <=> n + 1 < 23
        /\ count1 < 7 <=> n + 1 < 30
        /\ Counted1(n + 1, count1)
    BY <1>2, <1>3, <1>4, <2>1 DEF Counted1, IsAsked, OnFall, OnRise
  <2>3. reg' = Slow!Match(reg, Sticky(n + 1))
    BY <2>2 DEF Slow!Rest1, Sticky
  <2>4. /\ PinForm(reg') /\ reg'.pmatch = reg.pmatch /\ reg'.endpoints = {1} /\ reg'.src[1] = 0
        /\ reg'.cfg[0] = reg.cfg[0] /\ reg'.cfg[1] = Sticky(n + 1) /\ reg'.sticky = {}
    BY <1>3, <2>3, SecondSlice
  <2>5. InMode(reg', n + 1) /\ ~AsksFor(reg')
    BY <1>3, <2>4 DEF InMode, AsksFor
  <2>6. Slow!Lines(reg', levels') = {}
    BY <2>1, <2>5, LinesAre
  <2>7. pending' = {}
    BY <1>1, <1>3, <2>6 DEF Slow!Latch
  <2>8. count1' = count1 /\ Counted0(n + 1, 0)
    BY <1>1, <1>3, <2>1, <2>2 DEF Counted0
  <2>9. AtRest(edge)'
    BY <1>1, <1>3, <2>1, <2>2, <2>5, <2>7, <2>8 DEF AtRest, Lit
  <2>10. QED
    BY <1>1, <2>9, ToRest
<1>7. QED
  BY <1>5, <1>6

LEMMA DemoInitial ==
  ASSUME Slow!Init
  PROVE  DemoInv
<1>1. /\ levels = {0} /\ led = FALSE /\ count0 = 0 /\ count1 = 0
      /\ pending = {} /\ isr = "none" /\ edge = 0
      /\ reg = Slow!Port!pinint_set_interrupt_mode(
                 Slow!Port!pinint_clear_interrupt(Slow!Port!Reset, {0}), "falling", {0})
  BY DEF Slow!Init, Slow!pinint_setup, Slow!Pin
<1>2. PinForm(Slow!Port!Reset) /\ Slow!Port!Reset.pmatch = FALSE
  <2>1. PICK f, g : f = [b \in 0 .. 7 |-> 0] /\ g = [b \in 0 .. 7 |-> "const_high"]
    OBVIOUS
  <2>2. DOMAIN f = 0 .. 7 /\ DOMAIN g = 0 .. 7
    BY <2>1
  <2>3. PICK o : o = [isel |-> {}, ienr |-> {}, ienf |-> {}, rise |-> {}, fall |-> {},
                      pmatch |-> FALSE, rxev |-> FALSE, endpoints |-> {}, sticky |-> {},
                      src |-> f, cfg |-> g]
    OBVIOUS
  <2>4. o = Slow!Port!Reset
    BY <2>1, <2>3 DEF Slow!Port!Reset, Slow!Port!Slices
  <2>5. PinForm(o) /\ o.pmatch = FALSE
    BY <2>2, <2>3 DEF PinForm, Names
  <2>6. QED
    BY <2>4, <2>5
<1>3. InMode(reg, 0) /\ ~AsksFor(reg)
  BY <1>1, <1>2, StartsOver
<1>4. Counted0(0, 0) /\ Counted1(0, 0) /\ ~LedOn(0)
  BY DEF Counted0, Counted1, LedOn
<1>5. AtRest(edge)
  BY <1>1, <1>3, <1>4 DEF AtRest, Lit
<1>6. edge \in 0 .. 35 /\ levels = (IF edge % 2 = 0 THEN {0} ELSE {}) /\ (LedOn(edge) <=> Odd(edge))
  BY <1>1, NoneYet
<1>7. QED
  BY <1>5, <1>6 DEF DemoInv

LEMMA DemoInductive ==
  ASSUME DemoInv, [Slow!Next]_ofPinint
  PROVE  DemoInv'
<1>1. CASE Slow!Button
  BY <1>1, ButtonStepIs
<1>2. CASE Slow!pinint0_isr
  BY <1>2, NoReturn, FallingCounts, RisingCounts, BothCount, ClearRests DEF Slow!pinint0_isr
<1>3. CASE Slow!pinint1_isr
  BY <1>3, EnterCounts, RestRests DEF Slow!pinint1_isr
<1>4. CASE UNCHANGED ofPinint
  <2>1. UNCHANGED <<edge, levels>> /\ UNCHANGED <<reg, led, count0, count1, pending, isr>>
    BY <1>4 DEF ofPinint
  <2>2. CASE AtRest(edge)
    <3>1. AtRest(edge)'
      BY <2>1, <2>2 DEF AtRest, Lit
    <3>2. QED
      BY <2>1, <3>1, ToRest
  <2>3. CASE \E n \in 0 .. 35 : Served(n)
    <3>1. PICK n \in 0 .. 35 : Served(n)
      BY <2>3
    <3>2. Served(n)'
      BY <2>1, <3>1 DEF Served, Due, Clearing, Resting, Lit
    <3>3. QED
      BY <2>1, <3>2, ToServed
  <2>4. QED
    BY <2>2, <2>3 DEF DemoInv
<1>5. QED
  BY <1>1, <1>2, <1>3, <1>4 DEF Slow!Next

LEMMA LedFollows ==
  ASSUME DemoInv
  PROVE  Slow!LedAsPromised
<1>1. CASE pending = {} /\ isr = "none"
  <2>1. AtRest(edge)
    BY <1>1 DEF DemoInv, Served, Due, Clearing, Resting
  <2>2. led \in BOOLEAN /\ (led <=> Odd(edge))
    BY <2>1 DEF DemoInv, AtRest, Lit
  <2>3. led = (Slow!Cardinality({e \in 0 .. edge - 1 : Slow!Toggles(e)}) % 2 = 1)
    BY <2>2, SameCardinality DEF Odd, Toggling
  <2>4. QED
    BY <2>3 DEF Slow!LedAsPromised
<1>2. CASE ~(pending = {} /\ isr = "none")
  BY <1>2 DEF Slow!LedAsPromised
<1>3. QED
  BY <1>1, <1>2

-----------------------------------------------------------------------------
(* The theorems about the programs of the board.                           *)

Safe ==
  /\ program = "calls" => ModesInv
  /\ program = "wwdt" => WwdtInv
  /\ program = "wkt" => WktInv
  /\ program = "mrt" => MrtInv
  /\ program = "echo" => EchoInv
  /\ program = "pinint" => DemoInv

LEMMA Invariance == Spec => []Safe
<1>1. Init => Safe
  BY ModesInitially, WwdtInitially, WktInitially, MrtInitially, EchoInitially, DemoInitial
     DEF Init, Safe
<1>2. Safe /\ [Next]_vars => Safe'
  <2> SUFFICES ASSUME Safe, [Next]_vars PROVE Safe'
    OBVIOUS
  <2>1. program' = program
    BY DEF Next, vars, MrtOnly, WktOnly, WwdtOnly, DemoOnly, CallsOnly, EchoOnly
  <2>2. CASE program = "calls"
    <3>1. [Modes!Next]_ofModes
      BY <2>2 DEF Next, vars
    <3>2. QED
      BY <2>1, <2>2, <3>1, ModesInductive DEF Safe
  <2>3. CASE program = "wwdt"
    <3>1. [Wwdt!Next]_ofWwdt
      BY <2>3 DEF Next, vars
    <3>2. QED
      BY <2>1, <2>3, <3>1, WwdtInductive DEF Safe
  <2>4. CASE program = "wkt"
    <3>1. [Wkt!Next]_ofWkt
      BY <2>4 DEF Next, vars
    <3>2. QED
      BY <2>1, <2>4, <3>1, WktInductive DEF Safe
  <2>5. CASE program = "mrt"
    <3>1. [Mrt!Next]_ofMrt
      BY <2>5 DEF Next, vars
    <3>2. QED
      BY <2>1, <2>5, <3>1, MrtInductive DEF Safe
  <2>6. CASE program = "echo"
    <3>1. [Echo!Next]_ofEcho
      BY <2>6 DEF Next, vars
    <3>2. QED
      BY <2>1, <2>6, <3>1, EchoInductive DEF Safe
  <2>7. CASE program = "pinint"
    <3>1. [Slow!Next]_ofPinint
      BY <2>7 DEF Next, vars
    <3>2. QED
      BY <2>1, <2>7, <3>1, DemoInductive DEF Safe
  <2>8. QED
    BY <2>1, <2>2, <2>3, <2>4, <2>5, <2>6, <2>7 DEF Safe
<1>3. QED
  BY <1>1, <1>2, PTL DEF Spec

\* Every test of the watchdog passes, for all clocks within the tolerances that
\* the delays allow for, and main() never ends in one of its error loops: but for
\* test 0 with the oscillator of test 4, after the button during test 3 or
\* power-on with 3 in the RAM (wwdt.c:44, 136-430, 447-476).
THEOREM TestsAlwaysPass == Spec => []TestsPass
<1>1. Safe => TestsPass
  BY DEF Safe, WwdtInv, Failed, TestsPass, Wwdt!TestsPass
<1>2. QED
  BY <1>1, Invariance, PTL

\* A mode reads back as it was set and a pin asks for an interrupt as its mode
\* says, for any set of pins, after any calls and edges (pinint.c:22-110).
THEOREM ModesAreAsTold == Spec => []ModesAsTold
<1>1. Safe => ModesAsTold
  BY ModesReadBack, ModesAsk DEF Safe, ModesAsTold
<1>2. QED
  BY <1>1, Invariance, PTL

\* A part in deep power-down wakes up and knows why, and its timer counts
\* seconds, whenever the reset button was pressed (wkt.c:134-172).
THEOREM AlwaysWakes == Spec => []WakesAsPromised
<1>1. Safe => WakesAsPromised
  BY WktPromises DEF Safe, WakesAsPromised
<1>2. QED
  BY <1>1, Invariance, PTL

\* Each phase of the timer demonstration toggles the LED ten times, with delays
\* of their full length, whatever the intervals are (mrt.c:77-143).
THEOREM PhasesAreComplete == Spec => PhasesComplete
<1>1. Safe /\ [Next]_vars =>
        [program = "mrt" => Mrt!AtRest /\ Mrt!TenEach /\ Mrt!FullDelay]_vars
  <2> SUFFICES ASSUME Safe, [Next]_vars, program = "mrt"
               PROVE  Mrt!AtRest /\ Mrt!TenEach /\ Mrt!FullDelay
    OBVIOUS
  <2>1. MrtInv
    BY DEF Safe
  <2>2. [Mrt!Next]_ofMrt
    BY DEF Next, vars
  <2>3. QED
    BY <2>1, <2>2, MrtAtRest, MrtPhases
<1>2. QED
  BY <1>1, Invariance, PTL DEF Spec, PhasesComplete

\* No character that usart_irq accepted is lost, doubled or overtaken, for any
\* size of the ring and any order of arrivals, transmissions and interrupts
\* (usart_irq.c:95-150).
THEOREM CharactersAreConserved == Spec => []Conserved
<1>1. Safe => Conserved
  BY DEF Safe, EchoInv, Conserved
<1>2. QED
  BY <1>1, Invariance, PTL

\* No waiting character is forgotten: the transmit interrupt is enabled
\* (usart_irq.c:124, 147).
THEOREM WaitingIsArmed == Spec => []Armed
<1>1. Safe => Armed
  BY DEF Safe, EchoInv, Armed
<1>2. QED
  BY <1>1, Invariance, PTL

\* The handler is a channel that sends back what it accepts, in order and
\* once, and discards a character only when the ring is full
\* (usart_irq.c:95-150).
THEOREM EchoIsAChannel == Spec => EchoesInOrder
<1>1. Init => (program = "echo" => Echo!Channel!Init)
  BY ChannelInitially DEF Init
<1>2. Safe /\ Safe' /\ [Next]_vars
        => [program = "echo" => [Echo!Channel!Next]_Echo!Channel!vars]_vars
  <2> SUFFICES ASSUME Safe, Safe', [Next]_vars, program = "echo"
               PROVE  [Echo!Channel!Next]_Echo!Channel!vars
    OBVIOUS
  <2>1. [Echo!Next]_ofEcho /\ program' = program
    BY DEF Next, vars, EchoOnly
  <2>2. EchoInv /\ EchoInv'
    BY <2>1 DEF Safe
  <2>3. QED
    BY <2>1, <2>2, ChannelSteps
<1>3. QED
  BY <1>1, <1>2, Invariance, PTL DEF Spec, EchoesInOrder

\* Whenever no handler is due, the LED is as the pushes and releases so far say:
\* falling, rising and both edges count in turn, first with the pin interrupt
\* and then with the pattern match, and no edge is counted twice or missed as
\* long as the handlers keep up with the button (pinint.c:69-190).
THEOREM LedIsAsPromised == Spec => []LedAsPromised
<1>1. Safe => LedAsPromised
  BY LedFollows DEF Safe, LedAsPromised
<1>2. QED
  BY <1>1, Invariance, PTL
=============================================================================
