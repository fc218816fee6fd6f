---------------------------- MODULE LibraryProofs ----------------------------
(***************************************************************************)
(* Theorems about calls of the library in any order: of the functions that *)
(* set the clock and the rate of a USART, for every main clock, rate and   *)
(* baud rate; of those for oscillators, PLL and main clock, whatever the   *)
(* factors are; of gpio_config and gpio_reconfig, for every package and    *)
(* any set of functions; and of those of sct.c, for every width of the     *)
(* counter.                                                                *)
(***************************************************************************)
EXTENDS MCLibrary, TLAPS

\* What is known of a quotient.
LEMMA Quotient ==
  ASSUME NEW a \in Nat, NEW b \in Nat \ {0}
  PROVE  /\ a \div b \in Nat
         /\ b * (a \div b) <= a
         /\ a < b * (a \div b) + b
BY SMT

LEMMA Times ==
  ASSUME NEW a \in Nat, NEW b \in Nat, NEW c \in Nat, a <= b
  PROVE  a * c <= b * c /\ a * c \in Nat /\ b * c \in Nat
BY SMT

LEMMA Positive ==
  ASSUME NEW a \in Nat \ {0}, NEW b \in Nat \ {0}
  PROVE  a * b \in Nat \ {0}
BY SMT

\* A product of a difference is the difference of the products.
LEMMA Distributes ==
  ASSUME NEW a \in Int, NEW b \in Int, NEW c \in Int
  PROVE  a * (b - c) = a * b - a * c /\ a * (b + c) = a * b + a * c
BY SMT

\* The fraction of a clock that is divided by n, which is at least 1.
LEMMA Fraction ==
  ASSUME NEW m \in Nat \ {0}, NEW u \in Nat \ {0}, Accepts(m, u)
  PROVE  /\ m \div u \in Nat \ {0}
         /\ mult(m, u) \in 0..(FRACTION - 1)
         /\ u * (m \div u) \in Nat
         /\ m - u * (m \div u) \in 0..(u - 1)
         /\ u * (m \div u) * (FRACTION + mult(m, u)) <= m * FRACTION
         /\ m * FRACTION < u * (m \div u) * (FRACTION + mult(m, u) + 1)
<1> DEFINE n == m \div u
           t == u * n
           q == mult(m, u)
<1>1. n \in Nat \ {0} /\ t <= m /\ m < t + u
  <2>1. n \in 1..MaxDiv
    BY DEF Accepts
  <2>2. QED
    BY <2>1, Quotient, UsartClockAssumption, SMT
<1>2. t \in Nat \ {0} /\ u <= t
  <2>1. t \in Nat \ {0}
    BY <1>1, Positive
  <2>2. 1 * u <= n * u
    <3>1. 1 \in Nat /\ n \in Nat /\ 1 <= n
      BY <1>1
    <3> HIDE DEF n
    <3>2. QED
      BY <3>1, Times
  <2>3. QED
    BY <1>1, <2>1, <2>2, SMT
<1> DEFINE r == m - t
<1>3. r \in Nat /\ r < u
  <2> HIDE DEF t, n
  <2>1. QED
    BY <1>1, <1>2, SMT DEF r
<1>4. FRACTION \in Nat \ {0} /\ FRACTION * r \in Nat
  BY <1>3, UsartClockAssumption, SMT
<1>5. q = (FRACTION * r) \div t
  BY <1>3 DEF mult
<1>6. q \in Nat /\ t * q <= FRACTION * r /\ FRACTION * r < t * q + t
  <2> HIDE DEF t, n, q
  <2>1. (FRACTION * r) \div t \in Nat /\ t * ((FRACTION * r) \div t) <= FRACTION * r
        /\ FRACTION * r < t * ((FRACTION * r) \div t) + t
    BY <1>2, <1>4, Quotient
  <2>2. QED
    BY <2>1, <1>5
<1>7. q <= FRACTION - 1
  <2> HIDE DEF t, n, q
  <2>1. SUFFICES ASSUME q >= FRACTION PROVE FALSE
    BY <1>6, <1>4, SMT
  <2>2. t * FRACTION <= t * q
    BY <2>1, <1>2, <1>4, <1>6, SMT
  <2>3. FRACTION * r < FRACTION * t
    BY <1>2, <1>3, <1>4, SMT
  <2>4. QED
    BY <2>2, <2>3, <1>2, <1>3, <1>4, <1>6, SMT
<1>8. t * (FRACTION + q) <= m * FRACTION /\ m * FRACTION < t * (FRACTION + q + 1)
  <2> HIDE DEF t, n, q
  <2>1. m = t + r
    BY <1>2, <1>3, SMT DEF r
  <2> HIDE DEF r
  <2>2. m * FRACTION = FRACTION * t + FRACTION * r
    BY <2>1, <1>2, <1>3, <1>4, SMT
  <2>3. t * (FRACTION + q) = FRACTION * t + t * q
    BY <1>2, <1>4, <1>6, SMT
  <2>4. t * (FRACTION + q + 1) = FRACTION * t + t * q + t
    BY <1>2, <1>4, <1>6, SMT
  <2>5. FRACTION * t \in Nat /\ t * q \in Nat
    BY <1>2, <1>4, <1>6, SMT
  <2>6. QED
    BY <2>2, <2>3, <2>4, <2>5, <1>2, <1>4, <1>6, SMT
<1>9. QED
  BY <1>1, <1>2, <1>3, <1>4, <1>6, <1>7, <1>8, SMT

-----------------------------------------------------------------------------
(* The inductive invariant: the registers are what the functions made of   *)
(* the last values they accepted.                                          *)

ClockSetUp ==
  \/ /\ u_pclk = 0
     /\ UARTCLKDIV = 0 /\ UARTFRGDIV = 0 /\ UARTFRGMULT = 0
  \/ /\ main_clock \in MainClocks /\ u_pclk \in Rates /\ Accepts(main_clock, u_pclk)
     /\ UARTCLKDIV = main_clock \div u_pclk
     /\ UARTFRGDIV = IF mult(main_clock, u_pclk) # 0 THEN FRACTION - 1 ELSE 0
     /\ UARTFRGMULT = mult(main_clock, u_pclk)

BaudSet ==
  \/ baud = 0 /\ BRG = 0
  \/ /\ baud \in Bauds /\ baud_pclk \in Rates
     /\ BRG = ((baud_pclk \div (OVERSAMPLE * baud)) - 1) % BrgSize

UsartInv == ClockSetUp /\ BaudSet

LEMMA UsartInvariance == Spec => []UsartInv
<1>1. Init => UsartInv
  BY DEF Init, UsartInv, ClockSetUp, BaudSet
<1>2. UsartInv /\ [Next]_vars => UsartInv'
  <2> SUFFICES ASSUME UsartInv, [Next]_vars PROVE UsartInv'
    OBVIOUS
  <2>1. CASE \E m \in MainClocks, u \in Rates : syscon_set_usart_clock(m, u)
    BY <2>1 DEF UsartInv, ClockSetUp, BaudSet, syscon_set_usart_clock, rate
  <2>2. CASE \E u \in Rates, b \in Bauds : usart_set_baudrate(u, b)
    BY <2>2 DEF UsartInv, ClockSetUp, BaudSet, usart_set_baudrate, clock
  <2>3. CASE UNCHANGED vars
    BY <2>3 DEF UsartInv, ClockSetUp, BaudSet, vars, clock, rate
  <2>4. QED
    BY <2>1, <2>2, <2>3 DEF Next
<1>3. QED
  BY <1>1, <1>2, PTL DEF Spec

-----------------------------------------------------------------------------
(* What follows from it.                                                   *)

\* The clock, once it has been set up.
LEMMA SetUp ==
  ASSUME UsartInv, u_pclk # 0
  PROVE  /\ main_clock \in Nat \ {0} /\ u_pclk \in Rates /\ u_pclk \in Nat \ {0}
         /\ UARTCLKDIV \in Nat \ {0} /\ UARTCLKDIV \in 1..MaxDiv
         /\ UARTFRGMULT \in 0..(FRACTION - 1)
         /\ \/ UARTFRGDIV = FRACTION - 1
            \/ UARTFRGDIV = 0 /\ UARTFRGMULT = 0
         /\ u_pclk * UARTCLKDIV \in Nat
         /\ main_clock - u_pclk * UARTCLKDIV \in 0..(u_pclk - 1)
         /\ u_pclk * UARTCLKDIV * (FRACTION + UARTFRGMULT) <= main_clock * FRACTION
         /\ main_clock * FRACTION < u_pclk * UARTCLKDIV * (FRACTION + UARTFRGMULT + 1)
<1>1. /\ main_clock \in MainClocks /\ u_pclk \in Rates /\ Accepts(main_clock, u_pclk)
      /\ UARTCLKDIV = main_clock \div u_pclk
      /\ UARTFRGDIV = IF mult(main_clock, u_pclk) # 0 THEN FRACTION - 1 ELSE 0
      /\ UARTFRGMULT = mult(main_clock, u_pclk)
  BY DEF UsartInv, ClockSetUp
<1>2. main_clock \in Nat \ {0} /\ u_pclk \in Nat \ {0}
  BY <1>1, UsartClockAssumption
<1>3. UARTCLKDIV \in 1..MaxDiv
  BY <1>1 DEF Accepts
<1>4. QED
  BY <1>1, <1>2, <1>3, Fraction, Zenon

\* The clock is never slower than asked for, with what is in the registers.
LEMMA NotSlower ==
  ASSUME UsartInv, u_pclk # 0
  PROVE  u_pclk * UARTCLKDIV * Slowed <= main_clock * (UARTFRGDIV + 1)
<1>1. CASE UARTFRGDIV = FRACTION - 1
  <2>1. UARTFRGDIV + 1 = FRACTION /\ Slowed = FRACTION + UARTFRGMULT
    BY <1>1, SetUp, UsartClockAssumption, SMT DEF Slowed
  <2>2. QED
    BY <2>1, SetUp, Zenon
<1>2. CASE UARTFRGDIV = 0 /\ UARTFRGMULT = 0
  <2>1. UARTFRGDIV + 1 = 1 /\ Slowed = 1
    BY <1>2, SMT DEF Slowed
  <2>2. u_pclk * UARTCLKDIV \in Nat /\ main_clock \in Nat
        /\ u_pclk * UARTCLKDIV <= main_clock
    BY SetUp, UsartClockAssumption, SMT
  <2>3. QED
    BY <2>1, <2>2, SMT
<1>3. QED
  BY <1>1, <1>2, SetUp, Zenon

\* syscon_set_usart_clock() gives a clock that is never slower than asked
\* for, and less than one step of the fraction faster.
THEOREM ClockCloseTheorem == Spec => []ClockIsClose
<1>1. UsartInv => ClockIsClose
  BY NotSlower, SetUp, Zenon DEF ClockIsClose
<1>2. QED
  BY <1>1, UsartInvariance, PTL

\* No product of syscon_set_usart_clock() overflows at the rates assumed.
THEOREM NoOverflow == Spec => []FitsInt
<1>1. UsartInv => FitsInt
  <2> SUFFICES ASSUME UsartInv, u_pclk # 0
               PROVE  FRACTION * (main_clock - u_pclk * UARTCLKDIV) \in 0..IntMax
    BY DEF FitsInt
  <2> DEFINE d == main_clock - u_pclk * UARTCLKDIV
  <2>1. d \in 0..(u_pclk - 1) /\ u_pclk \in Rates /\ u_pclk \in Nat \ {0}
    BY SetUp
  <2>2. FRACTION * (u_pclk - 1) <= IntMax
    BY <2>1, UsartClockAssumption
  <2> HIDE DEF d
  <2>3. d \in Nat /\ u_pclk - 1 \in Nat /\ d <= u_pclk - 1
        /\ FRACTION \in Nat /\ IntMax \in Nat
    BY <2>1, UsartClockAssumption, SMT
  <2>4. FRACTION * d <= FRACTION * (u_pclk - 1) /\ FRACTION * d \in Nat
    <3> DEFINE e == u_pclk - 1
    <3> HIDE DEF e
    <3>1. d <= e /\ e \in Nat
      BY <2>3 DEF e
    <3>2. FRACTION * d <= FRACTION * e /\ FRACTION * d \in Nat
      BY <3>1, <2>3, SMT
    <3>3. QED
      BY <3>2 DEF e
  <2>5. QED
    BY <2>2, <2>3, <2>4, SMT DEF d
<1>2. QED
  BY <1>1, UsartInvariance, PTL

\* Every value fits the register it is written to.
THEOREM FieldsAlwaysFit == Spec => []FieldsFit
<1>1. UsartInv => FieldsFit
  <2> SUFFICES ASSUME UsartInv PROVE FieldsFit
    OBVIOUS
  <2>1. UARTCLKDIV \in 0..MaxDiv /\ UARTFRGDIV \in {0, FRACTION - 1}
        /\ UARTFRGMULT \in 0..(FRACTION - 1)
    <3>1. CASE u_pclk = 0
      <4>1. UARTCLKDIV = 0 /\ UARTFRGDIV = 0 /\ UARTFRGMULT = 0
        BY <3>1, UsartClockAssumption DEF UsartInv, ClockSetUp
      <4>2. QED
        BY <4>1, UsartClockAssumption, SMT
    <3>2. CASE u_pclk # 0
      BY <3>2, SetUp, UsartClockAssumption, SMT
    <3>3. QED
      BY <3>1, <3>2
  <2>2. BRG \in 0..(BrgSize - 1)
    <3>1. CASE baud = 0 /\ BRG = 0
      BY <3>1, UsartClockAssumption, SMT
    <3>2. CASE /\ baud \in Bauds /\ baud_pclk \in Rates
               /\ BRG = ((baud_pclk \div (OVERSAMPLE * baud)) - 1) % BrgSize
      <4>1. baud_pclk \in Nat /\ OVERSAMPLE * baud \in Nat \ {0}
        BY <3>2, Positive, UsartClockAssumption
      <4>2. baud_pclk \div (OVERSAMPLE * baud) \in Nat
        BY <4>1, Quotient
      <4>3. QED
        BY <4>2, <3>2, UsartClockAssumption, SMT
    <3>3. QED
      BY <3>1, <3>2 DEF UsartInv, BaudSet
  <2>3. QED
    BY <2>1, <2>2 DEF FieldsFit
<1>2. QED
  BY <1>1, UsartInvariance, PTL

\* A USART is never slower than its baud rate: the two divisions, each
\* rounded down, together.
THEOREM NeverSlowTheorem == Spec => []NeverSlow
<1>1. UsartInv => NeverSlow
  <2> SUFFICES ASSUME UsartInv, baud # 0, u_pclk = baud_pclk, InRange
               PROVE  baud * OVERSAMPLE * (BRG + 1) * UARTCLKDIV * Slowed
                      <= main_clock * (UARTFRGDIV + 1)
    BY DEF NeverSlow
  <2> DEFINE k == u_pclk \div (OVERSAMPLE * baud)
             b == OVERSAMPLE * baud
  <2>1. /\ baud \in Nat \ {0} /\ u_pclk \in Nat \ {0} /\ b \in Nat \ {0}
        /\ BRG = (k - 1) % BrgSize
    BY Positive, UsartClockAssumption DEF UsartInv, BaudSet
  <2>2. k \in 1..BrgSize /\ b * k <= u_pclk
    BY <2>1, Quotient DEF InRange
  <2>3. BRG + 1 = k /\ k \in Nat
    <3> HIDE DEF k
    <3>1. QED
      BY <2>1, <2>2, UsartClockAssumption, SMT
  <2> HIDE DEF k
  <2>4. baud * OVERSAMPLE * (BRG + 1) = b * k /\ b * k \in Nat
    <3>1. baud * OVERSAMPLE = b
      BY <2>1, UsartClockAssumption, SMT
    <3> HIDE DEF b
    <3>2. QED
      BY <3>1, <2>1, <2>3, SMT
  <2> HIDE DEF b
  <2>5. UARTCLKDIV \in Nat /\ Slowed \in Nat
    BY <2>1, SetUp, UsartClockAssumption, SMT DEF Slowed
  <2>6. b * k * UARTCLKDIV * Slowed <= u_pclk * UARTCLKDIV * Slowed
        /\ b * k * UARTCLKDIV * Slowed \in Nat /\ u_pclk * UARTCLKDIV * Slowed \in Nat
    <3> DEFINE c == b * k
    <3> HIDE DEF c
    <3>1. c <= u_pclk /\ c \in Nat
      BY <2>2, <2>4 DEF c
    <3>2. c * UARTCLKDIV <= u_pclk * UARTCLKDIV
          /\ c * UARTCLKDIV \in Nat /\ u_pclk * UARTCLKDIV \in Nat
      BY <3>1, <2>1, <2>5, Times
    <3>3. c * UARTCLKDIV * Slowed <= u_pclk * UARTCLKDIV * Slowed
          /\ c * UARTCLKDIV * Slowed \in Nat /\ u_pclk * UARTCLKDIV * Slowed \in Nat
      BY <3>2, <2>5, Times
    <3>4. QED
      BY <3>3 DEF c
  <2>7. u_pclk * UARTCLKDIV * Slowed <= main_clock * (UARTFRGDIV + 1)
    BY <2>1, NotSlower
  <2>8. main_clock * (UARTFRGDIV + 1) \in Nat
    BY <2>1, SetUp, UsartClockAssumption, SMT
  <2>9. baud * OVERSAMPLE * (BRG + 1) * UARTCLKDIV * Slowed = b * k * UARTCLKDIV * Slowed
    BY <2>4
  <2>10. QED
    BY <2>6, <2>7, <2>8, <2>9, SMT
<1>2. QED
  BY <1>1, UsartInvariance, PTL

-----------------------------------------------------------------------------
(* The oscillators and the PLL.                                            *)

\* The inductive invariant.  Between two calls the PLL that the program has
\* enabled is locked, what it runs on has power, and so has the main clock; in
\* a call what is to be selected runs, and nothing runs on a PLL that is being
\* set up.
Enabling == {"enable_pll", "update pll", "pll factors", "wait for lock"}

PllInv ==
  /\ pc \in Enabling \cup {"idle", "set_system_clock", "update main"}
  /\ pll_in \in Pll!PllSources /\ main \in Pll!MainSources
  /\ Pll!Runs(pll_in) /\ Pll!ClockRuns(main)
  /\ pc \in Enabling => main \in {"IRC", "WDT_OSC"}
  /\ enabled => locked \/ pc \in {"pll factors", "wait for lock"}
  /\ pc # "update pll" => pll_in = SYSPLLCLKSEL
  /\ pc = "update pll" => SYSPLLCLKSEL \in Pll!PllSources /\ Pll!Runs(SYSPLLCLKSEL)
  /\ pc # "update main" => main = MAINCLKSEL
  /\ pc = "update main" => MAINCLKSEL \in Pll!MainSources /\ Pll!ClockRuns(MAINCLKSEL)
  /\ pc = "enable_pll" => call[1] \in Pll!Osc /\ Pll!Runs(call[1])
  /\ pc = "set_system_clock" => call[1] \in Pll!Osc /\ Pll!ClockRuns(call[1])

\* Which clocks run, clock by clock.
Running ==
  \A osc \in Pll!Osc :
    /\ Pll!Runs(osc) <=> /\ osc = "XTAL" => "SYSOSC_PD" \notin PDRUNCFG
                         /\ osc = "WDT_OSC" => "WDTOSC_PD" \notin PDRUNCFG
    /\ Pll!ClockRuns(osc) <=> /\ osc \in {"PLL_IN", "PLL_OUT"} => Pll!Runs(pll_in)
                              /\ osc = "PLL_OUT" => locked
                              /\ osc \notin {"PLL_IN", "PLL_OUT"} => Pll!Runs(osc)

LEMMA RunningHolds == Running
<1> SUFFICES ASSUME NEW osc \in Pll!Osc
             PROVE  /\ Pll!Runs(osc) <=> /\ osc = "XTAL" => "SYSOSC_PD" \notin PDRUNCFG
                                         /\ osc = "WDT_OSC" => "WDTOSC_PD" \notin PDRUNCFG
                    /\ Pll!ClockRuns(osc) <=> /\ osc \in {"PLL_IN", "PLL_OUT"} => Pll!Runs(pll_in)
                                              /\ osc = "PLL_OUT" => locked
                                              /\ osc \notin {"PLL_IN", "PLL_OUT"} => Pll!Runs(osc)
  BY DEF Running
<1>1. Pll!Runs(osc) <=> /\ osc = "XTAL" => "SYSOSC_PD" \notin PDRUNCFG
                        /\ osc = "WDT_OSC" => "WDTOSC_PD" \notin PDRUNCFG
  BY DEF Pll!Runs
<1>2. Pll!ClockRuns(osc) <=> /\ osc \in {"PLL_IN", "PLL_OUT"} => Pll!Runs(pll_in)
                             /\ osc = "PLL_OUT" => locked
                             /\ osc \notin {"PLL_IN", "PLL_OUT"} => Pll!Runs(osc)
  BY DEF Pll!ClockRuns
<1>3. QED
  BY <1>1, <1>2

LEMMA PllInductive ==
  ASSUME PllInv, Pll!Next
  PROVE  PllInv'
<1> USE DEF Pll!Osc, Pll!PllSources, Pll!MainSources, Enabling
<1>1. Running /\ Running'
  BY RunningHolds, PTL
<1>2. CASE Pll!Call
  <2>1. /\ pc = "idle" /\ UNCHANGED <<PDRUNCFG, SYSPLLCLKSEL, MAINCLKSEL, pll_in, main>>
        /\ (locked' <=> locked) /\ (enabled' <=> enabled)
    BY <1>2, Zenon DEF Pll!Call, Pll!registers, Pll!hardware
  <2>2. PICK source \in Pll!Osc :
          /\ call'[1] = source
          /\ \/ pc' = "enable_pll" /\ main \notin {"PLL_IN", "PLL_OUT"} /\ Pll!Runs(source)
             \/ /\ pc' = "set_system_clock"
                /\ source = "PLL_OUT" => enabled
                /\ source = "PLL_IN" => Pll!Runs(pll_in)
                /\ source \notin {"PLL_IN", "PLL_OUT"} => Pll!Runs(source)
    BY <1>2 DEF Pll!Call
  <2>3. pc' = "set_system_clock" => Pll!ClockRuns(source)
    BY <1>1, <2>1, <2>2 DEF PllInv, Running
  <2>4. QED
    BY <1>1, <2>1, <2>2, <2>3 DEF PllInv, Running
<1>3. CASE Pll!Refuse
  BY <1>1, <1>3 DEF PllInv, Running, Pll!Refuse, Pll!Return, Pll!registers, Pll!hardware
<1>4. CASE Pll!PowerPll
  BY <1>1, <1>4 DEF PllInv, Running, Pll!PowerPll, Pll!PllAccepts, Pll!hardware
<1>5. CASE Pll!UpdatePll
  BY <1>1, <1>5 DEF PllInv, Running, Pll!UpdatePll, Pll!Updated
<1>6. CASE Pll!SetFactors
  BY <1>1, <1>6 DEF PllInv, Running, Pll!SetFactors
<1>7. CASE Pll!WaitForLock
  BY <1>1, <1>7 DEF PllInv, Running, Pll!WaitForLock, Pll!Return, Pll!registers, Pll!hardware
<1>8. CASE Pll!SelectMain
  BY <1>1, <1>8 DEF PllInv, Running, Pll!SelectMain, Pll!MainAccepts, Pll!hardware
<1>9. CASE Pll!UpdateMain
  BY <1>1, <1>9 DEF PllInv, Running, Pll!UpdateMain, Pll!Updated, Pll!Return
<1>10. CASE Pll!Lock
  <2>1. /\ UNCHANGED <<PDRUNCFG, SYSPLLCLKSEL, MAINCLKSEL, pll_in, main, pc, call>>
        /\ locked'
    BY <1>10, Zenon DEF Pll!Lock, Pll!registers
  <2>2. QED
    BY <1>1, <2>1, ZenonT(40) DEF PllInv, Running
<1>11. ASSUME NEW units \in SUBSET Pll!Units, Pll!PowerUp(units)
       PROVE  PllInv'
  BY <1>1, <1>11 DEF PllInv, Running, Pll!PowerUp, Pll!hardware
<1>12. ASSUME NEW units \in SUBSET Pll!Units, NEW control, Pll!PowerDown(units, control)
       PROVE  PllInv'
  <2>1. /\ "SYSPLL_PD" \in units => main # "PLL_OUT"
        /\ "SYSOSC_PD" \in units => pll_in # "XTAL"
        /\ "WDTOSC_PD" \in units => main # "WDT_OSC"
    BY <1>12 DEF Pll!PowerDown, Pll!Uses
  <2>2. QED
    BY <1>1, <1>12, <2>1 DEF PllInv, Running, Pll!PowerDown
<1>13. CASE Pll!Power
  BY <1>11, <1>12, <1>13 DEF Pll!Power, Pll!Units
<1>14. QED
  BY <1>2, <1>3, <1>4, <1>5, <1>6, <1>7, <1>8, <1>9, <1>10, <1>13
     DEF Pll!Next, Pll!Library, Pll!Enable

\* The divisor of the system clock is not 0: the one asked for is an integer and
\* not 0, and fits the register when it is written.
Asked(c) == c[2]

DivisorInv ==
  /\ SYSAHBCLKDIV # 0
  /\ pc = "set_system_clock" => Asked(call) \in Int \ {0}
  /\ pc = "update main" => Asked(call) \in Int /\ 0 < Asked(call) /\ Asked(call) <= 255

LEMMA FitsDivisor ==
  ASSUME NEW d \in Int, 0 < d, d <= 255
  PROVE  d % 256 # 0
OBVIOUS

LEMMA DivisorInductive ==
  ASSUME DivisorInv, Pll!Next
  PROVE  DivisorInv'
<1>1. CASE Pll!Call
  <2>1. SYSAHBCLKDIV' = SYSAHBCLKDIV
    BY <1>1 DEF Pll!Call, Pll!registers
  <2>2. \/ pc' = "enable_pll"
        \/ pc' = "set_system_clock" /\ Asked(call') \in Divs \ {0}
    BY <1>1 DEF Pll!Call, Asked
  <2>3. QED
    BY <2>1, <2>2, DivisorAssumption DEF DivisorInv
<1>2. CASE Pll!Refuse
  <2>1. SYSAHBCLKDIV' = SYSAHBCLKDIV /\ pc' = "idle"
    BY <1>2, Zenon DEF Pll!Refuse, Pll!Return, Pll!registers
  <2>2. QED
    BY <2>1 DEF DivisorInv
<1>3. CASE Pll!SelectMain
  <2>1. /\ pc = "set_system_clock" /\ pc' = "update main"
        /\ SYSAHBCLKDIV' = SYSAHBCLKDIV /\ call' = call
        /\ Asked(call) >= 0 /\ Asked(call) <= 255
    BY <1>3, Zenon DEF Pll!SelectMain, Pll!MainAccepts, Asked
  <2>2. Asked(call) \in Int /\ 0 < Asked(call) /\ Asked(call) <= 255
    <3>1. Asked(call) \in Int /\ Asked(call) # 0
      BY <2>1, Zenon DEF DivisorInv
    <3>2. ASSUME NEW d \in Int, d # 0, d >= 0, d <= 255
          PROVE  d \in Int /\ 0 < d /\ d <= 255
      BY <3>2
    <3>3. QED
      BY <2>1, <3>1, <3>2, Zenon
  <2>3. Asked(call') = Asked(call)
    BY <2>1
  <2>4. QED
    BY <2>1, <2>2, <2>3 DEF DivisorInv
<1>4. CASE Pll!UpdateMain
  <2>1. /\ pc = "update main" /\ pc' = "idle"
        /\ SYSAHBCLKDIV' = Asked(call) % 256
    BY <1>4, Zenon DEF Pll!UpdateMain, Pll!Return, Asked
  <2>2. Asked(call) % 256 # 0
    BY <2>1, FitsDivisor DEF DivisorInv
  <2>3. QED
    BY <2>1, <2>2 DEF DivisorInv
<1>5. CASE Pll!Enable
  <2>1. SYSAHBCLKDIV' = SYSAHBCLKDIV /\ pc' \in Enabling \cup {"idle"}
    BY <1>5 DEF Pll!Enable, Pll!PowerPll, Pll!UpdatePll, Pll!SetFactors, Pll!WaitForLock,
                Pll!Return, Pll!registers, Enabling
  <2>2. QED
    BY <2>1 DEF DivisorInv, Enabling
<1>6. CASE Pll!Power \/ Pll!Lock
  <2>1. UNCHANGED <<SYSAHBCLKDIV, pc, call>>
    BY <1>6, Zenon DEF Pll!Power, Pll!PowerUp, Pll!PowerDown, Pll!Lock, Pll!registers
  <2>2. QED
    BY <2>1 DEF DivisorInv
<1>7. QED
  BY <1>1, <1>2, <1>3, <1>4, <1>5, <1>6 DEF Pll!Next, Pll!Library

-----------------------------------------------------------------------------
(* Who drives which pin.                                                   *)

\* Only PIO0_1 has more than one fixed-pin function.
LEMMA FixedPins ==
  /\ \A f \in Matrix!Fixed : Matrix!FixedPin[f] \in Pin
  /\ \A f, g \in Matrix!Fixed :
       Matrix!FixedPin[f] = Matrix!FixedPin[g] /\ Matrix!FixedPin[f] # 1 => f = g
  /\ Matrix!Fixed \cap (Matrix!Port \cup {"reset"}) = {}
BY DEF Matrix!Fixed, Matrix!FixedPin, Matrix!Port

\* First picks at most one of the pins it is given.
LEMMA FirstPin ==
  ASSUME Matrix!Package, NEW pins \in SUBSET Pin
  PROVE  /\ Matrix!First(pins) \subseteq pins
         /\ \A p, q \in Matrix!First(pins) : p = q
<1>1. \A p \in pins : p \in Int
  BY DEF Matrix!Package
<1>2. QED
  BY <1>1 DEF Matrix!First

\* What EnableMovable does to the pin of each function.
LEMMA Enabled ==
  ASSUME NEW a, NEW func \in Movable, NEW pins \in SUBSET Pin, NEW f \in Movable
  PROVE  /\ f # func => Matrix!EnableMovable(a, func, pins)[f] = a[f]
         /\ Matrix!First(pins) = {} => Matrix!EnableMovable(a, func, pins)[f] = a[f]
         /\ Matrix!First(pins) # {} =>
              Matrix!EnableMovable(a, func, pins)[func] \in Matrix!First(pins)
<1>1. Matrix!First(pins) # {} => (CHOOSE p \in Matrix!First(pins) : TRUE) \in Matrix!First(pins)
  OBVIOUS
<1>2. QED
  BY <1>1 DEF Matrix!EnableMovable

MatrixInv == Matrix!TypeOK /\ Matrix!NoConflict /\ Matrix!AsConfigured

\* After a reset nothing is configured.
LEMMA InitMatrixInv == Matrix!Package /\ Matrix!Init => MatrixInv
<1> SUFFICES ASSUME Matrix!Package, Matrix!Init
             PROVE  MatrixInv
  OBVIOUS
<1>1. Matrix!TypeOK
  BY DEF Matrix!Init, Matrix!TypeOK, Matrix!Unused, Matrix!Package
<1>2. ASSUME NEW p \in Pin
      PROVE  Matrix!MovableOn(p) = {}
  BY DEF Matrix!Init, Matrix!MovableOn, Matrix!Package
<1>3. Matrix!NoConflict
  BY <1>1, <1>2, FixedPins DEF Matrix!NoConflict, Matrix!FixedOn, Matrix!TypeOK
<1>4. Matrix!AsConfigured
  BY <1>2, FixedPins
     DEF Matrix!Init, Matrix!AsConfigured, Matrix!Unused, Matrix!Port, Matrix!Package
<1>5. QED
  BY <1>1, <1>3, <1>4 DEF MatrixInv

\* What a call has to do, so that the invariant holds again: the pins in
\* `used' get the function, all others keep at most what they had.
LEMMA CallKeepsMatrixInv ==
  ASSUME Matrix!Package, MatrixInv, Matrix!TypeOK',
         NEW func \in Movable \cup Matrix!Fixed \cup Matrix!Port, NEW c \in Iocon,
         NEW used \in SUBSET Pin,
         Matrix!Want(func, c, used),
         iocon' = Matrix!SetIocon(c, used),
         \A p \in Pin \ used : /\ Matrix!MovableOn(p)' \subseteq Matrix!MovableOn(p)
                               /\ Matrix!FixedOn(p)' = Matrix!FixedOn(p)
                               /\ p \in dir' <=> p \in dir,
         \A p \in used :
           /\ func \in Matrix!Port =>
                /\ Matrix!MovableOn(p)' = {} /\ Matrix!FixedOn(p)' = {}
                /\ p \in dir' <=> func = "GPIO_OUTPUT"
           /\ func \in Matrix!Fixed => func \in Matrix!FixedOn(p)' /\ Matrix!MovableOn(p)' = {}
           /\ func \in Movable => Matrix!FixedOn(p)' = {} /\ Matrix!MovableOn(p)' \subseteq {func}
  PROVE  MatrixInv'
<1>1. Matrix!NoConflict'
  <2> SUFFICES ASSUME NEW p \in Pin
               PROVE  /\ \A f, g \in Matrix!MovableOn(p)' : f = g
                      /\ Matrix!MovableOn(p)' = {} \/ Matrix!FixedOn(p)' = {}
                      /\ p # 1 => \A f, g \in Matrix!FixedOn(p)' : f = g
    BY DEF Matrix!NoConflict
  <2>1. p # 1 => \A f, g \in Matrix!FixedOn(p)' : f = g
    BY FixedPins DEF Matrix!FixedOn, Matrix!TypeOK
  <2>2. CASE p \in used
    BY <2>1, <2>2
  <2>3. CASE p \notin used
    BY <2>1, <2>3 DEF MatrixInv, Matrix!NoConflict
  <2>4. QED
    BY <2>2, <2>3
<1>2. Matrix!AsConfigured'
  <2> SUFFICES ASSUME NEW p \in Pin
               PROVE  LET w == wanted'[p][1] IN
                 /\ iocon'[p] = wanted'[p][2]
                 /\ w = "reset" => p \notin dir' /\ Matrix!MovableOn(p)' = {}
                 /\ w \in Matrix!Port =>
                      /\ Matrix!MovableOn(p)' \cup Matrix!FixedOn(p)' = {}
                      /\ p \in dir' <=> w = "GPIO_OUTPUT"
                 /\ w \in Matrix!Fixed => w \in Matrix!FixedOn(p)'
                 /\ w \in Movable => Matrix!FixedOn(p)' = {} /\ Matrix!MovableOn(p)' \subseteq {w}
    BY DEF Matrix!AsConfigured
  <2>1. CASE p \in used
    <3>1. wanted'[p] = <<func, c>> /\ iocon'[p] = c
      BY <2>1 DEF Matrix!Want, Matrix!SetIocon
    <3>2. wanted'[p][1] = func /\ wanted'[p][2] = c
      BY <3>1
    <3>3. func # "reset"
      BY FixedPins DEF Matrix!Package, Matrix!Port
    <3>4. QED
      BY <2>1, <3>1, <3>2, <3>3
  <2>2. CASE p \notin used
    <3>1. wanted'[p] = wanted[p] /\ iocon'[p] = iocon[p]
      BY <2>2 DEF Matrix!Want, Matrix!SetIocon
    <3>2. QED
      BY <2>2, <3>1 DEF MatrixInv, Matrix!AsConfigured
  <2>3. QED
    BY <2>1, <2>2
<1>3. QED
  BY <1>1, <1>2 DEF MatrixInv

\* Standard I/O: gpio.c:185-192 and 218-228.
LEMMA PortStep ==
  ASSUME Matrix!Package, MatrixInv, NEW func \in Matrix!Port, NEW c \in Iocon,
         NEW pins \in SUBSET Pin,
         Matrix!ConfigPort(func, c, pins) \/ Matrix!ReconfigPort(func, c, pins)
  PROVE  MatrixInv'
<1>1. /\ Matrix!Want(func, c, pins) /\ iocon' = Matrix!SetIocon(c, pins)
      /\ fixed' = Matrix!DisableFixed(pins)
      /\ assign' = assign \/ assign' = Matrix!DisableMovable(pins)
  BY DEF Matrix!ConfigPort, Matrix!ReconfigPort
<1>2. /\ dir' \subseteq Pin
      /\ \A p \in Pin \ pins : p \in dir' <=> p \in dir
  BY DEF Matrix!ConfigPort, Matrix!ReconfigPort, MatrixInv, Matrix!TypeOK
<1>3. Matrix!TypeOK'
  BY <1>1, <1>2
     DEF MatrixInv, Matrix!TypeOK, Matrix!Want, Matrix!SetIocon, Matrix!DisableFixed,
         Matrix!DisableMovable
<1>4. \A p \in Pin \ pins :
        /\ Matrix!MovableOn(p)' \subseteq Matrix!MovableOn(p)
        /\ Matrix!FixedOn(p)' = Matrix!FixedOn(p)
  BY <1>1
     DEF Matrix!MovableOn, Matrix!FixedOn, Matrix!DisableFixed, Matrix!DisableMovable,
         Matrix!Package
<1>5. ASSUME NEW p \in pins
      PROVE  /\ Matrix!MovableOn(p)' = {} /\ Matrix!FixedOn(p)' = {}
             /\ p \in dir' <=> func = "GPIO_OUTPUT"
  <2>1. Matrix!FixedOn(p)' = {}
    BY <1>1 DEF Matrix!FixedOn, Matrix!DisableFixed
  <2>2. CASE Matrix!ConfigPort(func, c, pins)
    <3>1. wanted[p] = Matrix!Unused
      BY <2>2 DEF Matrix!ConfigPort, Matrix!Fresh
    <3>2. p \notin dir /\ Matrix!MovableOn(p) = {}
      BY <3>1 DEF MatrixInv, Matrix!AsConfigured, Matrix!Unused
    <3>3. QED
      BY <2>1, <2>2, <3>2 DEF Matrix!ConfigPort, Matrix!MovableOn, Matrix!Port
  <2>3. CASE Matrix!ReconfigPort(func, c, pins)
    <3>1. Matrix!MovableOn(p)' = {}
      BY <2>3 DEF Matrix!ReconfigPort, Matrix!MovableOn, Matrix!DisableMovable, Matrix!Package
    <3>2. QED
      BY <2>1, <2>3, <3>1 DEF Matrix!ReconfigPort, Matrix!Port
  <2>4. QED
    BY <2>2, <2>3
<1>6. func \notin Matrix!Fixed /\ func \notin Movable
  BY FixedPins DEF Matrix!Package
<1>7. QED
  BY <1>1, <1>2, <1>3, <1>4, <1>5, <1>6, CallKeepsMatrixInv

\* Fixed-pin functions: gpio.c:193-205 and 229-242.
LEMMA FixedStep ==
  ASSUME Matrix!Package, MatrixInv, NEW func \in Matrix!Fixed, NEW c \in Iocon,
         Matrix!ConfigFixed(func, c) \/ Matrix!ReconfigFixed(func, c)
  PROVE  MatrixInv'
<1> DEFINE pin == Matrix!FixedPin[func]
<1>1. /\ Matrix!Want(func, c, {pin}) /\ iocon' = Matrix!SetIocon(c, {pin})
      /\ fixed' = fixed \cup {func} /\ dir' = dir
      /\ assign' = assign \/ assign' = Matrix!DisableMovable({pin})
      /\ pin \in Pin
  BY FixedPins DEF Matrix!ConfigFixed, Matrix!ReconfigFixed
<1>2. Matrix!TypeOK'
  BY <1>1 DEF MatrixInv, Matrix!TypeOK, Matrix!Want, Matrix!SetIocon, Matrix!DisableMovable
<1>3. \A p \in Pin \ {pin} :
        /\ Matrix!MovableOn(p)' \subseteq Matrix!MovableOn(p)
        /\ Matrix!FixedOn(p)' = Matrix!FixedOn(p)
  BY <1>1 DEF Matrix!MovableOn, Matrix!FixedOn, Matrix!DisableMovable, Matrix!Package
<1>4. func \in Matrix!FixedOn(pin)'
  BY <1>1 DEF Matrix!FixedOn
<1>5. Matrix!MovableOn(pin)' = {}
  <2>1. CASE Matrix!ConfigFixed(func, c)
    <3>1. wanted[pin] = Matrix!Unused
      BY <2>1 DEF Matrix!ConfigFixed, Matrix!Fresh
    <3>2. QED
      BY <1>1, <2>1, <3>1
         DEF Matrix!ConfigFixed, MatrixInv, Matrix!AsConfigured, Matrix!Unused,
             Matrix!MovableOn
  <2>2. CASE Matrix!ReconfigFixed(func, c)
    BY <1>1, <2>2
       DEF Matrix!ReconfigFixed, Matrix!MovableOn, Matrix!DisableMovable, Matrix!Package
  <2>3. QED
    BY <2>1, <2>2
<1>6. func \notin Matrix!Port /\ func \notin Movable
  BY FixedPins DEF Matrix!Package
<1>7. {pin} \in SUBSET Pin
  BY <1>1
<1> HIDE DEF pin
<1>8. QED
  BY <1>1, <1>2, <1>3, <1>4, <1>5, <1>6, <1>7, CallKeepsMatrixInv

\* Movable functions: gpio.c:206-211 and 243-249.
LEMMA MovableStep ==
  ASSUME Matrix!Package, MatrixInv, NEW func \in Movable, NEW c \in Iocon, NEW pins \in SUBSET Pin,
         Matrix!ConfigMovable(func, c, pins) \/ Matrix!ReconfigMovable(func, c, pins)
  PROVE  MatrixInv'
<1> DEFINE used == Matrix!First(pins)
<1>1. /\ Matrix!Want(func, c, used) /\ iocon' = Matrix!SetIocon(c, used)
      /\ fixed' = Matrix!DisableFixed(used) /\ dir' = dir
      /\ used \subseteq pins /\ \A p, q \in used : p = q
  BY FirstPin DEF Matrix!ConfigMovable, Matrix!ReconfigMovable
<1>2. /\ assign' \in [Movable -> Pin \cup {NoPin}]
      /\ \A f \in Movable : assign'[f] \in Pin =>
           assign'[f] = assign[f] \/ (f = func /\ assign'[f] \in used)
      /\ used # {} => assign'[func] \in used
      /\ \A f \in Movable : f # func => assign'[f] = assign[f] \/ assign'[f] = NoPin
  <2>1. \E a \in [Movable -> Pin \cup {NoPin}] :
          /\ assign' = Matrix!EnableMovable(a, func, pins)
          /\ \A f \in Movable : a[f] = assign[f] \/ a[f] = NoPin
    <3>1. Matrix!DisableMovable(pins) \in [Movable -> Pin \cup {NoPin}]
      BY DEF Matrix!DisableMovable, MatrixInv, Matrix!TypeOK
    <3>2. \A f \in Movable : Matrix!DisableMovable(pins)[f] \in {assign[f], NoPin}
      BY DEF Matrix!DisableMovable
    <3>3. CASE Matrix!ConfigMovable(func, c, pins)
      BY <3>3 DEF Matrix!ConfigMovable, MatrixInv, Matrix!TypeOK
    <3>4. CASE Matrix!ReconfigMovable(func, c, pins)
      BY <3>1, <3>2, <3>4 DEF Matrix!ReconfigMovable
    <3>5. QED
      BY <3>3, <3>4
  <2>2. PICK a \in [Movable -> Pin \cup {NoPin}] :
          /\ assign' = Matrix!EnableMovable(a, func, pins)
          /\ \A f \in Movable : a[f] = assign[f] \/ a[f] = NoPin
    BY <2>1
  <2>3. assign' = [f \in Movable |-> assign'[f]]
    BY <2>2 DEF Matrix!EnableMovable
  <2>4. \A f \in Movable : assign'[f] = a[f] \/ (f = func /\ assign'[f] \in used)
    BY <2>2, Enabled
  <2>5. used # {} => assign'[func] \in used
    BY <2>2, Enabled
  <2>6. NoPin \notin Pin
    BY DEF Matrix!Package
  <2>7. QED
    BY <1>1, <2>2, <2>3, <2>4, <2>5, <2>6
<1>3. Matrix!TypeOK'
  BY <1>1, <1>2 DEF MatrixInv, Matrix!TypeOK, Matrix!Want, Matrix!SetIocon, Matrix!DisableFixed
<1>4. \A p \in Pin \ used :
        /\ Matrix!MovableOn(p)' \subseteq Matrix!MovableOn(p)
        /\ Matrix!FixedOn(p)' = Matrix!FixedOn(p)
  BY <1>1, <1>2 DEF Matrix!MovableOn, Matrix!FixedOn, Matrix!DisableFixed
<1>5. ASSUME NEW p \in used
      PROVE  Matrix!FixedOn(p)' = {} /\ Matrix!MovableOn(p)' \subseteq {func}
  <2>1. Matrix!FixedOn(p)' = {}
    BY <1>1 DEF Matrix!FixedOn, Matrix!DisableFixed
  <2>2. ASSUME NEW f \in Movable, f # func
        PROVE  assign'[f] # p
    <3>1. p \in pins /\ p \in Pin /\ p # NoPin
      BY <1>1 DEF Matrix!Package
    <3>2. CASE Matrix!ConfigMovable(func, c, pins)
      <4>1. wanted[p] = Matrix!Unused
        BY <3>1, <3>2 DEF Matrix!ConfigMovable, Matrix!Fresh
      <4>2. Matrix!MovableOn(p) = {}
        BY <3>1, <4>1 DEF MatrixInv, Matrix!AsConfigured, Matrix!Unused
      <4>3. QED
        BY <1>2, <2>2, <3>1, <4>2 DEF Matrix!MovableOn
    <3>3. CASE Matrix!ReconfigMovable(func, c, pins)
      <4>1. assign'[f] = Matrix!DisableMovable(pins)[f]
        BY <2>2, <3>3, Enabled DEF Matrix!ReconfigMovable
      <4>2. QED
        BY <3>1, <4>1 DEF Matrix!DisableMovable
    <3>4. QED
      BY <3>2, <3>3
  <2>3. QED
    BY <2>1, <2>2 DEF Matrix!MovableOn
<1>6. func \notin Matrix!Port /\ func \notin Matrix!Fixed
  BY DEF Matrix!Package
<1>7. used \in SUBSET Pin
  BY <1>1
<1> HIDE DEF used
<1>8. QED
  BY <1>1, <1>3, <1>4, <1>5, <1>6, <1>7, CallKeepsMatrixInv

LEMMA MatrixInductive ==
  ASSUME Matrix!Package, MatrixInv, Matrix!Next
  PROVE  MatrixInv'
<1>1. CASE Matrix!PortCall
  BY <1>1, PortStep DEF Matrix!PortCall
<1>2. CASE Matrix!FixedCall
  BY <1>2, FixedStep DEF Matrix!FixedCall
<1>3. CASE Matrix!MovableCall
  BY <1>3, MovableStep DEF Matrix!MovableCall
<1>4. QED
  BY <1>1, <1>2, <1>3 DEF Matrix!Next

-----------------------------------------------------------------------------
(* Calls of sct.c.                                                         *)

Halves == {"l", "h"}

\* The names of the registers.
SctNames ==
  {"unify", "autolimit", "noreload", "stop", "halt", "down", "bidir", "pre", "limit",
   "haltmask", "stopmask", "startmask", "count", "phase", "state", "regmode", "out",
   "dirctrl", "res", "even", "evflag", "conen", "conflag", "match", "reload", "ev",
   "set", "clr"}

\* Those that have two halves, and that a call for one of them may reach.
Paired == {"count", "state", "limit", "haltmask", "stopmask", "startmask", "regmode", "reload"}

\* A record of registers, with those that have two halves as pairs.
Registers(s) ==
  /\ DOMAIN s = SctNames /\ s = [f \in SctNames |-> s[f]]
  /\ \A f \in Paired : DOMAIN s[f] = Halves /\ s[f] = [x \in Halves |-> s[f][x]]
  /\ ~s.unify

States == {"run", "stop", "halt"}

\* A half is stopped or halted as it was last told.
Told(s, t) ==
  /\ DOMAIN t = Halves /\ t = [x \in Halves |-> t[x]]
  /\ \A x \in Halves :
       /\ t[x] \in States
       /\ x \in s.stop <=> t[x] = "stop"
       /\ x \in s.halt <=> t[x] = "halt"

\* The halves of the counter make up what was written to it.
Counter(s) ==
  /\ s.count["l"] \in Nat /\ s.count["l"] < W /\ s.count["h"] \in Nat
  /\ whole = s.count["l"] + W * s.count["h"]

CallsInv ==
  /\ Registers(sct)
  /\ Told(sct, told)
  /\ Counter(sct)
  /\ Calls!UpCountsUp

\* A call leaves half y alone.
Same(y) ==
  /\ y \in sct'.stop <=> y \in sct.stop
  /\ y \in sct'.halt <=> y \in sct.halt
  /\ y \in sct'.down <=> y \in sct.down
  /\ y \in sct'.bidir <=> y \in sct.bidir
  /\ \A f \in Paired : sct'[f][y] = sct[f][y]

LEMMA SameAbout ==
  ASSUME NEW y, Same(y)
  PROVE  Calls!About(sct', y) = Calls!About(sct, y)
<1>1. /\ (y \in sct'.stop) = (y \in sct.stop)
      /\ (y \in sct'.halt) = (y \in sct.halt)
      /\ (y \in sct'.down) = (y \in sct.down)
      /\ (y \in sct'.bidir) = (y \in sct.bidir)
  <2>1. /\ y \in sct'.stop <=> y \in sct.stop
        /\ y \in sct'.halt <=> y \in sct.halt
        /\ y \in sct'.down <=> y \in sct.down
        /\ y \in sct'.bidir <=> y \in sct.bidir
    BY Zenon DEF Same
  <2>2. QED
    BY <2>1, SMT
<1>2. /\ sct'.count[y] = sct.count[y] /\ sct'.state[y] = sct.state[y]
      /\ sct'.limit[y] = sct.limit[y] /\ sct'.haltmask[y] = sct.haltmask[y]
      /\ sct'.stopmask[y] = sct.stopmask[y] /\ sct'.startmask[y] = sct.startmask[y]
      /\ sct'.regmode[y] = sct.regmode[y] /\ sct'.reload[y] = sct.reload[y]
  BY DEF Same, Paired
<1>3. QED
  BY <1>1, <1>2, Zenon DEF Calls!About

\* What a call of a function with a suffix leaves alone.
Spares(suffix) == (suffix = "l" => Same("h")) /\ (suffix = "h" => Same("l"))

LEMMA SparesApart ==
  ASSUME Spares(call'.suffix)
  PROVE  Calls!HalvesApart
BY SameAbout DEF Spares, Calls!HalvesApart

LEMMA Called ==
  ASSUME NEW name, NEW suffix, NEW outputs, NEW arg, Calls!Call(name, suffix, outputs, arg)
  PROVE  call'.name = name /\ call'.suffix = suffix /\ call'.arg = arg
BY DEF Calls!Call

LEMMA CallsInitially == Calls!Init => CallsInv
<1> SUFFICES ASSUME Calls!Init PROVE CallsInv
  OBVIOUS
<1>1. /\ sct = Calls!Timer!Reset
      /\ call = [name |-> "reset", suffix |-> "", outputs |-> {}, arg |-> 0]
      /\ told = Calls!Timer!Pair("halt", "halt") /\ whole = 0
  BY DEF Calls!Init
<1>2. /\ DOMAIN sct = SctNames /\ sct = [f \in SctNames |-> sct[f]] /\ ~sct.unify
      /\ sct.stop = {} /\ sct.halt = Calls!Timer!Halves
      /\ sct.count = Calls!Timer!Pair(0, 0) /\ sct.state = Calls!Timer!Pair(0, 0)
      /\ \A f \in Paired : \E v : sct[f] = Calls!Timer!Pair(v, v)
  <2>1. /\ DOMAIN sct = SctNames /\ sct = [f \in SctNames |-> sct[f]] /\ ~sct.unify
    BY <1>1 DEF Calls!Timer!Reset, SctNames
  <2>2. /\ sct.stop = {} /\ sct.halt = Calls!Timer!Halves
    BY <1>1 DEF Calls!Timer!Reset
  <2>3. /\ sct.count = Calls!Timer!Pair(0, 0) /\ sct.state = Calls!Timer!Pair(0, 0)
    BY <1>1 DEF Calls!Timer!Reset
  <2>4. ASSUME NEW f \in Paired PROVE \E v : sct[f] = Calls!Timer!Pair(v, v)
    <3> DEFINE zeros == [k \in Calls!Timer!Regs |-> 0]
    <3>1. /\ sct.limit = Calls!Timer!Pair({}, {}) /\ sct.haltmask = Calls!Timer!Pair({}, {})
          /\ sct.stopmask = Calls!Timer!Pair({}, {}) /\ sct.startmask = Calls!Timer!Pair({}, {})
          /\ sct.regmode = Calls!Timer!Pair({}, {}) /\ sct.reload = Calls!Timer!Pair(zeros, zeros)
      BY <1>1 DEF Calls!Timer!Reset
    <3> HIDE DEF zeros
    <3>2. QED
      BY <2>3, <3>1 DEF Paired
  <2>5. QED
    BY <2>1, <2>2, <2>3, <2>4
<1>3. Registers(sct)
  BY <1>2 DEF Registers, Calls!Timer!Pair, Calls!Timer!Halves, Halves
<1>4. Told(sct, told)
  BY <1>1, <1>2 DEF Told, States, Calls!Timer!Pair, Calls!Timer!Halves, Halves
<1>7. Counter(sct)
  <2>1. sct.count["l"] = 0 /\ sct.count["h"] = 0 /\ whole = 0
    BY <1>1, <1>2 DEF Calls!Timer!Pair, Calls!Timer!Halves
  <2>2. QED
    BY <2>1, CounterAssumption DEF Counter
<1>5. Calls!UpCountsUp
  BY <1>1 DEF Calls!UpCountsUp
<1>6. QED
  BY <1>3, <1>4, <1>5, <1>7 DEF CallsInv

LEMMA RunStep ==
  ASSUME CallsInv, NEW suffix \in Calls!Suffixes, Calls!Run(suffix)
  PROVE  CallsInv' /\ Spares(suffix)
<1> DEFINE x == Calls!Timer!Half(suffix)
<1>1. x \in Halves /\ (suffix \in {"l", "h"} => x = suffix)
  BY DEF Calls!Suffixes, Calls!Timer!Half, Halves
<1>2. whole' = whole /\ call'.name = "run"
  BY Called DEF Calls!Run
<1>3. PICK t \in States :
        /\ told' = [told EXCEPT ![x] = t]
        /\ sct' = [sct EXCEPT !.stop = IF t = "stop" THEN @ \cup {x} ELSE @ \ {x},
                              !.halt = IF t = "halt" THEN @ \cup {x} ELSE @ \ {x}]
  BY DEF Calls!Run, States, Calls!Timer!sct_start_counter, Calls!Timer!sct_stop_counter,
         Calls!Timer!sct_halt_counter
<1> HIDE DEF x
<1>4. /\ Registers(sct') /\ sct'.count = sct.count
      /\ sct'.stop = IF t = "stop" THEN sct.stop \cup {x} ELSE sct.stop \ {x}
      /\ sct'.halt = IF t = "halt" THEN sct.halt \cup {x} ELSE sct.halt \ {x}
      /\ sct'.down = sct.down /\ sct'.bidir = sct.bidir
      /\ \A f \in Paired : sct'[f] = sct[f]
  BY <1>3, ZenonT(40) DEF CallsInv, Registers, SctNames, Paired
<1>5. Told(sct', told')
  <2>1. Told(sct, told)
    BY DEF CallsInv
  <2>2. /\ DOMAIN told' = Halves /\ told' = [y \in Halves |-> told'[y]]
        /\ \A y \in Halves : told'[y] = IF y = x THEN t ELSE told[y]
    BY <1>1, <1>3, <2>1 DEF Told
  <2>3. QED
    BY <1>1, <1>4, <2>1, <2>2 DEF Told, States
<1>6. Counter(sct)'
  BY <1>2, <1>4 DEF CallsInv, Counter
<1>7. Calls!UpCountsUp'
  BY <1>2 DEF Calls!UpCountsUp
<1>8. Spares(suffix)
  BY <1>1, <1>4 DEF Spares, Same
<1>9. QED
  BY <1>4, <1>5, <1>6, <1>7, <1>8 DEF CallsInv

\* A function that reaches neither the counter nor what says whether it runs.
LEMMA Kept ==
  ASSUME CallsInv, Registers(sct'), sct'.stop = sct.stop, sct'.halt = sct.halt,
         sct'.count = sct.count, UNCHANGED <<told, whole>>, call'.name # "mode"
  PROVE  CallsInv'
<1>1. Told(sct', told') /\ Counter(sct)' /\ Calls!UpCountsUp'
  BY DEF CallsInv, Told, Counter, Calls!UpCountsUp
<1>2. QED
  BY <1>1 DEF CallsInv

\* A function that writes one register with two halves.
LEMMA PairWritten ==
  ASSUME Registers(sct), NEW f \in Paired, NEW suffix \in Calls!Suffixes,
         NEW v, DOMAIN v = Halves, v = [x \in Halves |-> v[x]],
         sct' = [sct EXCEPT ![f] = Calls!Timer!Write(sct[f], suffix, v)]
  PROVE  /\ Registers(sct') /\ Spares(suffix)
         /\ sct'.stop = sct.stop /\ sct'.halt = sct.halt
         /\ f # "count" => sct'.count = sct.count
         /\ sct'[f] = Calls!Timer!Write(sct[f], suffix, v)
<1> DEFINE w == Calls!Timer!Write(sct[f], suffix, v)
<1>1. /\ DOMAIN w = Halves /\ w = [x \in Halves |-> w[x]]
      /\ \A x \in Halves : w[x] = IF suffix \in {"", x} THEN v[x] ELSE sct[f][x]
  BY DEF Registers, Calls!Timer!Write, Calls!Suffixes, Halves
<1> HIDE DEF w
<1>2. /\ DOMAIN sct' = SctNames /\ sct' = [g \in SctNames |-> sct'[g]]
      /\ sct'[f] = w /\ \A g \in SctNames : g # f => sct'[g] = sct[g]
  BY DEF Registers, SctNames, Paired, w
<1>3. /\ sct'.stop = sct.stop /\ sct'.halt = sct.halt /\ sct'.down = sct.down
      /\ sct'.bidir = sct.bidir /\ sct'.unify = sct.unify
      /\ \A g \in Paired : g # f => sct'[g] = sct[g]
  BY <1>2 DEF SctNames, Paired
<1>4. Registers(sct')
  <2>1. ASSUME NEW g \in Paired
        PROVE  DOMAIN sct'[g] = Halves /\ sct'[g] = [x \in Halves |-> sct'[g][x]]
    <3>1. CASE g = f
      <4>1. sct'[g] = w
        BY <1>2, <3>1
      <4>2. QED
        BY <1>1, <4>1
    <3>2. CASE g # f
      <4>1. sct'[g] = sct[g]
        BY <1>3, <3>2
      <4>2. QED
        BY <4>1 DEF Registers
    <3>3. QED
      BY <3>1, <3>2
  <2>2. ~sct'.unify
    BY <1>3 DEF Registers
  <2>3. QED
    BY <1>2, <2>1, <2>2 DEF Registers
<1>5. Spares(suffix)
  BY <1>1, <1>2, <1>3 DEF Spares, Same, Halves
<1>6. f # "count" => sct'.count = sct.count
  BY <1>3 DEF Paired
<1>7. QED
  BY <1>2, <1>3, <1>4, <1>5, <1>6 DEF w

LEMMA ModeStep ==
  ASSUME CallsInv, NEW suffix \in Calls!Suffixes, NEW mode \in Calls!Modes,
         Calls!Mode(suffix, mode)
  PROVE  CallsInv' /\ Spares(suffix)
<1> DEFINE x == Calls!Timer!Half(suffix)
<1>1. x \in Halves /\ (suffix \in {"l", "h"} => x = suffix)
  BY DEF Calls!Suffixes, Calls!Timer!Half, Halves
<1>2. /\ UNCHANGED <<told, whole>>
      /\ call'.name = "mode" /\ call'.suffix = suffix /\ call'.arg = mode
  BY Called DEF Calls!Mode
<1>3. sct' = [sct EXCEPT !.bidir = IF mode = "up" THEN @ \ {x} ELSE @ \cup {x},
                        !.down = IF mode = "bidir_down" THEN @ \cup {x} ELSE @ \ {x}]
  BY DEF Calls!Mode, Calls!Timer!sct_set_counter_mode
<1> HIDE DEF x
<1>4. /\ Registers(sct') /\ sct'.count = sct.count
      /\ sct'.stop = sct.stop /\ sct'.halt = sct.halt
      /\ sct'.bidir = IF mode = "up" THEN sct.bidir \ {x} ELSE sct.bidir \cup {x}
      /\ sct'.down = IF mode = "bidir_down" THEN sct.down \cup {x} ELSE sct.down \ {x}
      /\ \A f \in Paired : sct'[f] = sct[f]
  BY <1>3, ZenonT(40) DEF CallsInv, Registers, SctNames, Paired
<1>5. Told(sct', told') /\ Counter(sct)'
  BY <1>2, <1>4 DEF CallsInv, Told, Counter
<1>6. Calls!UpCountsUp'
  BY <1>2, <1>4 DEF Calls!UpCountsUp, x
<1>7. Spares(suffix)
  BY <1>1, <1>4 DEF Spares, Same
<1>8. QED
  BY <1>4, <1>5, <1>6, <1>7 DEF CallsInv

LEMMA MasksStep ==
  ASSUME CallsInv, NEW suffix \in Calls!Suffixes, NEW events \in Calls!Sets,
         Calls!Masks(suffix, events)
  PROVE  CallsInv' /\ Spares(suffix)
<1>1. Registers(sct)
  BY DEF CallsInv
<1>2. UNCHANGED <<told, whole>> /\ call'.name = "masks"
  BY Called DEF Calls!Masks
<1>3. DOMAIN events = Halves /\ events = [x \in Halves |-> events[x]]
  BY DEF Calls!Sets, Calls!Pairs, Calls!Timer!Pair, Calls!Timer!Halves, Halves
<1>4. PICK f \in Paired \ {"count"} :
        \E v : /\ DOMAIN v = Halves /\ v = [x \in Halves |-> v[x]]
               /\ sct' = [sct EXCEPT ![f] = Calls!Timer!Write(sct[f], suffix, v)]
  <2> DEFINE more == [x \in Halves |-> sct.regmode[x] \cup events[x]]
             less == [x \in Halves |-> sct.regmode[x] \ events[x]]
             state == Calls!Timer!Pair(1, 2)
  <2>1. /\ DOMAIN more = Halves /\ more = [x \in Halves |-> more[x]]
        /\ DOMAIN less = Halves /\ less = [x \in Halves |-> less[x]]
        /\ DOMAIN state = Halves /\ state = [x \in Halves |-> state[x]]
    BY DEF Calls!Timer!Pair, Calls!Timer!Halves, Halves
  <2>2. \/ \E f \in {"limit", "haltmask", "stopmask", "startmask"} :
             sct' = [sct EXCEPT ![f] = Calls!Timer!Write(sct[f], suffix, events)]
        \/ sct' = [sct EXCEPT !["regmode"] = Calls!Timer!Write(sct["regmode"], suffix, more)]
        \/ sct' = [sct EXCEPT !["regmode"] = Calls!Timer!Write(sct["regmode"], suffix, less)]
        \/ sct' = [sct EXCEPT !["state"] = Calls!Timer!Write(sct["state"], suffix, state)]
    BY DEF Calls!Masks, Calls!Timer!sct_set_limit, Calls!Timer!sct_set_halt,
           Calls!Timer!sct_set_stop, Calls!Timer!sct_set_start, Calls!Timer!sct_enable_capture,
           Calls!Timer!sct_disable_capture, Calls!Timer!sct_set_state, Calls!Timer!Halves, Halves
  <2> HIDE DEF more, less, state
  <2>3. QED
    BY <1>3, <2>1, <2>2 DEF Paired
<1>5. /\ Registers(sct') /\ Spares(suffix)
      /\ sct'.stop = sct.stop /\ sct'.halt = sct.halt /\ sct'.count = sct.count
  BY <1>1, <1>4, PairWritten
<1>6. QED
  BY <1>2, <1>5, Kept

LEMMA Parts ==
  ASSUME NEW v \in Nat
  PROVE  /\ v % W \in Nat /\ v % W < W /\ v \div W \in Nat
         /\ v = (v % W) + W * (v \div W)
BY CounterAssumption, SMT

LEMMA PartsOf ==
  ASSUME NEW l \in Nat, l < W, NEW h \in Nat
  PROVE  (l + W * h) % W = l /\ (l + W * h) \div W = h
<1>1. W \in Nat /\ 0 < W
  BY CounterAssumption
<1>2. W * h \in Nat
  BY <1>1, SMT
<1>3. l + W * h \in Nat
  BY <1>2
<1> DEFINE q == (l + W * h) \div W
           r == (l + W * h) % W
<1>4. r \in Nat /\ r < W /\ q \in Nat /\ l + W * h = r + W * q
  BY <1>3, Parts
<1> HIDE DEF q, r
<1>5. W * h - W * q = W * (h - q)
  BY <1>1, <1>4, SMT
<1>6. q = h
  <2>1. CASE h - q >= 1
    <3>1. W * (h - q) >= W
      BY <1>1, <1>4, <2>1, SMT
    <3>2. W * q \in Nat
      BY <1>1, <1>4, SMT
    <3>3. QED
      BY <1>1, <1>2, <1>4, <1>5, <3>1, <3>2
  <2>2. CASE q - h >= 1
    <3>1. W * (q - h) >= W /\ W * (h - q) = -(W * (q - h))
      BY <1>1, <1>4, <2>2, SMT
    <3>2. W * q \in Nat
      BY <1>1, <1>4, SMT
    <3>3. QED
      BY <1>1, <1>2, <1>4, <1>5, <3>1, <3>2
  <2>3. QED
    BY <1>4, <2>1, <2>2
<1>7. QED
  BY <1>2, <1>4, <1>6 DEF q, r

\* The two parts of the counter that it was left with.
LEMMA CounterParts ==
  ASSUME Counter(sct)
  PROVE  /\ whole \in Nat
         /\ whole % W = sct.count["l"] /\ whole \div W = sct.count["h"]
<1>1. /\ sct.count["l"] \in Nat /\ sct.count["l"] < W /\ sct.count["h"] \in Nat
      /\ whole = sct.count["l"] + W * sct.count["h"]
  BY DEF Counter
<1>2. W * sct.count["h"] \in Nat
  BY <1>1, CounterAssumption, SMT
<1>3. QED
  BY <1>1, <1>2, PartsOf

LEMMA CountStep ==
  ASSUME CallsInv, NEW suffix \in Calls!Suffixes, NEW v \in {1, W + 2},
         Calls!Count(suffix, v)
  PROVE  CallsInv' /\ Spares(suffix)
<1>1. Registers(sct) /\ Counter(sct)
  BY DEF CallsInv
<1>2. told' = told /\ call'.name = "count"
  BY Called DEF Calls!Count
<1>3. v \in Nat
  BY CounterAssumption
<1> DEFINE new == IF suffix = "" THEN Calls!Timer!Split(v) ELSE Calls!Timer!Pair(v % W, v % W)
<1>4. /\ DOMAIN new = Halves /\ new = [x \in Halves |-> new[x]]
      /\ new["l"] = v % W
      /\ new["h"] = IF suffix = "" THEN v \div W ELSE v % W
  BY DEF Calls!Timer!Split, Calls!Timer!Pair, Calls!Timer!Halves, Halves
<1> HIDE DEF new
<1>5. PICK f, w :
        /\ f \in Paired /\ f = "count" /\ w = new
        /\ DOMAIN w = Halves /\ w = [x \in Halves |-> w[x]]
        /\ sct' = [sct EXCEPT ![f] = Calls!Timer!Write(sct[f], suffix, w)]
  <2>1. sct' = [sct EXCEPT !["count"] = Calls!Timer!Write(sct["count"], suffix, new)]
    BY DEF Calls!Count, Calls!Timer!sct_set_counter, new
  <2>2. QED
    BY <1>4, <2>1 DEF Paired
<1>6. /\ Registers(sct') /\ Spares(suffix)
      /\ sct'.stop = sct.stop /\ sct'.halt = sct.halt
      /\ sct'.count = Calls!Timer!Write(sct.count, suffix, new)
  <2>1. /\ Registers(sct') /\ Spares(suffix)
        /\ sct'.stop = sct.stop /\ sct'.halt = sct.halt
        /\ sct'[f] = Calls!Timer!Write(sct[f], suffix, w)
    <3>1. /\ f \in Paired /\ DOMAIN w = Halves /\ w = [x \in Halves |-> w[x]]
          /\ sct' = [sct EXCEPT ![f] = Calls!Timer!Write(sct[f], suffix, w)]
      BY <1>5
    <3>2. QED
      BY <1>1, <3>1, PairWritten
  <2>2. QED
    BY <1>5, <2>1
<1>7. \A x \in Halves : sct'.count[x] = IF suffix \in {"", x} THEN new[x] ELSE sct.count[x]
  <2>1. DOMAIN sct.count = Halves
    BY <1>1 DEF Registers, Paired
  <2>2. QED
    BY <1>4, <1>6, <2>1 DEF Calls!Timer!Write, Calls!Suffixes, Halves
<1>8. /\ sct'.count["l"] = IF suffix = "h" THEN sct.count["l"] ELSE v % W
      /\ sct'.count["h"] = CASE suffix = "" -> v \div W
                             [] suffix = "l" -> sct.count["h"]
                             [] suffix = "h" -> v % W
  BY <1>4, <1>7 DEF Calls!Suffixes, Halves
<1>9. whole' = CASE suffix = ""  -> v
                 [] suffix = "l" -> W * sct.count["h"] + (v % W)
                 [] suffix = "h" -> W * (v % W) + sct.count["l"]
  BY <1>1, CounterParts DEF Calls!Count, Calls!Suffixes
<1>10. Counter(sct)'
  <2>1. /\ v % W \in Nat /\ v % W < W /\ v \div W \in Nat
        /\ v = (v % W) + W * (v \div W)
    BY <1>3, Parts
  <2>2. /\ sct.count["l"] \in Nat /\ sct.count["l"] < W /\ sct.count["h"] \in Nat
    BY <1>1 DEF Counter
  <2>3. W * sct.count["h"] \in Nat /\ W * (v % W) \in Nat
    BY <2>1, <2>2, CounterAssumption, SMT
  <2>4. CASE suffix = ""
    BY <1>8, <1>9, <2>1, <2>4 DEF Counter
  <2>5. CASE suffix = "l"
    <3>1. whole' = (v % W) + W * sct.count["h"]
      BY <1>9, <2>1, <2>3, <2>5
    <3>2. QED
      BY <1>8, <2>1, <2>2, <2>5, <3>1 DEF Counter
  <2>6. CASE suffix = "h"
    <3>1. whole' = sct.count["l"] + W * (v % W)
      BY <1>9, <2>2, <2>3, <2>6
    <3>2. QED
      BY <1>8, <2>1, <2>2, <2>6, <3>1 DEF Counter
  <2>7. QED
    BY <2>4, <2>5, <2>6 DEF Calls!Suffixes
<1>11. Told(sct', told') /\ Calls!UpCountsUp'
  BY <1>2, <1>6 DEF CallsInv, Told, Calls!UpCountsUp
<1>12. QED
  BY <1>6, <1>10, <1>11 DEF CallsInv

LEMMA ClearStep ==
  ASSUME CallsInv, NEW suffix \in Calls!Suffixes, Calls!Clear(suffix)
  PROVE  CallsInv' /\ Spares(suffix)
<1> DEFINE x == Calls!Timer!Half(suffix)
<1>1. x \in Halves /\ (suffix \in {"l", "h"} => x = suffix) /\ (suffix = "" => x = "l")
  BY DEF Calls!Suffixes, Calls!Timer!Half, Halves
<1>2. told' = told /\ call'.name = "clear"
  BY Called DEF Calls!Clear
<1>3. Registers(sct) /\ Counter(sct)
  BY DEF CallsInv
<1>4. sct' = [sct EXCEPT !.count = [@ EXCEPT ![x] = 0], !.phase[x] = 0]
  <2>1. x # ""
    BY <1>1 DEF Halves
  <2>2. Calls!Timer!Write(sct.count, x, Calls!Timer!Pair(0, 0)) = [sct.count EXCEPT ![x] = 0]
    BY <1>1, <2>1 DEF Calls!Timer!Write, Calls!Timer!Pair, Calls!Timer!Halves, Halves
  <2>3. sct' = [sct EXCEPT !.count = Calls!Timer!Write(@, x, Calls!Timer!Pair(0, 0)),
                          !.phase[x] = 0]
    BY <1>3 DEF Calls!Clear, Calls!Timer!sct_clear_counter, Registers
  <2>4. QED
    BY <2>2, <2>3
<1> HIDE DEF x
<1>5. /\ DOMAIN sct' = SctNames /\ sct' = [f \in SctNames |-> sct'[f]] /\ ~sct'.unify
      /\ sct'.count = [sct.count EXCEPT ![x] = 0]
      /\ sct'.stop = sct.stop /\ sct'.halt = sct.halt
      /\ sct'.down = sct.down /\ sct'.bidir = sct.bidir
      /\ \A f \in Paired \ {"count"} : sct'[f] = sct[f]
  BY <1>3, <1>4 DEF Registers, SctNames, Paired
<1>6. /\ DOMAIN sct'.count = Halves /\ sct'.count = [y \in Halves |-> sct'.count[y]]
      /\ \A y \in Halves : sct'.count[y] = IF y = x THEN 0 ELSE sct.count[y]
  BY <1>1, <1>3, <1>5 DEF Registers, Paired
<1>7. Registers(sct')
  <2>1. ASSUME NEW f \in Paired
        PROVE  DOMAIN sct'[f] = Halves /\ sct'[f] = [y \in Halves |-> sct'[f][y]]
    BY <1>3, <1>5, <1>6 DEF Registers
  <2>2. QED
    BY <1>5, <2>1 DEF Registers
<1>8. Spares(suffix)
  BY <1>1, <1>5, <1>6 DEF Spares, Same, Halves
<1>9. Counter(sct)'
  <2>1. /\ sct.count["l"] \in Nat /\ sct.count["l"] < W /\ sct.count["h"] \in Nat
    BY <1>3 DEF Counter
  <2>2. W * sct.count["h"] \in Nat /\ W * 0 = 0 /\ 0 < W
    BY <2>1, CounterAssumption, SMT
  <2>3. whole' = IF suffix = "h" THEN sct.count["l"] ELSE W * sct.count["h"]
    BY <1>3, CounterParts DEF Calls!Clear
  <2>4. CASE suffix = "h"
    <3>1. sct'.count["l"] = sct.count["l"] /\ sct'.count["h"] = 0
      BY <1>1, <1>6, <2>4 DEF Halves
    <3>2. QED
      BY <2>1, <2>2, <2>3, <2>4, <3>1 DEF Counter
  <2>5. CASE suffix # "h"
    <3>1. sct'.count["l"] = 0 /\ sct'.count["h"] = sct.count["h"]
      BY <1>1, <1>6, <2>5 DEF Halves, Calls!Suffixes
    <3>2. whole' = 0 + W * sct.count["h"]
      BY <2>2, <2>3, <2>5
    <3>3. QED
      BY <2>1, <2>2, <3>1, <3>2 DEF Counter
  <2>6. QED
    BY <2>4, <2>5
<1>10. Told(sct', told') /\ Calls!UpCountsUp'
  BY <1>2, <1>5 DEF CallsInv, Told, Calls!UpCountsUp
<1>11. QED
  BY <1>7, <1>8, <1>9, <1>10 DEF CallsInv

\* A function that reaches neither half's registers.
LEMMA OutputsStep ==
  ASSUME CallsInv, NEW outputs, NEW res, NEW events,
         \/ Calls!Outputs(outputs) \/ Calls!Conflict(res, outputs)
         \/ Calls!Interrupts(events, outputs)
  PROVE  CallsInv' /\ call'.suffix = ""
<1>1. /\ UNCHANGED <<told, whole>>
      /\ call'.name \in {"outputs", "conflict", "interrupts"} /\ call'.suffix = ""
  BY Called DEF Calls!Outputs, Calls!Conflict, Calls!Interrupts
<1>2. Registers(sct)
  BY DEF CallsInv
<1>3. \/ \E v : sct' = [sct EXCEPT !.dirctrl = v]
      \/ \E v, w : sct' = [sct EXCEPT !.even = v, !.conen = w]
  BY DEF Calls!Outputs, Calls!Conflict, Calls!Interrupts,
         Calls!Timer!sct_enable_output_counter_control,
         Calls!Timer!sct_enable_output_counter_h_control,
         Calls!Timer!sct_disable_output_counter_control,
         Calls!Timer!sct_set_conflict_resolution,
         Calls!Timer!sct_enable_interrupt, Calls!Timer!sct_disable_interrupt
<1>4. /\ Registers(sct')
      /\ sct'.stop = sct.stop /\ sct'.halt = sct.halt /\ sct'.count = sct.count
  <2>1. /\ DOMAIN sct' = SctNames /\ sct' = [f \in SctNames |-> sct'[f]]
        /\ \A f \in SctNames : f \notin {"dirctrl", "even", "conen"} => sct'[f] = sct[f]
    BY <1>2, <1>3 DEF Registers, SctNames
  <2>2. /\ sct'.stop = sct.stop /\ sct'.halt = sct.halt /\ sct'.count = sct.count
        /\ sct'.unify = sct.unify /\ \A f \in Paired : sct'[f] = sct[f]
    BY <2>1 DEF SctNames, Paired
  <2>3. QED
    BY <1>2, <2>1, <2>2 DEF Registers
<1>5. QED
  BY <1>1, <1>4, Kept

LEMMA EventStep ==
  ASSUME CallsInv, NEW x \in Halves, NEW ev, NEW r, Calls!Event(ev, x, r)
  PROVE  CallsInv' /\ Spares(x)
<1>1. UNCHANGED <<told, whole>> /\ call'.name = "event"
  BY Called DEF Calls!Event
<1>2. Registers(sct)
  BY DEF CallsInv
<1> DEFINE action == {<<"capture", r, x>>, <<"stop", x>>}
           New(f, name) == Calls!Timer!Adding(sct[f], ev, action, name)
<1>3. PICK even, set, clr, match, e :
        sct' = [sct EXCEPT !.limit = New("limit", "limit"),
                           !.haltmask = New("haltmask", "halt"),
                           !.stopmask = New("stopmask", "stop"),
                           !.startmask = New("startmask", "start"),
                           !.even = even, !.set = set, !.clr = clr, !.match = match,
                           !.ev[ev] = e]
  BY DEF Calls!Event, Calls!Timer!sct_setup_event
<1>4. ASSUME NEW f \in {"limit", "haltmask", "stopmask", "startmask"}, NEW name
      PROVE  /\ DOMAIN New(f, name) = Halves /\ New(f, name) = [y \in Halves |-> New(f, name)[y]]
             /\ \A y \in Halves : y # x => New(f, name)[y] = sct[f][y]
  <2>1. ASSUME NEW y \in Halves, y # x
        PROVE  <<name, y>> \notin action
    <3>1. <<name, y>> # <<"capture", r, x>>
      OBVIOUS
    <3>2. <<name, y>> # <<"stop", x>>
      BY <2>1
    <3>3. QED
      BY <3>1, <3>2
  <2> HIDE DEF action
  <2>2. QED
    BY <2>1 DEF Calls!Timer!Adding, Calls!Timer!Halves, Halves
<1> HIDE DEF New, action
<1>5. /\ DOMAIN sct' = SctNames /\ sct' = [f \in SctNames |-> sct'[f]]
      /\ sct'.limit = New("limit", "limit") /\ sct'.haltmask = New("haltmask", "halt")
      /\ sct'.stopmask = New("stopmask", "stop") /\ sct'.startmask = New("startmask", "start")
      /\ sct'.unify = sct.unify /\ sct'.stop = sct.stop /\ sct'.halt = sct.halt
      /\ sct'.down = sct.down /\ sct'.bidir = sct.bidir /\ sct'.count = sct.count
      /\ sct'.state = sct.state /\ sct'.regmode = sct.regmode /\ sct'.reload = sct.reload
  BY <1>2, <1>3, ZenonT(40) DEF Registers, SctNames
<1>6. ASSUME NEW f \in Paired
      PROVE  /\ DOMAIN sct'[f] = Halves /\ sct'[f] = [y \in Halves |-> sct'[f][y]]
             /\ \A y \in Halves : y # x => sct'[f][y] = sct[f][y]
  <2>1. CASE f \in {"limit", "haltmask", "stopmask", "startmask"}
    BY <1>4, <1>5, <2>1
  <2>2. CASE f \in {"count", "state", "regmode", "reload"}
    BY <1>2, <1>5, <2>2 DEF Registers
  <2>3. QED
    BY <2>1, <2>2 DEF Paired
<1>7. Registers(sct')
  BY <1>2, <1>5, <1>6 DEF Registers
<1>8. Spares(x)
  BY <1>5, <1>6 DEF Spares, Same, Halves
<1>9. QED
  BY <1>1, <1>5, <1>7, <1>8, Kept

LEMMA CaptureStep ==
  ASSUME CallsInv, NEW x \in Halves, NEW r, NEW events, Calls!Capture(x, r, events)
  PROVE  CallsInv' /\ Spares(x)
<1>1. UNCHANGED <<told, whole>> /\ call'.name = "capture"
  BY Called DEF Calls!Capture
<1>2. Registers(sct)
  BY DEF CallsInv
<1>3. PICK v : sct' = [sct EXCEPT !.reload[x][r] = v]
  BY DEF Calls!Capture, Calls!Timer!sct_set_capture
<1>4. /\ DOMAIN sct' = SctNames /\ sct' = [f \in SctNames |-> sct'[f]]
      /\ sct'.reload = [sct.reload EXCEPT ![x] = [@ EXCEPT ![r] = v]]
      /\ \A f \in SctNames : f # "reload" => sct'[f] = sct[f]
  BY <1>2, <1>3 DEF Registers, SctNames
<1>5. /\ sct'.unify = sct.unify /\ sct'.stop = sct.stop /\ sct'.halt = sct.halt
      /\ sct'.down = sct.down /\ sct'.bidir = sct.bidir /\ sct'.count = sct.count
      /\ \A f \in Paired : f # "reload" => sct'[f] = sct[f]
  BY <1>4 DEF SctNames, Paired
<1>6. /\ DOMAIN sct'.reload = Halves /\ sct'.reload = [y \in Halves |-> sct'.reload[y]]
      /\ \A y \in Halves : y # x => sct'.reload[y] = sct.reload[y]
  BY <1>2, <1>4 DEF Registers, Paired
<1>7. ASSUME NEW f \in Paired
      PROVE  /\ DOMAIN sct'[f] = Halves /\ sct'[f] = [y \in Halves |-> sct'[f][y]]
             /\ \A y \in Halves : y # x => sct'[f][y] = sct[f][y]
  <2>1. CASE f = "reload"
    BY <1>6, <2>1
  <2>2. CASE f # "reload"
    BY <1>2, <1>5, <2>2 DEF Registers
  <2>3. QED
    BY <2>1, <2>2
<1>8. Registers(sct')
  BY <1>2, <1>4, <1>5, <1>7 DEF Registers
<1>9. Spares(x)
  BY <1>5, <1>7 DEF Spares, Same, Halves
<1>10. QED
  BY <1>1, <1>5, <1>8, <1>9, Kept

LEMMA CallsInductive ==
  ASSUME CallsInv, Calls!Next
  PROVE  CallsInv' /\ Calls!HalvesApart
<1>1. ASSUME NEW x \in Calls!Suffixes, Calls!Run(x) \/ Calls!Clear(x)
      PROVE  CallsInv' /\ Spares(call'.suffix)
  BY <1>1, RunStep, ClearStep, Called DEF Calls!Run, Calls!Clear
<1>2. ASSUME NEW x \in Calls!Suffixes, NEW m \in Calls!Modes, Calls!Mode(x, m)
      PROVE  CallsInv' /\ Spares(call'.suffix)
  BY <1>2, ModeStep, Called DEF Calls!Mode
<1>3. ASSUME NEW x \in Calls!Suffixes, NEW v \in {1, W + 2}, Calls!Count(x, v)
      PROVE  CallsInv' /\ Spares(call'.suffix)
  BY <1>3, CountStep, Called DEF Calls!Count
<1>4. ASSUME NEW x \in Calls!Suffixes, NEW p \in Calls!Sets, Calls!Masks(x, p)
      PROVE  CallsInv' /\ Spares(call'.suffix)
  BY <1>4, MasksStep, Called DEF Calls!Masks
<1>5. ASSUME NEW o, NEW r, NEW e,
             Calls!Outputs(o) \/ Calls!Conflict(r, o) \/ Calls!Interrupts(e, o)
      PROVE  CallsInv' /\ Spares(call'.suffix)
  BY <1>5, OutputsStep DEF Spares
<1>6. ASSUME NEW x \in Halves, NEW r, Calls!Event(1, x, r)
      PROVE  CallsInv' /\ Spares(call'.suffix)
  BY <1>6, EventStep, Called DEF Calls!Event
<1>7. ASSUME NEW x \in Halves, NEW r, NEW e, Calls!Capture(x, r, e)
      PROVE  CallsInv' /\ Spares(call'.suffix)
  BY <1>7, CaptureStep, Called DEF Calls!Capture
<1>8. CallsInv' /\ Spares(call'.suffix)
  BY <1>1, <1>2, <1>3, <1>4, <1>5, <1>6, <1>7
     DEF Calls!Next, Calls!Timer!Halves, Halves
<1>9. QED
  BY <1>8, SparesApart

-----------------------------------------------------------------------------
(* The theorems about the programs of MCLibrary.                           *)

\* What is true of each of the programs.
Safe ==
  /\ program = "pll" => PllInv /\ DivisorInv
  /\ program = "pins" => MatrixInv
  /\ program = "timer" => CallsInv

LEMMA SafeInitially == LibraryInit => Safe
<1> SUFFICES ASSUME LibraryInit
             PROVE  Safe
  OBVIOUS
<1>1. ASSUME Pll!Init
      PROVE  PllInv /\ DivisorInv
  <2>1. PllInv
    BY <1>1, RunningHolds
       DEF Pll!Init, PllInv, Running, Pll!Osc, Pll!PllSources, Pll!MainSources, Enabling
  <2>2. DivisorInv
    BY <1>1 DEF Pll!Init, DivisorInv
  <2>3. QED
    BY <2>1, <2>2
<1>2. ASSUME Matrix!Init
      PROVE  MatrixInv
  BY <1>2, InitMatrixInv, PinAssumption
<1>3. QED
  BY <1>1, <1>2, CallsInitially DEF LibraryInit, Safe

LEMMA SafeStep == Safe /\ [LibraryNext]_library => Safe'
<1> SUFFICES ASSUME Safe, [LibraryNext]_library
             PROVE  Safe'
  OBVIOUS
<1>1. program' = program
  BY DEF LibraryNext, library
<1>2. program = "pll" => PllInv' /\ DivisorInv'
  <2>1. program = "pll" => Pll!Next \/ UNCHANGED <<pll, call>>
    BY DEF LibraryNext, library
  <2>2. ASSUME UNCHANGED <<pll, call>>, PllInv
        PROVE  PllInv'
    BY <2>2, Zenon DEF pll, PllInv, Pll!Runs, Pll!ClockRuns
  <2>3. ASSUME UNCHANGED <<pll, call>>, DivisorInv
        PROVE  DivisorInv'
    BY <2>3, Zenon DEF pll, DivisorInv
  <2>4. QED
    BY <2>1, <2>2, <2>3, PllInductive, DivisorInductive DEF Safe
<1>3. program = "pins" => MatrixInv'
  <2>1. program = "pins" => Matrix!Next \/ UNCHANGED matrix
    BY DEF LibraryNext, library
  <2>2. ASSUME UNCHANGED matrix, MatrixInv
        PROVE  MatrixInv'
    BY <2>2
       DEF matrix, MatrixInv, Matrix!TypeOK, Matrix!NoConflict, Matrix!AsConfigured,
           Matrix!MovableOn, Matrix!FixedOn
  <2>3. QED
    BY <2>1, <2>2, MatrixInductive, PinAssumption DEF Safe
<1>4. program = "timer" => CallsInv'
  <2>1. program = "timer" => Calls!Next \/ UNCHANGED <<calls, call>>
    BY DEF LibraryNext, library
  <2>2. ASSUME UNCHANGED <<calls, call>>, CallsInv
        PROVE  CallsInv'
    <3>1. UNCHANGED <<sct, call, told, whole>>
      BY <2>2 DEF calls
    <3>2. QED
      BY <2>2, <3>1 DEF CallsInv, Registers, Told, Counter, Calls!UpCountsUp
  <2>3. QED
    BY <2>1, <2>2, CallsInductive DEF Safe
<1>5. QED
  BY <1>1, <1>2, <1>3, <1>4 DEF Safe

LEMMA SafeAlways == LibrarySpec => []Safe
BY SafeInitially, SafeStep, PTL DEF LibrarySpec

\* The part always has a clock, which no divisor stops, and what its registers
\* select is in effect between two calls, in every program that uses what it has powered: however
\* often it changes the main clock and the PLL and switches units on and off
\* (syscon.c:79-119, 166-196).
THEOREM AlwaysClocked == LibrarySpec => []HasClock
<1>1. Safe => HasClock
  BY DEF Safe, PllInv, DivisorInv, HasClock, Pll!HasClock, Pll!InEffect
<1>2. QED
  BY <1>1, SafeAlways, PTL

\* The steps of MCLibrary are steps of UsartClock: what is proved above of the
\* clock of the USARTs holds in it.
LEMMA UsartClockInIt == LibrarySpec => Spec
<1>1. LibraryInit => Init
  BY DEF LibraryInit
<1>2. [LibraryNext]_library => [Next]_vars
  BY DEF LibraryNext, library
<1>3. QED
  BY <1>1, <1>2, PTL DEF LibrarySpec, Spec

\* Clocks and rates in the program that sets them are as close to what was
\* asked for as in UsartClock (syscon.c:267-287, usart.c:50-62).
THEOREM UsartsToo == LibrarySpec => [](ClockIsClose /\ NeverSlow)
BY UsartClockInIt, ClockCloseTheorem, NeverSlowTheorem, PTL

\* The registers hold nothing but pins of the package and functions in use,
\* after any calls of gpio_config and gpio_reconfig (gpio.c:182-251).
THEOREM PinTypesHold == LibrarySpec => [](program = "pins" => Matrix!TypeOK)
<1>1. Safe => (program = "pins" => Matrix!TypeOK)
  BY DEF Safe, MatrixInv
<1>2. QED
  BY <1>1, SafeAlways, PTL

\* No two functions fight over a pin, in any package (gpio.c:182-251).
THEOREM PinsAreExclusive == LibrarySpec => []NoConflict
<1>1. Safe => NoConflict
  BY DEF Safe, MatrixInv, NoConflict
<1>2. QED
  BY <1>1, SafeAlways, PTL

\* Every pin does what it was last configured for (gpio.c:182-251).
THEOREM PinsAreAsConfigured == LibrarySpec => []AsConfigured
<1>1. Safe => AsConfigured
  BY DEF Safe, MatrixInv, AsConfigured
<1>2. QED
  BY <1>1, SafeAlways, PTL

\* After a call the counter is as all calls so far say, for every width of its
\* halves and any number of calls (sct.c:69-202, 264-292).
THEOREM CallsAlwaysTakeEffect == LibrarySpec => []CallsTakeEffect
<1>1. CallsInv => Calls!AsTold /\ Calls!UpCountsUp /\ Calls!CounterIsWhole
  <2> SUFFICES ASSUME CallsInv
               PROVE  Calls!AsTold /\ Calls!UpCountsUp /\ Calls!CounterIsWhole
    OBVIOUS
  <2>1. Calls!AsTold
    BY DEF CallsInv, Told, States, Calls!AsTold, Calls!Timer!Halves, Halves
  <2>2. Calls!CounterIsWhole
    BY DEF CallsInv, Counter, Calls!CounterIsWhole, Calls!Timer!sct_get_counter,
           Calls!Timer!Whole
  <2>3. QED
    BY <2>1, <2>2 DEF CallsInv
<1>2. Safe => CallsTakeEffect
  BY <1>1 DEF Safe, CallsTakeEffect
<1>3. QED
  BY <1>2, SafeAlways, PTL

\* A function for one half of the timer leaves the other one alone, whatever
\* was called before (sct.c:27-327).
THEOREM HalvesAreApart == LibrarySpec => HalvesApart
<1>1. Safe /\ [LibraryNext]_library => [program = "timer" => Calls!HalvesApart]_library
  BY CallsInductive DEF Safe, LibraryNext
<1>2. QED
  BY <1>1, SafeAlways, PTL DEF LibrarySpec, HalvesApart
=============================================================================
