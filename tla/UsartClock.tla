------------------------------ MODULE UsartClock ------------------------------
(***************************************************************************)
(* The clock of the USARTs: syscon_set_usart_clock() in syscon.c divides   *)
(* the main clock by an integer and by a fraction, and                     *)
(* usart_set_baudrate() in usart.c divides the result again, both in       *)
(* integers.  Definitions under "Mistake" are not part of the model.       *)
(***************************************************************************)
EXTENDS Integers

CONSTANTS FRACTION,   \* the fraction has steps of 1 / FRACTION: 256
          MaxDiv,     \* the greatest UARTCLKDIV: 255
          OVERSAMPLE, \* clocks per bit: 16
          BrgSize,    \* USART_BRG_MASK + 1: 65536
          IntMax,     \* the greatest int
          MainClocks, Rates, Bauds \* what the functions are called with

ASSUME UsartClockAssumption ==
  /\ FRACTION \in Nat \ {0} /\ MaxDiv \in Nat \ {0} /\ OVERSAMPLE \in Nat \ {0}
  /\ BrgSize \in Nat \ {0} /\ IntMax \in Nat
  /\ MainClocks \subseteq Nat \ {0} /\ Rates \subseteq Nat \ {0} /\ Bauds \subseteq Nat \ {0}
  \* A remainder, which is less than the rate, can be multiplied.
  /\ \A u \in Rates : FRACTION * (u - 1) <= IntMax

VARIABLES UARTCLKDIV, UARTFRGDIV, UARTFRGMULT, \* the clock of all USARTs
          BRG,      \* of one of them
          main_clock, u_pclk, \* what the clock was set up for, 0 for never
          baud, baud_pclk     \* what the rate was, and for which clock

clock == <<UARTCLKDIV, UARTFRGDIV, UARTFRGMULT, main_clock, u_pclk>>
rate == <<BRG, baud, baud_pclk>>
vars == <<clock, rate>>

Init ==
  /\ UARTCLKDIV = 0 /\ UARTFRGDIV = 0 /\ UARTFRGMULT = 0 /\ BRG = 0
  /\ main_clock = 0 /\ u_pclk = 0 /\ baud = 0 /\ baud_pclk = 0

mult(main, u) ==
  LET t == u * (main \div u) IN (FRACTION * (main - t)) \div t

\* A divider of 0 or of more than its 8 bits is refused.
Accepts(main, u) == main \div u \in 1..MaxDiv

\* Mistake: a fraction of 0 leaves the one before.
SetClockKeeping(main, u) ==
  /\ Accepts(main, u)
  /\ UARTCLKDIV' = main \div u
  /\ IF mult(main, u) # 0
     THEN UARTFRGDIV' = FRACTION - 1 /\ UARTFRGMULT' = mult(main, u)
     ELSE UNCHANGED <<UARTFRGDIV, UARTFRGMULT>>
  /\ main_clock' = main /\ u_pclk' = u
  /\ UNCHANGED rate

syscon_set_usart_clock(main, u) ==
  /\ Accepts(main, u)
  /\ UARTCLKDIV' = main \div u
  /\ UARTFRGDIV' = IF mult(main, u) # 0 THEN FRACTION - 1 ELSE 0
  /\ UARTFRGMULT' = mult(main, u)
  /\ main_clock' = main /\ u_pclk' = u
  /\ UNCHANGED rate

\* Mistake: the divider is one less than what is written.
SetBaudOff(u, b) ==
  /\ BRG' = (u \div (OVERSAMPLE * b)) % BrgSize
  /\ baud' = b /\ baud_pclk' = u
  /\ UNCHANGED clock

\* The register holds one less than the divider.
usart_set_baudrate(u, b) ==
  /\ BRG' = ((u \div (OVERSAMPLE * b)) - 1) % BrgSize
  /\ baud' = b /\ baud_pclk' = u
  /\ UNCHANGED clock

Next ==
  \/ \E main \in MainClocks, u \in Rates : syscon_set_usart_clock(main, u)
  \/ \E u \in Rates, b \in Bauds : usart_set_baudrate(u, b)

Spec == Init /\ [][Next]_vars

-----------------------------------------------------------------------------
(* The clock that comes out is                                             *)
(*   main_clock / UARTCLKDIV / (1 + UARTFRGMULT / (UARTFRGDIV + 1)),       *)
(* and the rate that divided by OVERSAMPLE * (BRG + 1).  Comparisons are   *)
(* multiplied by the denominators.                                         *)

Slowed == UARTFRGDIV + 1 + UARTFRGMULT

\* Types: every value fits its register (syscon.c:222-233, usart.c:39).
FieldsFit ==
  /\ UARTCLKDIV \in 0..MaxDiv
  /\ UARTFRGDIV \in {0, FRACTION - 1} /\ UARTFRGMULT \in 0..(FRACTION - 1)
  /\ BRG \in 0..(BrgSize - 1)

\* The clock is never slower than asked for, and less than one step of the
\* fraction faster, whatever was set up before (syscon.c:208-234).
ClockIsClose ==
  u_pclk # 0 =>
    /\ u_pclk * UARTCLKDIV * Slowed <= main_clock * (UARTFRGDIV + 1)
    /\ main_clock * FRACTION < u_pclk * UARTCLKDIV * (FRACTION + UARTFRGMULT + 1)

\* No product overflows while the rates are at most IntMax / FRACTION + 1: 8
\* MHz (syscon.c:224).
FitsInt ==
  u_pclk # 0 => FRACTION * (main_clock - u_pclk * UARTCLKDIV) \in 0..IntMax

\* Whether the divider that a rate needs is one that the register can hold.
InRange == u_pclk \div (OVERSAMPLE * baud) \in 1..BrgSize

\* A USART whose rate was set for the clock it gets is never slower than its
\* baud rate (syscon.c:208-234, usart.c:37-41).
NeverSlow ==
  (baud # 0 /\ u_pclk = baud_pclk /\ InRange) =>
    baud * OVERSAMPLE * (BRG + 1) * UARTCLKDIV * Slowed <= main_clock * (UARTFRGDIV + 1)
=============================================================================
