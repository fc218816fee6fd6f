------------------------------ MODULE MCLibrary ------------------------------
(***************************************************************************)
(* Small instances of programs that call the library in any order: the     *)
(* clock of the USARTs (UsartClock, which this module extends) with        *)
(* registers that are a few bits wide; the oscillators and the PLL; the    *)
(* pins; and the timer.  The initial state chooses one, and a variable of  *)
(* the others is Off.                                                      *)
(***************************************************************************)
EXTENDS UsartClock

CONSTANTS Ms, Ps, Divs,      \* what the program may ask of the PLL and the system clock
          Pin, Movable, Iocon, ResetIocon, NoPin, \* SwitchMatrix
          W, MaxCalls        \* SctCalls

VARIABLES program,
          PDRUNCFG, SYSPLLCLKSEL, SYSPLLCLKUEN, SYSPLLCTRL, \* SysconClock
          MAINCLKSEL, MAINCLKUEN, SYSAHBCLKDIV,
          pll_in, main, locked, enabled, pc,
          call,                               \* SysconClock and SctCalls
          assign, fixed, dir, iocon, wanted,  \* SwitchMatrix
          sct, made, told, whole              \* SctCalls

Pll == INSTANCE SysconClock
Matrix == INSTANCE SwitchMatrix
Calls == INSTANCE SctCalls WITH n <- made

ASSUME PinAssumption == Matrix!Package
ASSUME DivisorAssumption == Divs \subseteq Int
ASSUME CounterAssumption == W \in Nat \ {0}

\* Divisors below, in and beyond the range.
SomeDivs == {-1, 2, 256}

\* What the programs have beside the last call.
pll    == <<PDRUNCFG, SYSPLLCLKSEL, SYSPLLCLKUEN, SYSPLLCTRL, MAINCLKSEL, MAINCLKUEN,
            SYSAHBCLKDIV, pll_in, main, locked, enabled, pc>>
matrix == <<assign, fixed, dir, iocon, wanted>>
calls  == <<sct, made, told, whole>>

library == <<program, vars, pll, call, matrix, calls>>

Off == "off"

PllOff ==
  /\ PDRUNCFG = Off /\ SYSPLLCLKSEL = Off /\ SYSPLLCLKUEN = Off /\ SYSPLLCTRL = Off
  /\ MAINCLKSEL = Off /\ MAINCLKUEN = Off /\ SYSAHBCLKDIV = Off
  /\ pll_in = Off /\ main = Off /\ locked = Off /\ enabled = Off /\ pc = Off

MatrixOff == assign = Off /\ fixed = Off /\ dir = Off /\ iocon = Off /\ wanted = Off
CallsOff == sct = Off /\ made = Off /\ told = Off /\ whole = Off

\* No clock and no rate is set to begin with, and in the programs without
\* USARTs it stays like that.
LibraryInit ==
  /\ Init
  /\ \/ program = "usart" /\ PllOff /\ MatrixOff /\ CallsOff /\ call = Off
     \/ program = "pll" /\ Pll!Init /\ MatrixOff /\ CallsOff
     \/ program = "pins" /\ Matrix!Init /\ PllOff /\ CallsOff /\ call = Off
     \/ program = "timer" /\ Calls!Init /\ PllOff /\ MatrixOff

LibraryNext ==
  \/ program = "usart" /\ Next /\ UNCHANGED <<program, pll, call, matrix, calls>>
  \/ program = "pll" /\ Pll!Next /\ UNCHANGED <<program, vars, matrix, calls>>
  \/ program = "pins" /\ Matrix!Next /\ UNCHANGED <<program, vars, pll, call, calls>>
  \/ program = "timer" /\ Calls!Next /\ UNCHANGED <<program, vars, pll, matrix>>

LibrarySpec == LibraryInit /\ [][LibraryNext]_library

-----------------------------------------------------------------------------
(* Properties; ClockIsClose and NeverSlow are others.                      *)

\* Whatever is enabled, disabled and selected before, the part always has a
\* clock: the output of the PLL runs when syscon_enable_pll returns, no divisor
\* stops the system clock, and the selections that the registers show are the
\* ones in effect, after the second call and the third as well
\* (syscon.c:79-119, 166-196).
HasClock == program = "pll" => Pll!HasClock /\ Pll!InEffect

\* Whatever sequence of calls is made, two functions never fight over a pin,
\* fixed-pin functions of PIO0_1 apart (gpio.c:182-251).
NoConflict == program = "pins" => Matrix!NoConflict

\* A pin does what it was last configured for, however other pins and
\* functions were used meanwhile (gpio.c:182-251).
AsConfigured == program = "pins" => Matrix!AsConfigured

\* A function for one half of the timer leaves the other one alone, whatever
\* was called before (sct.c:27-327).
HalvesApart == [][program = "timer" => Calls!HalvesApart]_library

\* After a call the counter is as all the calls so far say: it runs, or is
\* stopped or halted, never both; counts up if it was told to; and holds the 32
\* bits that were written (sct.c:69-202, 264-292).
CallsTakeEffect ==
  program = "timer" => Calls!AsTold /\ Calls!UpCountsUp /\ Calls!CounterIsWhole
=============================================================================
