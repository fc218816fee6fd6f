------------------------------ MODULE SysconClock ------------------------------
(***************************************************************************)
(* The clocks of lib/.../syscon.c: oscillators and the PLL are powered by  *)
(* bits of one register, which four pairs of functions write; selections   *)
(* take effect when an update bit changes from 0 to 1; and the PLL is a    *)
(* clock only once it has locked.  The program, as the examples do, asks   *)
(* for what is there: it selects clocks that run, does not stop or change  *)
(* one that is selected, and does not ask for the divisor 0, which would   *)
(* stop the processor.                                                     *)
(* Definitions under "Mistake" are not part of the model.                  *)
(***************************************************************************)
EXTENDS Integers

CONSTANTS Ms, Ps, \* the factors syscon_enable_pll is called with
          Divs    \* the divisors syscon_set_system_clock is called with, integers

VARIABLES PDRUNCFG, \* what is powered down
          SYSPLLCLKSEL, SYSPLLCLKUEN, SYSPLLCTRL,
          MAINCLKSEL, MAINCLKUEN, SYSAHBCLKDIV,
          pll_in, main, \* the selections in effect
          locked,  \* SYSPLLSTAT
          enabled, \* the program: enable_pll has returned since the PLL had no power
          pc, call \* the library function the program is in

registers == <<PDRUNCFG, SYSPLLCLKSEL, SYSPLLCLKUEN, SYSPLLCTRL,
               MAINCLKSEL, MAINCLKUEN, SYSAHBCLKDIV>>
hardware == <<pll_in, main, locked>>
vars == <<registers, hardware, enabled, pc, call>>

\* enum syscon_osc; what the PLL and the main clock may be taken from.
Osc == {"IRC", "XTAL", "CLKIN", "WDT_OSC", "PLL_IN", "PLL_OUT", "MAIN"}
PllSources == {"IRC", "XTAL", "CLKIN"}
MainSources == {"IRC", "PLL_IN", "WDT_OSC", "PLL_OUT"}

Units == {"SYSOSC_PD", "WDTOSC_PD", "SYSPLL_PD", "ACMP_PD"}

Init ==
  /\ PDRUNCFG = Units
  /\ SYSPLLCLKSEL = "IRC" /\ SYSPLLCLKUEN = 0 /\ SYSPLLCTRL = <<0, 0>>
  /\ MAINCLKSEL = "IRC" /\ MAINCLKUEN = 0 /\ SYSAHBCLKDIV = 1
  /\ pll_in = "IRC" /\ main = "IRC" /\ locked = FALSE
  /\ enabled = FALSE /\ pc = "idle" /\ call = <<>>

-----------------------------------------------------------------------------
(* Hardware.                                                               *)

\* Which clocks run.
Runs(osc) ==
  CASE osc = "XTAL" -> "SYSOSC_PD" \notin PDRUNCFG
    [] osc = "WDT_OSC" -> "WDTOSC_PD" \notin PDRUNCFG
    [] OTHER -> TRUE

ClockRuns(osc) ==
  CASE osc = "PLL_IN" -> Runs(pll_in)
    [] osc = "PLL_OUT" -> Runs(pll_in) /\ locked
    [] OTHER -> Runs(osc)

\* An update bit that rises makes the selection the one in effect.
Updated(uen, now, selected, effective) ==
  IF uen = 0 /\ now = 1 THEN selected ELSE effective

Lock ==
  /\ "SYSPLL_PD" \notin PDRUNCFG /\ Runs(pll_in) /\ ~locked
  /\ locked' = TRUE /\ UNCHANGED <<registers, pll_in, main, enabled, pc, call>>

-----------------------------------------------------------------------------
(* The program calls.  It does not touch what it runs on.                  *)

Uses(unit) ==
  CASE unit = "SYSPLL_PD" -> main = "PLL_OUT"
    [] unit = "SYSOSC_PD" -> pll_in = "XTAL"
    [] unit = "WDTOSC_PD" -> main = "WDT_OSC"
    [] OTHER -> FALSE

Call ==
  /\ pc = "idle"
  /\ \/ \E source \in Osc, m \in Ms, p \in Ps :
          /\ main \notin {"PLL_IN", "PLL_OUT"} /\ Runs(source)
          /\ call' = <<source, m, p>> /\ pc' = "enable_pll"
     \/ \E source \in Osc, div \in Divs \ {0} :
          /\ CASE source = "PLL_OUT" -> enabled
               [] source = "PLL_IN" -> Runs(pll_in)
               [] OTHER -> Runs(source)
          /\ call' = <<source, div>> /\ pc' = "set_system_clock"
  /\ UNCHANGED <<registers, hardware, enabled>>

\* Return: the call is over.
Return == pc' = "idle" /\ call' = <<>>

\* What the PLL multiplies and divides by, PSEL and MSEL, if there is such.
PSEL(p) == {s \in 0..3 : p = 2 ^ s}
PllAccepts(source, m, p) == source \in PllSources /\ PSEL(p) # {} /\ m \in 1..32

\* What the main clock may be, and by what it may be divided.
MainAccepts(source, div) == source \in MainSources /\ div >= 0 /\ div <= 255

\* A call that is refused changes nothing.
Refuse ==
  /\ \/ pc = "enable_pll" /\ ~PllAccepts(call[1], call[2], call[3])
     \/ pc = "set_system_clock" /\ ~MainAccepts(call[1], call[2])
  /\ Return /\ UNCHANGED <<registers, hardware, enabled>>

\* A PLL that is powered or given other factors has to lock anew.
PowerPll ==
  /\ pc = "enable_pll" /\ PllAccepts(call[1], call[2], call[3])
  /\ PDRUNCFG' = PDRUNCFG \ {"SYSPLL_PD"}
  /\ SYSPLLCLKSEL' = call[1] /\ pc' = "update pll"
  /\ UNCHANGED <<SYSPLLCLKUEN, SYSPLLCTRL, MAINCLKSEL, MAINCLKUEN, SYSAHBCLKDIV,
                 hardware, enabled, call>>

\* The update bit is cleared and set.
UpdatePll ==
  /\ pc = "update pll"
  /\ SYSPLLCLKUEN' = 1
  /\ pll_in' = Updated(0, 1, SYSPLLCLKSEL, pll_in)
  /\ locked' = FALSE /\ pc' = "pll factors"
  /\ UNCHANGED <<PDRUNCFG, SYSPLLCLKSEL, SYSPLLCTRL, MAINCLKSEL, MAINCLKUEN,
                 SYSAHBCLKDIV, main, enabled, call>>

SetFactors ==
  /\ pc = "pll factors"
  /\ \E psel \in PSEL(call[3]) : SYSPLLCTRL' = <<psel, call[2] - 1>>
  /\ locked' = FALSE /\ pc' = "wait for lock"
  /\ UNCHANGED <<PDRUNCFG, SYSPLLCLKSEL, SYSPLLCLKUEN, MAINCLKSEL, MAINCLKUEN,
                 SYSAHBCLKDIV, pll_in, main, enabled, call>>

\* Mistake: the function does not wait.
NoWaitForLock ==
  /\ pc = "wait for lock"
  /\ Return /\ enabled' = TRUE /\ UNCHANGED <<registers, hardware>>

WaitForLock ==
  /\ pc = "wait for lock" /\ locked
  /\ Return /\ enabled' = TRUE /\ UNCHANGED <<registers, hardware>>

SelectMain ==
  /\ pc = "set_system_clock" /\ MainAccepts(call[1], call[2])
  /\ MAINCLKSEL' = call[1] /\ pc' = "update main"
  /\ UNCHANGED <<PDRUNCFG, SYSPLLCLKSEL, SYSPLLCLKUEN, SYSPLLCTRL, MAINCLKUEN,
                 SYSAHBCLKDIV, hardware, enabled, call>>

\* The divisor has eight bits.
UpdateMain ==
  /\ pc = "update main"
  /\ MAINCLKUEN' = 1 /\ main' = Updated(0, 1, MAINCLKSEL, main)
  /\ SYSAHBCLKDIV' = call[2] % 256 /\ Return
  /\ UNCHANGED <<PDRUNCFG, SYSPLLCLKSEL, SYSPLLCLKUEN, SYSPLLCTRL, MAINCLKSEL,
                 pll_in, locked, enabled>>

\* syscon_enable_sys_osc, syscon_enable_wdt_osc and syscon_disable_power_down.
PowerUp(units) ==
  /\ pc = "idle" /\ PDRUNCFG' = PDRUNCFG \ units
  /\ UNCHANGED <<SYSPLLCLKSEL, SYSPLLCLKUEN, SYSPLLCTRL, MAINCLKSEL, MAINCLKUEN,
                 SYSAHBCLKDIV, hardware, enabled, pc, call>>

\* syscon_disable_sys_osc, syscon_disable_wdt_osc, syscon_disable_pll and
\* syscon_enable_power_down.
PowerDown(units, control) ==
  /\ pc = "idle" /\ \A u \in units : ~Uses(u)
  /\ PDRUNCFG' = PDRUNCFG \cup units /\ SYSPLLCTRL' = control
  /\ locked' = (locked /\ "SYSPLL_PD" \notin units)
  /\ enabled' = (enabled /\ "SYSPLL_PD" \notin units)
  /\ UNCHANGED <<SYSPLLCLKSEL, SYSPLLCLKUEN, MAINCLKSEL, MAINCLKUEN,
                 SYSAHBCLKDIV, pll_in, main, pc, call>>

Power ==
  \/ \E u \in Units : PowerUp({u}) \/ PowerDown({u}, SYSPLLCTRL)
  \/ PowerDown({"SYSPLL_PD"}, <<0, 0>>)

Enable == PowerPll \/ UpdatePll \/ SetFactors \/ WaitForLock

Library == Refuse \/ Enable \/ SelectMain \/ UpdateMain

Next == Call \/ Library \/ Power \/ Lock

Spec == Init /\ [][Next]_vars /\ WF_vars(Library) /\ WF_vars(Lock)

-----------------------------------------------------------------------------
(* Properties.                                                             *)

(* syscon.c:79-119, 166-196.  The part always has a clock: when            *)
(* syscon_enable_pll returns, its output runs, so that the call that       *)
(* follows may select it; and no divisor, in range or not, stops it.       *)
HasClock == ClockRuns(main) /\ SYSAHBCLKDIV # 0

(* syscon.c:112-113, 192-193.  Between two calls the selections that the   *)
(* registers show are the ones in effect, after the second call and the    *)
(* third as well.                                                          *)
InEffect == pc = "idle" => pll_in = SYSPLLCLKSEL /\ main = MAINCLKSEL
=============================================================================
