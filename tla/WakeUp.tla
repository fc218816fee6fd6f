-------------------------------- MODULE WakeUp --------------------------------
(***************************************************************************)
(* examples/.../wkt/wkt.c: the wake-up timer counts seconds, ten of the    *)
(* IRC and ten of the low-power oscillator, and then wakes the part up     *)
(* from deep power-down, which only general purpose register 0 and a flag  *)
(* of the power management unit outlive.                                   *)
(* Definitions under "Mistake" are not part of the model.                  *)
(***************************************************************************)
EXTENDS Integers

VARIABLES ctrl,    \* WKT_CTRL: the clock and the alarm flag
          counter, \* WKT_COUNT: what it was started with, or 0 at rest
          pcon,    \* PMU_PCON: power mode and flags
          osc,     \* PMU_DPDCTRL: which LPOSC bits are set
          PMU_GPREG0, sleep, \* SCB_SCR
          count, isr, pc,
          cut      \* a reset has come while main() was about the flags

timer == <<ctrl, counter>>
power == <<pcon, osc, PMU_GPREG0, sleep>>
vars == <<timer, power, count, isr, pc, cut>>

-----------------------------------------------------------------------------
(* The library: what a call makes of a register.  Flags are cleared by     *)
(* writing ones, so that reading and writing back clears those that are    *)
(* set.                                                                    *)

wkt_set_clock(c, source) == [clock |-> source, alarm |-> FALSE]

wkt_get_status(c) == c.alarm

wkt_clear_status(c) == [c EXCEPT !.alarm = FALSE]

pmu_set_power_mode(p, mode) == [mode |-> mode, flags |-> {}]

pmu_get_flag(p, flag) == flag \in p.flags

pmu_clear_flag(p, flag) == [p EXCEPT !.flags = {}]

pmu_enable_low_power_osc(deep) ==
  {"LPOSCEN"} \cup (IF deep THEN {"LPOSCDPDEN"} ELSE {})

-----------------------------------------------------------------------------
(* Hardware.                                                               *)

\* What a reset makes of everything but the flags and PMU_GPREG0.
Restart ==
  /\ ctrl' = [clock |-> "irc", alarm |-> FALSE] /\ counter' = 0
  /\ osc' = {} /\ sleep' = {}
  /\ count' = 0 /\ isr' = "none" /\ pc' = "boot"
  /\ UNCHANGED PMU_GPREG0

Init ==
  /\ ctrl = [clock |-> "irc", alarm |-> FALSE] /\ counter = 0
  /\ pcon = [mode |-> "default", flags |-> {}]
  /\ osc = {} /\ sleep = {} /\ PMU_GPREG0 = 0
  /\ count = 0 /\ isr = "none" /\ pc = "boot" /\ cut = FALSE

\* A second is over, or three: not before the handler is through with the
\* last one, nor in the few instructions between the start and the wfi.
Alarm ==
  /\ counter > 0 /\ ~ctrl.alarm /\ isr = "none" /\ pc = "wait"
  /\ ctrl' = [ctrl EXCEPT !.alarm = TRUE]
  /\ counter' = 0
  /\ UNCHANGED <<power, count, isr, pc, cut>>

\* The oscillator of the timer goes on in deep power-down.
Wakes == counter > 0 /\ ctrl.clock = "low-power" /\ osc = {"LPOSCEN", "LPOSCDPDEN"}

Wake ==
  /\ pc = "sleep" /\ Wakes
  /\ pcon' = [mode |-> "default", flags |-> {"DPDFLAG"}]
  /\ Restart
  /\ UNCHANGED cut

\* The reset button, at any time but in deep power-down.
Button ==
  /\ pc # "sleep"
  /\ \E flags \in {{}, pcon.flags} : pcon' = [mode |-> "default", flags |-> flags]
  /\ Restart
  /\ cut' = (cut \/ pc \in {"boot", "flag", "forget", "deep", "wfi"})

-----------------------------------------------------------------------------
(* wkt_isr()                                                               *)

\* Mistake: the timer is not started with its new clock.
EnterNoStart ==
  /\ pc # "sleep" /\ isr = "none" /\ wkt_get_status(ctrl)
  /\ count' = count + 1
  /\ ctrl' = IF count' = 10 THEN wkt_set_clock(ctrl, "low-power") ELSE ctrl
  /\ counter' = IF count' < 10 THEN 750000 - 1
                ELSE IF count' \in 11 .. 19 THEN 10000 - 1 ELSE counter
  /\ isr' = "clear"
  /\ UNCHANGED <<power, pc, cut>>

Enter ==
  /\ pc # "sleep" /\ isr = "none" /\ wkt_get_status(ctrl)
  /\ count' = count + 1
  /\ ctrl' = IF count' = 10 THEN wkt_set_clock(ctrl, "low-power") ELSE ctrl
  /\ counter' = IF count' < 10 THEN 750000 - 1
                ELSE IF count' < 20 THEN 10000 - 1 ELSE counter
  /\ isr' = "clear"
  /\ UNCHANGED <<power, pc, cut>>

Clear ==
  /\ isr = "clear"
  /\ ctrl' = wkt_clear_status(ctrl)
  /\ isr' = "none"
  /\ UNCHANGED <<counter, power, count, pc, cut>>

wkt_isr == Enter \/ Clear

-----------------------------------------------------------------------------
(* main()                                                                  *)

At(p) == pc = p /\ isr = "none" /\ ~ctrl.alarm

\* Mistake: the oscillator stops in deep power-down.
SetupShallow ==
  /\ At("boot")
  /\ osc' = pmu_enable_low_power_osc(FALSE)
  /\ ctrl' = wkt_set_clock(wkt_clear_status(ctrl), "irc")
  /\ pc' = "flag"
  /\ UNCHANGED <<counter, pcon, PMU_GPREG0, sleep, count, isr, cut>>

\* clock_setup() and wkt_setup().
Setup ==
  /\ At("boot")
  /\ osc' = pmu_enable_low_power_osc(TRUE)
  /\ ctrl' = wkt_set_clock(wkt_clear_status(ctrl), "irc")
  /\ pc' = "flag"
  /\ UNCHANGED <<counter, pcon, PMU_GPREG0, sleep, count, isr, cut>>

\* pmu_get_flag() and, of a part that was powered down, pmu_clear_flag().
Flag ==
  /\ At("flag")
  /\ pc' = IF (PMU_GPREG0 # 0) # pmu_get_flag(pcon, "DPDFLAG") THEN "error"
           ELSE IF pmu_get_flag(pcon, "DPDFLAG") THEN "forget" ELSE "start"
  /\ pcon' = IF pmu_get_flag(pcon, "DPDFLAG") THEN pmu_clear_flag(pcon, "DPDFLAG") ELSE pcon
  /\ UNCHANGED <<timer, osc, PMU_GPREG0, sleep, count, isr, cut>>

Forget ==
  /\ At("forget")
  /\ PMU_GPREG0' = 0
  /\ pc' = "start"
  /\ UNCHANGED <<timer, pcon, osc, sleep, count, isr, cut>>

Start ==
  /\ At("start")
  /\ counter' = 750000 - 1
  /\ pc' = "wait"
  /\ UNCHANGED <<ctrl, power, count, isr, cut>>

\* pmu_set_power_mode(), at the twentieth alarm.
Counted ==
  /\ At("wait") /\ count >= 20
  /\ pcon' = pmu_set_power_mode(pcon, "deep-power-down")
  /\ pc' = "mark"
  /\ UNCHANGED <<timer, osc, PMU_GPREG0, sleep, count, isr, cut>>

Mark ==
  /\ At("mark")
  /\ PMU_GPREG0' = -1
  /\ pc' = "deep"
  /\ UNCHANGED <<timer, pcon, osc, sleep, count, isr, cut>>

\* scb_set_sleep() and the start of the counter.
Deep ==
  /\ At("deep")
  /\ sleep' = {"SLEEPDEEP"}
  /\ counter' = 10000 * 3 - 1
  /\ pc' = "wfi"
  /\ UNCHANGED <<ctrl, pcon, osc, PMU_GPREG0, count, isr, cut>>

\* A sleep that is not deep power-down would end in the error loop.
Wfi ==
  /\ At("wfi")
  /\ pc' = IF pcon.mode = "deep-power-down" /\ sleep = {"SLEEPDEEP"} THEN "sleep" ELSE "error"
  /\ UNCHANGED <<timer, power, count, isr, cut>>

main == Setup \/ Flag \/ Forget \/ Start \/ Counted \/ Mark \/ Deep \/ Wfi

Next == Alarm \/ Wake \/ Button \/ wkt_isr \/ main

Spec == Init /\ [][Next]_vars

\* The timer counts and the processor runs; nobody has to press the button.
FairSpec == Spec /\ WF_vars(Alarm) /\ WF_vars(Wake) /\ WF_vars(wkt_isr) /\ WF_vars(main)

-----------------------------------------------------------------------------
(* Properties.                                                             *)

\* "(1 sec)": the count that the timer runs with is the one for its clock,
\* whichever path started it (wkt.c:93-105, 152-153, 168-169).
Seconds == counter > 0 => (counter = 749999) = (ctrl.clock = "irc")

\* A part in deep power-down will wake up, and then knows why it starts
\* (wkt.c:159-172).
WillWake == pc = "sleep" => Wakes /\ PMU_GPREG0 # 0

\* The error loop is for errors: but for a reset in the moments in which main()
\* is about the flag and the register, at its start and before the wfi, the two
\* agree at every start (wkt.c:134-150, 159-172).
NoFalseError == pc = "error" => cut
=============================================================================
