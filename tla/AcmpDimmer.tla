---------------------------- MODULE AcmpDimmer ----------------------------
(***************************************************************************)
(* examples/.../acmp/acmp.c with lib acmp.c: the program finds the step of *)
(* the voltage ladder that an input voltage reaches and makes it the width *)
(* of the pulses of SCT output 0.                                          *)
(***************************************************************************)
EXTENDS Integers

CONSTANTS W,        \* values of a half of the counter
          Period,   \* bus clocks of the timer's period (240000)
          Steps,    \* steps of the ladder and of the width (32)
          Voltages  \* what the input may be, in steps

Timer == INSTANCE Sct

VARIABLES sct,      \* the registers of the timer
          voltage,  \* of ACMP_I1: it is above the ladder's steps below it
          ladder,   \* ACMP_LAD: LADSEL
          i, pc,    \* of main(): "switch", "compare", "set", "delay"
          high,     \* clocks of this period with the output high
          began,    \* the output was high when this period began
          asked,    \* match register 2 at the start of the period
          whole     \* this is a whole period

vars == <<sct, voltage, ladder, i, pc, high, began, asked, whole>>

-----------------------------------------------------------------------------
(* sct_setup().                                                            *)

Match(s, n, v) == Timer!sct_set_match_and_reload(s, "", n, Timer!Split(v))

Op == [half |-> "l", comb |-> "match", cond |-> "low", states |-> {0}]

Width(k) == (Period \div Steps) * k

sct_setup ==
  LET a == Timer!sct_config(Timer!Reset, TRUE, {}, {"l"})
      b == Match(Match(Match(a, 0, Period - 1), 1, 0), 2, Width(1))
      c == Timer!sct_setup_event(b, 0, 1, 0, Op, {<<"set", 0>>}, 0)
      d == Timer!sct_setup_event(c, 1, 2, 0, Op, {<<"clr", 0>>}, 0)
  IN  Timer!sct_start_counter(d, "")

Counter == Timer!Whole(sct.count)

-----------------------------------------------------------------------------
\* acmp_enable_ladder(false) selects step 0.
Init ==
  /\ sct = sct_setup
  /\ voltage \in Voltages /\ ladder = 0
  /\ i = 0 /\ pc = "switch"
  /\ high = 0 /\ began = FALSE /\ asked = Width(1) /\ whole = FALSE

Clock ==
  /\ sct' = Timer!Tick(sct, {}, {})
  /\ high' = (IF Counter = 0 THEN 0 ELSE high) + (IF 0 \in sct'.out THEN 1 ELSE 0)
  /\ began' = IF Counter = 0 THEN 0 \in sct.out ELSE began
  /\ asked' = IF Counter = 0 THEN Timer!RegValue(sct, 2, "l") ELSE asked
  /\ whole' = (whole \/ Counter = 0)
  /\ UNCHANGED <<voltage, ladder, i, pc>>

Turn ==
  /\ voltage' \in Voltages \ {voltage}
  /\ UNCHANGED <<sct, ladder, i, pc, high, began, asked, whole>>

\* acmp_set_ladder(i); delay_us(ACMP_TS_SW + 1), for it to settle.
Switch ==
  /\ pc = "switch"
  /\ ladder' = i /\ pc' = "compare"
  /\ UNCHANGED <<sct, voltage, i, high, began, asked, whole>>

\* acmp_get_status(ACMP_COMPSTAT): the input is above the ladder.
ComparatorHigh == voltage > ladder

\* The loop ends with i = Steps when the input is above all of the ladder, and
\* with i = 0 when it is above no step.
Compare ==
  /\ pc = "compare"
  /\ IF ComparatorHigh THEN /\ i' = i + 1
                            /\ pc' = IF i + 1 < Steps THEN "switch" ELSE "set"
                       ELSE pc' = "set" /\ UNCHANGED i
  /\ UNCHANGED <<sct, voltage, ladder, high, began, asked, whole>>

Set ==
  /\ pc = "set"
  /\ sct' = Timer!sct_set_match_reload(sct, "", 2, Timer!Split(Width(i)))
  /\ pc' = "delay"
  /\ UNCHANGED <<voltage, ladder, i, high, began, asked, whole>>

\* delay_ms(100), and the search from the first step on.
Delay ==
  /\ pc = "delay"
  /\ i' = 0 /\ pc' = "switch"
  /\ UNCHANGED <<sct, voltage, ladder, high, began, asked, whole>>

main == Switch \/ Compare \/ Set \/ Delay

Next == Clock \/ Turn \/ main

Spec == Init /\ [][Next]_vars

\* The clock and the processor run.
FairSpec == Spec /\ WF_vars(Clock) /\ WF_vars(main)

-----------------------------------------------------------------------------
(* Properties.                                                             *)

\* How long the output is high in a period of this width.  With width 0 both
\* events come at once, and the conflict leaves the output as it was: dark after
\* any width but that of the whole period, which no event has ended.
Pulse(width) == IF width = 0 /\ began THEN Period ELSE width

\* "Event0: match1 -> output0 high", "Event1: match2 -> output0 low": the
\* pulse of a period is as wide as match register 2 asks for at its start,
\* however main() changes the register meanwhile (acmp.c:73-82, 155).
PulseAsAsked == whole /\ Counter = 0 => high = Pulse(asked)

\* The pulse is that of an input v.
Shows(v) == Counter = 0 => high = Pulse(Width(v))
=============================================================================
