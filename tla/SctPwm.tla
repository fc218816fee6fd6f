------------------------------- MODULE SctPwm -------------------------------
(***************************************************************************)
(* examples/.../sct_pwm/sct_pwm.c and rc_servo/rc_servo.c: one 32-bit      *)
(* counter makes the pulses of output 0, of one width in state 0 and of    *)
(* another in state 1; a falling edge of input 0 changes the state.        *)
(* sct_pwm.c changes the widths while the timer runs.                      *)
(***************************************************************************)
EXTENDS Integers

CONSTANTS W, Program,   \* "sct_pwm" or "rc_servo"
          Period,       \* bus clocks (240000, 480000)
          Steps,        \* steps of the width (256)
          Shorter,      \* how much shorter the pulse is in state 1 (16)
          Width0, Width1 \* of rc_servo.c: PCLK / 1000 - 1, PCLK / 500 - 1

Timer == INSTANCE Sct

VARIABLES sct,          \* the registers of the timer
          button, wasHigh, \* input 0 now and a clock ago
          i, up,        \* main()'s width and whether it grows
          first,        \* main() writes the width for state 0 next
          high,         \* clocks of this period with the output high
          asked,        \* match registers 2 and 4 at the start of the period
          pure          \* this is a whole period, in which the state has not changed

vars == <<sct, button, wasHigh, i, up, first, high, asked, pure>>

-----------------------------------------------------------------------------
(* sct_setup().                                                            *)

Op(comb, cond, state) ==
  [half |-> "l", comb |-> comb, cond |-> cond, states |-> {state}]

Change(s, ev, from, action, to) ==
  Timer!sct_setup_event(s, ev, 0, 0, Op("io", "fall", from), action, to)

AtMatch(s, ev, n, state, name) ==
  Timer!sct_setup_event(s, ev, n, 0, Op("match", "low", state), {<<name, 0>>}, 0)

Match(s, n, v) == Timer!sct_set_match_and_reload(s, "", n, Timer!Split(v))

Width(k) == (Period \div Steps) * k
ShortWidth(k) == ((Period \div Steps) \div Shorter) * k

\* The settings of the two programs: what match 1 and 3 and what match 2 and 4
\* do to the output, the widths, and the action that goes to state 1.
Config ==
  IF Program = "sct_pwm"
    THEN [start |-> "set", end |-> "clr", w0 |-> Width(1), w1 |-> ShortWidth(1), go |-> {}]
    ELSE [start |-> "clr", end |-> "set", w0 |-> Width0, w1 |-> Width1, go |-> {<<"load">>}]

Registers ==
  LET a == Timer!sct_config(Timer!Reset, TRUE, {}, {"l"})
      b == Match(Match(Match(a, 0, Period - 1), 1, 0), 2, Config.w0)
  IN  Match(Match(b, 3, 0), 4, Config.w1)

\* Mistake: state 1 is never left.
EventsNoReturn ==
  LET a == AtMatch(AtMatch(Registers, 0, 1, 0, Config.start), 1, 2, 0, Config.end)
      b == Change(a, 2, 0, Config.go, 1)
      c == AtMatch(AtMatch(b, 3, 3, 1, Config.start), 4, 4, 1, Config.end)
  IN  Change(c, 5, 1, {}, 0)

EventsSetUp ==
  LET a == AtMatch(AtMatch(Registers, 0, 1, 0, Config.start), 1, 2, 0, Config.end)
      b == Change(a, 2, 0, Config.go, 1)
      c == AtMatch(AtMatch(b, 3, 3, 1, Config.start), 4, 4, 1, Config.end)
  IN  Change(c, 5, 1, {<<"load">>}, 0)

sct_setup == Timer!sct_start_counter(EventsSetUp, "")

-----------------------------------------------------------------------------
Counter == Timer!Whole(sct.count)
Reg(n) == Timer!RegValue(sct, n, "l")

Init ==
  /\ sct = sct_setup
  /\ button \in BOOLEAN /\ wasHigh = button
  /\ i = 1 /\ up = TRUE /\ first = TRUE
  /\ high = 0 /\ asked = <<Config.w0, Config.w1>> /\ pure = FALSE

\* One clock of the timer.  The output changes with the clock after the match.
Clock ==
  /\ sct' = Timer!Tick(sct, IF button THEN {0} ELSE {}, IF wasHigh THEN {0} ELSE {})
  /\ wasHigh' = button
  /\ high' = (IF Counter = 0 THEN 0 ELSE high) + (IF 0 \in sct'.out THEN 1 ELSE 0)
  /\ asked' = IF Counter = 0 THEN <<Reg(2), Reg(4)>> ELSE asked
  /\ pure' = ((sct'.state = sct.state) /\ (Counter = 0 \/ pure))
  /\ UNCHANGED <<button, i, up, first>>

\* A change that lasts for less than a clock goes unseen.
Button ==
  /\ button = wasHigh /\ button' = ~button
  /\ UNCHANGED <<sct, wasHigh, i, up, first, high, asked, pure>>

Reload(n, v) == sct' = Timer!sct_set_match_reload(sct, "", n, Timer!Split(v))

\* Mistake: the new width at once, in the middle of a period.
WriteAtOnce ==
  /\ Program = "sct_pwm" /\ first
  /\ sct' = Timer!sct_set_match(sct, "", 2, Timer!Split(Width(i)))
  /\ first' = FALSE
  /\ UNCHANGED <<button, wasHigh, i, up, high, asked, pure>>

\* The loop of main(): the width for state 0, then the one for state 1.
WriteWidth ==
  /\ Program = "sct_pwm" /\ first
  /\ Reload(2, Width(i))
  /\ first' = FALSE
  /\ UNCHANGED <<button, wasHigh, i, up, high, asked, pure>>

WriteShortWidth ==
  /\ Program = "sct_pwm" /\ ~first
  /\ Reload(4, ShortWidth(i))
  /\ first' = TRUE
  /\ IF up THEN IF i < Steps - 1 THEN i' = i + 1 /\ UNCHANGED up ELSE up' = FALSE /\ UNCHANGED i
           ELSE IF i > 1 THEN i' = i - 1 /\ UNCHANGED up ELSE up' = TRUE /\ UNCHANGED i
  /\ UNCHANGED <<button, wasHigh, high, asked, pure>>

main == WriteWidth \/ WriteShortWidth

Next == Clock \/ Button \/ main

Spec == Init /\ [][Next]_vars

\* The clock and the processor run.
FairSpec == Spec /\ WF_vars(Clock) /\ WF_vars(main)

-----------------------------------------------------------------------------
(* Properties.                                                             *)

\* A period in which the state has not changed has one pulse, of the width
\* that stood in the reload register of that state when the period began,
\* however main()'s writes fall into it (sct_pwm.c:66-130, rc_servo.c:66-106).
PulseAsAsked ==
  pure /\ Counter = 0 =>
    high = LET w == asked[sct.state["l"] + 1]
           IN  IF Program = "sct_pwm" THEN w ELSE Period - w

\* Set and clear never fall on the same clock, so that the output does not
\* depend on the conflict resolution, which nobody sets (sct_pwm.c:82-104).
NoConflict == sct.conflag = {}

\* The timer sees input 0 fall.
Falls == Clock /\ wasHigh /\ ~button
=============================================================================
