---------------------------- MODULE WatchdogTest ----------------------------
(***************************************************************************)
(* examples/.../wwdt/wwdt.c: six tests of the watchdog, each of which ends *)
(* in the reset that it waits for.  What main() knows after a reset is in  *)
(* three bytes of RAM that no start-up code initializes.                   *)
(* Definitions under "Mistake" are not part of the model.                  *)
(***************************************************************************)
EXTENDS Integers

CONSTANTS Rates,      \* rates of the watchdog oscillator, in 1/1000 of nominal
          Clocks,     \* frequencies of the main clock, in 1/1000 of nominal
          Garbage,    \* what TESTNUM may be after power-on
          ButtonTests \* tests during which the reset button may be pressed

VARIABLES TESTNUM, phase, INTSTATUS, \* RAM that survives a reset (phase: STATE)
          status,  \* SYSCON_SYSRSTSTAT: WDT_RST, SYSRST
          osc,     \* the watchdog oscillator
          rate, clock, \* what the two clocks are like this time
          elapsed, \* watchdog ticks since the last feed, or NotStarted
          i, j,    \* feeds of this test, delays since the last feed
          pc       \* "boot", "test", "loop", "final", or an error

ram == <<TESTNUM, phase, INTSTATUS>>
rates == <<osc, rate, clock>>
vars == <<ram, status, rates, elapsed, i, j, pc>>

-----------------------------------------------------------------------------
(* Time.                                                                   *)

\* Watchdog ticks in a second: a quarter of 2.3 MHz or of 9.375 kHz.
Nominal == [fast |-> 575000, slow |-> 2344]

Rate == (Nominal[osc] * rate) \div 1000

\* A delay in microseconds, or else in milliseconds.
us(n) == [n |-> n, unit |-> "us"]
ms(n) == [n |-> n, unit |-> "ms"]

Ticks(d) ==
  IF d.unit = "us" THEN (((d.n * Rate) \div 1000) * clock) \div 1000000
                   ELSE (((d.n * Rate) \div 1000) * clock) \div 1000

-----------------------------------------------------------------------------
(* The tests: feeds feeds, each after delays delays of step; then last     *)
(* delays of wait, with a feed that comes too early after them in test 2.  *)

Form(reset, tc, window, feeds, delays, step, last, wait) ==
  [reset |-> reset, tc |-> tc, window |-> window, feeds |-> feeds, delays |-> delays,
   step |-> step, last |-> last, wait |-> wait]

MaxCount == 16777215
NotStarted == -1

test0 == Form(TRUE, 255, MaxCount, 5, 1, us(260), 1, us(640))
test1 == Form(TRUE, 8192, 5120, 5, 1, ms(8), 1, ms(21))
test2 == Form(TRUE, 8192, 5120, 5, 1, ms(8), 1, ms(3))
test3 == Form(TRUE, MaxCount, MaxCount, 1, 34, ms(500), 84, ms(500))
test4 == Form(TRUE, 255, MaxCount, 5, 1, ms(64), 1, ms(156))
test5 == Form(FALSE, 8192, 5120, 5, 1, ms(8), 1, ms(21))

\* Mistake: a windowed test waits too short before it feeds.
TestEarly(n) ==
  <<test0, test1, [test2 EXCEPT !.step = ms(7)], test3, test4, test5>>[n + 1]

Test(n) == <<test0, test1, test2, test3, test4, test5>>[n + 1]

T == Test(TESTNUM)

\* The watchdog resets, or its handler saves the flags and resets.
Bite(flags) ==
  /\ pc' = "boot"
  /\ status' = IF T.reset THEN {"WDT_RST"} ELSE {"SYSRST"}
  /\ INTSTATUS' = IF T.reset THEN INTSTATUS ELSE flags
  /\ UNCHANGED <<TESTNUM, phase>>

\* A feed before the counter has come down to the window is an event, too.
TooEarly(e) == T.tc - e >= T.window

-----------------------------------------------------------------------------
clock_setup == IF TESTNUM = 3 THEN "slow" ELSE "fast"

\* What main() makes of the reset status and of the RAM: "test", or an error.
Verdict ==
  IF "WDT_RST" \in status
    THEN IF phase = 2 THEN "error2"
         ELSE IF phase = 0 \/ TESTNUM = 5 THEN "error0" ELSE "test"
  ELSE IF "SYSRST" \in status
    THEN IF TESTNUM # 5 \/ phase = 0 THEN "error0"
         ELSE IF phase = 2 \/ INTSTATUS # {"TIME_OUT", "WARNING"} THEN "error2" ELSE "test"
  ELSE "test"

Following == IF "WDT_RST" \in status /\ TESTNUM < 5 THEN TESTNUM + 1 ELSE 0

\* main() up to the switch.  The oscillator is chosen before TESTNUM is: after a
\* reset with test 3 in the RAM, whatever caused it, it is the slow one, which is
\* right for test 4 only.  A reset has stopped the watchdog.
Boot ==
  /\ pc = "boot"
  /\ status' = {}
  /\ osc' = clock_setup
  /\ rate' \in Rates /\ clock' \in Clocks
  /\ elapsed' = NotStarted
  /\ pc' = Verdict
  /\ IF Verdict = "test"
       THEN /\ TESTNUM' = Following
            /\ INTSTATUS' = IF "SYSRST" \in status THEN {} ELSE INTSTATUS
       ELSE UNCHANGED <<TESTNUM, INTSTATUS>>
  /\ UNCHANGED <<phase, i, j>>

\* State 0: LED2 blinks, then the watchdog starts.
Start ==
  /\ pc = "test"
  /\ phase' = 0
  /\ elapsed' = 0 /\ i' = 0 /\ j' = 0
  /\ pc' = "loop"
  /\ UNCHANGED <<TESTNUM, INTSTATUS, status, rates>>

Delay ==
  /\ pc = "loop" /\ j < T.delays
  /\ elapsed' = elapsed + Ticks(T.step)
  /\ IF elapsed' > T.tc THEN Bite({"TIME_OUT", "WARNING"}) /\ UNCHANGED j
                        ELSE j' = j + 1 /\ UNCHANGED <<ram, status, pc>>
  /\ UNCHANGED <<rates, i>>

\* wwdt_restart(), and state 1 after the last one.
Feed ==
  /\ pc = "loop" /\ j = T.delays
  /\ IF TooEarly(elapsed)
       THEN Bite({"TIME_OUT"}) /\ UNCHANGED <<elapsed, i, j>>
       ELSE /\ elapsed' = 0 /\ j' = 0 /\ i' = i + 1
            /\ IF i + 1 = T.feeds THEN phase' = 1 /\ pc' = "final"
                                  ELSE UNCHANGED <<phase, pc>>
            /\ UNCHANGED <<TESTNUM, INTSTATUS, status>>
  /\ UNCHANGED rates

\* The last delay; test 2 feeds too early after it and waits for a moment.
\* If nothing has happened then, the watchdog has failed.
Last ==
  /\ pc = "final"
  /\ elapsed' = elapsed + Ticks(T.wait)
  /\ IF elapsed' > T.tc \/ (TESTNUM = 2 /\ TooEarly(elapsed'))
       THEN Bite({"TIME_OUT", "WARNING"}) /\ UNCHANGED j
       ELSE /\ j' = j + 1
            /\ IF j + 1 = T.last THEN phase' = 2 /\ pc' = "error2"
                                 ELSE UNCHANGED <<phase, pc>>
            /\ UNCHANGED <<TESTNUM, INTSTATUS, status>>
  /\ UNCHANGED <<rates, i>>

\* The watchdog of a test that has failed is still running.
Late ==
  /\ pc = "error2" /\ elapsed # NotStarted
  /\ Bite({"TIME_OUT", "WARNING"})
  /\ UNCHANGED <<rates, elapsed, i, j>>

\* The reset button (or the RESET pin): the RAM is kept.
Button ==
  /\ pc # "boot" /\ TESTNUM \in ButtonTests
  /\ status' = {}
  /\ pc' = "boot"
  /\ UNCHANGED <<ram, rates, elapsed, i, j>>

-----------------------------------------------------------------------------
\* After power-on the RAM holds anything.
Init ==
  /\ TESTNUM \in Garbage /\ phase \in {0, 2} /\ INTSTATUS = {}
  /\ status = {} /\ osc = "fast" /\ rate = 1000 /\ clock = 1000
  /\ elapsed = NotStarted /\ i = 0 /\ j = 0 /\ pc = "boot"

main == Boot \/ Start \/ Delay \/ Feed \/ Last

Next == main \/ Late \/ Button

Spec == Init /\ [][Next]_vars

\* The processor runs.
FairSpec == Spec /\ WF_vars(main)

-----------------------------------------------------------------------------
(* Properties.                                                             *)

\* A watchdog that works passes every test: no feed comes too late or too
\* early, and no reset later than the test waits, for the rates of the two
\* clocks, and wherever the last reset came from (wwdt.c:136-430, 447-476).  One
\* test fails: test 0 with the slow oscillator, after a reset by the button
\* during test 3, or power-on with 3 in the RAM (wwdt.c:44).  main() takes the
\* late reset of its watchdog for the same error again.
TestsPass ==
  /\ pc # "error0"
  /\ pc = "error2" =>
       /\ TESTNUM = 0 /\ phase = 2
       /\ elapsed # NotStarted => osc = "slow"
=============================================================================
