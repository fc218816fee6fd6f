------------------------------- MODULE MrtDemo -------------------------------
(***************************************************************************)
(* examples/.../mrt/mrt.c: an LED is toggled ten times from the interrupt  *)
(* of a repeating channel, ten times with a one-shot channel that is       *)
(* polled, ten times with a channel that stalls the processor.             *)
(* Definitions under "Mistake" are not part of the model.                  *)
(***************************************************************************)
EXTENDS Integers

CONSTANTS Half,    \* clocks in half a second (12000000)
          Stalls,  \* stalls between two toggles (250)
          Ms       \* clocks in a stall (24000)

Timer == INSTANCE Mrt

VARIABLES mrt,      \* the registers of the timer
          count,    \* interrupts of this round
          isr,      \* next step of mrt_isr(), or "none"
          pc,       \* where main() is
          i, j,     \* its counters
          toggles   \* of the LED in this phase

vars == <<mrt, count, isr, pc, i, j, toggles>>

-----------------------------------------------------------------------------
mrt_setup ==
  LET a == Timer!mrt_set_mode(Timer!Reset, 0, "repeat")
      b == Timer!mrt_set_mode(Timer!mrt_enable_interrupt(a, {0}), 1, "one_shot")
  IN  Timer!mrt_set_mode(b, 2, "bus_stall")

Init ==
  /\ mrt = mrt_setup
  /\ count = 0 /\ isr = "none" /\ pc = "start" /\ i = 0 /\ j = 0 /\ toggles = 0

\* One clock.  The handler, of some fifty instructions, ends before its
\* channel comes round again.
Clock ==
  /\ ~(Timer!Line(mrt) /\ mrt[0].timer = 1)
  /\ mrt' = Timer!Tick(mrt)
  /\ UNCHANGED <<count, isr, pc, i, j, toggles>>

-----------------------------------------------------------------------------
(* mrt_isr()                                                               *)

Enter ==
  /\ ~Timer!Stalled(mrt) /\ isr = "none" /\ Timer!Line(mrt)
  /\ Timer!mrt_get_interrupt_status(mrt, Timer!mrt_get_interrupt_mask(mrt, {0})) # {}
  /\ toggles' = toggles + 1
  /\ count' = count + 1
  /\ isr' = IF count' = 9 THEN "stop" ELSE "clear"
  /\ UNCHANGED <<mrt, pc, i, j>>

\* The interval that runs already is the last one.
Stop ==
  /\ isr = "stop"
  /\ mrt' = Timer!mrt_set_interval(mrt, 0, 0)
  /\ isr' = "clear"
  /\ UNCHANGED <<count, pc, i, j, toggles>>

Clear ==
  /\ isr = "clear"
  /\ mrt' = Timer!mrt_clear_interrupt(
              Timer!mrt_clear_channel_status(mrt, 0, {"int"}), {0})
  /\ isr' = "none"
  /\ UNCHANGED <<count, pc, i, j, toggles>>

mrt_isr == Enter \/ Stop \/ Clear

-----------------------------------------------------------------------------
(* main()                                                                  *)

Runs(at) == isr = "none" /\ ~Timer!Stalled(mrt) /\ pc = at

Repeat ==
  /\ Runs("start")
  /\ mrt' = Timer!mrt_set_interval(mrt, 0, Half)
  /\ toggles' = 0
  /\ pc' = "wait"
  /\ UNCHANGED <<count, isr, i, j>>

Counted ==
  /\ Runs("wait") /\ count >= 10
  /\ count' = 0 /\ i' = 0
  /\ pc' = "one"
  /\ UNCHANGED <<mrt, isr, j, toggles>>

\* delay_ms(1000), up to its poll.
OneShot ==
  /\ Runs("one")
  /\ mrt' = Timer!mrt_set_interval(mrt, 1, 2 * Half)
  /\ toggles' = IF i = 0 THEN 0 ELSE toggles
  /\ pc' = "poll"
  /\ UNCHANGED <<count, isr, i, j>>

\* Mistake: the loop ends one delay early.
TimedOutNine ==
  /\ Runs("poll") /\ "int" \in Timer!mrt_get_channel_status(mrt, 1)
  /\ mrt' = Timer!mrt_clear_channel_status(mrt, 1, {"int"})
  /\ toggles' = toggles + 1
  /\ i' = IF i + 1 < 9 THEN i + 1 ELSE 0
  /\ pc' = IF i + 1 < 9 THEN "one" ELSE "stall"
  /\ UNCHANGED <<count, isr, j>>

TimedOut ==
  /\ Runs("poll") /\ "int" \in Timer!mrt_get_channel_status(mrt, 1)
  /\ mrt' = Timer!mrt_clear_channel_status(mrt, 1, {"int"})
  /\ toggles' = toggles + 1
  /\ i' = IF i + 1 < 10 THEN i + 1 ELSE 0
  /\ pc' = IF i + 1 < 10 THEN "one" ELSE "stall"
  /\ UNCHANGED <<count, isr, j>>

\* delay_us(1000), which takes the time that the processor is stalled.
BusStall ==
  /\ Runs("stall") /\ j < Stalls
  /\ mrt' = Timer!mrt_set_interval(mrt, 2, Ms)
  /\ j' = j + 1
  /\ toggles' = IF i = 0 /\ j = 0 THEN 0 ELSE toggles
  /\ UNCHANGED <<count, isr, pc, i>>

Stalled ==
  /\ Runs("stall") /\ j = Stalls
  /\ toggles' = toggles + 1
  /\ i' = (IF i + 1 < 10 THEN i + 1 ELSE 0)
  /\ j' = 0
  /\ pc' = IF i + 1 < 10 THEN "stall" ELSE "start"
  /\ UNCHANGED <<mrt, count, isr>>

main == Repeat \/ Counted \/ OneShot \/ TimedOut \/ BusStall \/ Stalled

Next == Clock \/ mrt_isr \/ main

Spec == Init /\ [][Next]_vars

\* The clock and the processor run.
FairSpec == Spec /\ WF_vars(Clock) /\ WF_vars(mrt_isr) /\ WF_vars(main)

-----------------------------------------------------------------------------
(* Properties.                                                             *)

\* The repeating channel is at rest before main() sets the count back, so that
\* no interrupt of its comes into the other phases or shortens the next round
\* (mrt.c:77-94, 121-125).
AtRest == pc # "wait" => ~mrt[0].run /\ isr = "none" /\ ~Timer!Line(mrt)

\* Each of the three phases toggles the LED ten times (mrt.c:120-143).
Ends(p, q) == pc = p /\ pc' = q

TenEach ==
  Ends("wait", "one") \/ Ends("poll", "stall") \/ Ends("stall", "start") => toggles' = 10

\* A delay that is polled for lasts as long as it was asked to: when it is
\* over its channel has counted down (mrt.c:96-104, 128-133).
FullDelay == pc = "poll" /\ pc' # pc => ~mrt[1].run
=============================================================================
