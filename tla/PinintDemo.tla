----------------------------- MODULE PinintDemo -----------------------------
(***************************************************************************)
(* examples/.../pinint/pinint.c: a button on pin interrupt 0 toggles an    *)
(* LED, by way of the pin interrupt and of the pattern match in turn.      *)
(* Definitions under "Mistake" are not part of the model.                  *)
(***************************************************************************)
EXTENDS Integers, FiniteSets

CONSTANT Bounces  \* TRUE: the button may change while a handler is due

Port == INSTANCE Pinint WITH Pins <- {0}

Pin == {0}

VARIABLES reg,      \* the registers of the pin interrupts
          levels,   \* {0} while the button is released
          led,
          count0,   \* count of pinint0_isr()
          count1,   \* count of pinint1_isr()
          pending,  \* the interrupts that the NVIC holds pending
          isr,      \* "none", "clear" in pinint0_isr(), "rest" in pinint1_isr()
          edge      \* edges so far, modulo 36

vars == <<reg, levels, led, count0, count1, pending, isr, edge>>

-----------------------------------------------------------------------------
\* The interrupt lines: pin interrupts, or else pattern matches.
Lines(r, l) ==
  IF Port!pinint_pattern_match_enabled(r)
    THEN Port!pinint_get_pattern_match_state(r, l, {0, 1})
    ELSE Port!pinint_get_interrupt_status(r, l, Pin)

\* The NVIC latches a line that goes up, and one that is up when its handler
\* returns.
Latch(taken, returns) ==
  pending' = (pending \ taken) \cup (Lines(reg', levels') \ Lines(reg, levels))
               \cup (IF returns THEN Lines(reg', levels') ELSE {})

pinint_setup ==
  Port!pinint_set_interrupt_mode(
    Port!pinint_clear_interrupt(Port!Reset, Pin), "falling", Pin)

Init ==
  /\ reg = pinint_setup /\ levels = Pin
  /\ led = FALSE /\ count0 = 0 /\ count1 = 0
  /\ pending = {} /\ isr = "none" /\ edge = 0

Button ==
  /\ Bounces \/ (pending = {} /\ isr = "none")
  /\ reg' = Port!Edge(reg, 0, levels = {})
  /\ levels' = Pin \ levels
  /\ edge' = (edge + 1) % 36
  /\ Latch({}, FALSE)
  /\ UNCHANGED <<led, count0, count1, isr>>

-----------------------------------------------------------------------------
(* pinint0_isr(): up to the switch's end, then the clear.                   *)

Mode == Port!pinint_get_interrupt_mode(reg, Pin)

Enter0 ==
  /\ isr = "none" /\ 0 \in pending
  /\ UNCHANGED <<levels, count1, edge>>

\* Not this handler's interrupt, or not one any more.
Return0 ==
  /\ Enter0
  /\ \/ Port!pinint_pattern_match_enabled(reg)
     \/ Mode = "disable"
     \/ Port!pinint_get_interrupt_status(reg, levels, Pin) = {}
  /\ UNCHANGED <<reg, led, count0, isr>>
  /\ Latch({0}, TRUE)

Asked0 ==
  /\ Enter0
  /\ ~Port!pinint_pattern_match_enabled(reg)
  /\ Port!pinint_get_interrupt_status(reg, levels, Pin) # {}
  /\ isr' = "clear"

\* Mistake: the release after the third push is counted, too.
FallingCountsAll ==
  /\ Asked0 /\ Mode = "falling"
  /\ IF Port!pinint_falling_edge_detected(reg, Pin) = {}
       THEN UNCHANGED <<reg, led, count0>>
       ELSE /\ led' = ~led
            /\ count0' = IF count0 + 1 >= 3 THEN 0 ELSE count0 + 1
            /\ reg' = IF count0 + 1 >= 3 THEN Port!pinint_set_interrupt_mode(reg, "rising", Pin)
                                         ELSE reg
  /\ Latch({0}, FALSE)

\* The push that ends the falling mode is followed by a release that the
\* rising mode does not show: its count starts at -1.
Falling ==
  /\ Asked0 /\ Mode = "falling"
  /\ IF Port!pinint_falling_edge_detected(reg, Pin) = {}
       THEN UNCHANGED <<reg, led, count0>>
       ELSE /\ led' = ~led
            /\ count0' = IF count0 + 1 >= 3 THEN -1 ELSE count0 + 1
            /\ reg' = IF count0 + 1 >= 3 THEN Port!pinint_set_interrupt_mode(reg, "rising", Pin)
                                         ELSE reg
  /\ Latch({0}, FALSE)

Rising ==
  /\ Asked0 /\ Mode = "rising"
  /\ IF Port!pinint_rising_edge_detected(reg, Pin) = {}
       THEN UNCHANGED <<reg, led, count0>>
       ELSE /\ led' = (led # (count0 >= 0))
            /\ count0' = IF count0 + 1 >= 3 THEN 0 ELSE count0 + 1
            /\ reg' = IF count0 + 1 >= 3 THEN Port!pinint_set_interrupt_mode(reg, "both", Pin)
                                         ELSE reg
  /\ Latch({0}, FALSE)

Match(r, cond) == Port!pinint_set_bit_slice(r, 1, 0, cond, TRUE)

Both ==
  /\ Asked0 /\ Mode = "both"
  /\ led' = ~led
  /\ count0' = IF count0 + 1 >= 6 THEN 0 ELSE count0 + 1
  /\ reg' = IF count0 + 1 >= 6
              THEN Port!pinint_enable_pattern_match(
                     Match(Port!pinint_set_bit_slice(reg, 0, 0, "const_high", FALSE),
                           "sticky_falling"))
              ELSE reg
  /\ Latch({0}, FALSE)

Clear0 ==
  /\ isr = "clear"
  /\ reg' = Port!pinint_clear_interrupt(reg, Pin)
  /\ isr' = "none"
  /\ Latch({}, TRUE)
  /\ UNCHANGED <<levels, led, count0, count1, edge>>

-----------------------------------------------------------------------------
(* pinint1_isr(): the LED, then the slice that forgets the edge.           *)

Enter1 ==
  /\ isr = "none" /\ pending = {1}
  /\ UNCHANGED <<reg, levels, count0, edge>>
  /\ IF Port!pinint_pattern_match_enabled(reg)
       THEN /\ led' = (led # (count1 # 3))
            /\ count1' = count1 + 1
            /\ isr' = "rest"
            /\ Latch({1}, FALSE)
       ELSE Latch({1}, TRUE) /\ UNCHANGED <<led, count1, isr>>

Rest1 ==
  /\ isr = "rest"
  /\ reg' = IF count1 < 3 THEN Match(reg, "sticky_falling")
            ELSE IF count1 < 7 THEN Match(reg, "sticky_rising")
            ELSE IF count1 < 13 THEN Match(reg, "sticky_both")
            ELSE Port!pinint_set_interrupt_mode(
                   Port!pinint_clear_interrupt(Port!pinint_disable_pattern_match(reg), Pin),
                   "falling", Pin)
  /\ count1' = IF count1 < 13 THEN count1 ELSE 0
  /\ isr' = "none"
  /\ Latch({}, TRUE)
  /\ UNCHANGED <<levels, led, count0, edge>>

pinint0_isr == Return0 \/ Falling \/ Rising \/ Both \/ Clear0
pinint1_isr == Enter1 \/ Rest1

Next == Button \/ pinint0_isr \/ pinint1_isr

Spec == Init /\ [][Next]_vars

\* The processor runs the handlers that are pending.
FairSpec == Spec /\ WF_vars(pinint0_isr \/ pinint1_isr)

-----------------------------------------------------------------------------
(* Properties.                                                             *)

\* The edges that toggle the LED: falling, rising and both edges, for three
\* pushes each, twice; edge e is a push when e is even.
Toggles(e) ==
  LET mode == (e \div 6) % 3
  IN  \/ mode = 0 /\ e % 2 = 0
      \/ mode = 1 /\ e % 2 = 1
      \/ mode = 2

\* "Change the interrupt mode when the button is pushed and released 3 times":
\* whenever no handler is due, the LED is as it should be after the edges so
\* far, if the handlers kept up with them (pinint.c:69-190).
LedAsPromised ==
  pending = {} /\ isr = "none" =>
    led = (Cardinality({e \in 0 .. edge - 1 : Toggles(e)}) % 2 = 1)

\* The mode that pinint1_isr() handles.
PatternMatch == Port!pinint_pattern_match_enabled(reg)
=============================================================================
