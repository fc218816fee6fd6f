------------------------------ MODULE SctBlink ------------------------------
(***************************************************************************)
(* examples/.../sct/sct.c: the two halves of the timer count apart, each   *)
(* with a prescaler and a limit of its own, and each toggles an LED from   *)
(* the interrupt handler that they share.                                  *)
(***************************************************************************)
EXTENDS Integers

CONSTANTS W,     \* values of a half of the counter
          Last,  \* match 0 of each half (49999 and 39999)
          Pre    \* prescaler of each half (240 and 200)

Timer == INSTANCE Sct

Halves == Timer!Halves

VARIABLES sct,   \* the registers of the timer
          isr,   \* next step of sct_isr(), or "none"
          seen,  \* m & s of sct_isr()
          owed,  \* for each half: limits less toggles of its LED
          since  \* for each half: bus clocks since its last limit

vars == <<sct, isr, seen, owed, since>>

-----------------------------------------------------------------------------
Of(x) == IF x = "l" THEN 0 ELSE 1

Setup(s, x) ==
  Timer!sct_setup_event(s, Of(x), 0, 0,
    [half |-> x, comb |-> "match", cond |-> "low", states |-> {0}], {<<"int">>}, 0)

sct_setup ==
  LET a == Timer!sct_config(Timer!Reset, FALSE, Halves, Halves)
      b == Timer!sct_set_match(Timer!sct_set_match(a, "l", 0, Last), "h", 0, Last)
      c == Setup(Setup(b, "l"), "h")
      d == Timer!sct_set_prescaler(Timer!sct_set_prescaler(c, "l", Pre["l"]), "h", Pre["h"])
  IN  Timer!sct_start_counter(Timer!sct_start_counter(d, "l"), "h")

Init ==
  /\ sct = sct_setup
  /\ isr = "none" /\ seen = {}
  /\ owed = [x \in Halves |-> 0] /\ since = [x \in Halves |-> 0]

-----------------------------------------------------------------------------
\* The halves that reach their limit with this clock.
Limits == {x \in Halves : Timer!Limited(sct, x, Timer!Happening(sct, {}, {}))}

\* One clock of the timer.  The handler is through with an event before the
\* same half, a third of a second later at least, has the next one.
Clock ==
  /\ \A x \in Limits : Of(x) \notin sct.evflag
  /\ sct' = Timer!Tick(sct, {}, {})
  /\ owed' = [x \in Halves |-> IF x \in Limits THEN owed[x] + 1 ELSE owed[x]]
  /\ since' = [x \in Halves |-> IF x \in Limits THEN 0 ELSE since[x] + 1]
  /\ UNCHANGED <<isr, seen>>

\* Mask and status, read once.
Enter ==
  /\ isr = "none"
  /\ sct.even \cap sct.evflag # {}
  /\ seen' = Timer!sct_get_interrupt_mask(sct, {0, 1})
               \cap Timer!sct_get_interrupt_status(sct, {0, 1})
  /\ isr' = "l"
  /\ UNCHANGED <<sct, owed, since>>

\* The step after the one for half x.
After(x) == IF x = "l" THEN "h" ELSE "none"

\* The part of sct_isr() for half x: toggle the LED, clear the event.
Handle(x) ==
  /\ isr = x
  /\ IF Of(x) \in seen
       THEN /\ owed' = [owed EXCEPT ![x] = @ - 1]
            /\ sct' = Timer!sct_clear_interrupt(sct, {Of(x)}, {})
       ELSE UNCHANGED <<owed, sct>>
  /\ isr' = After(x)
  /\ UNCHANGED <<seen, since>>

sct_isr == Enter \/ \E x \in Halves : Handle(x)

Next == Clock \/ sct_isr

Spec == Init /\ [][Next]_vars

\* The clock and the processor run.
FairSpec == Spec /\ WF_vars(Clock) /\ WF_vars(sct_isr)

-----------------------------------------------------------------------------
(* Properties.                                                             *)

\* "2Hz", "3Hz": each half has its limits at its own pace, whatever the other
\* one and the handler do (sct.c:63-88).
OwnPace ==
  \A x \in Halves : owed'[x] > owed[x] => since[x] + 1 = (Last[x] + 1) * Pre[x]

\* An LED is toggled once for every limit of its half, also when the other
\* half has its limit while the handler runs: a toggle that is owed is one
\* that the timer still asks for (sct.c:92-118).
ToggledOnce == \A x \in Halves : owed[x] = IF Of(x) \in sct.evflag THEN 1 ELSE 0
=============================================================================
