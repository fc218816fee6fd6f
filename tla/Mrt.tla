--------------------------------- MODULE Mrt ---------------------------------
(***************************************************************************)
(* lib/.../mrt.c, the multi-rate timer: functions from the registers of    *)
(* its four channels to their new values or to what a call returns.        *)
(* Definitions under "Hardware" are the timer itself.                      *)
(***************************************************************************)
EXTENDS Integers

mrt_channel == 0 .. 3
mrt_mode == {"repeat", "one_shot", "bus_stall"}

\* CTRL is mode and inten, STAT and its bit of IRQ_FLAG are int and run.
Reset == [c \in mrt_channel |->
            [mode |-> "repeat", inten |-> FALSE, intval |-> 0, timer |-> 0,
             int |-> FALSE, run |-> FALSE]]

-----------------------------------------------------------------------------
(* Hardware.                                                               *)

\* INTVAL is written: an idle channel starts, one that runs goes on to the
\* end of its interval.
Load(ch, v) ==
  IF ch.run THEN [ch EXCEPT !.intval = v]
            ELSE [ch EXCEPT !.intval = v, !.timer = v, !.run = v > 0]

\* A channel that reaches 0 sets its flag, unless it stalls the bus; in
\* repeat mode it takes the next interval, if there is one.
Count(ch) ==
  IF ~ch.run THEN ch
  ELSE IF ch.timer > 1 THEN [ch EXCEPT !.timer = @ - 1]
  ELSE LET next == IF ch.mode = "repeat" THEN ch.intval ELSE 0
       IN  [ch EXCEPT !.int = ch.mode # "bus_stall", !.timer = next, !.run = next > 0]

Tick(r) == [c \in mrt_channel |-> Count(r[c])]

\* The interrupt line of the timer, and the processor held up by a channel.
Line(r) == \E c \in mrt_channel : r[c].inten /\ r[c].int
Stalled(r) == \E c \in mrt_channel : r[c].mode = "bus_stall" /\ r[c].run

-----------------------------------------------------------------------------
\* Writes the whole of CTRL.
mrt_set_mode(r, c, mode) == [r EXCEPT ![c].mode = mode, ![c].inten = FALSE]

mrt_set_interval(r, c, ivalue) == [r EXCEPT ![c] = Load(@, ivalue)]

mrt_get_timer(r, c) == r[c].timer

SetInten(r, interrupt, on) ==
  [c \in mrt_channel |-> IF c \in interrupt THEN [r[c] EXCEPT !.inten = on] ELSE r[c]]

mrt_enable_interrupt(r, interrupt) == SetInten(r, interrupt, TRUE)

mrt_disable_interrupt(r, interrupt) == SetInten(r, interrupt, FALSE)

mrt_get_interrupt_mask(r, interrupt) == {c \in interrupt : r[c].inten}

mrt_get_interrupt_status(r, interrupt) == {c \in interrupt : r[c].int}

\* A one clears the flag of its channel.
mrt_clear_interrupt(r, interrupt) ==
  [c \in mrt_channel |-> IF c \in interrupt THEN [r[c] EXCEPT !.int = FALSE] ELSE r[c]]

\* Of the status only MRT_INT can be cleared.
mrt_get_channel_status(r, c) ==
  (IF r[c].int THEN {"int"} ELSE {}) \cup (IF r[c].run THEN {"run"} ELSE {})

mrt_clear_channel_status(r, c, status) ==
  IF "int" \in status THEN mrt_clear_interrupt(r, {c}) ELSE r

\* The first channel that does not run, or else 4.
mrt_get_idle_channel(r) ==
  IF \A c \in mrt_channel : r[c].run THEN 4
  ELSE CHOOSE c \in mrt_channel : ~r[c].run /\ \A d \in 0 .. c - 1 : r[d].run
=============================================================================
