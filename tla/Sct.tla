-------------------------------- MODULE Sct --------------------------------
(***************************************************************************)
(* lib/nxp_lpc/lpc81x/sct.c and sct.h: the state-configurable timer.  A    *)
(* record holds the registers; a function of the library is an operator    *)
(* from the registers before the call to those after it.  The functions    *)
(* that come in threes (sct_start_counter, _l and _h) are one operator     *)
(* with the suffix as a parameter: "" is the 32-bit access, which reaches  *)
(* both halves of a register.  Tick, at the end, is the timer itself.      *)
(* Definitions under "Mistake" are not part of the model.                  *)
(***************************************************************************)
EXTENDS Integers

CONSTANT W      \* values of a half of a counter (65536)

Halves  == {"l", "h"}
Events  == 0 .. 5
Inputs  == 0 .. 3
Outputs == 0 .. 3
Regs    == 0 .. 4

\* Both halves of a register, from one 32-bit value or for a set of events.
Pair(l, h) == [x \in Halves |-> IF x = "l" THEN l ELSE h]

\* SCT_xxx = v: the access with no suffix reaches both halves.
Write(reg, suffix, v) ==
  IF suffix = "" THEN v ELSE [reg EXCEPT ![suffix] = v[suffix]]

\* The half whose bits a function without a suffix names.
Half(suffix) == IF suffix = "h" THEN "h" ELSE "l"

Reset ==
  [unify |-> FALSE, autolimit |-> {}, noreload |-> {},
   stop |-> {}, halt |-> Halves, down |-> {}, bidir |-> {}, pre |-> Pair(1, 1),
   limit |-> Pair({}, {}), haltmask |-> Pair({}, {}),
   stopmask |-> Pair({}, {}), startmask |-> Pair({}, {}),
   count |-> Pair(0, 0), phase |-> Pair(0, 0), state |-> Pair(0, 0),
   regmode |-> Pair({}, {}), out |-> {},
   dirctrl |-> [o \in Outputs |-> 0], res |-> [o \in Outputs |-> 0],
   even |-> {}, evflag |-> {}, conen |-> {}, conflag |-> {},
   match |-> Pair([n \in Regs |-> 0], [n \in Regs |-> 0]),
   reload |-> Pair([n \in Regs |-> 0], [n \in Regs |-> 0]),
   ev |-> [e \in Events |-> [match |-> 0, half |-> "l", comb |-> "or", io |-> 0,
                             cond |-> "low", load |-> FALSE, statev |-> 0, states |-> {}]],
   set |-> [o \in Outputs |-> {}], clr |-> [o \in Outputs |-> {}]]

-----------------------------------------------------------------------------
(* SCT_CONFIG and SCT_CTRL.  The clock is the bus clock in every caller.    *)

sct_config(s, unify, noreload, autolimit) ==
  [s EXCEPT !.unify = unify, !.noreload = noreload, !.autolimit = autolimit]

sct_clear_counter(s, suffix) ==
  [s EXCEPT !.count = Write(@, IF s.unify THEN "" ELSE Half(suffix), Pair(0, 0)),
            !.phase[Half(suffix)] = 0]

sct_set_prescaler(s, suffix, prescaler) == [s EXCEPT !.pre[Half(suffix)] = prescaler]

sct_start_counter(s, suffix) ==
  [s EXCEPT !.stop = @ \ {Half(suffix)}, !.halt = @ \ {Half(suffix)}]

sct_stop_counter(s, suffix) ==
  [s EXCEPT !.stop = @ \cup {Half(suffix)}, !.halt = @ \ {Half(suffix)}]

sct_halt_counter(s, suffix) ==
  [s EXCEPT !.stop = @ \ {Half(suffix)}, !.halt = @ \cup {Half(suffix)}]

\* Mistake: the direction is left as it is when the counter counts up only.
ModeKeepsDown(s, suffix, mode) ==
  [s EXCEPT !.bidir = IF mode = "up" THEN @ \ {Half(suffix)} ELSE @ \cup {Half(suffix)},
            !.down = IF mode = "bidir_down" THEN @ \cup {Half(suffix)} ELSE @]

sct_set_counter_mode(s, suffix, mode) ==
  [s EXCEPT !.bidir = IF mode = "up" THEN @ \ {Half(suffix)} ELSE @ \cup {Half(suffix)},
            !.down = IF mode = "bidir_down" THEN @ \cup {Half(suffix)} ELSE @ \ {Half(suffix)}]

-----------------------------------------------------------------------------
(* Masks of events, counter and state.                                     *)

\* Mistake: the functions for the high half write the whole register.
LimitWhole(s, suffix, events) ==
  [s EXCEPT !.limit = Write(@, IF suffix = "h" THEN "" ELSE suffix, events)]

sct_set_limit(s, suffix, events) == [s EXCEPT !.limit = Write(@, suffix, events)]
sct_set_halt(s, suffix, events)  == [s EXCEPT !.haltmask = Write(@, suffix, events)]
sct_set_stop(s, suffix, events)  == [s EXCEPT !.stopmask = Write(@, suffix, events)]
sct_set_start(s, suffix, events) == [s EXCEPT !.startmask = Write(@, suffix, events)]

sct_set_counter(s, suffix, v) == [s EXCEPT !.count = Write(@, suffix, v)]
sct_set_state(s, suffix, v)   == [s EXCEPT !.state = Write(@, suffix, v)]

\* A 32-bit value in two halves, and back.
Split(v) == Pair(v % W, v \div W)
Whole(p) == p["l"] + W * p["h"]

sct_get_counter(s, suffix) == IF suffix = "" THEN Whole(s.count) ELSE s.count[suffix]

-----------------------------------------------------------------------------
(* Match and capture registers.                                            *)

\* |= and &= of SCT_REGMODE: registers, a pair of sets, in each half.
sct_enable_capture(s, suffix, registers) ==
  [s EXCEPT !.regmode =
     Write(@, suffix, [x \in Halves |-> s.regmode[x] \cup registers[x]])]

sct_disable_capture(s, suffix, registers) ==
  [s EXCEPT !.regmode =
     Write(@, suffix, [x \in Halves |-> s.regmode[x] \ registers[x]])]

WriteReg(regs, suffix, n, v) ==
  [x \in Halves |-> IF suffix \in {"", x} THEN [regs[x] EXCEPT ![n] = v[x]] ELSE regs[x]]

sct_set_match(s, suffix, n, v) == [s EXCEPT !.match = WriteReg(@, suffix, n, v)]

sct_set_match_reload(s, suffix, n, v) == [s EXCEPT !.reload = WriteReg(@, suffix, n, v)]

sct_set_match_and_reload(s, suffix, n, v) ==
  sct_set_match_reload(sct_set_match(s, suffix, n, v), suffix, n, v)

sct_get_capture(s, x, n) == s.match[x][n]

Mask(events) == LET bit(e) == IF e \in events THEN 2^e ELSE 0
                IN  bit(0) + bit(1) + bit(2) + bit(3) + bit(4) + bit(5)

\* The capture control register, in the place of the reload register.
sct_set_capture(s, x, n, events) == [s EXCEPT !.reload[x][n] = Mask(events)]

-----------------------------------------------------------------------------
(* Outputs and interrupts.                                                 *)

sct_set_output(s, outputs) == [s EXCEPT !.out = outputs]

ForOutputs(f, outputs, v) == [o \in Outputs |-> IF o \in outputs THEN v ELSE f[o]]

sct_enable_output_counter_control(s, outputs) ==
  [s EXCEPT !.dirctrl = ForOutputs(@, outputs, 1)]

sct_enable_output_counter_h_control(s, outputs) ==
  [s EXCEPT !.dirctrl = ForOutputs(@, outputs, 2)]

sct_disable_output_counter_control(s, outputs) ==
  [s EXCEPT !.dirctrl = ForOutputs(@, outputs, 0)]

\* It reads SCT_RES, and writes SCT_OUTPUTDIRCTRL.
sct_set_conflict_resolution(s, res, outputs) ==
  [s EXCEPT !.dirctrl = ForOutputs(s.res, outputs, res)]

sct_enable_interrupt(s, events, outputs) ==
  [s EXCEPT !.even = @ \cup events, !.conen = @ \cup outputs]

sct_disable_interrupt(s, events, outputs) ==
  [s EXCEPT !.even = @ \ events, !.conen = @ \ outputs]

sct_get_interrupt_mask(s, events) == s.even \cap events

sct_get_interrupt_status(s, events) == s.evflag \cap events

sct_clear_interrupt(s, events, outputs) ==
  [s EXCEPT !.evflag = @ \ events, !.conflag = @ \ outputs]

-----------------------------------------------------------------------------
(* Events.  op is [half, comb, cond, states]; action is a set of           *)
(* <<"limit", half>>, "halt", "stop" and "start" alike, <<"set", output>>, *)
(* <<"clr", output>>, <<"capture", register, half>>, <<"int">>, <<"load">>.*)

\* SCT_EV_CAP3 and SCT_EV_CAP2_H are the same bit.
Bits(action) ==
  action \cup (IF <<"capture", 3, "l">> \in action THEN {<<"capture", 2, "h">>} ELSE {})
         \cup (IF <<"capture", 2, "h">> \in action THEN {<<"capture", 3, "l">>} ELSE {})

\* |= 1 << ev for each half that the action names.
Adding(reg, ev, action, name) ==
  [x \in Halves |-> IF <<name, x>> \in action THEN reg[x] \cup {ev} ELSE reg[x]]

AddingOutput(reg, ev, action, name) ==
  [o \in Outputs |-> IF <<name, o>> \in action THEN reg[o] \cup {ev} ELSE reg[o]]

\* |= 1 << ev of a number.
SetBit(v, ev) == IF (v \div 2^ev) % 2 = 1 THEN v ELSE v + 2^ev

\* The capture register itself, in the place of the match register.
Marking(regs, ev, action) ==
  [x \in Halves |-> [n \in Regs |->
     IF <<"capture", n, x>> \in Bits(action) THEN SetBit(regs[x][n], ev) ELSE regs[x][n]]]

sct_setup_event(s, ev, match, io, op, action, state) ==
  [s EXCEPT !.limit = Adding(@, ev, action, "limit"),
            !.haltmask = Adding(@, ev, action, "halt"),
            !.stopmask = Adding(@, ev, action, "stop"),
            !.startmask = Adding(@, ev, action, "start"),
            !.even = IF <<"int">> \in action THEN @ \cup {ev} ELSE @,
            !.set = AddingOutput(@, ev, action, "set"),
            !.clr = AddingOutput(@, ev, action, "clr"),
            !.match = Marking(@, ev, action),
            !.ev[ev] = [match |-> match, half |-> op.half, comb |-> op.comb, io |-> io,
                        cond |-> op.cond, load |-> <<"load">> \in action, statev |-> state,
                        states |-> op.states]]

sct_set_output_set(s, out, events)   == [s EXCEPT !.set[out] = events]
sct_set_output_clear(s, out, events) == [s EXCEPT !.clr[out] = events]

-----------------------------------------------------------------------------
(* The timer: one period of the bus clock, with the inputs that are high   *)
(* now and those that were high before.                                    *)

Counters(s) == IF s.unify THEN {"l"} ELSE Halves

Value(s, reg, x) == IF s.unify THEN Whole(reg) ELSE reg[x]

RegValue(s, n, x) == Value(s, [y \in Halves |-> s.match[y][n]], x)

Running(s, x) == x \notin s.stop \cup s.halt

\* This period of the bus clock ends a period of the prescaled clock.
Clocked(s, x) == Running(s, x) /\ s.phase[x] + 1 >= s.pre[x]

Matches(s, x, n) ==
  /\ Clocked(s, x) /\ n \notin s.regmode[x]
  /\ Value(s, s.count, x) = RegValue(s, n, x)

Signals(cond, io, now, before) ==
  CASE cond = "low"  -> io \notin now
    [] cond = "high" -> io \in now
    [] cond = "rise" -> io \in now \ before
    [] cond = "fall" -> io \in before \ now

Of(s, e) == IF s.unify THEN "l" ELSE s.ev[e].half

Happens(s, e, now, before) ==
  LET d  == s.ev[e]
      x  == Of(s, e)
      m  == Matches(s, x, d.match)
      io == Signals(d.cond, d.io, now, before)
  IN  /\ x \notin s.halt
      /\ s.state[x] \in d.states
      /\ CASE d.comb = "or" -> m \/ io
           [] d.comb = "match" -> m
           [] d.comb = "io" -> io
           [] d.comb = "and" -> m /\ io

Happening(s, now, before) == {e \in Events : Happens(s, e, now, before)}

\* Set and clear change places while the counter that controls the output
\* counts down.
Reversed(s, o) == \/ s.dirctrl[o] = 1 /\ "l" \in s.down
                  \/ s.dirctrl[o] = 2 /\ "h" \in s.down

Sets(s, o, E)   == (IF Reversed(s, o) THEN s.clr[o] ELSE s.set[o]) \cap E # {}
Clears(s, o, E) == (IF Reversed(s, o) THEN s.set[o] ELSE s.clr[o]) \cap E # {}

OutputHigh(s, o, E) ==
  IF Sets(s, o, E) /\ Clears(s, o, E)
    THEN \/ s.res[o] = 1
         \/ s.res[o] = 0 /\ o \in s.out
         \/ s.res[o] = 3 /\ o \notin s.out
    ELSE Sets(s, o, E) \/ (o \in s.out /\ ~Clears(s, o, E))

\* The event with the highest number decides on the state.
NextState(s, x, E) ==
  LET mine == {e \in E : Of(s, e) = x}
      top  == CHOOSE e \in mine : \A f \in mine : f <= e
  IN  IF mine = {} THEN s.state[x]
      ELSE IF s.ev[top].load THEN s.ev[top].statev
      ELSE (s.state[x] + s.ev[top].statev) % 32

Limited(s, x, E) ==
  \/ Clocked(s, x) /\ s.limit[x] \cap E # {}
  \/ x \in s.autolimit /\ Matches(s, x, 0)

\* A counter that counts both ways turns at its limit and at 0, one that
\* counts up starts again.
Turned(s, x, E) ==
  IF x \notin s.bidir THEN x \in s.down
  ELSE (x \in s.down /\ Value(s, s.count, x) # 0) \/ Limited(s, x, E)

NextCount(s, x, E) ==
  LET v   == Value(s, s.count, x)
      top == IF s.unify THEN W * W ELSE W
  IN  IF ~Clocked(s, x) THEN v
      ELSE IF Limited(s, x, E) /\ x \notin s.bidir THEN 0
      ELSE IF Turned(s, x, E) THEN (v + top - 1) % top ELSE (v + 1) % top

\* The halves whose match registers are reloaded.
Reloaded(s, E) ==
  {x \in Halves : LET c == IF s.unify THEN "l" ELSE x
                  IN  Limited(s, c, E) /\ c \notin s.noreload}

Tick(s, now, before) ==
  LET E == Happening(s, now, before)
      new == [x \in Halves |-> IF x \in Counters(s) THEN NextCount(s, x, E) ELSE 0]
  IN  [s EXCEPT
        !.evflag = @ \cup E,
        !.conflag = @ \cup {o \in Outputs : Sets(s, o, E) /\ Clears(s, o, E)},
        !.out = {o \in Outputs : OutputHigh(s, o, E)},
        !.state = [x \in Halves |-> NextState(s, x, E)],
        !.count = IF s.unify THEN Split(new["l"]) ELSE new,
        !.phase = [x \in Halves |-> IF Running(s, x) THEN (@[x] + 1) % s.pre[x] ELSE @[x]],
        !.down = {x \in Halves : IF Clocked(s, x) THEN Turned(s, x, E) ELSE x \in @},
        !.match = [x \in Halves |-> IF x \in Reloaded(s, E) THEN s.reload[x] ELSE @[x]],
        !.halt = @ \cup {x \in Counters(s) : s.haltmask[x] \cap E # {}},
        !.stop = (@ \ {x \in Counters(s) : s.startmask[x] \cap E # {}})
                   \cup {x \in Counters(s) : s.stopmask[x] \cap E # {}}]
=============================================================================
