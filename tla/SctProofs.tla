----------------------------- MODULE SctProofs -----------------------------
(***************************************************************************)
(* Theorems about the programs of MCSct: pulses of two widths, a dimmer, a *)
(* square wave and its opposite, and two halves that count at their own    *)
(* pace, for a counter of any width and for all periods, widths, tones,    *)
(* limits and prescalers that fit into it.                                 *)
(***************************************************************************)
EXTENDS MCSct, TLAPS, WellFoundedInduction, NaturalsInduction

\* The timer of all programs.
Timer == INSTANCE Sct

-----------------------------------------------------------------------------
(* The registers.                                                          *)

\* The names of the registers.
SctNames ==
  {"unify", "autolimit", "noreload", "stop", "halt", "down", "bidir", "pre", "limit",
   "haltmask", "stopmask", "startmask", "count", "phase", "state", "regmode", "out",
   "dirctrl", "res", "even", "evflag", "conen", "conflag", "match", "reload", "ev",
   "set", "clr"}

\* The match registers of both halves.
MatchRegs(r) == r = [x \in Halves |-> [n \in Timer!Regs |-> r[x][n]]]

\* A record of registers.
Registers(s) ==
  /\ DOMAIN s = SctNames /\ s = [f \in SctNames |-> s[f]]
  /\ MatchRegs(s.match) /\ MatchRegs(s.reload)
  /\ DOMAIN s.ev = Timer!Events
  /\ DOMAIN s.set = Timer!Outputs /\ s.set = [o \in Timer!Outputs |-> s.set[o]]
  /\ DOMAIN s.clr = Timer!Outputs /\ s.clr = [o \in Timer!Outputs |-> s.clr[o]]

\* No event limits, halts, stops or starts a counter, nothing is captured, and
\* the outputs are as after reset.
Plain(s) ==
  /\ s.limit = Timer!Pair({}, {}) /\ s.haltmask = Timer!Pair({}, {})
  /\ s.stopmask = Timer!Pair({}, {}) /\ s.startmask = Timer!Pair({}, {})
  /\ s.regmode = Timer!Pair({}, {}) /\ s.down = {} /\ s.bidir = {} /\ s.stop = {}
  /\ s.dirctrl = [o \in Timer!Outputs |-> 0] /\ s.res = [o \in Timer!Outputs |-> 0]

\* One counter of 32 bits, which runs and counts up to match register 0.
Up(s) ==
  /\ Registers(s) /\ Plain(s)
  /\ s.unify = TRUE /\ s.autolimit = {"l"} /\ s.noreload = {} /\ s.halt = {"h"}
  /\ s.pre = Timer!Pair(1, 1) /\ s.phase = Timer!Pair(0, 0)

Count(s)  == Timer!Whole(s.count)
Reg(s, n) == Timer!RegValue(s, n, "l")
Rel(s, n) == Timer!Whole([y \in Halves |-> s.reload[y][n]])
State(s)  == s.state["l"]

\* Event e happens at match register n in a state, which it leaves as it is.
At(s, e, n, state) ==
  /\ s.ev[e].half = "l" /\ s.ev[e].comb = "match" /\ s.ev[e].match = n
  /\ s.ev[e].states = {state} /\ s.ev[e].statev = 0 /\ ~s.ev[e].load

Never(s, e) == s.ev[e].states = {}

Least(x, y) == IF x <= y THEN x ELSE y

-----------------------------------------------------------------------------
(* The inductive invariants.                                               *)

\* The output stays high because there is nothing that ends the pulse.
Kept(width) == width = 0 /\ began

\* How many of the first n clocks of a period the dimmer's output is high.
Lit(n, width) == IF Kept(width) THEN n ELSE Least(n, width)

\* The pulse so far is that of the width asked for.
SoFar ==
  /\ Count(sct) > 0 => /\ asked = Reg(sct, 2)
                       /\ 0 \in sct.out <=> Kept(asked) \/ Count(sct) <= asked
                       /\ high = Lit(Count(sct), asked)
  /\ whole /\ Count(sct) = 0 => high = Lit(Period, asked)

DimmerInv ==
  /\ Up(sct) /\ State(sct) = 0
  /\ At(sct, 0, 1, 0) /\ At(sct, 1, 2, 0) /\ \A e \in Timer!Events \ {0, 1} : Never(sct, e)
  /\ sct.set[0] = {0} /\ sct.clr[0] = {1}
  /\ Count(sct) \in Nat /\ Count(sct) < Period
  /\ Reg(sct, 0) = Period - 1 /\ Rel(sct, 0) = Period - 1
  /\ Reg(sct, 1) = 0 /\ Rel(sct, 1) = 0
  /\ Reg(sct, 2) \in 0 .. Period /\ Rel(sct, 2) \in 0 .. Period
  /\ asked \in 0 .. Period
  /\ voltage \in Voltages /\ ladder \in Nat /\ i \in 0 .. LadderSteps
  /\ pc \in {"switch", "compare", "set", "delay"}
  /\ pc \in {"switch", "compare"} => i < LadderSteps
  /\ pc = "compare" => ladder = i
  /\ ~whole => Count(sct) = 0
  /\ SoFar

\* The pulse comes first in a period, or last.
First(p) == p = "sct_pwm"

\* Event e happens when input 0 falls in the state from, and goes to another.
Falling(s, e, from, to) ==
  /\ s.ev[e].half = "l" /\ s.ev[e].comb = "io" /\ s.ev[e].cond = "fall"
  /\ s.ev[e].states = {from} /\ s.ev[e].statev = to

\* The events of a program, and what its outputs do.
PulseEvents(p, s) ==
  /\ At(s, 0, 1, 0) /\ At(s, 1, 2, 0) /\ At(s, 3, 3, 1) /\ At(s, 4, 4, 1)
  /\ Falling(s, 2, 0, 1) /\ Falling(s, 5, 1, 0)
  /\ s.set[0] = (IF First(p) THEN {0, 3} ELSE {1, 4})
  /\ s.clr[0] = (IF First(p) THEN {1, 4} ELSE {0, 3})
  /\ \A o \in Timer!Outputs \ {0} : s.set[o] = {} /\ s.clr[o] = {}

\* Its match registers, and those that are to follow: the period, and a width
\* inside it for each of the two states.
PulseMatch(period, s) ==
  /\ Reg(s, 0) = period - 1 /\ Rel(s, 0) = period - 1
  /\ Reg(s, 1) = 0 /\ Rel(s, 1) = 0 /\ Reg(s, 3) = 0 /\ Rel(s, 3) = 0
  /\ Reg(s, 2) \in 1 .. period - 1 /\ Rel(s, 2) \in 1 .. period - 1
  /\ Reg(s, 4) \in 1 .. period - 1 /\ Rel(s, 4) \in 1 .. period - 1

\* The width of a state.
Wide(widths, state) == widths[state + 1]

PulseInv(p, period) ==
  /\ Up(sct) /\ State(sct) \in {0, 1} /\ PulseEvents(p, sct) /\ sct.conflag = {}
  /\ Count(sct) \in Nat /\ Count(sct) < period /\ PulseMatch(period, sct)
  /\ Count(sct) > 0 => asked = <<Reg(sct, 2), Reg(sct, 4)>>
  /\ pure /\ Count(sct) > 0 =>
       LET v == Count(sct)
           w == Wide(asked, State(sct))
       IN  /\ 0 \in sct.out <=> IF First(p) THEN v <= w ELSE v > w
           /\ high = IF First(p) THEN Least(v, w) ELSE v - Least(v, w)
  /\ pure /\ Count(sct) = 0 =>
       LET w == Wide(asked, State(sct))
       IN  high = IF First(p) THEN w ELSE period - w

PwmInv   == PulseInv("sct_pwm", Period) /\ i \in 1 .. Steps - 1
ServoInv == PulseInv("rc_servo", ServoPeriod)

\* A tone's number, the clocks of its period, the tone before it, and the one
\* after it.
ToneNumbers == 0 .. Len(freq) - 1
Clocks(k) == PCLK \div freq[k + 1]
Before(k) == IF k = 0 THEN Len(freq) - 1 ELSE k - 1
Second(k) == freq[k + 1]

\* Event 4 waits for the handler.
Asking == 4 \in sct.evflag

\* While the tone lasts the handler counts its periods.
SameTone ==
  /\ isr \in {"none", "clear"}
  /\ Reg(sct, 0) = tone - 1 /\ Rel(sct, 0) = tone - 1
  /\ Reg(sct, 2) = tone \div 2 /\ Rel(sct, 2) = tone \div 2
  /\ periods \in Nat /\ count \in Nat \ {0}
  /\ periods + count = Second(findex) + (IF isr = "none" /\ Asking THEN 1 ELSE 0)
  /\ periods = 0 => Count(sct) = 0 /\ ~Asking

\* The last period of a tone, in which the handler asks for the next tone.
NextTone ==
  /\ tone = Clocks(Before(findex)) /\ periods = Second(Before(findex))
  /\ isr = "none" => ~Asking
  /\ Count(sct) > 0 => Reg(sct, 0) = tone - 1 /\ Reg(sct, 2) = tone \div 2
  /\ Count(sct) = 0 => /\ isr = "none" /\ Reg(sct, 0) = Clocks(findex) - 1
                       /\ Reg(sct, 2) = Clocks(findex) \div 2
  /\ Rel(sct, 0) = (IF isr = "limit" THEN tone ELSE Clocks(findex)) - 1
  /\ Rel(sct, 2) = (IF isr \in {"limit", "width"} THEN tone ELSE Clocks(findex)) \div 2
  /\ isr \in {"none", "clear"} => count = Second(findex)

\* What the two outputs do in a period, and at its end.
Wave ==
  /\ Count(sct) > 0 => /\ periods > 0
                       /\ 0 \in sct.out <=> Count(sct) <= tone \div 2
                       /\ 1 \in sct.out <=> Count(sct) > tone \div 2
                       /\ high = Least(Count(sct), tone \div 2)
  /\ Count(sct) = 0 /\ periods > 0 => /\ 0 \notin sct.out /\ 1 \in sct.out
                                      /\ high = tone \div 2

\* The events of the program, and what its outputs do.
SpeakerEvents(s) ==
  /\ At(s, 0, 1, 0) /\ At(s, 1, 2, 0) /\ At(s, 2, 1, 0) /\ At(s, 3, 2, 0)
  /\ At(s, 4, 1, 0) /\ Never(s, 5)
  /\ s.set[0] = {0} /\ s.clr[0] = {1} /\ s.set[1] = {3} /\ s.clr[1] = {2}

PiezoInv ==
  /\ Up(sct) /\ State(sct) = 0 /\ SpeakerEvents(sct)
  /\ Count(sct) \in Nat /\ Count(sct) <= Reg(sct, 0)
  /\ Reg(sct, 1) = 0 /\ Rel(sct, 1) = 0
  /\ findex \in ToneNumbers /\ isr \in {"none", "limit", "width", "clear"}
  /\ isr # "none" => Asking
  /\ Asking => Count(sct) > 0
  /\ tone = Clocks(findex) => SameTone
  /\ tone # Clocks(findex) => NextTone
  /\ Wave

\* The event of a half.
Of(x) == IF x = "l" THEN 0 ELSE 1

\* Two halves of a counter, each with an event at its limit.
Halved(s) ==
  /\ Registers(s) /\ Plain(s)
  /\ s.unify = FALSE /\ s.autolimit = Halves /\ s.noreload = Halves /\ s.halt = {}
  /\ \A x \in Halves :
       /\ s.ev[Of(x)].half = x /\ s.ev[Of(x)].comb = "match" /\ s.ev[Of(x)].match = 0
       /\ s.ev[Of(x)].states = {0} /\ s.ev[Of(x)].statev = 0 /\ ~s.ev[Of(x)].load
       /\ s.state[x] = 0
  /\ \A e \in Timer!Events \ {0, 1} : Never(s, e)

\* A half of the counter.
Paced(s, x) ==
  /\ s.pre[x] = Pre[x] /\ s.match[x][0] = Last[x]
  /\ s.count[x] \in Nat /\ s.count[x] <= Last[x]
  /\ s.phase[x] \in Nat /\ s.phase[x] < Pre[x]

BlinkInv ==
  /\ Halved(sct)
  /\ \A x \in Halves :
       /\ Paced(sct, x)
       /\ since[x] = sct.count[x] * Pre[x] + sct.phase[x]
       /\ owed[x] = IF Of(x) \in sct.evflag THEN 1 ELSE 0
  /\ DOMAIN owed = Halves /\ DOMAIN since = Halves
  /\ isr \in {"none", "l", "h"}
  /\ isr = "l" => seen \subseteq sct.evflag
  /\ isr = "h" => seen \cap {1} \subseteq sct.evflag

SctInv ==
  /\ program \in {"sct_pwm", "rc_servo", "acmp", "piezo", "sct"}
  /\ program = "sct_pwm" => PwmInv
  /\ program = "rc_servo" => ServoInv
  /\ program = "acmp" => DimmerInv
  /\ program = "piezo" => PiezoInv
  /\ program = "sct" => BlinkInv

-----------------------------------------------------------------------------
(* The timer.                                                              *)

\* What a counter holds is a number.
LEMMA CounterWidth == W \in Nat \ {0} /\ W * W \in Nat
BY SctAssumption DEF SctAssumption

\* A value in two halves is put together again.
LEMMA WholeOfSplit ==
  ASSUME NEW v \in Nat
  PROVE  Timer!Whole(Timer!Split(v)) = v
<1>1. Timer!Whole(Timer!Split(v)) = (v % W) + W * (v \div W)
  BY DEF Timer!Whole, Timer!Split, Timer!Pair, Timer!Halves
<1>2. QED
  BY <1>1, CounterWidth, SMT

\* Match events of the one counter.
LEMMA HappensAt ==
  ASSUME NEW s, Up(s), NEW now, NEW before, NEW e \in Timer!Events
  PROVE  /\ \A n, state : At(s, e, n, state) =>
              (e \in Timer!Happening(s, now, before)
                 <=> State(s) = state /\ Count(s) = Reg(s, n))
         /\ Never(s, e) => e \notin Timer!Happening(s, now, before)
<1> USE DEF Up, Plain, Timer!Pair, Timer!Halves
<1>1. s.phase["l"] = 0 /\ s.pre["l"] = 1 /\ s.regmode["l"] = {}
  OBVIOUS
<1>2. Timer!Of(s, e) = "l" /\ "l" \notin s.halt /\ "l" \notin s.stop
  BY DEF Timer!Of
<1>3. Timer!Clocked(s, "l")
  BY <1>1, <1>2 DEF Timer!Clocked, Timer!Running
<1>4. \A n : Timer!Matches(s, "l", n) <=> Count(s) = Reg(s, n)
  BY <1>1, <1>3 DEF Timer!Matches, Timer!Value, Count, Reg
<1>5. e \in Timer!Happening(s, now, before) <=> Timer!Happens(s, e, now, before)
  BY DEF Timer!Happening
<1>6. Never(s, e) => ~Timer!Happens(s, e, now, before)
  BY <1>2 DEF Never, Timer!Happens
<1>7. ASSUME NEW n, NEW state, At(s, e, n, state)
      PROVE  Timer!Happens(s, e, now, before) <=> State(s) = state /\ Count(s) = Reg(s, n)
  BY <1>2, <1>4, <1>7 DEF At, State, Timer!Happens
<1>8. QED
  BY <1>5, <1>6, <1>7

\* What a clock of the timer does to the one counter and its match registers.
LEMMA TickUp ==
  ASSUME NEW s, Up(s), Count(s) \in Nat, Count(s) < W * W, NEW now, NEW before,
         NEW t, t = Timer!Tick(s, now, before), NEW E, E = Timer!Happening(s, now, before)
  PROVE  /\ Up(t)
         /\ t.even = s.even /\ t.ev = s.ev /\ t.set = s.set /\ t.clr = s.clr
         /\ t.evflag = s.evflag \cup E
         /\ t.conflag = s.conflag
              \cup {o \in Timer!Outputs : s.set[o] \cap E # {} /\ s.clr[o] \cap E # {}}
         /\ \A o \in Timer!Outputs : s.set[o] \cap E = {} \/ s.clr[o] \cap E = {} =>
              (o \in t.out <=> s.set[o] \cap E # {} \/ (o \in s.out /\ s.clr[o] \cap E = {}))
         /\ \A o \in Timer!Outputs : s.set[o] \cap E # {} /\ s.clr[o] \cap E # {} =>
              (o \in t.out <=> o \in s.out)
         /\ State(t) = Timer!NextState(s, "l", E)
         /\ t.state = s.state => State(t) = State(s)
         /\ \A n : Rel(t, n) = Rel(s, n)
         /\ Count(s) # Reg(s, 0) =>
              /\ Count(t) = (Count(s) + 1) % (W * W)
              /\ \A n : Reg(t, n) = Reg(s, n)
         /\ Count(s) = Reg(s, 0) => Count(t) = 0 /\ \A n : Reg(t, n) = Rel(s, n)
<1> DEFINE out == {o \in Timer!Outputs : Timer!OutputHigh(s, o, E)}
           state == [x \in Timer!Halves |-> Timer!NextState(s, x, E)]
           new == Timer!NextCount(s, "l", E)
           phase == [x \in Timer!Halves |->
                       IF Timer!Running(s, x) THEN (s.phase[x] + 1) % s.pre[x] ELSE s.phase[x]]
           down == {x \in Timer!Halves :
                      IF Timer!Clocked(s, x) THEN Timer!Turned(s, x, E) ELSE x \in s.down}
           match == [x \in Timer!Halves |->
                       IF x \in Timer!Reloaded(s, E) THEN s.reload[x] ELSE s.match[x]]
           conflicts == {o \in Timer!Outputs : Timer!Sets(s, o, E) /\ Timer!Clears(s, o, E)}
           halt == s.halt \cup {x \in Timer!Counters(s) : s.haltmask[x] \cap E # {}}
           stop == (s.stop \ {x \in Timer!Counters(s) : s.startmask[x] \cap E # {}})
                     \cup {x \in Timer!Counters(s) : s.stopmask[x] \cap E # {}}
           number == Timer!Split(new)
<1>1. t = [s EXCEPT !.evflag = @ \cup E, !.conflag = @ \cup conflicts, !.out = out,
                    !.state = state, !.count = number, !.phase = phase, !.down = down,
                    !.match = match, !.halt = halt, !.stop = stop]
  BY DEF Timer!Tick, Up, Timer!Counters, Timer!Halves
<1>2. DOMAIN s = SctNames /\ s = [f \in SctNames |-> s[f]]
  BY DEF Up, Registers
<1> HIDE DEF out, state, new, phase, down, match, conflicts, halt, stop, number
<1>3. /\ DOMAIN t = SctNames /\ t = [f \in SctNames |-> t[f]]
      /\ t.evflag = s.evflag \cup E /\ t.conflag = s.conflag \cup conflicts /\ t.out = out
      /\ t.state = state /\ t.count = number /\ t.phase = phase /\ t.down = down
      /\ t.match = match /\ t.halt = halt /\ t.stop = stop
  <2>1. DOMAIN t = SctNames /\ t = [f \in SctNames |-> t[f]]
    BY <1>1, <1>2, Zenon
  <2>2. t.evflag = s.evflag \cup E /\ t.conflag = s.conflag \cup conflicts
    BY <1>1, <1>2, ZenonT(40) DEF SctNames
  <2>3. t.out = out /\ t.state = state
    BY <1>1, <1>2, ZenonT(40) DEF SctNames
  <2>4. t.count = number /\ t.phase = phase
    BY <1>1, <1>2, ZenonT(40) DEF SctNames
  <2>5. t.down = down /\ t.match = match
    BY <1>1, <1>2, ZenonT(40) DEF SctNames
  <2>6. t.halt = halt /\ t.stop = stop
    BY <1>1, <1>2, ZenonT(40) DEF SctNames
  <2>7. QED
    BY <2>1, <2>2, <2>3, <2>4, <2>5, <2>6
<1>4. /\ t.unify = s.unify /\ t.autolimit = s.autolimit /\ t.noreload = s.noreload
      /\ t.bidir = s.bidir /\ t.pre = s.pre /\ t.limit = s.limit /\ t.haltmask = s.haltmask
      /\ t.stopmask = s.stopmask /\ t.startmask = s.startmask /\ t.regmode = s.regmode
      /\ t.dirctrl = s.dirctrl /\ t.res = s.res /\ t.even = s.even /\ t.reload = s.reload
      /\ t.ev = s.ev /\ t.set = s.set /\ t.clr = s.clr
  <2>1. /\ t.unify = s.unify /\ t.autolimit = s.autolimit /\ t.noreload = s.noreload
        /\ t.bidir = s.bidir /\ t.pre = s.pre /\ t.limit = s.limit /\ t.haltmask = s.haltmask
    BY <1>1, <1>2, SMT DEF SctNames
  <2>2. /\ t.stopmask = s.stopmask /\ t.startmask = s.startmask /\ t.regmode = s.regmode
        /\ t.dirctrl = s.dirctrl /\ t.res = s.res
    BY <1>1, <1>2, SMT DEF SctNames
  <2>3. /\ t.even = s.even /\ t.reload = s.reload
        /\ t.ev = s.ev /\ t.set = s.set /\ t.clr = s.clr
    BY <1>1, <1>2, SMT DEF SctNames
  <2>4. QED
    BY <2>1, <2>2, <2>3
<1>5. /\ Timer!Clocked(s, "l") /\ ~Timer!Clocked(s, "h")
      /\ Timer!Running(s, "l") /\ ~Timer!Running(s, "h")
  BY DEF Timer!Clocked, Timer!Running, Up, Plain, Timer!Pair, Timer!Halves
<1>6. Timer!Limited(s, "l", E) <=> Count(s) = Reg(s, 0)
  BY <1>5 DEF Timer!Limited, Timer!Matches, Timer!Value, Count, Reg, Up, Plain, Timer!Pair,
              Timer!Halves
<1>7. phase = Timer!Pair(0, 0)
  <2>1. phase = [x \in Timer!Halves |-> IF x = "l" THEN (0 + 1) % 1 ELSE 0]
    BY <1>5 DEF phase, Up, Timer!Pair, Timer!Halves
  <2>2. (0 + 1) % 1 = 0
    OBVIOUS
  <2>3. QED
    BY <2>1, <2>2 DEF Timer!Pair, Timer!Halves
<1>8. down = {}
  BY <1>5 DEF down, Timer!Turned, Up, Plain
<1>9. halt = s.halt /\ stop = s.stop
  BY DEF halt, stop, Up, Plain, Timer!Counters, Timer!Pair, Timer!Halves
<1>10. match = [x \in Halves |-> IF Count(s) = Reg(s, 0) THEN s.reload[x] ELSE s.match[x]]
  BY <1>6 DEF match, Timer!Reloaded, Up, Timer!Halves, Halves
<1>11. MatchRegs(match)
  <2>1. CASE Count(s) = Reg(s, 0)
    <3>1. match = s.reload
      BY <1>10, <2>1 DEF Up, Registers, MatchRegs
    <3>2. QED
      BY <3>1 DEF Up, Registers
  <2>2. CASE Count(s) # Reg(s, 0)
    <3>1. match = s.match
      BY <1>10, <2>2 DEF Up, Registers, MatchRegs
    <3>2. QED
      BY <3>1 DEF Up, Registers
  <2>3. QED
    BY <2>1, <2>2
<1>12. Up(t)
  <2>1. Registers(t)
    BY <1>3, <1>4, <1>11 DEF Up, Registers
  <2>2. Plain(t)
    BY <1>3, <1>4, <1>8, <1>9 DEF Up, Plain, Timer!Outputs
  <2>3. QED
    BY <1>3, <1>4, <1>7, <1>9, <2>1, <2>2 DEF Up
<1>13. \A o \in Timer!Outputs : ~Timer!Reversed(s, o)
  BY DEF Timer!Reversed, Up, Plain
<1>14. conflicts = {o \in Timer!Outputs : s.set[o] \cap E # {} /\ s.clr[o] \cap E # {}}
  BY <1>13 DEF conflicts, Timer!Sets, Timer!Clears
<1>15. ASSUME NEW o \in Timer!Outputs, s.set[o] \cap E = {} \/ s.clr[o] \cap E = {}
       PROVE  o \in t.out <=> s.set[o] \cap E # {} \/ (o \in s.out /\ s.clr[o] \cap E = {})
  <2>1. o \in t.out <=> Timer!OutputHigh(s, o, E)
    BY <1>3, <1>15 DEF out
  <2>2. QED
    BY <1>13, <1>15, <2>1 DEF Timer!OutputHigh, Timer!Sets, Timer!Clears
<1>16. ASSUME NEW o \in Timer!Outputs, s.set[o] \cap E # {}, s.clr[o] \cap E # {}
       PROVE  o \in t.out <=> o \in s.out
  <2>1. o \in t.out <=> Timer!OutputHigh(s, o, E)
    BY <1>3 DEF out
  <2>2. s.res[o] = 0
    BY DEF Up, Plain
  <2>3. QED
    BY <1>13, <1>16, <2>1, <2>2 DEF Timer!OutputHigh, Timer!Sets, Timer!Clears
<1>17. State(t) = Timer!NextState(s, "l", E) /\ (t.state = s.state => State(t) = State(s))
  BY <1>3 DEF State, state, Timer!Halves
<1>18. \A n : Rel(t, n) = Rel(s, n)
  BY <1>4 DEF Rel
<1>19. new = IF Count(s) = Reg(s, 0) THEN 0 ELSE (Count(s) + 1) % (W * W)
  BY <1>5, <1>6 DEF new, Timer!NextCount, Timer!Turned, Timer!Value, Count, Up, Plain
<1>20. new \in Nat
  <2> DEFINE n == W * W
             k == Count(s) + 1
  <2>1. n \in Nat /\ n > 0 /\ k \in Nat
    BY CounterWidth
  <2> HIDE DEF n, k
  <2>2. k % n \in Nat
    BY <2>1
  <2>3. QED
    BY <1>19, <2>2 DEF n, k
<1>21. Count(t) = new
  BY <1>3, <1>20, WholeOfSplit DEF Count, number
<1>22. /\ Count(s) # Reg(s, 0) => \A n : Reg(t, n) = Reg(s, n)
       /\ Count(s) = Reg(s, 0) => \A n : Reg(t, n) = Rel(s, n)
  <2>1. \A n : Reg(s, n) = Timer!Whole([y \in Halves |-> s.match[y][n]])
    BY DEF Reg, Timer!RegValue, Timer!Value, Up, Timer!Halves, Halves
  <2>2. \A n : Reg(t, n) = Timer!Whole([y \in Halves |-> t.match[y][n]])
    BY <1>12 DEF Reg, Timer!RegValue, Timer!Value, Up, Timer!Halves, Halves
  <2>3. \A n, y : /\ Count(s) # Reg(s, 0) /\ y \in Halves => t.match[y][n] = s.match[y][n]
                  /\ Count(s) = Reg(s, 0) /\ y \in Halves => t.match[y][n] = s.reload[y][n]
    BY <1>3, <1>10
  <2>4. QED
    BY <2>1, <2>2, <2>3 DEF Rel, Timer!Whole, Halves
<1>23. QED
  BY <1>3, <1>4, <1>12, <1>14, <1>15, <1>16, <1>17, <1>18, <1>19, <1>21, <1>22

-----------------------------------------------------------------------------
(* The calls that set the timer up.                                        *)

\* Between the first call and the last.
SettingUp(s) ==
  /\ Registers(s) /\ Plain(s)
  /\ s.unify = TRUE /\ s.autolimit = {"l"} /\ s.noreload = {} /\ s.halt = Halves
  /\ s.pre = Timer!Pair(1, 1) /\ s.phase = Timer!Pair(0, 0)
  /\ s.count = Timer!Pair(0, 0) /\ s.state = Timer!Pair(0, 0)
  /\ s.out = {} /\ s.evflag = {} /\ s.conflag = {}

\* After reset both halves are halted, and no event does anything.
LEMMA ResetRegisters ==
  LET s == Timer!Reset
  IN  /\ Registers(s) /\ Plain(s) /\ s.halt = Halves
      /\ s.pre = Timer!Pair(1, 1) /\ s.phase = Timer!Pair(0, 0)
      /\ s.count = Timer!Pair(0, 0) /\ s.state = Timer!Pair(0, 0)
      /\ s.out = {} /\ s.evflag = {} /\ s.conflag = {} /\ s.even = {}
      /\ s.set = [o \in Timer!Outputs |-> {}] /\ s.clr = [o \in Timer!Outputs |-> {}]
      /\ \A e \in Timer!Events : Never(s, e)
<1> DEFINE s == Timer!Reset
           zeros == [n \in Timer!Regs |-> 0]
           none == [match |-> 0, half |-> "l", comb |-> "or", io |-> 0, cond |-> "low",
                    load |-> FALSE, statev |-> 0, states |-> {}]
<1>1. /\ DOMAIN s = SctNames /\ s = [f \in SctNames |-> s[f]]
      /\ s.limit = Timer!Pair({}, {}) /\ s.haltmask = Timer!Pair({}, {})
      /\ s.stopmask = Timer!Pair({}, {}) /\ s.startmask = Timer!Pair({}, {})
      /\ s.regmode = Timer!Pair({}, {}) /\ s.down = {} /\ s.bidir = {} /\ s.stop = {}
      /\ s.dirctrl = [o \in Timer!Outputs |-> 0] /\ s.res = [o \in Timer!Outputs |-> 0]
  BY DEF Timer!Reset, SctNames
<1>2. /\ s.halt = Timer!Halves
      /\ s.pre = Timer!Pair(1, 1) /\ s.phase = Timer!Pair(0, 0)
      /\ s.count = Timer!Pair(0, 0) /\ s.state = Timer!Pair(0, 0)
      /\ s.out = {} /\ s.evflag = {} /\ s.conflag = {} /\ s.even = {}
      /\ s.set = [o \in Timer!Outputs |-> {}] /\ s.clr = [o \in Timer!Outputs |-> {}]
  BY DEF Timer!Reset
<1>3. /\ s.match = Timer!Pair(zeros, zeros) /\ s.reload = Timer!Pair(zeros, zeros)
      /\ s.ev = [e \in Timer!Events |-> none]
  BY DEF Timer!Reset
<1> HIDE DEF s
<1>4. MatchRegs(s.match) /\ MatchRegs(s.reload)
  BY <1>3 DEF MatchRegs, Timer!Pair, Timer!Halves, Halves
<1>5. \A e \in Timer!Events : Never(s, e)
  BY <1>3 DEF Never
<1>6. DOMAIN s.ev = Timer!Events
  BY <1>3
<1> HIDE DEF zeros, none
<1>7. Registers(s)
  BY <1>1, <1>2, <1>4, <1>6 DEF Registers
<1>8. Plain(s)
  BY <1>1 DEF Plain
<1>9. QED
  BY <1>2, <1>5, <1>7, <1>8 DEF s, Halves, Timer!Halves

\* sct_config for one counter of both halves, to count up to a limit.
LEMMA ConfigUp ==
  ASSUME NEW s, s = Timer!sct_config(Timer!Reset, TRUE, {}, {"l"})
  PROVE  /\ SettingUp(s) /\ s.even = {}
         /\ s.set = [o \in Timer!Outputs |-> {}] /\ s.clr = [o \in Timer!Outputs |-> {}]
         /\ \A e \in Timer!Events : Never(s, e)
<1> DEFINE r == Timer!Reset
<1>1. s = [r EXCEPT !.unify = TRUE, !.noreload = {}, !.autolimit = {"l"}]
  BY DEF Timer!sct_config
<1> HIDE DEF r
<1>2. /\ Registers(r) /\ Plain(r) /\ r.halt = Halves
      /\ r.pre = Timer!Pair(1, 1) /\ r.phase = Timer!Pair(0, 0)
      /\ r.count = Timer!Pair(0, 0) /\ r.state = Timer!Pair(0, 0)
      /\ r.out = {} /\ r.evflag = {} /\ r.conflag = {} /\ r.even = {}
      /\ r.set = [o \in Timer!Outputs |-> {}] /\ r.clr = [o \in Timer!Outputs |-> {}]
      /\ \A e \in Timer!Events : Never(r, e)
  BY ResetRegisters DEF r
<1>3. DOMAIN r = SctNames /\ r = [f \in SctNames |-> r[f]]
  BY <1>2 DEF Registers
<1>4. /\ DOMAIN s = SctNames /\ s = [f \in SctNames |-> s[f]]
      /\ s.unify = TRUE /\ s.noreload = {} /\ s.autolimit = {"l"}
      /\ \A f \in SctNames \ {"unify", "noreload", "autolimit"} : s[f] = r[f]
  BY <1>1, <1>3 DEF SctNames
<1>5. /\ s.match = r.match /\ s.reload = r.reload /\ s.ev = r.ev /\ s.set = r.set
      /\ s.clr = r.clr /\ s.limit = r.limit /\ s.haltmask = r.haltmask
      /\ s.stopmask = r.stopmask /\ s.startmask = r.startmask /\ s.regmode = r.regmode
      /\ s.down = r.down /\ s.bidir = r.bidir /\ s.stop = r.stop /\ s.dirctrl = r.dirctrl
      /\ s.res = r.res /\ s.halt = r.halt /\ s.pre = r.pre /\ s.phase = r.phase
      /\ s.count = r.count /\ s.state = r.state /\ s.out = r.out /\ s.evflag = r.evflag
      /\ s.conflag = r.conflag /\ s.even = r.even
  BY <1>4 DEF SctNames
<1>6. Registers(s)
  <2>1. Registers(r)
    BY <1>2
  <2>2. QED
    BY <1>4, <1>5, <2>1 DEF Registers
<1>7. Plain(s)
  BY <1>2, <1>5 DEF Plain
<1>8. \A e \in Timer!Events : Never(s, e)
  BY <1>2, <1>5 DEF Never
<1>9. QED
  BY <1>2, <1>4, <1>5, <1>6, <1>7, <1>8 DEF SettingUp

\* Registers t as s, but for the match registers.
SameButMatch(t, s) ==
  /\ Registers(t)
  /\ \A f \in SctNames \ {"match", "reload"} : t[f] = s[f]

\* One counter of 32 bits, and match registers of as many.
Unified(s) == s.unify = TRUE

\* The value that both halves of register n hold.
Held(r, n) == r["l"][n] + W * r["h"][n]

\* What a match register of the whole counter holds.
LEMMA HeldIs ==
  ASSUME NEW s, NEW n
  PROVE  /\ Unified(s) => Reg(s, n) = Held(s.match, n)
         /\ Rel(s, n) = Held(s.reload, n)
BY DEF Unified, Reg, Rel, Held, Timer!RegValue, Timer!Value, Timer!Whole, Timer!Halves, Halves

\* Writes to register n of both halves.
Put(r, n, v)       == Timer!WriteReg(r, "", n, Timer!Split(v))
PutReload(s, n, v) == Timer!sct_set_match_reload(s, "", n, Timer!Split(v))
PutBoth(s, n, v)   == Timer!sct_set_match_and_reload(s, "", n, Timer!Split(v))

\* A register of the whole counter holds what was written to it.
LEMMA Written ==
  ASSUME NEW r, MatchRegs(r), NEW n \in Timer!Regs, NEW v \in Nat, NEW q, q = Put(r, n, v)
  PROVE  /\ MatchRegs(q) /\ Held(q, n) = v
         /\ \A m \in Timer!Regs : m # n => Held(q, m) = Held(r, m)
<1> DEFINE p == Timer!Split(v)
<1>1. q = [x \in Halves |-> [r[x] EXCEPT ![n] = p[x]]]
  BY DEF Put, Timer!WriteReg, Timer!Halves, Halves
<1>2. p["l"] + W * p["h"] = v
  BY WholeOfSplit DEF Timer!Whole
<1> HIDE DEF p
<1>3. ASSUME NEW x \in Halves
      PROVE  /\ r[x] = [m \in Timer!Regs |-> r[x][m]]
             /\ q[x] = [m \in Timer!Regs |-> IF m = n THEN p[x] ELSE r[x][m]]
  <2>1. r[x] = [m \in Timer!Regs |-> r[x][m]]
    BY DEF MatchRegs
  <2>2. q[x] = [r[x] EXCEPT ![n] = p[x]]
    BY <1>1
  <2>3. QED
    BY <2>1, <2>2, Zenon
<1>4. MatchRegs(q)
  BY <1>1, <1>3 DEF MatchRegs
<1>5. \A x \in Halves : q[x][n] = p[x] /\ \A m \in Timer!Regs : m # n => q[x][m] = r[x][m]
  BY <1>3
<1>6. QED
  BY <1>2, <1>4, <1>5 DEF Halves, Held

\* sct_set_match and sct_set_match_reload with the same value.
LEMMA MatchAndReload ==
  ASSUME NEW s, Registers(s), Unified(s), NEW n \in Timer!Regs, NEW v \in Nat,
         NEW t, t = PutBoth(s, n, v)
  PROVE  /\ SameButMatch(t, s) /\ Reg(t, n) = v /\ Rel(t, n) = v
         /\ \A m \in Timer!Regs : m # n => Reg(t, m) = Reg(s, m) /\ Rel(t, m) = Rel(s, m)
<1> DEFINE q1 == Put(s.match, n, v)
           q2 == Put(s.reload, n, v)
           u == [s EXCEPT !.match = q1]
<1>1. /\ DOMAIN s = SctNames /\ s = [f \in SctNames |-> s[f]]
      /\ MatchRegs(s.match) /\ MatchRegs(s.reload)
  BY DEF Registers
<1>2. u.reload = s.reload
  BY <1>1 DEF SctNames
<1>3. t = [u EXCEPT !.reload = q2]
  BY <1>2, Zenon DEF PutBoth, Put, Timer!sct_set_match_and_reload, Timer!sct_set_match_reload,
                     Timer!sct_set_match
<1>4. /\ MatchRegs(q1) /\ Held(q1, n) = v
      /\ \A m \in Timer!Regs : m # n => Held(q1, m) = Held(s.match, m)
  BY <1>1, Written
<1>5. /\ MatchRegs(q2) /\ Held(q2, n) = v
      /\ \A m \in Timer!Regs : m # n => Held(q2, m) = Held(s.reload, m)
  BY <1>1, Written
<1> HIDE DEF q1, q2
<1>6. /\ DOMAIN t = SctNames /\ t = [f \in SctNames |-> t[f]]
      /\ t.match = q1 /\ t.reload = q2
      /\ \A f \in SctNames \ {"match", "reload"} : t[f] = s[f]
  BY <1>1, <1>3 DEF SctNames
<1>7. t.ev = s.ev /\ t.set = s.set /\ t.clr = s.clr /\ Unified(t)
  BY <1>6 DEF SctNames, Unified
<1>8. SameButMatch(t, s)
  BY <1>4, <1>5, <1>6, <1>7 DEF SameButMatch, Registers
<1>9. \A m : /\ Reg(t, m) = Held(q1, m) /\ Reg(s, m) = Held(s.match, m)
             /\ Rel(t, m) = Held(q2, m) /\ Rel(s, m) = Held(s.reload, m)
  BY <1>6, <1>7, HeldIs
<1>10. QED
  BY <1>4, <1>5, <1>8, <1>9

\* sct_set_match_reload changes no match register.
LEMMA Reload ==
  ASSUME NEW s, Registers(s), Unified(s), NEW n \in Timer!Regs, NEW v \in Nat,
         NEW t, t = PutReload(s, n, v)
  PROVE  /\ SameButMatch(t, s) /\ Rel(t, n) = v
         /\ \A m \in Timer!Regs : m # n => Rel(t, m) = Rel(s, m)
         /\ \A m : Reg(t, m) = Reg(s, m)
<1> DEFINE q == Put(s.reload, n, v)
<1>1. /\ DOMAIN s = SctNames /\ s = [f \in SctNames |-> s[f]] /\ MatchRegs(s.reload)
  BY DEF Registers
<1>2. t = [s EXCEPT !.reload = q]
  BY Zenon DEF PutReload, Put, Timer!sct_set_match_reload
<1>3. /\ MatchRegs(q) /\ Held(q, n) = v
      /\ \A m \in Timer!Regs : m # n => Held(q, m) = Held(s.reload, m)
  BY <1>1, Written
<1> HIDE DEF q
<1>4. /\ DOMAIN t = SctNames /\ t = [f \in SctNames |-> t[f]] /\ t.reload = q
      /\ \A f \in SctNames \ {"reload"} : t[f] = s[f]
  BY <1>1, <1>2 DEF SctNames
<1>5. /\ t.ev = s.ev /\ t.set = s.set /\ t.clr = s.clr /\ t.match = s.match /\ Unified(t)
  BY <1>4 DEF SctNames, Unified
<1>6. SameButMatch(t, s)
  BY <1>3, <1>4, <1>5 DEF SameButMatch, Registers
<1>7. \A m : Rel(t, m) = Held(q, m) /\ Rel(s, m) = Held(s.reload, m)
  BY <1>4, HeldIs
<1>8. \A m : Reg(t, m) = Held(s.match, m) /\ Reg(s, m) = Held(s.match, m)
  BY <1>5, HeldIs
<1>9. QED
  BY <1>3, <1>6, <1>7, <1>8

\* An action that no counter and no capture register is part of.
Quiet(action) ==
  /\ \A x \in Halves : /\ <<"limit", x>> \notin action /\ <<"halt", x>> \notin action
                       /\ <<"stop", x>> \notin action /\ <<"start", x>> \notin action
  /\ \A n, x : <<"capture", n, x>> \notin action

\* What an action does to interrupts and outputs.
Interrupts(action) == <<"int">> \in action
Loads(action) == <<"load">> \in action
Setting(action, o) == <<"set", o>> \in action
Clearing(action, o) == <<"clr", o>> \in action

\* What the control register of an event says.
EventIs(d, m, io, op, action, state) ==
  d = [match |-> m, half |-> op.half, comb |-> op.comb, io |-> io, cond |-> op.cond,
       load |-> <<"load">> \in action, statev |-> state, states |-> op.states]

\* Registers t as s, but for what an event does.
SameButEvents(t, s) ==
  /\ Registers(t)
  /\ \A f \in SctNames \ {"even", "set", "clr", "ev"} : t[f] = s[f]

\* What is added to the registers that name events.
Effects(t, s, e, action) ==
  /\ t.even = IF Interrupts(action) THEN s.even \cup {e} ELSE s.even
  /\ \A o \in Timer!Outputs :
       /\ t.set[o] = IF Setting(action, o) THEN s.set[o] \cup {e} ELSE s.set[o]
       /\ t.clr[o] = IF Clearing(action, o) THEN s.clr[o] \cup {e} ELSE s.clr[o]

\* The other events stay as they are.
Others(t, s, e) == \A d \in Timer!Events : d # e => t.ev[d] = s.ev[d]

\* An event is set up.
LEMMA EventSetUp ==
  ASSUME NEW s, Registers(s), Plain(s), NEW e \in Timer!Events, NEW m, NEW io, NEW op,
         NEW action, Quiet(action), NEW state,
         NEW t, t = Timer!sct_setup_event(s, e, m, io, op, action, state)
  PROVE  /\ SameButEvents(t, s) /\ Effects(t, s, e, action) /\ Others(t, s, e)
         /\ EventIs(t.ev[e], m, io, op, action, state)
<1> DEFINE record == [match |-> m, half |-> op.half, comb |-> op.comb, io |-> io,
                      cond |-> op.cond, load |-> <<"load">> \in action, statev |-> state,
                      states |-> op.states]
           set == Timer!AddingOutput(s.set, e, action, "set")
           clr == Timer!AddingOutput(s.clr, e, action, "clr")
           even == IF <<"int">> \in action THEN s.even \cup {e} ELSE s.even
<1>1. /\ Timer!Adding(s.limit, e, action, "limit") = s.limit
      /\ Timer!Adding(s.haltmask, e, action, "halt") = s.haltmask
      /\ Timer!Adding(s.stopmask, e, action, "stop") = s.stopmask
      /\ Timer!Adding(s.startmask, e, action, "start") = s.startmask
  BY DEF Timer!Adding, Quiet, Plain, Timer!Pair, Timer!Halves, Halves
<1>2. Timer!Marking(s.match, e, action) = s.match
  <2>1. ASSUME NEW n, NEW x PROVE <<"capture", n, x>> \notin Timer!Bits(action)
    <3>1. Timer!Bits(action) = action
      BY DEF Timer!Bits, Quiet
    <3>2. QED
      BY <3>1 DEF Quiet
  <2>2. Timer!Marking(s.match, e, action)
          = [x \in Halves |-> [n \in Timer!Regs |-> s.match[x][n]]]
    BY <2>1 DEF Timer!Marking, Timer!Halves, Halves
  <2>3. QED
    BY <2>2 DEF Registers, MatchRegs
<1>3. DOMAIN s = SctNames /\ s = [f \in SctNames |-> s[f]]
  BY DEF Registers
<1>4. t = [s EXCEPT !.limit = s.limit, !.haltmask = s.haltmask, !.stopmask = s.stopmask,
                    !.startmask = s.startmask, !.even = even, !.set = set, !.clr = clr,
                    !.match = s.match, !.ev[e] = record]
  BY <1>1, <1>2, <1>3, Zenon DEF Timer!sct_setup_event
<1> HIDE DEF record, set, clr, even
<1>5. /\ DOMAIN t = SctNames /\ t = [f \in SctNames |-> t[f]]
      /\ t.even = even /\ t.set = set /\ t.clr = clr /\ t.ev = [s.ev EXCEPT ![e] = record]
      /\ \A f \in SctNames \ {"even", "set", "clr", "ev"} : t[f] = s[f]
  <2>1. DOMAIN t = SctNames /\ t = [f \in SctNames |-> t[f]]
    BY <1>3, <1>4
  <2>2. /\ t.even = even /\ t.set = set /\ t.clr = clr /\ t.ev = [s.ev EXCEPT ![e] = record]
    BY <1>3, <1>4, ZenonT(40) DEF SctNames
  <2>3. /\ t.limit = s.limit /\ t.haltmask = s.haltmask /\ t.stopmask = s.stopmask
        /\ t.startmask = s.startmask /\ t.match = s.match
    BY <1>3, <1>4, ZenonT(40) DEF SctNames
  <2>4. \A f \in SctNames \ {"limit", "haltmask", "stopmask", "startmask", "match",
                             "even", "set", "clr", "ev"} : t[f] = s[f]
    BY <1>3, <1>4
  <2>5. QED
    BY <2>1, <2>2, <2>3, <2>4
<1>6. t.match = s.match /\ t.reload = s.reload
  BY <1>5 DEF SctNames
<1>7. /\ DOMAIN t.ev = Timer!Events /\ t.ev[e] = record
      /\ \A d \in Timer!Events : d # e => t.ev[d] = s.ev[d]
  <2>1. DOMAIN s.ev = Timer!Events
    BY DEF Registers
  <2>2. QED
    BY <1>5, <2>1
<1>8. /\ t.set = [o \in Timer!Outputs |->
                    IF <<"set", o>> \in action THEN s.set[o] \cup {e} ELSE s.set[o]]
      /\ t.clr = [o \in Timer!Outputs |->
                    IF <<"clr", o>> \in action THEN s.clr[o] \cup {e} ELSE s.clr[o]]
  BY <1>5 DEF set, clr, Timer!AddingOutput
<1>9. /\ DOMAIN t.set = Timer!Outputs /\ t.set = [o \in Timer!Outputs |-> t.set[o]]
      /\ DOMAIN t.clr = Timer!Outputs /\ t.clr = [o \in Timer!Outputs |-> t.clr[o]]
  BY <1>8
<1>10. Registers(t)
  BY <1>5, <1>6, <1>7, <1>9 DEF Registers
<1>11. QED
  BY <1>5, <1>7, <1>8, <1>10 DEF record, even, SameButEvents, Effects, Others, EventIs,
                                   Interrupts, Setting, Clearing

\* The last call.
Start(s) == Timer!sct_start_counter(s, "")

\* sct_start clears STOP and HALT of the counter.
LEMMA StartedIs ==
  ASSUME NEW s
  PROVE  Start(s) = [s EXCEPT !.stop = s.stop \ {"l"}, !.halt = s.halt \ {"l"}]
BY Zenon DEF Start, Timer!sct_start_counter, Timer!Half

\* What the setup of a timer that counts up has written.
LEMMA StartUp ==
  ASSUME NEW s, SettingUp(s), NEW t, t = Start(s)
  PROVE  /\ Up(t) /\ State(t) = 0 /\ Count(t) = 0
         /\ t.out = {} /\ t.evflag = {} /\ t.conflag = {}
         /\ t.even = s.even /\ t.ev = s.ev /\ t.set = s.set /\ t.clr = s.clr
         /\ \A n : Reg(t, n) = Reg(s, n) /\ Rel(t, n) = Rel(s, n)
<1>1. t = [s EXCEPT !.stop = s.stop \ {"l"}, !.halt = s.halt \ {"l"}]
  BY StartedIs
<1>2. DOMAIN s = SctNames /\ s = [f \in SctNames |-> s[f]]
  BY DEF SettingUp, Registers
<1>3. /\ DOMAIN t = SctNames /\ t = [f \in SctNames |-> t[f]]
      /\ t.stop = s.stop \ {"l"} /\ t.halt = s.halt \ {"l"}
      /\ \A f \in SctNames \ {"stop", "halt"} : t[f] = s[f]
  BY <1>1, <1>2 DEF SctNames
<1>4. /\ t.limit = s.limit /\ t.haltmask = s.haltmask /\ t.stopmask = s.stopmask
      /\ t.startmask = s.startmask /\ t.regmode = s.regmode /\ t.down = s.down
      /\ t.bidir = s.bidir /\ t.dirctrl = s.dirctrl /\ t.res = s.res
      /\ t.unify = s.unify /\ t.autolimit = s.autolimit /\ t.noreload = s.noreload
      /\ t.pre = s.pre /\ t.phase = s.phase /\ t.count = s.count /\ t.state = s.state
      /\ t.out = s.out /\ t.evflag = s.evflag /\ t.conflag = s.conflag /\ t.even = s.even
      /\ t.ev = s.ev /\ t.set = s.set /\ t.clr = s.clr
      /\ t.match = s.match /\ t.reload = s.reload
  BY <1>3 DEF SctNames
<1>5. t.stop = {} /\ t.halt = {"h"}
  BY <1>3 DEF SettingUp, Plain, Halves
<1>6. Registers(t)
  <2>1. Registers(s)
    BY DEF SettingUp
  <2>2. QED
    BY <1>3, <1>4, <2>1 DEF Registers
<1>7. Plain(t)
  BY <1>4, <1>5 DEF SettingUp, Plain
<1>8. Up(t)
  BY <1>4, <1>5, <1>6, <1>7 DEF SettingUp, Up
<1>9. State(t) = 0
  BY <1>4 DEF SettingUp, State, Timer!Pair, Timer!Halves
<1>10. Count(t) = 0
  <2>1. t.count["l"] = 0 /\ t.count["h"] = 0
    BY <1>4 DEF SettingUp, Timer!Pair, Timer!Halves
  <2>2. QED
    BY <2>1, CounterWidth DEF Count, Timer!Whole
<1>11. \A n : Reg(t, n) = Reg(s, n) /\ Rel(t, n) = Rel(s, n)
  <2>1. Unified(s) /\ Unified(t) /\ t.match = s.match /\ t.reload = s.reload
    BY <1>4 DEF SettingUp, Unified
  <2>2. QED
    BY <2>1, HeldIs
<1>12. QED
  BY <1>4, <1>8, <1>9, <1>10, <1>11 DEF SettingUp

\* What a write to match register n and its reload register leaves alone.
SameEvents(t, s) == t.even = s.even /\ t.ev = s.ev /\ t.set = s.set /\ t.clr = s.clr

MatchedAt(t, s, n, v) ==
  /\ Reg(t, n) = v /\ Rel(t, n) = v
  /\ \A m \in Timer!Regs : m # n => Reg(t, m) = Reg(s, m) /\ Rel(t, m) = Rel(s, m)

IsNumber(v) == v \in Nat

\* The setup goes on after a call.
LEMMA MatchKeeps ==
  ASSUME NEW s, SettingUp(s), NEW n \in Timer!Regs, NEW v, IsNumber(v),
         NEW t, t = PutBoth(s, n, v)
  PROVE  SettingUp(t) /\ MatchedAt(t, s, n, v) /\ SameEvents(t, s)
<1>1. Registers(s) /\ Unified(s)
  BY DEF SettingUp, Unified
<1>2. /\ SameButMatch(t, s) /\ Reg(t, n) = v /\ Rel(t, n) = v
      /\ \A m \in Timer!Regs : m # n => Reg(t, m) = Reg(s, m) /\ Rel(t, m) = Rel(s, m)
  BY <1>1, MatchAndReload, SMT DEF IsNumber
<1>3. /\ t.limit = s.limit /\ t.haltmask = s.haltmask /\ t.stopmask = s.stopmask
      /\ t.startmask = s.startmask /\ t.regmode = s.regmode /\ t.down = s.down
      /\ t.bidir = s.bidir /\ t.dirctrl = s.dirctrl /\ t.res = s.res
      /\ t.unify = s.unify /\ t.autolimit = s.autolimit /\ t.noreload = s.noreload
      /\ t.pre = s.pre /\ t.phase = s.phase /\ t.count = s.count /\ t.state = s.state
      /\ t.out = s.out /\ t.evflag = s.evflag /\ t.conflag = s.conflag /\ t.even = s.even
      /\ t.ev = s.ev /\ t.set = s.set /\ t.clr = s.clr
      /\ t.stop = s.stop /\ t.halt = s.halt
  BY <1>2 DEF SameButMatch, SctNames
<1>4. Plain(t)
  BY <1>3 DEF SettingUp, Plain
<1>5. SettingUp(t)
  BY <1>2, <1>3, <1>4 DEF SettingUp, SameButMatch
<1>6. QED
  BY <1>2, <1>3, <1>5 DEF MatchedAt, SameEvents

\* sct_setup_event without actions on counters changes nothing but its event.
LEMMA EventKeeps ==
  ASSUME NEW s, SettingUp(s), NEW e \in Timer!Events, NEW m, NEW io, NEW op,
         NEW action, Quiet(action), NEW state,
         NEW t, t = Timer!sct_setup_event(s, e, m, io, op, action, state)
  PROVE  /\ SettingUp(t)
         /\ \A n : Reg(t, n) = Reg(s, n) /\ Rel(t, n) = Rel(s, n)
<1>1. Registers(s) /\ Plain(s)
  BY DEF SettingUp
<1>2. SameButEvents(t, s)
  BY <1>1, EventSetUp
<1>3. /\ t.limit = s.limit /\ t.haltmask = s.haltmask /\ t.stopmask = s.stopmask
      /\ t.startmask = s.startmask /\ t.regmode = s.regmode /\ t.down = s.down
      /\ t.bidir = s.bidir /\ t.dirctrl = s.dirctrl /\ t.res = s.res
      /\ t.unify = s.unify /\ t.autolimit = s.autolimit /\ t.noreload = s.noreload
      /\ t.pre = s.pre /\ t.phase = s.phase /\ t.count = s.count /\ t.state = s.state
      /\ t.out = s.out /\ t.evflag = s.evflag /\ t.conflag = s.conflag
      /\ t.stop = s.stop /\ t.halt = s.halt /\ t.match = s.match /\ t.reload = s.reload
  BY <1>2 DEF SameButEvents, SctNames
<1>4. Plain(t)
  BY <1>3 DEF SettingUp, Plain
<1>5. SettingUp(t)
  BY <1>2, <1>3, <1>4 DEF SameButEvents, SettingUp
<1>6. \A n : Reg(t, n) = Reg(s, n) /\ Rel(t, n) = Rel(s, n)
  <2>1. Unified(s) /\ Unified(t) /\ t.match = s.match /\ t.reload = s.reload
    BY <1>3, <1>5 DEF SettingUp, Unified
  <2>2. QED
    BY <2>1, HeldIs
<1>7. QED
  BY <1>5, <1>6

\* The actions of the programs.
Out(name, o) == {<<name, o>>}
Load      == {<<"load">>}
Interrupt == {<<"int">>}
Pure      == {}

\* name is one of the two things that an event does to an output.
OutName(name) == name \in {"set", "clr"}

\* An action on an output does nothing else.
LEMMA OutActions ==
  ASSUME NEW name, OutName(name), NEW o
  PROVE  /\ Quiet(Out(name, o)) /\ ~Interrupts(Out(name, o)) /\ ~Loads(Out(name, o))
         /\ \A p : /\ Setting(Out(name, o), p) <=> (name = "set" /\ o = p)
                   /\ Clearing(Out(name, o), p) <=> (name = "clr" /\ o = p)
<1>1. Quiet(Out(name, o))
  BY DEF Quiet, Out, OutName
<1>2. ~Interrupts(Out(name, o)) /\ ~Loads(Out(name, o))
  BY DEF Interrupts, Loads, Out, OutName
<1>3. ASSUME NEW p
      PROVE  /\ Setting(Out(name, o), p) <=> (name = "set" /\ o = p)
             /\ Clearing(Out(name, o), p) <=> (name = "clr" /\ o = p)
  BY DEF Setting, Clearing, Out, OutName
<1>4. QED
  BY <1>1, <1>2, <1>3

\* The other actions do nothing to an output.
LEMMA OtherActions ==
  /\ Quiet(Load) /\ Quiet(Interrupt) /\ Quiet(Pure)
  /\ \A p : /\ ~Setting(Load, p) /\ ~Clearing(Load, p)
            /\ ~Setting(Interrupt, p) /\ ~Clearing(Interrupt, p)
            /\ ~Setting(Pure, p) /\ ~Clearing(Pure, p)
  /\ Interrupts(Interrupt) /\ ~Interrupts(Load) /\ ~Interrupts(Pure)
  /\ Loads(Load) /\ ~Loads(Interrupt) /\ ~Loads(Pure)
<1>1. Quiet(Load) /\ Quiet(Interrupt) /\ Quiet(Pure)
  BY DEF Quiet, Load, Interrupt, Pure
<1>2. ASSUME NEW p
      PROVE  /\ ~Setting(Load, p) /\ ~Clearing(Load, p)
             /\ ~Setting(Interrupt, p) /\ ~Clearing(Interrupt, p)
             /\ ~Setting(Pure, p) /\ ~Clearing(Pure, p)
  BY DEF Setting, Clearing, Load, Interrupt, Pure
<1>3. Interrupts(Interrupt) /\ ~Interrupts(Load) /\ ~Interrupts(Pure)
  BY DEF Interrupts, Load, Interrupt, Pure
<1>4. Loads(Load) /\ ~Loads(Interrupt) /\ ~Loads(Pure)
  BY DEF Loads, Load, Interrupt, Pure
<1>5. QED
  BY <1>1, <1>2, <1>3, <1>4

\* An event at match register n in state k.
MatchOp(k) == [half |-> "l", comb |-> "match", cond |-> "low", states |-> {k}]

SetupMatch(s, e, n, k, action) == Timer!sct_setup_event(s, e, n, 0, MatchOp(k), action, 0)

\* An event at a match, in one state or in all.
LEMMA MatchEvent ==
  ASSUME NEW s, SettingUp(s), NEW e \in Timer!Events, NEW n, NEW k, NEW action, Quiet(action),
         ~Loads(action), NEW t, t = SetupMatch(s, e, n, k, action)
  PROVE  /\ SettingUp(t) /\ At(t, e, n, k) /\ Others(t, s, e)
         /\ \A m : Reg(t, m) = Reg(s, m) /\ Rel(t, m) = Rel(s, m)
         /\ Effects(t, s, e, action)
<1> DEFINE op == MatchOp(k)
           zero == 0
<1>1. t = Timer!sct_setup_event(s, e, n, zero, op, action, zero)
  BY DEF SetupMatch
<1> HIDE DEF op, zero
<1>2. SettingUp(t) /\ \A m : Reg(t, m) = Reg(s, m) /\ Rel(t, m) = Rel(s, m)
  BY <1>1, EventKeeps
<1>3. Registers(s) /\ Plain(s)
  BY DEF SettingUp
<1>4. EventIs(t.ev[e], n, zero, op, action, zero) /\ Others(t, s, e) /\ Effects(t, s, e, action)
  BY <1>1, <1>3, EventSetUp
<1>5. ~t.ev[e].load
  <2> DEFINE d == t.ev[e]
             io == zero
  <2>1. d = [match |-> n, half |-> op.half, comb |-> op.comb, io |-> io, cond |-> op.cond,
             load |-> <<"load">> \in action, statev |-> zero, states |-> op.states]
    BY <1>4 DEF EventIs
  <2> HIDE DEF d
  <2>2. d.load = (<<"load">> \in action)
    BY <2>1, Zenon
  <2>3. QED
    BY <2>2, Zenon DEF Loads, d
<1>6. At(t, e, n, k)
  BY <1>4, <1>5 DEF EventIs, At, op, MatchOp, zero
<1>7. QED
  BY <1>2, <1>4, <1>6

\* What an event that sets or clears an output adds.
SameMatch(t, s) == \A m : Reg(t, m) = Reg(s, m) /\ Rel(t, m) = Rel(s, m)

AddsSet(t, s, e, o) ==
  /\ t.even = s.even
  /\ \A p \in Timer!Outputs : t.set[p] = (IF p = o THEN s.set[p] \cup {e} ELSE s.set[p])
  /\ \A p \in Timer!Outputs : t.clr[p] = s.clr[p]

AddsClr(t, s, e, o) ==
  /\ t.even = s.even
  /\ \A p \in Timer!Outputs : t.clr[p] = (IF p = o THEN s.clr[p] \cup {e} ELSE s.clr[p])
  /\ \A p \in Timer!Outputs : t.set[p] = s.set[p]

\* Nothing happens at the outputs.
SameOutputs(t, s) ==
  \A p \in Timer!Outputs : t.set[p] = s.set[p] /\ t.clr[p] = s.clr[p]

\* An event at a match that sets or clears an output.
LEMMA OutputEvent ==
  ASSUME NEW s, SettingUp(s), NEW e \in Timer!Events, NEW n, NEW k, NEW o,
         NEW name, OutName(name), NEW t, t = SetupMatch(s, e, n, k, Out(name, o))
  PROVE  /\ SettingUp(t) /\ At(t, e, n, k) /\ Others(t, s, e) /\ SameMatch(t, s)
         /\ name = "set" => AddsSet(t, s, e, o)
         /\ name = "clr" => AddsClr(t, s, e, o)
<1> DEFINE action == Out(name, o)
<1>1. /\ Quiet(action) /\ ~Interrupts(action) /\ ~Loads(action)
      /\ \A p : /\ Setting(action, p) <=> (name = "set" /\ o = p)
                /\ Clearing(action, p) <=> (name = "clr" /\ o = p)
  BY OutActions
<1> HIDE DEF action
<1>2. t = SetupMatch(s, e, n, k, action)
  BY DEF action
<1>3. /\ SettingUp(t) /\ At(t, e, n, k) /\ Others(t, s, e)
      /\ \A m : Reg(t, m) = Reg(s, m) /\ Rel(t, m) = Rel(s, m)
      /\ Effects(t, s, e, action)
  BY <1>1, <1>2, MatchEvent
<1>4. name = "set" => AddsSet(t, s, e, o)
  BY <1>1, <1>3 DEF Effects, AddsSet
<1>5. name = "clr" => AddsClr(t, s, e, o)
  BY <1>1, <1>3 DEF Effects, AddsClr
<1>6. QED
  BY <1>3, <1>4, <1>5 DEF SameMatch

\* What both programs with one counter of 32 bits begin with.
Begin == Timer!sct_config(Timer!Reset, TRUE, {}, {"l"})

\* The timer after sct_config.
LEMMA BeginIs ==
  /\ SettingUp(Begin) /\ Begin.even = {}
  /\ \A o \in Timer!Outputs : Begin.set[o] = {} /\ Begin.clr[o] = {}
  /\ \A e \in Timer!Events : Never(Begin, e)
<1>1. /\ SettingUp(Begin) /\ Begin.even = {}
      /\ Begin.set = [o \in Timer!Outputs |-> {}] /\ Begin.clr = [o \in Timer!Outputs |-> {}]
      /\ \A e \in Timer!Events : Never(Begin, e)
  BY ConfigUp, Zenon DEF Begin
<1>2. QED
  BY <1>1

\* Numbers of the registers.
LEMMA Numbers ==
  /\ 0 \in Timer!Regs /\ 1 \in Timer!Regs /\ 2 \in Timer!Regs /\ 3 \in Timer!Regs
  /\ 4 \in Timer!Regs
  /\ 0 \in Timer!Events /\ 1 \in Timer!Events /\ 2 \in Timer!Events /\ 3 \in Timer!Events
  /\ 4 \in Timer!Events /\ 5 \in Timer!Events
  /\ 0 \in Timer!Outputs /\ 1 \in Timer!Outputs
BY DEF Timer!Regs, Timer!Events, Timer!Outputs


-----------------------------------------------------------------------------
(* The dimmer.                                                             *)

\* A width is inside the period.
LEMMA WidthInside ==
  ASSUME NEW period \in Nat, NEW steps \in Nat \ {0}, NEW k \in Nat, k <= steps
  PROVE  /\ (period \div steps) * k \in Nat
         /\ (period \div steps) * k <= period
         /\ k < steps /\ period >= steps => (period \div steps) * k < period
<1> DEFINE q == period \div steps
<1>1. q \in Nat /\ q * steps <= period
  BY SMT
<1>2. period >= steps => q >= 1
  BY SMT
<1> HIDE DEF q
<1>3. q * k \in Nat /\ q * k <= q * steps
  BY <1>1, SMT
<1>4. k < steps /\ q >= 1 => q * k < q * steps
  BY <1>1, SMT
<1>5. QED
  BY <1>1, <1>2, <1>3, <1>4 DEF q

\* acmp.c as a program whose first reload is of the width k.
DimmerWidth(k) == (Period \div LadderSteps) * k

\* The widths of the dimmer are inside its period.
LEMMA DimmerWidthInside ==
  ASSUME NEW k \in 0 .. LadderSteps
  PROVE  DimmerWidth(k) \in 0 .. Period
<1>1. Period \in Nat /\ LadderSteps \in Nat \ {0}
  BY SctAssumption DEF SctAssumption
<1>2. QED
  BY <1>1, WidthInside DEF DimmerWidth

\* The calls of the program are those above.
LEMMA DimmerCalls ==
  /\ \A s, n, v : Dimmer!Match(s, n, v) = PutBoth(s, n, v)
  /\ Dimmer!Timer!sct_config(Dimmer!Timer!Reset, TRUE, {}, {"l"}) = Begin
  /\ \A s, e, n, name, o :
       Dimmer!Timer!sct_setup_event(s, e, n, 0, Dimmer!Op, Out(name, o), 0)
         = SetupMatch(s, e, n, 0, Out(name, o))
  /\ \A s : Dimmer!Timer!sct_start_counter(s, "") = Start(s)
<1>1. \A s, n, v : Dimmer!Match(s, n, v) = PutBoth(s, n, v)
  BY DEF Dimmer!Match, PutBoth, Dimmer!Timer!sct_set_match_and_reload,
         Dimmer!Timer!sct_set_match_reload, Dimmer!Timer!sct_set_match, Dimmer!Timer!WriteReg,
         Dimmer!Timer!Split, Dimmer!Timer!Pair, Dimmer!Timer!Halves,
         Timer!sct_set_match_and_reload, Timer!sct_set_match_reload, Timer!sct_set_match,
         Timer!WriteReg, Timer!Split, Timer!Pair, Timer!Halves
<1>2. Dimmer!Timer!sct_config(Dimmer!Timer!Reset, TRUE, {}, {"l"}) = Begin
  BY DEF Begin, Dimmer!Timer!sct_config, Dimmer!Timer!Reset, Dimmer!Timer!Pair,
         Dimmer!Timer!Halves, Dimmer!Timer!Outputs, Dimmer!Timer!Regs, Dimmer!Timer!Events,
         Timer!sct_config, Timer!Reset, Timer!Pair, Timer!Halves,
         Timer!Outputs, Timer!Regs, Timer!Events
<1>3. \A s, e, n, name, o :
        Dimmer!Timer!sct_setup_event(s, e, n, 0, Dimmer!Op, Out(name, o), 0)
          = SetupMatch(s, e, n, 0, Out(name, o))
  BY DEF SetupMatch, MatchOp, Dimmer!Op, Dimmer!Timer!sct_setup_event,
         Dimmer!Timer!Adding, Dimmer!Timer!AddingOutput, Dimmer!Timer!Marking,
         Dimmer!Timer!SetBit, Dimmer!Timer!Bits, Dimmer!Timer!Halves, Dimmer!Timer!Outputs,
         Dimmer!Timer!Regs, Timer!sct_setup_event, Timer!Adding, Timer!AddingOutput,
         Timer!Marking, Timer!SetBit, Timer!Bits, Timer!Halves, Timer!Outputs, Timer!Regs
<1>4. \A s : Dimmer!Timer!sct_start_counter(s, "") = Start(s)
  BY DEF Start, Dimmer!Timer!sct_start_counter, Dimmer!Timer!Half, Timer!sct_start_counter,
         Timer!Half
<1>5. QED
  BY <1>1, <1>2, <1>3, <1>4

\* The counter is set up.
LEMMA DimmerSetup ==
  ASSUME NEW s, s = Dimmer!sct_setup
  PROVE  /\ Up(s) /\ State(s) = 0 /\ Count(s) = 0
         /\ At(s, 0, 1, 0) /\ At(s, 1, 2, 0)
         /\ \A e \in Timer!Events \ {0, 1} : Never(s, e)
         /\ s.set[0] = {0} /\ s.clr[0] = {1}
         /\ Reg(s, 0) = Period - 1 /\ Rel(s, 0) = Period - 1
         /\ Reg(s, 1) = 0 /\ Rel(s, 1) = 0
         /\ Reg(s, 2) = DimmerWidth(1) /\ Rel(s, 2) = DimmerWidth(1)
<1> DEFINE p == Period - 1
           z == 0
           w == DimmerWidth(1)
<1>1. IsNumber(p) /\ IsNumber(z) /\ IsNumber(w)
  <2>1. Period \in Nat /\ LadderSteps \in Nat \ {0} /\ Period >= LadderSteps
    BY SctAssumption DEF SctAssumption
  <2>2. w \in 0 .. Period
    BY <2>1, DimmerWidthInside
  <2> HIDE DEF w
  <2>3. QED
    BY <2>1, <2>2 DEF IsNumber
<1> HIDE DEF p, z, w
<1> DEFINE a == Begin
           b0 == PutBoth(a, 0, p)
           b1 == PutBoth(b0, 1, z)
           b2 == PutBoth(b1, 2, w)
           c == SetupMatch(b2, 0, 1, 0, Out("set", 0))
           d == SetupMatch(c, 1, 2, 0, Out("clr", 0))
<1>3. b0 = PutBoth(a, 0, p) /\ b1 = PutBoth(b0, 1, z) /\ b2 = PutBoth(b1, 2, w)
  OBVIOUS
<1>4. c = SetupMatch(b2, 0, 1, 0, Out("set", 0)) /\ d = SetupMatch(c, 1, 2, 0, Out("clr", 0))
  OBVIOUS
<1>5. /\ SettingUp(a)
      /\ \A o \in Timer!Outputs : a.set[o] = {} /\ a.clr[o] = {}
      /\ \A e \in Timer!Events : Never(a, e)
  BY BeginIs
<1>6. OutName("set") /\ OutName("clr")
  BY DEF OutName
<1> HIDE DEF a, b0, b1, b2, c, d
<1>2. s = Start(d)
  <2> DEFINE x == Dimmer!Timer!sct_config(Dimmer!Timer!Reset, TRUE, {}, {"l"})
             y0 == Dimmer!Match(x, 0, Period - 1)
             y1 == Dimmer!Match(y0, 1, 0)
             y2 == Dimmer!Match(y1, 2, Dimmer!Width(1))
             e0 == Dimmer!Timer!sct_setup_event(y2, 0, 1, 0, Dimmer!Op, Out("set", 0), 0)
             e1 == Dimmer!Timer!sct_setup_event(e0, 1, 2, 0, Dimmer!Op, Out("clr", 0), 0)
  <2>1. s = Dimmer!Timer!sct_start_counter(e1, "")
    BY DEF Dimmer!sct_setup, Out
  <2>2. /\ x = Begin /\ y0 = PutBoth(x, 0, p) /\ y1 = PutBoth(y0, 1, z)
        /\ y2 = PutBoth(y1, 2, w)
    BY DimmerCalls, Zenon DEF p, z, w, Dimmer!Width, DimmerWidth
  <2>3. e0 = SetupMatch(y2, 0, 1, 0, Out("set", 0)) /\ e1 = SetupMatch(e0, 1, 2, 0, Out("clr", 0))
    <3>1. \A t1, e, n, name, o :
            Dimmer!Timer!sct_setup_event(t1, e, n, 0, Dimmer!Op, Out(name, o), 0)
              = SetupMatch(t1, e, n, 0, Out(name, o))
      BY DimmerCalls, Zenon
    <3> HIDE DEF y2
    <3>2. e0 = SetupMatch(y2, 0, 1, 0, Out("set", 0))
      BY <3>1, SMT
    <3> HIDE DEF e0
    <3>3. e1 = SetupMatch(e0, 1, 2, 0, Out("clr", 0))
      BY <3>1, SMT
    <3>4. QED
      BY <3>2, <3>3
  <2>4. Dimmer!Timer!sct_start_counter(e1, "") = Start(e1)
    BY DimmerCalls, Zenon
  <2> HIDE DEF x, y0, y1, y2, e0, e1
  <2>5. y0 = b0 /\ y1 = b1 /\ y2 = b2
    BY <1>3, <2>2 DEF a
  <2>6. e1 = d
    BY <1>4, <2>3, <2>5
  <2>7. QED
    BY <2>1, <2>4, <2>6, Zenon
<1>7. SettingUp(b0) /\ MatchedAt(b0, a, 0, p) /\ SameEvents(b0, a)
  BY <1>1, <1>3, <1>5, Numbers, MatchKeeps
<1>8. SettingUp(b1) /\ MatchedAt(b1, b0, 1, z) /\ SameEvents(b1, b0)
  BY <1>1, <1>3, <1>7, Numbers, MatchKeeps
<1>9. SettingUp(b2) /\ MatchedAt(b2, b1, 2, w) /\ SameEvents(b2, b1)
  BY <1>1, <1>3, <1>8, Numbers, MatchKeeps
<1>10. /\ SettingUp(c) /\ At(c, 0, 1, 0) /\ Others(c, b2, 0) /\ SameMatch(c, b2)
       /\ AddsSet(c, b2, 0, 0)
  BY <1>4, <1>6, <1>9, Numbers, OutputEvent
<1>11. /\ SettingUp(d) /\ At(d, 1, 2, 0) /\ Others(d, c, 1) /\ SameMatch(d, c)
       /\ AddsClr(d, c, 1, 0)
  BY <1>4, <1>6, <1>10, Numbers, OutputEvent
<1>12. d.set[0] = {0} /\ d.clr[0] = {1}
  <2>1. a.set[0] = {} /\ a.clr[0] = {}
    BY <1>5, Numbers
  <2>2. c.set[0] = a.set[0] \cup {0} /\ c.clr[0] = a.clr[0]
    BY <1>7, <1>8, <1>9, <1>10, Numbers DEF AddsSet, SameEvents
  <2>3. d.clr[0] = c.clr[0] \cup {1} /\ d.set[0] = c.set[0]
    BY <1>11, Numbers DEF AddsClr
  <2>4. QED
    BY <2>1, <2>2, <2>3
<1>13. At(d, 0, 1, 0)
  BY <1>10, <1>11, Numbers DEF Others, At
<1>14. \A e \in Timer!Events \ {0, 1} : Never(d, e)
  BY <1>5, <1>7, <1>8, <1>9, <1>10, <1>11 DEF Others, Never, SameEvents
<1>15. /\ Up(s) /\ State(s) = 0 /\ Count(s) = 0
       /\ s.ev = d.ev /\ s.set = d.set /\ s.clr = d.clr
       /\ \A n : Reg(s, n) = Reg(d, n) /\ Rel(s, n) = Rel(d, n)
  BY <1>2, <1>11, StartUp
<1>16. At(s, 0, 1, 0) /\ At(s, 1, 2, 0) /\ \A e \in Timer!Events \ {0, 1} : Never(s, e)
  BY <1>11, <1>13, <1>14, <1>15 DEF At, Never
<1>17. /\ Reg(s, 0) = p /\ Rel(s, 0) = p /\ Reg(s, 1) = z /\ Rel(s, 1) = z
       /\ Reg(s, 2) = w /\ Rel(s, 2) = w
  BY <1>7, <1>8, <1>9, <1>10, <1>11, <1>15, Numbers DEF SameMatch, MatchedAt
<1>18. QED
  BY <1>12, <1>15, <1>16, <1>17 DEF p, z, w


-----------------------------------------------------------------------------
(* The state of the timer.                                                 *)

\* One event has the highest number.
LEMMA Highest ==
  ASSUME NEW E, E \subseteq Timer!Events, E # {}
  PROVE  \E e \in E : \A f \in E : f <= e
<1> USE DEF Timer!Events
<1>1. CASE 5 \in E
  BY <1>1
<1>2. CASE 4 \in E /\ 5 \notin E
  BY <1>2
<1>3. CASE 3 \in E /\ 4 \notin E /\ 5 \notin E
  BY <1>3
<1>4. CASE 2 \in E /\ 3 \notin E /\ 4 \notin E /\ 5 \notin E
  BY <1>4
<1>5. CASE 1 \in E /\ 2 \notin E /\ 3 \notin E /\ 4 \notin E /\ 5 \notin E
  BY <1>5
<1>6. CASE 0 \in E /\ 1 \notin E /\ 2 \notin E /\ 3 \notin E /\ 4 \notin E /\ 5 \notin E
  BY <1>6
<1>7. 0 \in E \/ 1 \in E \/ 2 \in E \/ 3 \in E \/ 4 \in E \/ 5 \in E
  <2>1. PICK x \in E : TRUE
    OBVIOUS
  <2>2. x = 0 \/ x = 1 \/ x = 2 \/ x = 3 \/ x = 4 \/ x = 5
    OBVIOUS
  <2>3. QED
    BY <2>1, <2>2, Zenon
<1>8. QED
  BY <1>1, <1>2, <1>3, <1>4, <1>5, <1>6, <1>7, Zenon

\* One of the events decides on the state.
LEMMA NextStateIs ==
  ASSUME NEW s, Unified(s), NEW E, E \subseteq Timer!Events
  PROVE  \/ E = {} /\ Timer!NextState(s, "l", E) = State(s)
         \/ \E e \in E : /\ \A f \in E : f <= e
                         /\ Timer!NextState(s, "l", E)
                              = IF s.ev[e].load THEN s.ev[e].statev
                                ELSE (State(s) + s.ev[e].statev) % 32
<1> DEFINE mine == {e \in E : Timer!Of(s, e) = "l"}
           top == CHOOSE e \in mine : \A f \in mine : f <= e
<1>1. mine = E
  BY DEF Timer!Of, Unified
<1>2. Timer!NextState(s, "l", E) = IF mine = {} THEN s.state["l"]
                                   ELSE IF s.ev[top].load THEN s.ev[top].statev
                                   ELSE (s.state["l"] + s.ev[top].statev) % 32
  BY DEF Timer!NextState
<1>3. CASE E = {}
  BY <1>1, <1>2, <1>3 DEF State
<1>4. CASE E # {}
  <2>1. top \in mine /\ \A f \in mine : f <= top
    BY <1>1, <1>4, Highest
  <2> HIDE DEF top
  <2>2. QED
    BY <1>1, <1>2, <1>4, <2>1 DEF State
<1>5. QED
  BY <1>3, <1>4

\* Event e leaves the state as it is.
Still(s, e) == s.ev[e].statev = 0 /\ ~s.ev[e].load

\* Without an event that changes the state, the state stays.
LEMMA StateStays ==
  ASSUME NEW s, Unified(s), NEW E, E \subseteq Timer!Events, State(s) \in {0, 1},
         \A e \in E : Still(s, e)
  PROVE  Timer!NextState(s, "l", E) = State(s)
<1>1. ASSUME NEW e \in E
      PROVE  (IF s.ev[e].load THEN s.ev[e].statev ELSE (State(s) + s.ev[e].statev) % 32)
               = State(s)
  BY <1>1 DEF Still
<1>2. QED
  BY <1>1, NextStateIs

\* What a write to the reload register n leaves alone.
ReloadedAt(t, s, n, v) ==
  /\ Rel(t, n) = v /\ \A m : Reg(t, m) = Reg(s, m)
  /\ \A m \in Timer!Regs : m # n => Rel(t, m) = Rel(s, m)

SameRun(t, s) ==
  /\ Count(t) = Count(s) /\ State(t) = State(s) /\ t.state = s.state /\ t.out = s.out
  /\ t.evflag = s.evflag /\ t.conflag = s.conflag /\ SameEvents(t, s)

\* A reload register of a running timer is written.
LEMMA ReloadKeeps ==
  ASSUME NEW s, Up(s), NEW n \in Timer!Regs, NEW v, IsNumber(v),
         NEW t, t = PutReload(s, n, v)
  PROVE  Up(t) /\ ReloadedAt(t, s, n, v) /\ SameRun(t, s)
<1>1. Registers(s) /\ Unified(s)
  BY DEF Up, Unified
<1>2. SameButMatch(t, s) /\ ReloadedAt(t, s, n, v)
  BY <1>1, Reload, SMT DEF IsNumber, ReloadedAt
<1>3. /\ t.limit = s.limit /\ t.haltmask = s.haltmask /\ t.stopmask = s.stopmask
      /\ t.startmask = s.startmask /\ t.regmode = s.regmode /\ t.down = s.down
      /\ t.bidir = s.bidir /\ t.dirctrl = s.dirctrl /\ t.res = s.res
      /\ t.unify = s.unify /\ t.autolimit = s.autolimit /\ t.noreload = s.noreload
      /\ t.pre = s.pre /\ t.phase = s.phase /\ t.count = s.count /\ t.state = s.state
      /\ t.out = s.out /\ t.evflag = s.evflag /\ t.conflag = s.conflag /\ t.even = s.even
      /\ t.ev = s.ev /\ t.set = s.set /\ t.clr = s.clr
      /\ t.stop = s.stop /\ t.halt = s.halt
  BY <1>2 DEF SameButMatch, SctNames
<1>4. Plain(t)
  BY <1>3 DEF Up, Plain
<1>5. Up(t)
  BY <1>2, <1>3, <1>4 DEF Up, SameButMatch
<1>6. SameRun(t, s)
  BY <1>3 DEF SameRun, SameEvents, Count, State
<1>7. QED
  BY <1>2, <1>5, <1>6

\* The timer of the program is the one above.
LEMMA DimmerTimer ==
  /\ \A s, now, before : Dimmer!Timer!Tick(s, now, before) = Timer!Tick(s, now, before)
  /\ \A s, v : Dimmer!Timer!sct_set_match_reload(s, "", 2, Dimmer!Timer!Split(v))
                 = PutReload(s, 2, v)
  /\ Dimmer!Counter = Count(sct) /\ Dimmer!Timer!RegValue(sct, 2, "l") = Reg(sct, 2)
<1>1. \A s, now, before : Dimmer!Timer!Tick(s, now, before) = Timer!Tick(s, now, before)
  BY DEF Dimmer!Timer!Tick, Dimmer!Timer!Happening, Dimmer!Timer!Happens,
         Dimmer!Timer!Matches, Dimmer!Timer!Clocked, Dimmer!Timer!Running,
         Dimmer!Timer!Value, Dimmer!Timer!RegValue, Dimmer!Timer!Whole, Dimmer!Timer!Split,
         Dimmer!Timer!Pair, Dimmer!Timer!Of, Dimmer!Timer!Signals, Dimmer!Timer!NextCount,
         Dimmer!Timer!Turned, Dimmer!Timer!Limited, Dimmer!Timer!NextState,
         Dimmer!Timer!Reloaded, Dimmer!Timer!OutputHigh, Dimmer!Timer!Sets,
         Dimmer!Timer!Clears, Dimmer!Timer!Reversed, Dimmer!Timer!Counters,
         Dimmer!Timer!Halves, Dimmer!Timer!Events, Dimmer!Timer!Outputs, Dimmer!Timer!Regs,
         Timer!Tick, Timer!Happening, Timer!Happens, Timer!Matches, Timer!Clocked,
         Timer!Running, Timer!Value, Timer!RegValue, Timer!Whole, Timer!Split, Timer!Pair,
         Timer!Of, Timer!Signals, Timer!NextCount, Timer!Turned, Timer!Limited,
         Timer!NextState, Timer!Reloaded, Timer!OutputHigh, Timer!Sets, Timer!Clears,
         Timer!Reversed, Timer!Counters, Timer!Halves, Timer!Events, Timer!Outputs,
         Timer!Regs
<1>2. \A s, v : Dimmer!Timer!sct_set_match_reload(s, "", 2, Dimmer!Timer!Split(v))
                  = PutReload(s, 2, v)
  BY DEF PutReload, Dimmer!Timer!sct_set_match_reload, Dimmer!Timer!WriteReg,
         Dimmer!Timer!Split, Dimmer!Timer!Pair, Dimmer!Timer!Halves,
         Timer!sct_set_match_reload, Timer!WriteReg, Timer!Split, Timer!Pair, Timer!Halves
<1>3. Dimmer!Counter = Count(sct)
  BY DEF Dimmer!Counter, Dimmer!Timer!Whole, Count, Timer!Whole
<1>4. Dimmer!Timer!RegValue(sct, 2, "l") = Reg(sct, 2)
  BY DEF Dimmer!Timer!RegValue, Dimmer!Timer!Value, Dimmer!Timer!Whole, Dimmer!Timer!Halves,
         Reg, Timer!RegValue, Timer!Value, Timer!Whole, Timer!Halves
<1>5. QED
  BY <1>1, <1>2, <1>3, <1>4

\* The dimmer begins with the width of its first step.
LEMMA DimmerInitially == Dimmer!Init => DimmerInv
<1> SUFFICES ASSUME Dimmer!Init PROVE DimmerInv
  OBVIOUS
<1>1. /\ Up(sct) /\ State(sct) = 0 /\ Count(sct) = 0
      /\ At(sct, 0, 1, 0) /\ At(sct, 1, 2, 0)
      /\ \A e \in Timer!Events \ {0, 1} : Never(sct, e)
      /\ sct.set[0] = {0} /\ sct.clr[0] = {1}
      /\ Reg(sct, 0) = Period - 1 /\ Rel(sct, 0) = Period - 1
      /\ Reg(sct, 1) = 0 /\ Rel(sct, 1) = 0
      /\ Reg(sct, 2) = DimmerWidth(1) /\ Rel(sct, 2) = DimmerWidth(1)
  BY DimmerSetup DEF Dimmer!Init
<1>2. /\ voltage \in Voltages /\ ladder = 0 /\ i = 0 /\ pc = "switch"
      /\ high = 0 /\ asked = DimmerWidth(1) /\ whole = FALSE
  BY DEF Dimmer!Init, Dimmer!Width, DimmerWidth
<1>3. LadderSteps \in Nat \ {0} /\ Period \in Nat /\ Period >= LadderSteps
  BY SctAssumption DEF SctAssumption
<1>4. DimmerWidth(1) \in 0 .. Period
  BY <1>3, DimmerWidthInside
<1>5. QED
  BY <1>1, <1>2, <1>3, <1>4 DEF DimmerInv, SoFar

\* A tick of the dimmer.
LEMMA DimmerClock == DimmerInv /\ Dimmer!Clock => DimmerInv'
<1> SUFFICES ASSUME DimmerInv, Dimmer!Clock PROVE DimmerInv'
  OBVIOUS
<1> DEFINE E == Timer!Happening(sct, {}, {})
           v == Count(sct)
           r == Reg(sct, 2)
<1>1. /\ sct' = Timer!Tick(sct, {}, {})
      /\ high' = (IF v = 0 THEN 0 ELSE high) + (IF 0 \in sct'.out THEN 1 ELSE 0)
      /\ asked' = IF v = 0 THEN r ELSE asked
      /\ began' = IF v = 0 THEN 0 \in sct.out ELSE began
      /\ whole' <=> (whole \/ v = 0)
      /\ voltage' = voltage /\ ladder' = ladder /\ i' = i /\ pc' = pc
  BY DimmerTimer, Zenon DEF Dimmer!Clock
<1>2. /\ Period \in Nat /\ Period <= W * W /\ W * W \in Nat
      /\ v \in Nat /\ v < Period /\ v < W * W /\ r \in 0 .. Period
  BY SctAssumption, CounterWidth DEF SctAssumption, DimmerInv
<1>3. /\ 0 \in E <=> v = 0
      /\ 1 \in E <=> v = r
      /\ \A e \in Timer!Events \ {0, 1} : e \notin E
      /\ E \subseteq Timer!Events
  <2>1. Up(sct) /\ State(sct) = 0 /\ At(sct, 0, 1, 0) /\ At(sct, 1, 2, 0) /\ Reg(sct, 1) = 0
    BY DEF DimmerInv
  <2>2. \A e \in Timer!Events \ {0, 1} : Never(sct, e)
    BY DEF DimmerInv
  <2>3. E \subseteq Timer!Events
    BY DEF Timer!Happening
  <2> HIDE DEF E, v, r
  <2>4. (0 \in E <=> v = 0) /\ (1 \in E <=> v = r)
    BY <2>1, HappensAt, Numbers DEF E, v, r
  <2>5. \A e \in Timer!Events \ {0, 1} : e \notin E
    BY <2>1, <2>2, HappensAt DEF E
  <2>6. QED
    BY <2>3, <2>4, <2>5
<1>4. sct' = Timer!Tick(sct, {}, {}) /\ Up(sct) /\ Count(sct) \in Nat /\ Count(sct) < W * W
  BY <1>1, <1>2 DEF DimmerInv
<1>5. /\ Up(sct)'
      /\ sct'.ev = sct.ev /\ sct'.set = sct.set /\ sct'.clr = sct.clr
      /\ \A o \in Timer!Outputs : sct.set[o] \cap E = {} \/ sct.clr[o] \cap E = {} =>
           (o \in sct'.out <=> sct.set[o] \cap E # {} \/ (o \in sct.out /\ sct.clr[o] \cap E = {}))
      /\ \A o \in Timer!Outputs : sct.set[o] \cap E # {} /\ sct.clr[o] \cap E # {} =>
           (o \in sct'.out <=> o \in sct.out)
      /\ State(sct)' = Timer!NextState(sct, "l", E)
      /\ \A n : Rel(sct, n)' = Rel(sct, n)
      /\ Count(sct) # Reg(sct, 0) =>
           /\ Count(sct)' = (Count(sct) + 1) % (W * W)
           /\ \A n : Reg(sct, n)' = Reg(sct, n)
      /\ Count(sct) = Reg(sct, 0) => Count(sct)' = 0 /\ \A n : Reg(sct, n)' = Rel(sct, n)
  BY <1>4, TickUp
<1>6. State(sct)' = 0
  <2>1. Unified(sct) /\ State(sct) = 0 /\ \A e \in E : Still(sct, e)
    BY <1>3 DEF DimmerInv, Up, Unified, At, Still, Timer!Events
  <2> HIDE DEF E
  <2>2. Timer!NextState(sct, "l", E) = State(sct)
    BY <1>3, <2>1, StateStays
  <2>3. QED
    BY <1>5, <2>1, <2>2
<1>7. /\ At(sct, 0, 1, 0)' /\ At(sct, 1, 2, 0)'
      /\ \A e \in Timer!Events \ {0, 1} : Never(sct, e)'
      /\ sct'.set[0] = {0} /\ sct'.clr[0] = {1}
  BY <1>5 DEF DimmerInv, At, Never
<1>8. /\ ~(v = 0 /\ r = 0) => (0 \in sct'.out <=> v = 0 \/ (0 \in sct.out /\ v # r))
      /\ v = 0 /\ r = 0 => (0 \in sct'.out <=> 0 \in sct.out)
  <2>1. sct.set[0] = {0} /\ sct.clr[0] = {1}
    BY DEF DimmerInv
  <2>2. /\ {0} \cap E # {} <=> v = 0
        /\ {1} \cap E # {} <=> v = r
    <3> HIDE DEF E, v, r
    <3>1. QED
      BY <1>3
  <2> HIDE DEF E, v, r
  <2>3. {0} \cap E = {} \/ {1} \cap E = {} =>
          (0 \in sct'.out <=> {0} \cap E # {} \/ (0 \in sct.out /\ {1} \cap E = {}))
    BY <1>5, <2>1, Numbers
  <2>4. {0} \cap E # {} /\ {1} \cap E # {} => (0 \in sct'.out <=> 0 \in sct.out)
    BY <1>5, <2>1, Numbers
  <2>5. QED
    BY <2>2, <2>3, <2>4
<1>9. /\ Reg(sct, 0) = Period - 1 /\ Rel(sct, 0) = Period - 1
      /\ Reg(sct, 1) = 0 /\ Rel(sct, 1) = 0
      /\ r \in 0 .. Period /\ Rel(sct, 2) \in 0 .. Period /\ asked \in 0 .. Period
      /\ ~whole => v = 0
      /\ v > 0 => /\ asked = r
                  /\ 0 \in sct.out <=> Kept(asked) \/ v <= asked
                  /\ high = Lit(v, asked)
      /\ whole /\ v = 0 => high = Lit(Period, asked)
  BY DEF DimmerInv, SoFar
<1>10. /\ Reg(sct, 0)' = Period - 1 /\ Rel(sct, 0)' = Period - 1
       /\ Reg(sct, 1)' = 0 /\ Rel(sct, 1)' = 0
       /\ Reg(sct, 2)' \in 0 .. Period /\ Rel(sct, 2)' \in 0 .. Period
       /\ v # Period - 1 => Count(sct)' = v + 1 /\ Reg(sct, 2)' = r
       /\ v = Period - 1 => Count(sct)' = 0
  <2>1. v # Period - 1 => (v + 1) % (W * W) = v + 1
    <3> DEFINE n == W * W
    <3>1. n \in Nat /\ Period <= n
      BY <1>2
    <3> HIDE DEF n, v
    <3>2. v # Period - 1 => (v + 1) % n = v + 1
      BY <1>2, <3>1
    <3>3. QED
      BY <3>2 DEF n
  <2> DEFINE next == (v + 1) % (W * W)
  <2>2. next = (Count(sct) + 1) % (W * W)
    OBVIOUS
  <2> HIDE DEF next
  <2>3. /\ v # Period - 1 => Count(sct)' = next /\ \A n : Reg(sct, n)' = Reg(sct, n)
        /\ v = Period - 1 => Count(sct)' = 0 /\ \A n : Reg(sct, n)' = Rel(sct, n)
        /\ \A n : Rel(sct, n)' = Rel(sct, n)
    BY <1>5, <1>9, <2>2
  <2>4. QED
    BY <1>9, <2>1, <2>3 DEF next
<1>11. asked' \in 0 .. Period /\ whole'
  BY <1>1, <1>2, <1>9
<1>12. v > 0 => began' = began /\ asked' = asked /\ asked = r
  BY <1>1, <1>9
<1>13. v = 0 => /\ asked' = r
                /\ Kept(asked)' <=> r = 0 /\ 0 \in sct.out
                /\ 0 \in sct'.out <=> Kept(asked)' \/ 1 <= r
  <2> SUFFICES ASSUME v = 0
               PROVE  /\ asked' = r
                      /\ Kept(asked)' <=> r = 0 /\ 0 \in sct.out
                      /\ 0 \in sct'.out <=> Kept(asked)' \/ 1 <= r
    OBVIOUS
  <2> HIDE DEF v, r, E
  <2>1. asked' = r /\ (began' <=> 0 \in sct.out)
    BY <1>1, Zenon
  <2>2. Kept(asked)' <=> r = 0 /\ 0 \in sct.out
    BY <2>1, Zenon DEF Kept
  <2>3. CASE r = 0
    BY <1>8, <2>1, <2>2, <2>3
  <2>4. CASE r # 0
    BY <1>2, <1>8, <2>1, <2>2, <2>4
  <2>5. QED
    BY <2>3, <2>4
<1>14. Count(sct)' > 0 => /\ asked' = Reg(sct, 2)'
                          /\ 0 \in sct'.out <=> Kept(asked)' \/ Count(sct)' <= asked'
                          /\ high' = Lit(Count(sct), asked)'
  <2> SUFFICES ASSUME Count(sct)' > 0
               PROVE  /\ asked' = Reg(sct, 2)'
                      /\ 0 \in sct'.out <=> Kept(asked)' \/ Count(sct)' <= asked'
                      /\ high' = Lit(Count(sct), asked)'
    OBVIOUS
  <2>1. v # Period - 1 /\ Count(sct)' = v + 1 /\ Reg(sct, 2)' = r
    BY <1>10
  <2>2. asked' = r
    BY <1>1, <1>2, <1>9
  <2> HIDE DEF v, r, E
  <2>3. CASE v = 0
    <3>1. Count(sct)' = 1 /\ high' = IF 0 \in sct'.out THEN 1 ELSE 0
      BY <1>1, <2>1, <2>3
    <3>2. Lit(Count(sct), asked)' = IF Kept(asked)' THEN 1 ELSE Least(1, r)
      BY <2>2, <3>1 DEF Lit
    <3>3. 0 \in sct'.out <=> Kept(asked)' \/ 1 <= r
      BY <1>13, <2>3
    <3>4. high' = Lit(Count(sct), asked)'
      BY <1>2, <1>13, <2>3, <3>1, <3>2, <3>3 DEF Least
    <3>5. QED
      BY <2>1, <2>2, <3>1, <3>3, <3>4
  <2>4. CASE v > 0
    <3>1. Kept(asked)' <=> Kept(asked)
      BY <1>12, <2>4 DEF Kept
    <3>2. 0 \in sct'.out <=> Kept(asked) \/ v < r
      BY <1>2, <1>8, <1>9, <1>12, <2>4 DEF Kept
    <3>3. high' = high + (IF 0 \in sct'.out THEN 1 ELSE 0)
      BY <1>1, <1>2, <2>4
    <3>4. high = Lit(v, r)
      BY <1>9, <2>4
    <3>5. Lit(Count(sct), asked)' = IF Kept(asked) THEN v + 1 ELSE Least(v + 1, r)
      BY <2>1, <2>2, <3>1 DEF Lit
    <3>6. Lit(v, r) = IF Kept(asked) THEN v ELSE Least(v, r)
      BY <1>12, <2>4 DEF Lit
    <3>7. high' = Lit(Count(sct), asked)'
      BY <1>2, <3>2, <3>3, <3>4, <3>5, <3>6 DEF Least
    <3>8. 0 \in sct'.out <=> Kept(asked)' \/ Count(sct)' <= asked'
      BY <1>2, <2>1, <2>2, <3>1, <3>2
    <3>9. QED
      BY <2>1, <2>2, <3>7, <3>8
  <2>5. QED
    BY <1>2, <2>1, <2>2, <2>3, <2>4
<1>15. Count(sct)' = 0 => high' = Lit(Period, asked)'
  <2> SUFFICES ASSUME Count(sct)' = 0 PROVE high' = Lit(Period, asked)'
    OBVIOUS
  <2> HIDE DEF v, r, E
  <2>1. v = Period - 1
    BY <1>2, <1>10
  <2>2. CASE v = 0
    <3>1. Period = 1
      BY <1>2, <2>1, <2>2
    <3>2. high' = IF 0 \in sct'.out THEN 1 ELSE 0
      BY <1>1, <2>2
    <3>3. Lit(Period, asked)' = IF Kept(asked)' THEN Period ELSE Least(Period, r)
      BY <1>13, <2>2 DEF Lit
    <3>4. QED
      BY <1>2, <1>13, <2>2, <3>1, <3>2, <3>3 DEF Least
  <2>3. CASE v > 0
    <3>1. asked = r /\ asked' = r /\ (Kept(asked)' <=> Kept(asked)) /\ high = Lit(v, r)
      BY <1>9, <1>12, <2>3 DEF Kept
    <3>2. high' = high + (IF 0 \in sct'.out THEN 1 ELSE 0)
      BY <1>1, <1>2, <2>3
    <3>3. 0 \in sct'.out <=> Kept(asked) \/ v < r
      BY <1>2, <1>8, <1>9, <1>12, <2>3 DEF Kept
    <3>4. Lit(Period, asked)' = IF Kept(asked) THEN Period ELSE Least(Period, r)
      BY <3>1 DEF Lit
    <3>5. Lit(v, r) = IF Kept(asked) THEN v ELSE Least(v, r)
      BY <3>1 DEF Lit
    <3>6. QED
      BY <1>2, <2>1, <3>1, <3>2, <3>3, <3>4, <3>5 DEF Least
  <2>4. QED
    BY <1>2, <2>2, <2>3
<1>16. SoFar'
  BY <1>14, <1>15 DEF SoFar
<1>17. /\ voltage' \in Voltages /\ ladder' \in Nat /\ i' \in 0 .. LadderSteps
       /\ pc' \in {"switch", "compare", "set", "delay"}
       /\ pc' \in {"switch", "compare"} => i' < LadderSteps
       /\ pc' = "compare" => ladder' = i'
  BY <1>1 DEF DimmerInv
<1>18. Count(sct)' \in Nat /\ Count(sct)' < Period
  BY <1>2, <1>10
<1>19. QED
  BY <1>5, <1>6, <1>7, <1>10, <1>11, <1>16, <1>17, <1>18 DEF DimmerInv

\* main() of the dimmer writes the width of the voltage it found.
LEMMA DimmerSet == DimmerInv /\ Dimmer!Set => DimmerInv'
<1> SUFFICES ASSUME DimmerInv, Dimmer!Set PROVE DimmerInv'
  OBVIOUS
<1> DEFINE w == DimmerWidth(i)
<1>1. /\ sct' = PutReload(sct, 2, w) /\ pc' = "delay"
      /\ voltage' = voltage /\ ladder' = ladder /\ i' = i /\ high' = high
      /\ asked' = asked /\ began' = began /\ whole' = whole
  BY DimmerTimer, Zenon DEF Dimmer!Set, Dimmer!Width, DimmerWidth
<1>2. w \in 0 .. Period /\ IsNumber(w)
  <2>1. i \in 0 .. LadderSteps
    BY DEF DimmerInv
  <2>2. w \in 0 .. Period
    BY <2>1, DimmerWidthInside
  <2> HIDE DEF w
  <2>3. QED
    BY <2>2, SctAssumption DEF IsNumber, SctAssumption
<1> HIDE DEF w
<1>3. Up(sct)
  BY DEF DimmerInv
<1>4. Up(sct)' /\ ReloadedAt(sct', sct, 2, w) /\ SameRun(sct', sct)
  BY <1>1, <1>2, <1>3, Numbers, ReloadKeeps
<1>5. /\ Count(sct)' = Count(sct) /\ State(sct)' = State(sct) /\ sct'.out = sct.out
      /\ sct'.ev = sct.ev /\ sct'.set = sct.set /\ sct'.clr = sct.clr
      /\ \A n : Reg(sct, n)' = Reg(sct, n)
      /\ Rel(sct, 0)' = Rel(sct, 0) /\ Rel(sct, 1)' = Rel(sct, 1) /\ Rel(sct, 2)' = w
  BY <1>4, Numbers DEF SameRun, SameEvents, ReloadedAt
<1>6. /\ At(sct, 0, 1, 0)' /\ At(sct, 1, 2, 0)'
      /\ \A e \in Timer!Events \ {0, 1} : Never(sct, e)'
  BY <1>5 DEF DimmerInv, At, Never
<1>7. SoFar'
  BY <1>1, <1>5 DEF DimmerInv, SoFar, Kept, Lit
<1>8. QED
  BY <1>1, <1>2, <1>4, <1>5, <1>6, <1>7 DEF DimmerInv

\* What does not touch the timer leaves the pulse alone.
LEMMA SoFarStays ==
  ASSUME UNCHANGED <<sct, high, began, asked, whole>>
  PROVE  SoFar => SoFar'
BY DEF SoFar, Kept, Lit, Count, Reg

\* A step of main() that leaves the timer alone.
Search ==
  /\ voltage \in Voltages /\ ladder \in Nat /\ i \in 0 .. LadderSteps
  /\ pc \in {"switch", "compare", "set", "delay"}
  /\ pc \in {"switch", "compare"} => i < LadderSteps
  /\ pc = "compare" => ladder = i

LEMMA DimmerKeeps ==
  ASSUME DimmerInv, UNCHANGED <<sct, high, began, asked, whole>>, Search'
  PROVE  DimmerInv'
<1>1. SoFar'
  BY SoFarStays DEF DimmerInv
<1>2. /\ Up(sct)' /\ State(sct)' = 0
      /\ At(sct, 0, 1, 0)' /\ At(sct, 1, 2, 0)'
      /\ (\A e \in Timer!Events \ {0, 1} : Never(sct, e))'
      /\ sct'.set[0] = {0} /\ sct'.clr[0] = {1}
      /\ Count(sct)' \in Nat /\ Count(sct)' < Period
  BY DEF DimmerInv
<1>3. /\ Reg(sct, 0)' = Period - 1 /\ Rel(sct, 0)' = Period - 1
      /\ Reg(sct, 1)' = 0 /\ Rel(sct, 1)' = 0
      /\ Reg(sct, 2)' \in 0 .. Period /\ Rel(sct, 2)' \in 0 .. Period
      /\ asked' \in 0 .. Period /\ (~whole' => Count(sct)' = 0)
  BY DEF DimmerInv
<1>4. QED
  BY <1>1, <1>2, <1>3 DEF DimmerInv, Search

\* Every step of the dimmer keeps its invariant.
LEMMA DimmerStep ==
  DimmerInv /\ (Dimmer!Next \/ UNCHANGED dimmer) => DimmerInv'
<1> SUFFICES ASSUME DimmerInv, Dimmer!Next \/ UNCHANGED dimmer PROVE DimmerInv'
  OBVIOUS
<1> DEFINE Untouched == UNCHANGED <<sct, high, began, asked, whole>>
<1>0. Search /\ LadderSteps \in Nat /\ 0 < LadderSteps
  BY SctAssumption DEF DimmerInv, Search, SctAssumption
<1>1. CASE Dimmer!Clock
  BY <1>1, DimmerClock
<1>2. CASE Dimmer!Turn
  <2>1. Untouched /\ Search'
    BY <1>0, <1>2 DEF Dimmer!Turn, Search
  <2>2. QED
    BY <2>1, DimmerKeeps
<1>3. CASE Dimmer!Switch
  <2>1. Untouched /\ Search'
    BY <1>0, <1>3 DEF Dimmer!Switch, Search
  <2>2. QED
    BY <2>1, DimmerKeeps
<1>4. CASE Dimmer!Compare
  <2>1. Untouched /\ Search'
    BY <1>0, <1>4 DEF Dimmer!Compare, Search
  <2>2. QED
    BY <2>1, DimmerKeeps
<1>5. CASE Dimmer!Set
  BY <1>5, DimmerSet
<1>6. CASE Dimmer!Delay
  <2>1. Untouched /\ Search'
    BY <1>0, <1>6 DEF Dimmer!Delay, Search
  <2>2. QED
    BY <2>1, DimmerKeeps
<1>7. CASE UNCHANGED dimmer
  <2>1. Untouched /\ Search'
    BY <1>0, <1>7 DEF dimmer, Search
  <2>2. QED
    BY <2>1, DimmerKeeps
<1>8. QED
  BY <1>1, <1>2, <1>3, <1>4, <1>5, <1>6, <1>7 DEF Dimmer!Next, Dimmer!main

\* The invariant says what the dimmer promises.
LEMMA DimmerPulses == DimmerInv => Dimmer!PulseAsAsked
<1> SUFFICES ASSUME DimmerInv, whole, Count(sct) = 0
             PROVE  high = Dimmer!Pulse(asked)
  <2>1. Dimmer!Counter = Count(sct)
    BY DimmerTimer, Zenon
  <2>2. QED
    BY <2>1 DEF Dimmer!PulseAsAsked
<1>1. high = Lit(Period, asked) /\ asked \in 0 .. Period /\ Period \in Nat
  BY SctAssumption DEF DimmerInv, SoFar, SctAssumption
<1>2. QED
  BY <1>1 DEF Lit, Kept, Least, Dimmer!Pulse

-----------------------------------------------------------------------------
(* The pulses of two widths.                                               *)

\* One clock of either program.
PulseClocked(period, now, before) ==
  /\ sct' = Timer!Tick(sct, now, before)
  /\ high' = (IF Count(sct) = 0 THEN 0 ELSE high) + (IF 0 \in sct'.out THEN 1 ELSE 0)
  /\ asked' = (IF Count(sct) = 0 THEN <<Reg(sct, 2), Reg(sct, 4)>> ELSE asked)
  /\ pure' <=> (sct'.state = sct.state /\ (Count(sct) = 0 \/ pure))

\* A tick of a timer that makes pulses of two widths.
LEMMA PulseClock ==
  ASSUME NEW p, NEW period, period \in Nat, period <= W * W, PulseInv(p, period),
         NEW now, NEW before, PulseClocked(period, now, before)
  PROVE  PulseInv(p, period)'
<1> DEFINE E == Timer!Happening(sct, now, before)
           v == Count(sct)
           st == State(sct)
           r == IF st = 0 THEN Reg(sct, 2) ELSE Reg(sct, 4)
           A == IF First(p) THEN {0, 3} ELSE {1, 4}
           B == IF First(p) THEN {1, 4} ELSE {0, 3}
<1>1. /\ sct' = Timer!Tick(sct, now, before)
      /\ high' = (IF v = 0 THEN 0 ELSE high) + (IF 0 \in sct'.out THEN 1 ELSE 0)
      /\ asked' = (IF v = 0 THEN <<Reg(sct, 2), Reg(sct, 4)>> ELSE asked)
      /\ pure' <=> (sct'.state = sct.state /\ (v = 0 \/ pure))
  BY DEF PulseClocked
<1>2. /\ W * W \in Nat /\ period \in Nat /\ period <= W * W
      /\ v \in Nat /\ v < period /\ v < W * W /\ r \in 1 .. period - 1
      /\ st \in {0, 1}
  BY CounterWidth DEF PulseInv, PulseMatch
<1>3. /\ 0 \in E <=> st = 0 /\ v = 0
      /\ 1 \in E <=> st = 0 /\ v = r
      /\ 3 \in E <=> st = 1 /\ v = 0
      /\ 4 \in E <=> st = 1 /\ v = r
      /\ 2 \in E => st = 0
      /\ 5 \in E => st = 1
      /\ E \subseteq Timer!Events
  <2>1. /\ Up(sct) /\ At(sct, 0, 1, 0) /\ At(sct, 1, 2, 0) /\ At(sct, 3, 3, 1)
        /\ At(sct, 4, 4, 1) /\ Reg(sct, 1) = 0 /\ Reg(sct, 3) = 0
    BY DEF PulseInv, PulseEvents, PulseMatch
  <2>2. E \subseteq Timer!Events
    BY DEF Timer!Happening
  <2>3. (2 \in E => st = 0) /\ (5 \in E => st = 1)
    <3>1. sct.unify = TRUE /\ sct.ev[2].states = {0} /\ sct.ev[5].states = {1}
      BY DEF PulseInv, PulseEvents, Falling, Up
    <3>2. QED
      BY <3>1 DEF Timer!Happening, Timer!Happens, Timer!Of, State
  <2>4. st = 0 => r = Reg(sct, 2)
    OBVIOUS
  <2>5. st = 1 => r = Reg(sct, 4)
    OBVIOUS
  <2> HIDE DEF E, v, r, st
  <2>6. /\ 0 \in E <=> st = 0 /\ v = Reg(sct, 1)
        /\ 1 \in E <=> st = 0 /\ v = Reg(sct, 2)
        /\ 3 \in E <=> st = 1 /\ v = Reg(sct, 3)
        /\ 4 \in E <=> st = 1 /\ v = Reg(sct, 4)
    BY <2>1, HappensAt, Numbers DEF E, v, st
  <2>7. QED
    BY <2>1, <2>2, <2>3, <2>4, <2>5, <2>6
<1>4. sct' = Timer!Tick(sct, now, before) /\ Up(sct) /\ Count(sct) \in Nat /\ Count(sct) < W * W
  BY <1>1, <1>2 DEF PulseInv
<1>5. /\ Up(sct)'
      /\ sct'.ev = sct.ev /\ sct'.set = sct.set /\ sct'.clr = sct.clr
      /\ sct'.conflag = sct.conflag
           \cup {o \in Timer!Outputs : sct.set[o] \cap E # {} /\ sct.clr[o] \cap E # {}}
      /\ \A o \in Timer!Outputs : sct.set[o] \cap E = {} \/ sct.clr[o] \cap E = {} =>
           (o \in sct'.out <=> sct.set[o] \cap E # {} \/ (o \in sct.out /\ sct.clr[o] \cap E = {}))
      /\ State(sct)' = Timer!NextState(sct, "l", E)
      /\ sct'.state = sct.state => State(sct)' = State(sct)
      /\ \A n : Rel(sct, n)' = Rel(sct, n)
      /\ Count(sct) # Reg(sct, 0) =>
           /\ Count(sct)' = (Count(sct) + 1) % (W * W)
           /\ \A n : Reg(sct, n)' = Reg(sct, n)
      /\ Count(sct) = Reg(sct, 0) => Count(sct)' = 0 /\ \A n : Reg(sct, n)' = Rel(sct, n)
  BY <1>4, TickUp
<1>6. State(sct)' \in {0, 1}
  <2>1. Unified(sct) /\ State(sct) \in {0, 1}
    BY DEF PulseInv, Up, Unified
  <2>2. /\ \A e \in {0, 1, 3, 4} : Still(sct, e)
        /\ sct.ev[2].statev = 1 /\ sct.ev[5].statev = 0
    BY DEF PulseInv, PulseEvents, At, Falling, Still
  <2>3. ASSUME NEW e \in E
        PROVE  (IF sct.ev[e].load THEN sct.ev[e].statev
                  ELSE (State(sct) + sct.ev[e].statev) % 32) \in {0, 1}
    <3>1. CASE e = 2
      BY <1>3, <2>2, <3>1
    <3>2. CASE e = 5
      BY <1>3, <2>2, <3>2
    <3>3. CASE e \in {0, 1, 3, 4}
      BY <2>1, <2>2, <3>3 DEF Still
    <3>4. QED
      BY <1>3, <3>1, <3>2, <3>3 DEF Timer!Events
  <2> HIDE DEF E
  <2>4. QED
    BY <1>3, <1>5, <2>1, <2>3, NextStateIs
<1>7. PulseEvents(p, sct)'
  BY <1>5 DEF PulseInv, PulseEvents, At, Falling
<1>8. sct.set[0] = A /\ sct.clr[0] = B /\ \A o \in Timer!Outputs \ {0} : sct.set[o] = {}
  BY DEF PulseInv, PulseEvents
<1>9. /\ {0, 3} \cap E # {} <=> v = 0
      /\ {1, 4} \cap E # {} <=> v = r
      /\ ~(v = 0 /\ v = r)
  <2> HIDE DEF E, v, r, st
  <2>1. QED
    BY <1>2, <1>3
<1>10. sct'.conflag = {}
  <2>1. sct.conflag = {}
    BY DEF PulseInv
  <2>2. ~(A \cap E # {} /\ B \cap E # {})
    BY <1>9
  <2> HIDE DEF E, A, B
  <2>3. ~\E o \in Timer!Outputs : sct.set[o] \cap E # {} /\ sct.clr[o] \cap E # {}
    BY <1>8, <2>2
  <2>4. QED
    BY <1>5, <2>1, <2>3
<1>11. 0 \in sct'.out <=> IF First(p) THEN v = 0 \/ (0 \in sct.out /\ v # r)
                           ELSE v = r \/ (0 \in sct.out /\ v # 0)
  <2>1. A \cap E = {} \/ B \cap E = {}
    BY <1>9
  <2>2. 0 \in sct'.out <=> A \cap E # {} \/ (0 \in sct.out /\ B \cap E = {})
    <3> HIDE DEF A, B, E
    <3>1. QED
      BY <1>5, <1>8, <2>1, Numbers
  <2> HIDE DEF E, v, r
  <2>3. QED
    BY <1>9, <2>2
<1>12. /\ PulseMatch(period, sct)'
       /\ v # period - 1 => /\ Count(sct)' = v + 1
                            /\ Reg(sct, 2)' = Reg(sct, 2) /\ Reg(sct, 4)' = Reg(sct, 4)
       /\ v = period - 1 => Count(sct)' = 0
  <2>1. v # period - 1 => (v + 1) % (W * W) = v + 1
    <3> DEFINE n == W * W
    <3>1. n \in Nat /\ period <= n
      BY <1>2
    <3> HIDE DEF n, v
    <3>2. v # period - 1 => (v + 1) % n = v + 1
      BY <1>2, <3>1
    <3>3. QED
      BY <3>2 DEF n
  <2> DEFINE next == (v + 1) % (W * W)
  <2>2. next = (Count(sct) + 1) % (W * W)
    OBVIOUS
  <2> HIDE DEF next
  <2>3. PulseMatch(period, sct)
    BY DEF PulseInv
  <2>4. /\ v # period - 1 => Count(sct)' = next /\ \A n : Reg(sct, n)' = Reg(sct, n)
        /\ v = period - 1 => Count(sct)' = 0 /\ \A n : Reg(sct, n)' = Rel(sct, n)
        /\ \A n : Rel(sct, n)' = Rel(sct, n)
    BY <1>5, <2>2, <2>3 DEF PulseMatch
  <2>5. PulseMatch(period, sct)'
    BY <2>3, <2>4 DEF PulseMatch
  <2>6. QED
    BY <2>1, <2>4, <2>5 DEF next
<1>13. asked' = <<Reg(sct, 2), Reg(sct, 4)>>
  BY <1>1, <1>2 DEF PulseInv
<1>14. Wide(asked, st)' = IF st' = 0 THEN Reg(sct, 2) ELSE Reg(sct, 4)
  BY <1>6, <1>13 DEF Wide
<1>15. pure' => Wide(asked, st)' = r
  BY <1>1, <1>5, <1>14
<1>16. v > 0 /\ pure => /\ 0 \in sct.out <=> IF First(p) THEN v <= r ELSE v > r
                       /\ high = IF First(p) THEN Least(v, r) ELSE v - Least(v, r)
  <2>1. v > 0 => Wide(asked, st) = r
    BY <1>2 DEF PulseInv, Wide
  <2>2. QED
    BY <2>1 DEF PulseInv
<1>17. pure' /\ Count(sct)' > 0 =>
         /\ 0 \in sct'.out <=> IF First(p) THEN Count(sct)' <= r ELSE Count(sct)' > r
         /\ high' = IF First(p) THEN Least(Count(sct)', r) ELSE Count(sct)' - Least(Count(sct)', r)
  <2> SUFFICES ASSUME pure', Count(sct)' > 0
               PROVE  /\ 0 \in sct'.out <=>
                           IF First(p) THEN Count(sct)' <= r ELSE Count(sct)' > r
                      /\ high' = IF First(p) THEN Least(Count(sct)', r)
                                 ELSE Count(sct)' - Least(Count(sct)', r)
    OBVIOUS
  <2>1. Count(sct)' = v + 1
    BY <1>12
  <2> HIDE DEF v, r, E, st
  <2>2. CASE First(p)
    <3>1. CASE v = 0
      BY <1>1, <1>2, <1>11, <2>1, <2>2, <3>1 DEF Least
    <3>2. CASE v > 0
      <4>1. pure /\ high' = high + (IF 0 \in sct'.out THEN 1 ELSE 0)
        BY <1>1, <1>2, <3>2
      <4>2. 0 \in sct'.out <=> v + 1 <= r
        BY <1>2, <1>11, <1>16, <2>2, <3>2, <4>1
      <4>3. high = Least(v, r)
        BY <1>16, <2>2, <3>2, <4>1
      <4>4. QED
        BY <1>2, <2>1, <2>2, <4>1, <4>2, <4>3 DEF Least
    <3>3. QED
      BY <1>2, <3>1, <3>2
  <2>3. CASE ~First(p)
    <3>1. CASE v = 0
      BY <1>1, <1>2, <1>11, <2>1, <2>3, <3>1 DEF Least
    <3>2. CASE v > 0
      <4>1. pure /\ high' = high + (IF 0 \in sct'.out THEN 1 ELSE 0)
        BY <1>1, <1>2, <3>2
      <4>2. 0 \in sct'.out <=> v + 1 > r
        BY <1>2, <1>11, <1>16, <2>3, <3>2, <4>1
      <4>3. high = v - Least(v, r)
        BY <1>16, <2>3, <3>2, <4>1
      <4>4. QED
        BY <1>2, <2>1, <2>3, <4>1, <4>2, <4>3 DEF Least
    <3>3. QED
      BY <1>2, <3>1, <3>2
  <2>4. QED
    BY <2>2, <2>3
<1>18. pure' /\ Count(sct)' = 0 => high' = IF First(p) THEN r ELSE period - r
  <2> SUFFICES ASSUME pure', Count(sct)' = 0
               PROVE  high' = IF First(p) THEN r ELSE period - r
    OBVIOUS
  <2> HIDE DEF v, r, E, st
  <2>1. v = period - 1 /\ v > 0 /\ r <= v
    BY <1>2, <1>12
  <2>2. pure /\ high' = high + (IF 0 \in sct'.out THEN 1 ELSE 0)
    BY <1>1, <1>2, <2>1
  <2>3. CASE First(p)
    BY <1>2, <1>11, <1>16, <2>1, <2>2, <2>3 DEF Least
  <2>4. CASE ~First(p)
    BY <1>2, <1>11, <1>16, <2>1, <2>2, <2>4 DEF Least
  <2>5. QED
    BY <2>3, <2>4
<1>19. Count(sct)' \in Nat /\ Count(sct)' < period
  BY <1>2, <1>12
<1>20. Count(sct)' > 0 => asked' = <<Reg(sct, 2)', Reg(sct, 4)'>>
  BY <1>12, <1>13
<1>21. QED
  BY <1>5, <1>6, <1>7, <1>10, <1>12, <1>15, <1>17, <1>18, <1>19, <1>20 DEF PulseInv

\* An event at the fall of input 0.
FallOp(from) == [half |-> "l", comb |-> "io", cond |-> "fall", states |-> {from}]

SetupFall(s, e, from, action, to) ==
  Timer!sct_setup_event(s, e, 0, 0, FallOp(from), action, to)

\* An action that does nothing at the outputs.
Outless(action) == \A o : ~Setting(action, o) /\ ~Clearing(action, o)

\* The event of input 0, which changes the state.
LEMMA FallEvent ==
  ASSUME NEW s, SettingUp(s), NEW e \in Timer!Events, NEW from, NEW action, Quiet(action),
         Outless(action), NEW to, NEW t, t = SetupFall(s, e, from, action, to)
  PROVE  /\ SettingUp(t) /\ Falling(t, e, from, to) /\ Others(t, s, e) /\ SameMatch(t, s)
         /\ SameOutputs(t, s)
<1> DEFINE op == FallOp(from)
           zero == 0
<1>1. t = Timer!sct_setup_event(s, e, zero, zero, op, action, to)
  BY DEF SetupFall
<1> HIDE DEF op, zero
<1>2. SettingUp(t) /\ \A m : Reg(t, m) = Reg(s, m) /\ Rel(t, m) = Rel(s, m)
  BY <1>1, EventKeeps
<1>3. Registers(s) /\ Plain(s)
  BY DEF SettingUp
<1>4. EventIs(t.ev[e], zero, zero, op, action, to) /\ Others(t, s, e) /\ Effects(t, s, e, action)
  BY <1>1, <1>3, EventSetUp
<1>5. Falling(t, e, from, to)
  BY <1>4 DEF EventIs, Falling, op, FallOp
<1>6. SameOutputs(t, s)
  BY <1>4 DEF Effects, SameOutputs, Outless
<1>7. QED
  BY <1>2, <1>4, <1>5, <1>6 DEF SameMatch

\* What begins a pulse, or the gap before it, and what ends it.
StartName(p) == IF First(p) THEN "set" ELSE "clr"
EndName(p)   == IF First(p) THEN "clr" ELSE "set"

\* The names of the actions that begin and end a pulse.
LEMMA PulseNames ==
  ASSUME NEW p
  PROVE  /\ OutName(StartName(p)) /\ OutName(EndName(p))
         /\ First(p) => StartName(p) = "set" /\ EndName(p) = "clr"
         /\ ~First(p) => StartName(p) = "clr" /\ EndName(p) = "set"
BY DEF OutName, StartName, EndName

\* The match registers of the setup.
LEMMA PulseRegisters ==
  ASSUME NEW last, IsNumber(last), NEW z, IsNumber(z), NEW w0, IsNumber(w0),
         NEW w1, IsNumber(w1),
         NEW b0, b0 = PutBoth(Begin, 0, last), NEW b1, b1 = PutBoth(b0, 1, z),
         NEW b2, b2 = PutBoth(b1, 2, w0), NEW b3, b3 = PutBoth(b2, 3, z),
         NEW b4, b4 = PutBoth(b3, 4, w1)
  PROVE  /\ SettingUp(b4)
         /\ \A o \in Timer!Outputs : b4.set[o] = {} /\ b4.clr[o] = {}
         /\ Reg(b4, 0) = last /\ Rel(b4, 0) = last /\ Reg(b4, 1) = z /\ Rel(b4, 1) = z
         /\ Reg(b4, 2) = w0 /\ Rel(b4, 2) = w0 /\ Reg(b4, 3) = z /\ Rel(b4, 3) = z
         /\ Reg(b4, 4) = w1 /\ Rel(b4, 4) = w1
<1>1. SettingUp(b0) /\ MatchedAt(b0, Begin, 0, last) /\ SameEvents(b0, Begin)
  BY BeginIs, Numbers, MatchKeeps
<1>2. SettingUp(b1) /\ MatchedAt(b1, b0, 1, z) /\ SameEvents(b1, b0)
  BY <1>1, Numbers, MatchKeeps
<1>3. SettingUp(b2) /\ MatchedAt(b2, b1, 2, w0) /\ SameEvents(b2, b1)
  BY <1>2, Numbers, MatchKeeps
<1>4. SettingUp(b3) /\ MatchedAt(b3, b2, 3, z) /\ SameEvents(b3, b2)
  BY <1>3, Numbers, MatchKeeps
<1>5. SettingUp(b4) /\ MatchedAt(b4, b3, 4, w1) /\ SameEvents(b4, b3)
  BY <1>4, Numbers, MatchKeeps
<1>6. \A o \in Timer!Outputs : b4.set[o] = {} /\ b4.clr[o] = {}
  BY <1>1, <1>2, <1>3, <1>4, <1>5, BeginIs DEF SameEvents
<1>7. /\ Reg(b4, 0) = last /\ Rel(b4, 0) = last /\ Reg(b4, 1) = z /\ Rel(b4, 1) = z
      /\ Reg(b4, 2) = w0 /\ Rel(b4, 2) = w0 /\ Reg(b4, 3) = z /\ Rel(b4, 3) = z
      /\ Reg(b4, 4) = w1 /\ Rel(b4, 4) = w1
  BY <1>1, <1>2, <1>3, <1>4, <1>5, Numbers DEF MatchedAt
<1>8. QED
  BY <1>5, <1>6, <1>7

\* The events of the setup.
LEMMA PulseEventsSetUp ==
  ASSUME NEW p, NEW b, SettingUp(b), \A o \in Timer!Outputs : b.set[o] = {} /\ b.clr[o] = {},
         NEW go, Quiet(go), Outless(go),
         NEW e0, e0 = SetupMatch(b, 0, 1, 0, Out(StartName(p), 0)),
         NEW e1, e1 = SetupMatch(e0, 1, 2, 0, Out(EndName(p), 0)),
         NEW e2, e2 = SetupFall(e1, 2, 0, go, 1),
         NEW e3, e3 = SetupMatch(e2, 3, 3, 1, Out(StartName(p), 0)),
         NEW e4, e4 = SetupMatch(e3, 4, 4, 1, Out(EndName(p), 0)),
         NEW e5, e5 = SetupFall(e4, 5, 1, Load, 0)
  PROVE  SettingUp(e5) /\ PulseEvents(p, e5) /\ SameMatch(e5, b)
<1> DEFINE name == StartName(p)
           other == EndName(p)
<1>1. /\ OutName(name) /\ OutName(other)
      /\ First(p) => name = "set" /\ other = "clr"
      /\ ~First(p) => name = "clr" /\ other = "set"
  BY PulseNames
<1>2. /\ e0 = SetupMatch(b, 0, 1, 0, Out(name, 0)) /\ e1 = SetupMatch(e0, 1, 2, 0, Out(other, 0))
      /\ e3 = SetupMatch(e2, 3, 3, 1, Out(name, 0))
      /\ e4 = SetupMatch(e3, 4, 4, 1, Out(other, 0))
  OBVIOUS
<1> HIDE DEF name, other
<1>3. /\ SettingUp(e0) /\ At(e0, 0, 1, 0) /\ Others(e0, b, 0) /\ SameMatch(e0, b)
      /\ name = "set" => AddsSet(e0, b, 0, 0)
      /\ name = "clr" => AddsClr(e0, b, 0, 0)
  BY <1>1, <1>2, Numbers, OutputEvent
<1>4. /\ SettingUp(e1) /\ At(e1, 1, 2, 0) /\ Others(e1, e0, 1) /\ SameMatch(e1, e0)
      /\ other = "set" => AddsSet(e1, e0, 1, 0)
      /\ other = "clr" => AddsClr(e1, e0, 1, 0)
  BY <1>1, <1>2, <1>3, Numbers, OutputEvent
<1>5. /\ SettingUp(e2) /\ Falling(e2, 2, 0, 1) /\ Others(e2, e1, 2) /\ SameMatch(e2, e1)
      /\ SameOutputs(e2, e1)
  BY <1>4, Numbers, FallEvent
<1>6. /\ SettingUp(e3) /\ At(e3, 3, 3, 1) /\ Others(e3, e2, 3) /\ SameMatch(e3, e2)
      /\ name = "set" => AddsSet(e3, e2, 3, 0)
      /\ name = "clr" => AddsClr(e3, e2, 3, 0)
  BY <1>1, <1>2, <1>5, Numbers, OutputEvent
<1>7. /\ SettingUp(e4) /\ At(e4, 4, 4, 1) /\ Others(e4, e3, 4) /\ SameMatch(e4, e3)
      /\ other = "set" => AddsSet(e4, e3, 4, 0)
      /\ other = "clr" => AddsClr(e4, e3, 4, 0)
  BY <1>1, <1>2, <1>6, Numbers, OutputEvent
<1>8. Quiet(Load) /\ Outless(Load)
  BY OtherActions DEF Outless
<1>9. /\ SettingUp(e5) /\ Falling(e5, 5, 1, 0) /\ Others(e5, e4, 5) /\ SameMatch(e5, e4)
      /\ SameOutputs(e5, e4)
  BY <1>7, <1>8, Numbers, FallEvent
<1>10. SameMatch(e5, b)
  BY <1>3, <1>4, <1>5, <1>6, <1>7, <1>9 DEF SameMatch
<1>11. /\ At(e5, 0, 1, 0) /\ At(e5, 1, 2, 0) /\ At(e5, 3, 3, 1) /\ At(e5, 4, 4, 1)
       /\ Falling(e5, 2, 0, 1) /\ Falling(e5, 5, 1, 0)
  <2>1. /\ e5.ev[0] = e0.ev[0] /\ e5.ev[1] = e1.ev[1] /\ e5.ev[2] = e2.ev[2]
        /\ e5.ev[3] = e3.ev[3] /\ e5.ev[4] = e4.ev[4]
    BY <1>4, <1>5, <1>6, <1>7, <1>9, Numbers DEF Others
  <2>2. At(e5, 0, 1, 0) /\ At(e5, 1, 2, 0)
    BY <1>3, <1>4, <2>1 DEF At
  <2>3. At(e5, 3, 3, 1) /\ At(e5, 4, 4, 1)
    BY <1>6, <1>7, <2>1 DEF At
  <2>4. Falling(e5, 2, 0, 1)
    BY <1>5, <2>1 DEF Falling
  <2>5. QED
    BY <1>9, <2>2, <2>3, <2>4
<1>12. /\ e5.set[0] = (IF First(p) THEN {0, 3} ELSE {1, 4})
       /\ e5.clr[0] = (IF First(p) THEN {1, 4} ELSE {0, 3})
       /\ \A o \in Timer!Outputs \ {0} : e5.set[o] = {} /\ e5.clr[o] = {}
  <2>1. CASE First(p)
    <3>1. /\ AddsSet(e0, b, 0, 0) /\ AddsClr(e1, e0, 1, 0)
          /\ AddsSet(e3, e2, 3, 0) /\ AddsClr(e4, e3, 4, 0)
      BY <1>1, <1>3, <1>4, <1>6, <1>7, <2>1, Zenon
    <3>2. ASSUME NEW o \in Timer!Outputs
          PROVE  /\ e1.set[o] = (IF o = 0 THEN {0} ELSE {})
                 /\ e1.clr[o] = (IF o = 0 THEN {1} ELSE {})
      <4>1. b.set[o] = {} /\ b.clr[o] = {}
        OBVIOUS
      <4>2. e0.set[o] = (IF o = 0 THEN b.set[o] \cup {0} ELSE b.set[o]) /\ e0.clr[o] = b.clr[o]
        BY <3>1 DEF AddsSet
      <4>3. e1.clr[o] = (IF o = 0 THEN e0.clr[o] \cup {1} ELSE e0.clr[o]) /\ e1.set[o] = e0.set[o]
        BY <3>1 DEF AddsClr
      <4>4. QED
        BY <4>1, <4>2, <4>3
    <3>3. ASSUME NEW o \in Timer!Outputs
          PROVE  /\ e5.set[o] = (IF o = 0 THEN {0, 3} ELSE {})
                 /\ e5.clr[o] = (IF o = 0 THEN {1, 4} ELSE {})
      <4>1. e2.set[o] = e1.set[o] /\ e2.clr[o] = e1.clr[o]
        BY <1>5 DEF SameOutputs
      <4>2. e3.set[o] = (IF o = 0 THEN e2.set[o] \cup {3} ELSE e2.set[o]) /\ e3.clr[o] = e2.clr[o]
        BY <3>1 DEF AddsSet
      <4>3. e4.clr[o] = (IF o = 0 THEN e3.clr[o] \cup {4} ELSE e3.clr[o]) /\ e4.set[o] = e3.set[o]
        BY <3>1 DEF AddsClr
      <4>4. e5.set[o] = e4.set[o] /\ e5.clr[o] = e4.clr[o]
        BY <1>9 DEF SameOutputs
      <4>5. CASE o = 0
        BY <3>2, <4>1, <4>2, <4>3, <4>4, <4>5
      <4>6. CASE o # 0
        BY <3>2, <4>1, <4>2, <4>3, <4>4, <4>6
      <4>7. QED
        BY <4>5, <4>6
    <3>4. QED
      BY <2>1, <3>3, Numbers
  <2>2. CASE ~First(p)
    <3>1. /\ AddsClr(e0, b, 0, 0) /\ AddsSet(e1, e0, 1, 0)
          /\ AddsClr(e3, e2, 3, 0) /\ AddsSet(e4, e3, 4, 0)
      BY <1>1, <1>3, <1>4, <1>6, <1>7, <2>2, Zenon
    <3>2. ASSUME NEW o \in Timer!Outputs
          PROVE  /\ e1.clr[o] = (IF o = 0 THEN {0} ELSE {})
                 /\ e1.set[o] = (IF o = 0 THEN {1} ELSE {})
      <4>1. b.clr[o] = {} /\ b.set[o] = {}
        OBVIOUS
      <4>2. e0.clr[o] = (IF o = 0 THEN b.clr[o] \cup {0} ELSE b.clr[o]) /\ e0.set[o] = b.set[o]
        BY <3>1 DEF AddsClr
      <4>3. e1.set[o] = (IF o = 0 THEN e0.set[o] \cup {1} ELSE e0.set[o]) /\ e1.clr[o] = e0.clr[o]
        BY <3>1 DEF AddsSet
      <4>4. QED
        BY <4>1, <4>2, <4>3
    <3>3. ASSUME NEW o \in Timer!Outputs
          PROVE  /\ e5.clr[o] = (IF o = 0 THEN {0, 3} ELSE {})
                 /\ e5.set[o] = (IF o = 0 THEN {1, 4} ELSE {})
      <4>1. e2.clr[o] = e1.clr[o] /\ e2.set[o] = e1.set[o]
        BY <1>5 DEF SameOutputs
      <4>2. e3.clr[o] = (IF o = 0 THEN e2.clr[o] \cup {3} ELSE e2.clr[o]) /\ e3.set[o] = e2.set[o]
        BY <3>1 DEF AddsClr
      <4>3. e4.set[o] = (IF o = 0 THEN e3.set[o] \cup {4} ELSE e3.set[o]) /\ e4.clr[o] = e3.clr[o]
        BY <3>1 DEF AddsSet
      <4>4. e5.clr[o] = e4.clr[o] /\ e5.set[o] = e4.set[o]
        BY <1>9 DEF SameOutputs
      <4>5. CASE o = 0
        BY <3>2, <4>1, <4>2, <4>3, <4>4, <4>5
      <4>6. CASE o # 0
        BY <3>2, <4>1, <4>2, <4>3, <4>4, <4>6
      <4>7. QED
        BY <4>5, <4>6
    <3>4. QED
      BY <2>2, <3>3, Numbers
  <2>3. QED
    BY <2>1, <2>2
<1>13. QED
  BY <1>9, <1>10, <1>11, <1>12 DEF PulseEvents

\* The widths of sct_pwm.c are inside its period.
PwmWidth(k) == (Period \div Steps) * k
PwmShort(k) == ((Period \div Steps) \div Shorter) * k

\* The widths of sct_pwm.c are inside its period.
LEMMA PwmWidths ==
  /\ Period \in Nat \ {0} /\ Period <= W * W /\ W * W \in Nat /\ 1 \in 1 .. Steps - 1
  /\ \A k \in 1 .. Steps - 1 : /\ PwmWidth(k) \in 1 .. Period - 1
                               /\ PwmShort(k) \in 1 .. Period - 1
<1> DEFINE q == Period \div Steps
           h == q \div Shorter
<1>1. /\ Period \in Nat /\ Steps \in Nat /\ Steps > 1 /\ Shorter \in Nat \ {0} /\ q >= Shorter
      /\ Period <= W * W /\ W * W \in Nat
  BY SctAssumption, CounterWidth DEF SctAssumption
<1>2. q \in Nat /\ q >= 1 /\ q * Steps <= Period
  BY <1>1, SMT
<1> HIDE DEF q
<1>3. h \in Nat /\ h >= 1 /\ h <= q
  BY <1>1, <1>2, SMT
<1> HIDE DEF h
<1>4. ASSUME NEW k \in 1 .. Steps - 1
      PROVE  q * k \in 1 .. Period - 1 /\ h * k \in 1 .. Period - 1
  <2>1. k \in Nat /\ k >= 1 /\ k < Steps
    BY <1>1
  <2>2. q * k < q * Steps /\ q * k >= 1 /\ q * k \in Nat
    BY <1>1, <1>2, <2>1, SMT
  <2>3. h * k <= q * k /\ h * k >= 1 /\ h * k \in Nat
    BY <1>2, <1>3, <2>1, SMT
  <2>4. q * Steps \in Nat
    BY <1>1, <1>2
  <2> DEFINE x == q * k
             y == h * k
             m == q * Steps
  <2>5. x \in Nat /\ y \in Nat /\ m \in Nat /\ x < m /\ x >= 1 /\ y <= x /\ y >= 1 /\ m <= Period
    BY <1>2, <2>2, <2>3, <2>4
  <2> HIDE DEF x, y, m
  <2>6. x \in 1 .. Period - 1 /\ y \in 1 .. Period - 1
    BY <1>1, <2>5
  <2>7. QED
    BY <2>6 DEF x, y
<1>5. Period > 0
  BY <1>1, <1>2, SMT
<1>6. QED
  BY <1>1, <1>4, <1>5 DEF PwmWidth, PwmShort, q, h

\* The widths of rc_servo.c are inside its period.
LEMMA ServoWidths ==
  /\ ServoPeriod \in Nat \ {0} /\ ServoPeriod <= W * W /\ W * W \in Nat
  /\ Width0 \in 1 .. ServoPeriod - 1 /\ Width1 \in 1 .. ServoPeriod - 1
BY SctAssumption, CounterWidth DEF SctAssumption

\* The calls of sct_pwm.c are those above.
LEMMA PwmCalls ==
  /\ \A s, n, v : Pwm!Match(s, n, v) = PutBoth(s, n, v)
  /\ Pwm!Timer!sct_config(Pwm!Timer!Reset, TRUE, {}, {"l"}) = Begin
  /\ \A s, e, n, k, name : Pwm!AtMatch(s, e, n, k, name) = SetupMatch(s, e, n, k, Out(name, 0))
  /\ \A s, e, from, action, to : Pwm!Change(s, e, from, action, to)
                                   = SetupFall(s, e, from, action, to)
  /\ \A s : Pwm!Timer!sct_start_counter(s, "") = Start(s)
<1>1. \A s, n, v : Pwm!Match(s, n, v) = PutBoth(s, n, v)
  BY DEF Pwm!Match, PutBoth,
         Pwm!Timer!sct_set_match_and_reload, Pwm!Timer!sct_set_match_reload,
         Pwm!Timer!sct_set_match, Pwm!Timer!WriteReg, Pwm!Timer!Split, Pwm!Timer!Pair,
         Pwm!Timer!Halves, Timer!sct_set_match_and_reload, Timer!sct_set_match_reload,
         Timer!sct_set_match, Timer!WriteReg, Timer!Split, Timer!Pair, Timer!Halves
<1>2. Pwm!Timer!sct_config(Pwm!Timer!Reset, TRUE, {}, {"l"}) = Begin
  BY DEF Begin,
         Pwm!Timer!sct_config, Pwm!Timer!Reset, Pwm!Timer!Pair, Pwm!Timer!Halves,
         Pwm!Timer!Outputs, Pwm!Timer!Regs, Pwm!Timer!Events, Timer!sct_config,
         Timer!Reset, Timer!Pair, Timer!Halves, Timer!Outputs, Timer!Regs, Timer!Events
<1>3. \A s, e, n, k, name : Pwm!AtMatch(s, e, n, k, name) = SetupMatch(s, e, n, k, Out(name, 0))
  <2>1. \A s, e, n, op, action : Pwm!Timer!sct_setup_event(s, e, n, 0, op, action, 0)
                                    = Timer!sct_setup_event(s, e, n, 0, op, action, 0)
    BY DEF Pwm!Timer!sct_setup_event, Pwm!Timer!Adding, Pwm!Timer!AddingOutput,
         Pwm!Timer!Marking, Pwm!Timer!SetBit, Pwm!Timer!Bits, Pwm!Timer!Halves,
         Pwm!Timer!Outputs, Pwm!Timer!Regs, Timer!sct_setup_event, Timer!Adding,
         Timer!AddingOutput, Timer!Marking, Timer!SetBit, Timer!Bits, Timer!Halves,
         Timer!Outputs, Timer!Regs
  <2>2. ASSUME NEW s, NEW e, NEW n, NEW k, NEW name
        PROVE  Pwm!AtMatch(s, e, n, k, name) = SetupMatch(s, e, n, k, Out(name, 0))
    <3> DEFINE op == MatchOp(k)
               action == Out(name, 0)
    <3>1. Pwm!AtMatch(s, e, n, k, name) = Pwm!Timer!sct_setup_event(s, e, n, 0, op, action, 0)
      BY Zenon DEF Pwm!AtMatch, Pwm!Op, MatchOp, Out
    <3>2. SetupMatch(s, e, n, k, Out(name, 0)) = Timer!sct_setup_event(s, e, n, 0, op, action, 0)
      BY Zenon DEF SetupMatch
    <3> HIDE DEF op, action
    <3>3. QED
      BY <2>1, <3>1, <3>2
  <2>3. QED
    BY <2>2
<1>4. \A s, e, from, action, to : Pwm!Change(s, e, from, action, to)
                                    = SetupFall(s, e, from, action, to)
  BY DEF SetupFall, FallOp, Pwm!Change, Pwm!Op,
         Pwm!Timer!sct_setup_event, Pwm!Timer!Adding, Pwm!Timer!AddingOutput,
         Pwm!Timer!Marking, Pwm!Timer!SetBit, Pwm!Timer!Bits, Pwm!Timer!Halves,
         Pwm!Timer!Outputs, Pwm!Timer!Regs, Timer!sct_setup_event, Timer!Adding,
         Timer!AddingOutput, Timer!Marking, Timer!SetBit, Timer!Bits, Timer!Halves,
         Timer!Outputs, Timer!Regs
<1>5. \A s : Pwm!Timer!sct_start_counter(s, "") = Start(s)
  BY DEF Start, Pwm!Timer!sct_start_counter, Pwm!Timer!Half, Timer!sct_start_counter,
         Timer!Half
<1>6. QED
  BY <1>1, <1>2, <1>3, <1>4, <1>5

\* The instance of Sct that SctPwm has as sct_pwm.c is the one of this module.
LEMMA PwmTimer ==
  /\ \A s, now, before : Pwm!Timer!Tick(s, now, before) = Timer!Tick(s, now, before)
  /\ \A s, n, v : Pwm!Timer!sct_set_match_reload(s, "", n, Pwm!Timer!Split(v))
                    = PutReload(s, n, v)
  /\ Pwm!Counter = Count(sct) /\ \A n : Pwm!Reg(n) = Reg(sct, n)
<1>1. \A s, now, before : Pwm!Timer!Tick(s, now, before) = Timer!Tick(s, now, before)
  BY DEF Pwm!Timer!Tick, Pwm!Timer!Happening, Pwm!Timer!Happens, Pwm!Timer!Matches,
         Pwm!Timer!Clocked, Pwm!Timer!Running, Pwm!Timer!Value, Pwm!Timer!RegValue,
         Pwm!Timer!Whole, Pwm!Timer!Split, Pwm!Timer!Pair, Pwm!Timer!Of, Pwm!Timer!Signals,
         Pwm!Timer!NextCount, Pwm!Timer!Turned, Pwm!Timer!Limited, Pwm!Timer!NextState,
         Pwm!Timer!Reloaded, Pwm!Timer!OutputHigh, Pwm!Timer!Sets, Pwm!Timer!Clears,
         Pwm!Timer!Reversed, Pwm!Timer!Counters, Pwm!Timer!Halves, Pwm!Timer!Events,
         Pwm!Timer!Outputs, Pwm!Timer!Regs, Timer!Tick, Timer!Happening, Timer!Happens,
         Timer!Matches, Timer!Clocked, Timer!Running, Timer!Value, Timer!RegValue,
         Timer!Whole, Timer!Split, Timer!Pair, Timer!Of, Timer!Signals, Timer!NextCount,
         Timer!Turned, Timer!Limited, Timer!NextState, Timer!Reloaded, Timer!OutputHigh,
         Timer!Sets, Timer!Clears, Timer!Reversed, Timer!Counters, Timer!Halves,
         Timer!Events, Timer!Outputs, Timer!Regs
<1>2. \A s, n, v : Pwm!Timer!sct_set_match_reload(s, "", n, Pwm!Timer!Split(v))
                     = PutReload(s, n, v)
  BY DEF PutReload,
         Pwm!Timer!sct_set_match_reload, Pwm!Timer!WriteReg, Pwm!Timer!Split,
         Pwm!Timer!Pair, Pwm!Timer!Halves, Timer!sct_set_match_reload, Timer!WriteReg,
         Timer!Split, Timer!Pair, Timer!Halves
<1>3. Pwm!Counter = Count(sct)
  BY DEF Pwm!Counter, Pwm!Timer!Whole, Count, Timer!Whole
<1>4. \A n : Pwm!Reg(n) = Reg(sct, n)
  BY DEF Pwm!Reg, Reg, Pwm!Timer!RegValue, Pwm!Timer!Value, Pwm!Timer!Whole, Pwm!Timer!Halves,
         Timer!RegValue, Timer!Value, Timer!Whole, Timer!Halves
<1>5. QED
  BY <1>1, <1>2, <1>3, <1>4

\* sct_setup of sct_pwm.c, call by call.
LEMMA PwmSetUp ==
  ASSUME NEW s, s = Pwm!sct_setup
  PROVE  /\ Up(s) /\ State(s) = 0 /\ Count(s) = 0 /\ s.conflag = {}
         /\ PulseEvents("sct_pwm", s)
         /\ Reg(s, 0) = Period - 1 /\ Rel(s, 0) = Period - 1
         /\ Reg(s, 1) = 0 /\ Rel(s, 1) = 0 /\ Reg(s, 3) = 0 /\ Rel(s, 3) = 0
         /\ Reg(s, 2) = PwmWidth(1) /\ Rel(s, 2) = PwmWidth(1)
         /\ Reg(s, 4) = PwmShort(1) /\ Rel(s, 4) = PwmShort(1)
<1> DEFINE last == Period - 1
           z == 0
           w0 == PwmWidth(1)
           w1 == PwmShort(1)
           p == "sct_pwm"
           go == Pure
           a == Pwm!Timer!sct_config(Pwm!Timer!Reset, TRUE, {}, {"l"})
           b0 == Pwm!Match(a, 0, last)
           b1 == Pwm!Match(b0, 1, z)
           b2 == Pwm!Match(b1, 2, w0)
           b3 == Pwm!Match(b2, 3, z)
           b4 == Pwm!Match(b3, 4, w1)
           e0 == Pwm!AtMatch(b4, 0, 1, 0, StartName(p))
           e1 == Pwm!AtMatch(e0, 1, 2, 0, EndName(p))
           e2 == Pwm!Change(e1, 2, 0, go, 1)
           e3 == Pwm!AtMatch(e2, 3, 3, 1, StartName(p))
           e4 == Pwm!AtMatch(e3, 4, 4, 1, EndName(p))
           e5 == Pwm!Change(e4, 5, 1, Load, 0)
<1>1. s = Pwm!Timer!sct_start_counter(e5, "")
  <2>1. /\ Pwm!Config.start = StartName(p) /\ Pwm!Config.end = EndName(p)
        /\ Pwm!Config.w0 = w0 /\ Pwm!Config.w1 = w1 /\ Pwm!Config.go = go
    BY DEF Pwm!Config, StartName, EndName, First, Pure, Load, Pwm!Width, Pwm!ShortWidth, PwmWidth,
           PwmShort
  <2>2. b4 = Pwm!Registers
    BY <2>1, Zenon DEF Pwm!Registers
  <2>3. QED
    BY <2>1, <2>2, Zenon DEF Pwm!sct_setup, Pwm!EventsSetUp, Load
<1>2. IsNumber(last) /\ IsNumber(z) /\ IsNumber(w0) /\ IsNumber(w1)
  BY PwmWidths, SctAssumption DEF SctAssumption, IsNumber
<1>3. Quiet(go) /\ Outless(go)
  BY OtherActions DEF Outless
<1> HIDE DEF last, z, w0, w1, p, go
<1>4. /\ a = Begin /\ b0 = PutBoth(a, 0, last) /\ b1 = PutBoth(b0, 1, z)
      /\ b2 = PutBoth(b1, 2, w0) /\ b3 = PutBoth(b2, 3, z) /\ b4 = PutBoth(b3, 4, w1)
  BY PwmCalls, Zenon
<1>5. /\ e0 = SetupMatch(b4, 0, 1, 0, Out(StartName(p), 0))
      /\ e1 = SetupMatch(e0, 1, 2, 0, Out(EndName(p), 0))
      /\ e2 = SetupFall(e1, 2, 0, go, 1)
      /\ e3 = SetupMatch(e2, 3, 3, 1, Out(StartName(p), 0))
      /\ e4 = SetupMatch(e3, 4, 4, 1, Out(EndName(p), 0))
      /\ e5 = SetupFall(e4, 5, 1, Load, 0)
  <2>1. \A s1, e, n, k, name : Pwm!AtMatch(s1, e, n, k, name)
                                 = SetupMatch(s1, e, n, k, Out(name, 0))
    BY PwmCalls, Zenon
  <2>2. \A s1, e, from, action, to : Pwm!Change(s1, e, from, action, to)
                                       = SetupFall(s1, e, from, action, to)
    BY PwmCalls, Zenon
  <2> HIDE DEF b4
  <2>3. e0 = SetupMatch(b4, 0, 1, 0, Out(StartName(p), 0))
    BY <2>1, SMT
  <2> HIDE DEF e0
  <2>4. e1 = SetupMatch(e0, 1, 2, 0, Out(EndName(p), 0))
    BY <2>1, SMT
  <2> HIDE DEF e1
  <2>5. e2 = SetupFall(e1, 2, 0, go, 1)
    BY <2>2, SMT
  <2> HIDE DEF e2
  <2>6. e3 = SetupMatch(e2, 3, 3, 1, Out(StartName(p), 0))
    BY <2>1, SMT
  <2> HIDE DEF e3
  <2>7. e4 = SetupMatch(e3, 4, 4, 1, Out(EndName(p), 0))
    BY <2>1, SMT
  <2> HIDE DEF e4
  <2>8. e5 = SetupFall(e4, 5, 1, Load, 0)
    BY <2>2, SMT
  <2>9. QED
    BY <2>3, <2>4, <2>5, <2>6, <2>7, <2>8
<1>6. s = Start(e5)
  BY <1>1, PwmCalls, Zenon
<1> HIDE DEF a, b0, b1, b2, b3, b4, e0, e1, e2, e3, e4, e5
<1>7. b0 = PutBoth(Begin, 0, last)
  BY <1>4
<1>8. /\ SettingUp(b4)
      /\ \A o \in Timer!Outputs : b4.set[o] = {} /\ b4.clr[o] = {}
      /\ Reg(b4, 0) = last /\ Rel(b4, 0) = last /\ Reg(b4, 1) = z /\ Rel(b4, 1) = z
      /\ Reg(b4, 2) = w0 /\ Rel(b4, 2) = w0 /\ Reg(b4, 3) = z /\ Rel(b4, 3) = z
      /\ Reg(b4, 4) = w1 /\ Rel(b4, 4) = w1
  BY <1>2, <1>4, <1>7, PulseRegisters
<1>9. SettingUp(e5) /\ PulseEvents(p, e5) /\ SameMatch(e5, b4)
  BY <1>3, <1>5, <1>8, PulseEventsSetUp
<1>10. /\ Up(s) /\ State(s) = 0 /\ Count(s) = 0 /\ s.conflag = {}
       /\ s.ev = e5.ev /\ s.set = e5.set /\ s.clr = e5.clr
       /\ \A n : Reg(s, n) = Reg(e5, n) /\ Rel(s, n) = Rel(e5, n)
  BY <1>6, <1>9, StartUp
<1>11. PulseEvents(p, s)
  BY <1>9, <1>10 DEF PulseEvents, At, Falling
<1>12. /\ Reg(s, 0) = last /\ Rel(s, 0) = last /\ Reg(s, 1) = z /\ Rel(s, 1) = z
       /\ Reg(s, 2) = w0 /\ Rel(s, 2) = w0 /\ Reg(s, 3) = z /\ Rel(s, 3) = z
       /\ Reg(s, 4) = w1 /\ Rel(s, 4) = w1
  BY <1>8, <1>9, <1>10 DEF SameMatch
<1>13. QED
  BY <1>10, <1>11, <1>12 DEF last, z, w0, w1, p

\* The calls of rc_servo.c are those above.
LEMMA ServoCalls ==
  /\ \A s, n, v : Servo!Match(s, n, v) = PutBoth(s, n, v)
  /\ Servo!Timer!sct_config(Servo!Timer!Reset, TRUE, {}, {"l"}) = Begin
  /\ \A s, e, n, k, name : Servo!AtMatch(s, e, n, k, name) = SetupMatch(s, e, n, k, Out(name, 0))
  /\ \A s, e, from, action, to : Servo!Change(s, e, from, action, to)
                                   = SetupFall(s, e, from, action, to)
  /\ \A s : Servo!Timer!sct_start_counter(s, "") = Start(s)
<1>1. \A s, n, v : Servo!Match(s, n, v) = PutBoth(s, n, v)
  BY DEF Servo!Match, PutBoth,
         Servo!Timer!sct_set_match_and_reload, Servo!Timer!sct_set_match_reload,
         Servo!Timer!sct_set_match, Servo!Timer!WriteReg, Servo!Timer!Split,
         Servo!Timer!Pair, Servo!Timer!Halves, Timer!sct_set_match_and_reload,
         Timer!sct_set_match_reload, Timer!sct_set_match, Timer!WriteReg, Timer!Split,
         Timer!Pair, Timer!Halves
<1>2. Servo!Timer!sct_config(Servo!Timer!Reset, TRUE, {}, {"l"}) = Begin
  BY DEF Begin,
         Servo!Timer!sct_config, Servo!Timer!Reset, Servo!Timer!Pair, Servo!Timer!Halves,
         Servo!Timer!Outputs, Servo!Timer!Regs, Servo!Timer!Events, Timer!sct_config,
         Timer!Reset, Timer!Pair, Timer!Halves, Timer!Outputs, Timer!Regs, Timer!Events
<1>3. \A s, e, n, k, name : Servo!AtMatch(s, e, n, k, name) = SetupMatch(s, e, n, k, Out(name, 0))
  <2>1. \A s, e, n, op, action : Servo!Timer!sct_setup_event(s, e, n, 0, op, action, 0)
                                    = Timer!sct_setup_event(s, e, n, 0, op, action, 0)
    BY DEF Servo!Timer!sct_setup_event, Servo!Timer!Adding, Servo!Timer!AddingOutput,
         Servo!Timer!Marking, Servo!Timer!SetBit, Servo!Timer!Bits, Servo!Timer!Halves,
         Servo!Timer!Outputs, Servo!Timer!Regs, Timer!sct_setup_event, Timer!Adding,
         Timer!AddingOutput, Timer!Marking, Timer!SetBit, Timer!Bits, Timer!Halves,
         Timer!Outputs, Timer!Regs
  <2>2. ASSUME NEW s, NEW e, NEW n, NEW k, NEW name
        PROVE  Servo!AtMatch(s, e, n, k, name) = SetupMatch(s, e, n, k, Out(name, 0))
    <3> DEFINE op == MatchOp(k)
               action == Out(name, 0)
    <3>1. Servo!AtMatch(s, e, n, k, name) = Servo!Timer!sct_setup_event(s, e, n, 0, op, action, 0)
      BY Zenon DEF Servo!AtMatch, Servo!Op, MatchOp, Out
    <3>2. SetupMatch(s, e, n, k, Out(name, 0)) = Timer!sct_setup_event(s, e, n, 0, op, action, 0)
      BY Zenon DEF SetupMatch
    <3> HIDE DEF op, action
    <3>3. QED
      BY <2>1, <3>1, <3>2
  <2>3. QED
    BY <2>2
<1>4. \A s, e, from, action, to : Servo!Change(s, e, from, action, to)
                                    = SetupFall(s, e, from, action, to)
  BY DEF SetupFall, FallOp, Servo!Change, Servo!Op,
         Servo!Timer!sct_setup_event, Servo!Timer!Adding, Servo!Timer!AddingOutput,
         Servo!Timer!Marking, Servo!Timer!SetBit, Servo!Timer!Bits, Servo!Timer!Halves,
         Servo!Timer!Outputs, Servo!Timer!Regs, Timer!sct_setup_event, Timer!Adding,
         Timer!AddingOutput, Timer!Marking, Timer!SetBit, Timer!Bits, Timer!Halves,
         Timer!Outputs, Timer!Regs
<1>5. \A s : Servo!Timer!sct_start_counter(s, "") = Start(s)
  BY DEF Start, Servo!Timer!sct_start_counter, Servo!Timer!Half, Timer!sct_start_counter,
         Timer!Half
<1>6. QED
  BY <1>1, <1>2, <1>3, <1>4, <1>5

\* The instance of Sct that SctPwm has as rc_servo.c is the one of this module.
LEMMA ServoTimer ==
  /\ \A s, now, before : Servo!Timer!Tick(s, now, before) = Timer!Tick(s, now, before)
  /\ \A s, n, v : Servo!Timer!sct_set_match_reload(s, "", n, Servo!Timer!Split(v))
                    = PutReload(s, n, v)
  /\ Servo!Counter = Count(sct) /\ \A n : Servo!Reg(n) = Reg(sct, n)
<1>1. \A s, now, before : Servo!Timer!Tick(s, now, before) = Timer!Tick(s, now, before)
  BY DEF Servo!Timer!Tick, Servo!Timer!Happening, Servo!Timer!Happens, Servo!Timer!Matches,
         Servo!Timer!Clocked, Servo!Timer!Running, Servo!Timer!Value, Servo!Timer!RegValue,
         Servo!Timer!Whole, Servo!Timer!Split, Servo!Timer!Pair, Servo!Timer!Of,
         Servo!Timer!Signals, Servo!Timer!NextCount, Servo!Timer!Turned,
         Servo!Timer!Limited, Servo!Timer!NextState, Servo!Timer!Reloaded,
         Servo!Timer!OutputHigh, Servo!Timer!Sets, Servo!Timer!Clears,
         Servo!Timer!Reversed, Servo!Timer!Counters, Servo!Timer!Halves,
         Servo!Timer!Events, Servo!Timer!Outputs, Servo!Timer!Regs, Timer!Tick,
         Timer!Happening, Timer!Happens, Timer!Matches, Timer!Clocked, Timer!Running,
         Timer!Value, Timer!RegValue, Timer!Whole, Timer!Split, Timer!Pair, Timer!Of,
         Timer!Signals, Timer!NextCount, Timer!Turned, Timer!Limited, Timer!NextState,
         Timer!Reloaded, Timer!OutputHigh, Timer!Sets, Timer!Clears, Timer!Reversed,
         Timer!Counters, Timer!Halves, Timer!Events, Timer!Outputs, Timer!Regs
<1>2. \A s, n, v : Servo!Timer!sct_set_match_reload(s, "", n, Servo!Timer!Split(v))
                     = PutReload(s, n, v)
  BY DEF PutReload,
         Servo!Timer!sct_set_match_reload, Servo!Timer!WriteReg, Servo!Timer!Split,
         Servo!Timer!Pair, Servo!Timer!Halves, Timer!sct_set_match_reload, Timer!WriteReg,
         Timer!Split, Timer!Pair, Timer!Halves
<1>3. Servo!Counter = Count(sct)
  BY DEF Servo!Counter, Servo!Timer!Whole, Count, Timer!Whole
<1>4. \A n : Servo!Reg(n) = Reg(sct, n)
  BY DEF Servo!Reg, Reg, Servo!Timer!RegValue, Servo!Timer!Value, Servo!Timer!Whole,
         Servo!Timer!Halves,
         Timer!RegValue, Timer!Value, Timer!Whole, Timer!Halves
<1>5. QED
  BY <1>1, <1>2, <1>3, <1>4

\* sct_setup of rc_servo.c, call by call.
LEMMA ServoSetUp ==
  ASSUME NEW s, s = Servo!sct_setup
  PROVE  /\ Up(s) /\ State(s) = 0 /\ Count(s) = 0 /\ s.conflag = {}
         /\ PulseEvents("rc_servo", s)
         /\ Reg(s, 0) = ServoPeriod - 1 /\ Rel(s, 0) = ServoPeriod - 1
         /\ Reg(s, 1) = 0 /\ Rel(s, 1) = 0 /\ Reg(s, 3) = 0 /\ Rel(s, 3) = 0
         /\ Reg(s, 2) = Width0 /\ Rel(s, 2) = Width0
         /\ Reg(s, 4) = Width1 /\ Rel(s, 4) = Width1
<1> DEFINE last == ServoPeriod - 1
           z == 0
           w0 == Width0
           w1 == Width1
           p == "rc_servo"
           go == Load
           a == Servo!Timer!sct_config(Servo!Timer!Reset, TRUE, {}, {"l"})
           b0 == Servo!Match(a, 0, last)
           b1 == Servo!Match(b0, 1, z)
           b2 == Servo!Match(b1, 2, w0)
           b3 == Servo!Match(b2, 3, z)
           b4 == Servo!Match(b3, 4, w1)
           e0 == Servo!AtMatch(b4, 0, 1, 0, StartName(p))
           e1 == Servo!AtMatch(e0, 1, 2, 0, EndName(p))
           e2 == Servo!Change(e1, 2, 0, go, 1)
           e3 == Servo!AtMatch(e2, 3, 3, 1, StartName(p))
           e4 == Servo!AtMatch(e3, 4, 4, 1, EndName(p))
           e5 == Servo!Change(e4, 5, 1, Load, 0)
<1>1. s = Servo!Timer!sct_start_counter(e5, "")
  <2>1. /\ Servo!Config.start = StartName(p) /\ Servo!Config.end = EndName(p)
        /\ Servo!Config.w0 = w0 /\ Servo!Config.w1 = w1 /\ Servo!Config.go = go
    BY DEF Servo!Config, StartName, EndName, First, Pure, Load
  <2>2. b4 = Servo!Registers
    BY <2>1, Zenon DEF Servo!Registers
  <2>3. QED
    BY <2>1, <2>2, Zenon DEF Servo!sct_setup, Servo!EventsSetUp, Load
<1>2. IsNumber(last) /\ IsNumber(z) /\ IsNumber(w0) /\ IsNumber(w1)
  BY ServoWidths, SctAssumption DEF SctAssumption, IsNumber
<1>3. Quiet(go) /\ Outless(go)
  BY OtherActions DEF Outless
<1> HIDE DEF last, z, w0, w1, p, go
<1>4. /\ a = Begin /\ b0 = PutBoth(a, 0, last) /\ b1 = PutBoth(b0, 1, z)
      /\ b2 = PutBoth(b1, 2, w0) /\ b3 = PutBoth(b2, 3, z) /\ b4 = PutBoth(b3, 4, w1)
  BY ServoCalls, Zenon
<1>5. /\ e0 = SetupMatch(b4, 0, 1, 0, Out(StartName(p), 0))
      /\ e1 = SetupMatch(e0, 1, 2, 0, Out(EndName(p), 0))
      /\ e2 = SetupFall(e1, 2, 0, go, 1)
      /\ e3 = SetupMatch(e2, 3, 3, 1, Out(StartName(p), 0))
      /\ e4 = SetupMatch(e3, 4, 4, 1, Out(EndName(p), 0))
      /\ e5 = SetupFall(e4, 5, 1, Load, 0)
  <2>1. \A s1, e, n, k, name : Servo!AtMatch(s1, e, n, k, name)
                                 = SetupMatch(s1, e, n, k, Out(name, 0))
    BY ServoCalls, Zenon
  <2>2. \A s1, e, from, action, to : Servo!Change(s1, e, from, action, to)
                                       = SetupFall(s1, e, from, action, to)
    BY ServoCalls, Zenon
  <2> HIDE DEF b4
  <2>3. e0 = SetupMatch(b4, 0, 1, 0, Out(StartName(p), 0))
    BY <2>1, SMT
  <2> HIDE DEF e0
  <2>4. e1 = SetupMatch(e0, 1, 2, 0, Out(EndName(p), 0))
    BY <2>1, SMT
  <2> HIDE DEF e1
  <2>5. e2 = SetupFall(e1, 2, 0, go, 1)
    BY <2>2, SMT
  <2> HIDE DEF e2
  <2>6. e3 = SetupMatch(e2, 3, 3, 1, Out(StartName(p), 0))
    BY <2>1, SMT
  <2> HIDE DEF e3
  <2>7. e4 = SetupMatch(e3, 4, 4, 1, Out(EndName(p), 0))
    BY <2>1, SMT
  <2> HIDE DEF e4
  <2>8. e5 = SetupFall(e4, 5, 1, Load, 0)
    BY <2>2, SMT
  <2>9. QED
    BY <2>3, <2>4, <2>5, <2>6, <2>7, <2>8
<1>6. s = Start(e5)
  BY <1>1, ServoCalls, Zenon
<1> HIDE DEF a, b0, b1, b2, b3, b4, e0, e1, e2, e3, e4, e5
<1>7. b0 = PutBoth(Begin, 0, last)
  BY <1>4
<1>8. /\ SettingUp(b4)
      /\ \A o \in Timer!Outputs : b4.set[o] = {} /\ b4.clr[o] = {}
      /\ Reg(b4, 0) = last /\ Rel(b4, 0) = last /\ Reg(b4, 1) = z /\ Rel(b4, 1) = z
      /\ Reg(b4, 2) = w0 /\ Rel(b4, 2) = w0 /\ Reg(b4, 3) = z /\ Rel(b4, 3) = z
      /\ Reg(b4, 4) = w1 /\ Rel(b4, 4) = w1
  BY <1>2, <1>4, <1>7, PulseRegisters
<1>9. SettingUp(e5) /\ PulseEvents(p, e5) /\ SameMatch(e5, b4)
  BY <1>3, <1>5, <1>8, PulseEventsSetUp
<1>10. /\ Up(s) /\ State(s) = 0 /\ Count(s) = 0 /\ s.conflag = {}
       /\ s.ev = e5.ev /\ s.set = e5.set /\ s.clr = e5.clr
       /\ \A n : Reg(s, n) = Reg(e5, n) /\ Rel(s, n) = Rel(e5, n)
  BY <1>6, <1>9, StartUp
<1>11. PulseEvents(p, s)
  BY <1>9, <1>10 DEF PulseEvents, At, Falling
<1>12. /\ Reg(s, 0) = last /\ Rel(s, 0) = last /\ Reg(s, 1) = z /\ Rel(s, 1) = z
       /\ Reg(s, 2) = w0 /\ Rel(s, 2) = w0 /\ Reg(s, 3) = z /\ Rel(s, 3) = z
       /\ Reg(s, 4) = w1 /\ Rel(s, 4) = w1
  BY <1>8, <1>9, <1>10 DEF SameMatch
<1>13. QED
  BY <1>10, <1>11, <1>12 DEF last, z, w0, w1, p

\* A width that main() writes while the timer runs.
LEMMA PulseReload ==
  ASSUME NEW p, NEW period, PulseInv(p, period), NEW n \in Timer!Regs, n = 2 \/ n = 4,
         NEW w, w \in 1 .. period - 1, IsNumber(w), sct' = PutReload(sct, n, w),
         UNCHANGED <<high, asked, pure>>
  PROVE  PulseInv(p, period)'
<1>1. Up(sct)
  BY DEF PulseInv
<1>2. Up(sct)' /\ ReloadedAt(sct', sct, n, w) /\ SameRun(sct', sct)
  BY <1>1, ReloadKeeps
<1>3. /\ Count(sct)' = Count(sct) /\ State(sct)' = State(sct) /\ sct'.out = sct.out
      /\ sct'.conflag = sct.conflag
      /\ sct'.ev = sct.ev /\ sct'.set = sct.set /\ sct'.clr = sct.clr
      /\ \A m : Reg(sct, m)' = Reg(sct, m)
  BY <1>2 DEF SameRun, SameEvents, ReloadedAt
<1>4. PulseEvents(p, sct)'
  BY <1>3 DEF PulseInv, PulseEvents, At, Falling
<1>5. PulseMatch(period, sct)'
  <2>1. PulseMatch(period, sct)
    BY DEF PulseInv
  <2>2. /\ Rel(sct, 0)' = Rel(sct, 0) /\ Rel(sct, 1)' = Rel(sct, 1) /\ Rel(sct, 3)' = Rel(sct, 3)
        /\ Rel(sct, 2)' \in {Rel(sct, 2), w} /\ Rel(sct, 4)' \in {Rel(sct, 4), w}
    BY <1>2, Numbers DEF ReloadedAt
  <2>3. QED
    BY <1>3, <2>1, <2>2 DEF PulseMatch
<1>6. QED
  BY <1>2, <1>3, <1>4, <1>5 DEF PulseInv

\* sct_pwm.c begins with its first width.
LEMMA PwmInitially == Pwm!Init => PwmInv
<1> SUFFICES ASSUME Pwm!Init PROVE PwmInv
  OBVIOUS
<1>1. /\ Up(sct) /\ State(sct) = 0 /\ Count(sct) = 0 /\ sct.conflag = {}
      /\ PulseEvents("sct_pwm", sct)
      /\ Reg(sct, 0) = Period - 1 /\ Rel(sct, 0) = Period - 1
      /\ Reg(sct, 1) = 0 /\ Rel(sct, 1) = 0 /\ Reg(sct, 3) = 0 /\ Rel(sct, 3) = 0
      /\ Reg(sct, 2) = PwmWidth(1) /\ Rel(sct, 2) = PwmWidth(1)
      /\ Reg(sct, 4) = PwmShort(1) /\ Rel(sct, 4) = PwmShort(1)
  BY PwmSetUp DEF Pwm!Init
<1>2. /\ Period \in Nat \ {0} /\ PwmWidth(1) \in 1 .. Period - 1
      /\ PwmShort(1) \in 1 .. Period - 1 /\ 1 \in 1 .. Steps - 1
  BY PwmWidths
<1>3. pure = FALSE
      /\ i = 1
  BY DEF Pwm!Init
<1>4. PulseMatch(Period, sct)
  BY <1>1, <1>2 DEF PulseMatch
<1>5. QED
  BY <1>1, <1>2, <1>3, <1>4 DEF PwmInv, PulseInv

\* A tick while sct_pwm.c runs.
LEMMA PwmClock ==
  ASSUME PulseInv("sct_pwm", Period), Pwm!Clock
  PROVE  PulseInv("sct_pwm", Period)'
<1> DEFINE now == IF button THEN {0} ELSE {}
           before == IF wasHigh THEN {0} ELSE {}
           p == "sct_pwm"
<1>1. PulseClocked(Period, now, before)
  BY PwmTimer, Zenon DEF Pwm!Clock, PulseClocked
<1>2. Period \in Nat /\ Period <= W * W
  BY PwmWidths
<1>3. PulseInv(p, Period)
  OBVIOUS
<1> HIDE DEF now, before, p
<1>4. PulseInv(p, Period)'
  BY <1>1, <1>2, <1>3, PulseClock
<1>5. QED
  BY <1>4 DEF p

\* rc_servo.c begins with its first width.
LEMMA ServoInitially == Servo!Init => ServoInv
<1> SUFFICES ASSUME Servo!Init PROVE ServoInv
  OBVIOUS
<1>1. /\ Up(sct) /\ State(sct) = 0 /\ Count(sct) = 0 /\ sct.conflag = {}
      /\ PulseEvents("rc_servo", sct)
      /\ Reg(sct, 0) = ServoPeriod - 1 /\ Rel(sct, 0) = ServoPeriod - 1
      /\ Reg(sct, 1) = 0 /\ Rel(sct, 1) = 0 /\ Reg(sct, 3) = 0 /\ Rel(sct, 3) = 0
      /\ Reg(sct, 2) = Width0 /\ Rel(sct, 2) = Width0
      /\ Reg(sct, 4) = Width1 /\ Rel(sct, 4) = Width1
  BY ServoSetUp DEF Servo!Init
<1>2. /\ ServoPeriod \in Nat \ {0}
      /\ Width0 \in 1 .. ServoPeriod - 1 /\ Width1 \in 1 .. ServoPeriod - 1
  BY ServoWidths
<1>3. pure = FALSE
  BY DEF Servo!Init
<1>4. PulseMatch(ServoPeriod, sct)
  BY <1>1, <1>2 DEF PulseMatch
<1>5. QED
  BY <1>1, <1>2, <1>3, <1>4 DEF ServoInv, PulseInv

\* A tick while rc_servo.c runs.
LEMMA ServoClock ==
  ASSUME PulseInv("rc_servo", ServoPeriod), Servo!Clock
  PROVE  PulseInv("rc_servo", ServoPeriod)'
<1> DEFINE now == IF button THEN {0} ELSE {}
           before == IF wasHigh THEN {0} ELSE {}
           p == "rc_servo"
<1>1. PulseClocked(ServoPeriod, now, before)
  BY ServoTimer, Zenon DEF Servo!Clock, PulseClocked
<1>2. ServoPeriod \in Nat /\ ServoPeriod <= W * W
  BY ServoWidths
<1>3. PulseInv(p, ServoPeriod)
  OBVIOUS
<1> HIDE DEF now, before, p
<1>4. PulseInv(p, ServoPeriod)'
  BY <1>1, <1>2, <1>3, PulseClock
<1>5. QED
  BY <1>4 DEF p

\* Every step of sct_pwm.c keeps its invariant.
LEMMA PwmStep ==
  PwmInv /\ (Pwm!Next \/ UNCHANGED pwm) => PwmInv'
<1> SUFFICES ASSUME PwmInv, Pwm!Next \/ UNCHANGED pwm PROVE PwmInv'
  OBVIOUS
<1>1. PulseInv("sct_pwm", Period) /\ i \in 1 .. Steps - 1
  BY DEF PwmInv
<1>2. CASE Pwm!Clock
  <2>1. PulseInv("sct_pwm", Period)'
    BY <1>1, <1>2, PwmClock
  <2>2. i' = i
    BY <1>2 DEF Pwm!Clock
  <2>3. QED
    BY <1>1, <2>1, <2>2 DEF PwmInv
<1>3. CASE Pwm!Button
  BY <1>1, <1>3 DEF Pwm!Button, PwmInv, PulseInv
<1>4. CASE Pwm!WriteWidth
  <2> DEFINE w == PwmWidth(i)
             p == "sct_pwm"
  <2>1. w \in 1 .. Period - 1 /\ IsNumber(w)
    <3>1. w \in 1 .. Period - 1
      BY <1>1, PwmWidths
    <3> HIDE DEF w
    <3>2. QED
      BY <3>1, PwmWidths DEF IsNumber
  <2>2. sct' = PutReload(sct, 2, w)
    <3>1. sct' = Pwm!Timer!sct_set_match_reload(sct, "", 2, Pwm!Timer!Split(w))
      BY <1>4, Zenon DEF Pwm!WriteWidth, Pwm!Reload, Pwm!Width, PwmWidth
    <3> HIDE DEF w
    <3>2. QED
      BY <3>1, PwmTimer, Zenon
  <2>3. i' = i /\ UNCHANGED <<high, asked, pure>>
    BY <1>4 DEF Pwm!WriteWidth
  <2>4. PulseInv(p, Period)
    BY <1>1
  <2> HIDE DEF w, p
  <2>5. PulseInv(p, Period)'
    BY <2>1, <2>2, <2>3, <2>4, Numbers, PulseReload
  <2>6. QED
    BY <1>1, <2>3, <2>5 DEF PwmInv, p
<1>5. CASE Pwm!WriteShortWidth
  <2> DEFINE w == PwmShort(i)
             p == "sct_pwm"
  <2>1. w \in 1 .. Period - 1 /\ IsNumber(w)
    <3>1. w \in 1 .. Period - 1
      BY <1>1, PwmWidths
    <3> HIDE DEF w
    <3>2. QED
      BY <3>1, PwmWidths DEF IsNumber
  <2>2. sct' = PutReload(sct, 4, w)
    <3>1. sct' = Pwm!Timer!sct_set_match_reload(sct, "", 4, Pwm!Timer!Split(w))
      BY <1>5, Zenon DEF Pwm!WriteShortWidth, Pwm!Reload, Pwm!ShortWidth, PwmShort
    <3> HIDE DEF w
    <3>2. QED
      BY <3>1, PwmTimer, Zenon
  <2>3. UNCHANGED <<high, asked, pure>>
    BY <1>5 DEF Pwm!WriteShortWidth
  <2>4. i' \in 1 .. Steps - 1
    BY <1>1, <1>5, SctAssumption DEF Pwm!WriteShortWidth, SctAssumption
  <2>5. PulseInv(p, Period)
    BY <1>1
  <2> HIDE DEF w, p
  <2>6. PulseInv(p, Period)'
    BY <2>1, <2>2, <2>3, <2>5, Numbers, PulseReload
  <2>7. QED
    BY <2>4, <2>6 DEF PwmInv, p
<1>6. CASE UNCHANGED pwm
  BY <1>1, <1>6 DEF pwm, PwmInv, PulseInv
<1>7. QED
  BY <1>2, <1>3, <1>4, <1>5, <1>6 DEF Pwm!Next, Pwm!main

\* Every step of rc_servo.c keeps its invariant.
LEMMA ServoStep ==
  ServoInv /\ (Servo!Next \/ UNCHANGED pwm) => ServoInv'
<1> SUFFICES ASSUME ServoInv, Servo!Next \/ UNCHANGED pwm PROVE ServoInv'
  OBVIOUS
<1>1. CASE Servo!Clock
  BY <1>1, ServoClock DEF ServoInv
<1>2. CASE Servo!Button
  BY <1>2 DEF Servo!Button, ServoInv, PulseInv
<1>3. ~Servo!main
  BY DEF Servo!main, Servo!WriteWidth, Servo!WriteShortWidth
<1>4. CASE UNCHANGED pwm
  BY <1>4 DEF pwm, ServoInv, PulseInv
<1>5. QED
  BY <1>1, <1>2, <1>3, <1>4 DEF Servo!Next

\* The invariant says what sct_pwm.c promises.
LEMMA PwmPulses == PwmInv => Pwm!PulseAsAsked /\ Pwm!NoConflict
BY PwmTimer DEF PwmInv, PulseInv, Pwm!PulseAsAsked, Pwm!NoConflict, First, Wide, State

\* The invariant says what rc_servo.c promises.
LEMMA ServoPulses == ServoInv => Servo!PulseAsAsked /\ Servo!NoConflict
BY ServoTimer DEF ServoInv, PulseInv, Servo!PulseAsAsked, Servo!NoConflict, First, Wide, State

-----------------------------------------------------------------------------
(* The speaker.                                                            *)

\* The calls of the program are those above.
LEMMA SpeakerCalls ==
  /\ \A s, n, v : Speaker!Match(s, n, v) = PutBoth(s, n, v)
  /\ Speaker!Timer!sct_config(Speaker!Timer!Reset, TRUE, {}, {"l"}) = Begin
  /\ \A s, e, n, act : Speaker!AtMatch(s, e, n, act) = SetupMatch(s, e, n, 0, {act})
  /\ \A s : Speaker!Timer!sct_start_counter(s, "") = Start(s)
<1>1. \A s, n, v : Speaker!Match(s, n, v) = PutBoth(s, n, v)
  BY DEF Speaker!Match, PutBoth,
         Speaker!Timer!sct_set_match_and_reload, Speaker!Timer!sct_set_match_reload,
         Speaker!Timer!sct_set_match, Speaker!Timer!WriteReg, Speaker!Timer!Split,
         Speaker!Timer!Pair, Speaker!Timer!Halves, Timer!sct_set_match_and_reload,
         Timer!sct_set_match_reload, Timer!sct_set_match, Timer!WriteReg, Timer!Split,
         Timer!Pair, Timer!Halves
<1>2. Speaker!Timer!sct_config(Speaker!Timer!Reset, TRUE, {}, {"l"}) = Begin
  BY DEF Begin,
         Speaker!Timer!sct_config, Speaker!Timer!Reset, Speaker!Timer!Pair,
         Speaker!Timer!Halves, Speaker!Timer!Outputs, Speaker!Timer!Regs,
         Speaker!Timer!Events, Timer!sct_config, Timer!Reset, Timer!Pair, Timer!Halves,
         Timer!Outputs, Timer!Regs, Timer!Events
<1>3. \A s, e, n, act : Speaker!AtMatch(s, e, n, act) = SetupMatch(s, e, n, 0, {act})
  <2>1. \A s, e, n, op, action : Speaker!Timer!sct_setup_event(s, e, n, 0, op, action, 0)
                                    = Timer!sct_setup_event(s, e, n, 0, op, action, 0)
    BY DEF Speaker!Timer!sct_setup_event, Speaker!Timer!Adding, Speaker!Timer!AddingOutput,
         Speaker!Timer!Marking, Speaker!Timer!SetBit, Speaker!Timer!Bits,
         Speaker!Timer!Halves, Speaker!Timer!Outputs, Speaker!Timer!Regs,
         Timer!sct_setup_event, Timer!Adding, Timer!AddingOutput, Timer!Marking,
         Timer!SetBit, Timer!Bits, Timer!Halves, Timer!Outputs, Timer!Regs
  <2>2. ASSUME NEW s, NEW e, NEW n, NEW act
        PROVE  Speaker!AtMatch(s, e, n, act) = SetupMatch(s, e, n, 0, {act})
    <3> DEFINE op == MatchOp(0)
               action == {act}
    <3>1. Speaker!AtMatch(s, e, n, act) = Speaker!Timer!sct_setup_event(s, e, n, 0, op, action, 0)
      BY Zenon DEF Speaker!AtMatch, Speaker!Op, MatchOp
    <3>2. SetupMatch(s, e, n, 0, {act}) = Timer!sct_setup_event(s, e, n, 0, op, action, 0)
      BY Zenon DEF SetupMatch
    <3> HIDE DEF op, action
    <3>3. QED
      BY <2>1, <3>1, <3>2
  <2>3. QED
    BY <2>2
<1>4. \A s : Speaker!Timer!sct_start_counter(s, "") = Start(s)
  BY DEF Start, Speaker!Timer!sct_start_counter, Speaker!Timer!Half, Timer!sct_start_counter,
         Timer!Half
<1>5. QED
  BY <1>1, <1>2, <1>3, <1>4

\* The instance of Sct that Piezo has is the one of this module.
LEMMA SpeakerTimer ==
  /\ \A s, now, before : Speaker!Timer!Tick(s, now, before) = Timer!Tick(s, now, before)
  /\ \A s, n, v : Speaker!Timer!sct_set_match_reload(s, "", n, Speaker!Timer!Split(v))
                    = PutReload(s, n, v)
  /\ Speaker!Counter = Count(sct) /\ Speaker!Limit = Reg(sct, 0)
<1>1. \A s, now, before : Speaker!Timer!Tick(s, now, before) = Timer!Tick(s, now, before)
  BY DEF Speaker!Timer!Tick, Speaker!Timer!Happening, Speaker!Timer!Happens,
         Speaker!Timer!Matches, Speaker!Timer!Clocked, Speaker!Timer!Running,
         Speaker!Timer!Value, Speaker!Timer!RegValue, Speaker!Timer!Whole,
         Speaker!Timer!Split, Speaker!Timer!Pair, Speaker!Timer!Of, Speaker!Timer!Signals,
         Speaker!Timer!NextCount, Speaker!Timer!Turned, Speaker!Timer!Limited,
         Speaker!Timer!NextState, Speaker!Timer!Reloaded, Speaker!Timer!OutputHigh,
         Speaker!Timer!Sets, Speaker!Timer!Clears, Speaker!Timer!Reversed,
         Speaker!Timer!Counters, Speaker!Timer!Halves, Speaker!Timer!Events,
         Speaker!Timer!Outputs, Speaker!Timer!Regs, Timer!Tick, Timer!Happening,
         Timer!Happens, Timer!Matches, Timer!Clocked, Timer!Running, Timer!Value,
         Timer!RegValue, Timer!Whole, Timer!Split, Timer!Pair, Timer!Of, Timer!Signals,
         Timer!NextCount, Timer!Turned, Timer!Limited, Timer!NextState, Timer!Reloaded,
         Timer!OutputHigh, Timer!Sets, Timer!Clears, Timer!Reversed, Timer!Counters,
         Timer!Halves, Timer!Events, Timer!Outputs, Timer!Regs
<1>2. \A s, n, v : Speaker!Timer!sct_set_match_reload(s, "", n, Speaker!Timer!Split(v))
                     = PutReload(s, n, v)
  BY DEF PutReload,
         Speaker!Timer!sct_set_match_reload, Speaker!Timer!WriteReg, Speaker!Timer!Split,
         Speaker!Timer!Pair, Speaker!Timer!Halves, Timer!sct_set_match_reload,
         Timer!WriteReg, Timer!Split, Timer!Pair, Timer!Halves
<1>3. Speaker!Counter = Count(sct)
  BY DEF Speaker!Counter, Speaker!Timer!Whole, Count, Timer!Whole
<1>4. Speaker!Limit = Reg(sct, 0)
  BY DEF Speaker!Limit, Reg, Speaker!Timer!RegValue, Speaker!Timer!Value, Speaker!Timer!Whole,
         Speaker!Timer!Halves, Timer!RegValue, Timer!Value, Timer!Whole, Timer!Halves
<1>5. QED
  BY <1>1, <1>2, <1>3, <1>4

\* The other output is left alone.
LEMMA Apart ==
  ASSUME NEW t, NEW s, NEW e, NEW o, AddsSet(t, s, e, o) \/ AddsClr(t, s, e, o),
         NEW p \in Timer!Outputs, p # o
  PROVE  t.set[p] = s.set[p] /\ t.clr[p] = s.clr[p]
BY DEF AddsSet, AddsClr

\* The two outputs differ.
LEMMA ZeroOne == 0 # 1
OBVIOUS

\* The setup: two outputs driven against each other, and an interrupt.
LEMMA SpeakerEventsSetUp ==
  ASSUME NEW b, SettingUp(b), \A o \in Timer!Outputs : b.set[o] = {} /\ b.clr[o] = {},
         \A e \in Timer!Events : Never(b, e),
         NEW e0, e0 = SetupMatch(b, 0, 1, 0, Out("set", 0)),
         NEW e1, e1 = SetupMatch(e0, 1, 2, 0, Out("clr", 0)),
         NEW e2, e2 = SetupMatch(e1, 2, 1, 0, Out("clr", 1)),
         NEW e3, e3 = SetupMatch(e2, 3, 2, 0, Out("set", 1)),
         NEW e4, e4 = SetupMatch(e3, 4, 1, 0, Interrupt)
  PROVE  SettingUp(e4) /\ SpeakerEvents(e4) /\ SameMatch(e4, b)
<1>1. OutName("set") /\ OutName("clr")
  BY DEF OutName
<1>2. /\ SettingUp(e0) /\ At(e0, 0, 1, 0) /\ Others(e0, b, 0) /\ SameMatch(e0, b)
      /\ AddsSet(e0, b, 0, 0)
  BY <1>1, Numbers, OutputEvent
<1>3. /\ SettingUp(e1) /\ At(e1, 1, 2, 0) /\ Others(e1, e0, 1) /\ SameMatch(e1, e0)
      /\ AddsClr(e1, e0, 1, 0)
  BY <1>1, <1>2, Numbers, OutputEvent
<1>4. /\ SettingUp(e2) /\ At(e2, 2, 1, 0) /\ Others(e2, e1, 2) /\ SameMatch(e2, e1)
      /\ AddsClr(e2, e1, 2, 1)
  BY <1>1, <1>3, Numbers, OutputEvent
<1>5. /\ SettingUp(e3) /\ At(e3, 3, 2, 0) /\ Others(e3, e2, 3) /\ SameMatch(e3, e2)
      /\ AddsSet(e3, e2, 3, 1)
  BY <1>1, <1>4, Numbers, OutputEvent
<1>6. Quiet(Interrupt) /\ ~Loads(Interrupt) /\ Outless(Interrupt)
  BY OtherActions DEF Outless
<1>7. /\ SettingUp(e4) /\ At(e4, 4, 1, 0) /\ Others(e4, e3, 4)
      /\ \A m : Reg(e4, m) = Reg(e3, m) /\ Rel(e4, m) = Rel(e3, m)
      /\ Effects(e4, e3, 4, Interrupt)
  BY <1>5, <1>6, Numbers, MatchEvent
<1>8. SameOutputs(e4, e3)
  BY <1>6, <1>7 DEF Effects, SameOutputs, Outless
<1>9. SameMatch(e4, b)
  BY <1>2, <1>3, <1>4, <1>5, <1>7 DEF SameMatch
<1>10. /\ At(e4, 0, 1, 0) /\ At(e4, 1, 2, 0) /\ At(e4, 2, 1, 0) /\ At(e4, 3, 2, 0)
       /\ At(e4, 4, 1, 0) /\ Never(e4, 5)
  <2>1. /\ e4.ev[0] = e0.ev[0] /\ e4.ev[1] = e1.ev[1] /\ e4.ev[2] = e2.ev[2]
        /\ e4.ev[3] = e3.ev[3] /\ e4.ev[5] = b.ev[5]
    BY <1>2, <1>3, <1>4, <1>5, <1>7, Numbers DEF Others
  <2>2. At(e4, 0, 1, 0) /\ At(e4, 1, 2, 0)
    BY <1>2, <1>3, <2>1 DEF At
  <2>3. At(e4, 2, 1, 0) /\ At(e4, 3, 2, 0)
    BY <1>4, <1>5, <2>1 DEF At
  <2>4. Never(b, 5)
    BY Numbers
  <2>5. Never(e4, 5)
    BY <2>1, <2>4 DEF Never
  <2>6. QED
    BY <1>7, <2>2, <2>3, <2>5
<1>11. e4.set[0] = {0} /\ e4.clr[0] = {1}
  <2>1. b.set[0] = {} /\ b.clr[0] = {}
    BY Numbers
  <2>2. e0.set[0] = b.set[0] \cup {0} /\ e0.clr[0] = b.clr[0]
    BY <1>2, Numbers DEF AddsSet
  <2>3. e1.clr[0] = e0.clr[0] \cup {1} /\ e1.set[0] = e0.set[0]
    BY <1>3, Numbers DEF AddsClr
  <2>4. e2.clr[0] = e1.clr[0] /\ e2.set[0] = e1.set[0]
    BY <1>4, Numbers, ZeroOne, Apart
  <2>5. e3.clr[0] = e2.clr[0] /\ e3.set[0] = e2.set[0]
    BY <1>5, Numbers, ZeroOne, Apart
  <2>6. e4.clr[0] = e3.clr[0] /\ e4.set[0] = e3.set[0]
    BY <1>8, Numbers DEF SameOutputs
  <2>7. QED
    BY <2>1, <2>2, <2>3, <2>4, <2>5, <2>6
<1>12. e4.set[1] = {3} /\ e4.clr[1] = {2}
  <2>1. b.set[1] = {} /\ b.clr[1] = {}
    BY Numbers
  <2>2. e0.set[1] = b.set[1] /\ e0.clr[1] = b.clr[1]
    BY <1>2, Numbers, ZeroOne, Apart
  <2>3. e1.clr[1] = e0.clr[1] /\ e1.set[1] = e0.set[1]
    BY <1>3, Numbers, ZeroOne, Apart
  <2>4. e2.clr[1] = e1.clr[1] \cup {2} /\ e2.set[1] = e1.set[1]
    BY <1>4, Numbers DEF AddsClr
  <2>5. e3.clr[1] = e2.clr[1] /\ e3.set[1] = e2.set[1] \cup {3}
    BY <1>5, Numbers DEF AddsSet
  <2>6. e4.clr[1] = e3.clr[1] /\ e4.set[1] = e3.set[1]
    BY <1>8, Numbers DEF SameOutputs
  <2>7. QED
    BY <2>1, <2>2, <2>3, <2>4, <2>5, <2>6
<1>13. QED
  BY <1>7, <1>9, <1>10, <1>11, <1>12 DEF SpeakerEvents

\* sct_setup of piezo.c, call by call.
LEMMA SpeakerSetUp ==
  ASSUME NEW s, s = Speaker!sct_setup, IsNumber(Clocks(0) - 1), IsNumber(Clocks(0) \div 2)
  PROVE  /\ Up(s) /\ State(s) = 0 /\ Count(s) = 0 /\ s.evflag = {}
         /\ SpeakerEvents(s)
         /\ Reg(s, 0) = Clocks(0) - 1 /\ Rel(s, 0) = Clocks(0) - 1
         /\ Reg(s, 1) = 0 /\ Rel(s, 1) = 0
         /\ Reg(s, 2) = Clocks(0) \div 2 /\ Rel(s, 2) = Clocks(0) \div 2
<1> DEFINE last == Clocks(0) - 1
           z == 0
           w == Clocks(0) \div 2
           a == Speaker!Timer!sct_config(Speaker!Timer!Reset, TRUE, {}, {"l"})
           b0 == Speaker!Match(a, 0, last)
           b1 == Speaker!Match(b0, 1, z)
           b2 == Speaker!Match(b1, 2, w)
           e0 == Speaker!AtMatch(b2, 0, 1, <<"set", 0>>)
           e1 == Speaker!AtMatch(e0, 1, 2, <<"clr", 0>>)
           e2 == Speaker!AtMatch(e1, 2, 1, <<"clr", 1>>)
           e3 == Speaker!AtMatch(e2, 3, 2, <<"set", 1>>)
           e4 == Speaker!AtMatch(e3, 4, 1, <<"int">>)
<1>1. s = Speaker!Timer!sct_start_counter(e4, "")
  BY Zenon DEF Speaker!sct_setup, Speaker!Clocks, Clocks
<1>2. IsNumber(last) /\ IsNumber(z) /\ IsNumber(w)
  BY DEF IsNumber
<1> HIDE DEF last, z, w
<1>3. /\ a = Begin /\ b0 = PutBoth(a, 0, last) /\ b1 = PutBoth(b0, 1, z)
      /\ b2 = PutBoth(b1, 2, w)
  BY SpeakerCalls, Zenon
<1>4. /\ e0 = SetupMatch(b2, 0, 1, 0, Out("set", 0))
      /\ e1 = SetupMatch(e0, 1, 2, 0, Out("clr", 0))
      /\ e2 = SetupMatch(e1, 2, 1, 0, Out("clr", 1))
      /\ e3 = SetupMatch(e2, 3, 2, 0, Out("set", 1))
      /\ e4 = SetupMatch(e3, 4, 1, 0, Interrupt)
  <2>1. \A s1, e, n, act : Speaker!AtMatch(s1, e, n, act) = SetupMatch(s1, e, n, 0, {act})
    BY SpeakerCalls, Zenon
  <2> HIDE DEF b2
  <2>2. e0 = SetupMatch(b2, 0, 1, 0, Out("set", 0))
    BY <2>1, SMT DEF Out
  <2> HIDE DEF e0
  <2>3. e1 = SetupMatch(e0, 1, 2, 0, Out("clr", 0))
    BY <2>1, SMT DEF Out
  <2> HIDE DEF e1
  <2>4. e2 = SetupMatch(e1, 2, 1, 0, Out("clr", 1))
    BY <2>1, SMT DEF Out
  <2> HIDE DEF e2
  <2>5. e3 = SetupMatch(e2, 3, 2, 0, Out("set", 1))
    BY <2>1, SMT DEF Out
  <2> HIDE DEF e3
  <2>6. e4 = SetupMatch(e3, 4, 1, 0, Interrupt)
    BY <2>1, SMT DEF Interrupt
  <2>7. QED
    BY <2>2, <2>3, <2>4, <2>5, <2>6
<1>5. s = Start(e4)
  BY <1>1, SpeakerCalls, Zenon
<1> HIDE DEF a, b0, b1, b2, e0, e1, e2, e3, e4
<1>6. SettingUp(b0) /\ MatchedAt(b0, a, 0, last) /\ SameEvents(b0, a)
  BY <1>2, <1>3, BeginIs, Numbers, MatchKeeps
<1>7. SettingUp(b1) /\ MatchedAt(b1, b0, 1, z) /\ SameEvents(b1, b0)
  BY <1>2, <1>3, <1>6, Numbers, MatchKeeps
<1>8. SettingUp(b2) /\ MatchedAt(b2, b1, 2, w) /\ SameEvents(b2, b1)
  BY <1>2, <1>3, <1>7, Numbers, MatchKeeps
<1>9. /\ \A o \in Timer!Outputs : b2.set[o] = {} /\ b2.clr[o] = {}
      /\ \A e \in Timer!Events : Never(b2, e)
  BY <1>3, <1>6, <1>7, <1>8, BeginIs DEF SameEvents, Never
<1>10. SettingUp(e4) /\ SpeakerEvents(e4) /\ SameMatch(e4, b2)
  BY <1>4, <1>8, <1>9, SpeakerEventsSetUp
<1>11. /\ Up(s) /\ State(s) = 0 /\ Count(s) = 0 /\ s.evflag = {}
       /\ s.ev = e4.ev /\ s.set = e4.set /\ s.clr = e4.clr
       /\ \A n : Reg(s, n) = Reg(e4, n) /\ Rel(s, n) = Rel(e4, n)
  BY <1>5, <1>10, StartUp
<1>12. SpeakerEvents(s)
  BY <1>10, <1>11 DEF SpeakerEvents, At, Never
<1>13. /\ Reg(s, 0) = last /\ Rel(s, 0) = last /\ Reg(s, 1) = z /\ Rel(s, 1) = z
       /\ Reg(s, 2) = w /\ Rel(s, 2) = w
  BY <1>6, <1>7, <1>8, <1>10, <1>11, Numbers DEF SameMatch, MatchedAt
<1>14. QED
  BY <1>11, <1>12, <1>13 DEF last, z, w

\* Some tone has the most periods in a second.
LEMMA MostPeriods ==
  /\ \A n \in DOMAIN freq : freq[n] <= Speaker!MaxFreq
  /\ Speaker!MaxFreq \in Nat
<1> DEFINE S == {freq[n] : n \in DOMAIN freq}
           R == OpToRel(<, Nat)
           T == {PCLK - f : f \in S}
<1>1. /\ PCLK \in Nat /\ freq \in Seq(Nat \ {0}) /\ freq # <<>>
      /\ \A n \in DOMAIN freq : 2 <= PCLK \div freq[n]
  BY SctAssumption DEF SctAssumption
<1>2. Len(freq) \in Nat /\ Len(freq) > 0 /\ DOMAIN freq = 1 .. Len(freq)
  BY <1>1
<1>3. 1 \in DOMAIN freq /\ \A n \in DOMAIN freq : freq[n] \in Nat \ {0}
  BY <1>1, <1>2
<1>4. ASSUME NEW f \in S PROVE f \in Nat /\ PCLK - f \in Nat
  <2>1. f \in Nat \ {0} /\ 2 <= PCLK \div f
    BY <1>1, <1>3
  <2> HIDE DEF S
  <2>2. f <= PCLK
    <3> DEFINE q == PCLK \div f
    <3>1. q \in Nat /\ f * q <= PCLK
      BY <1>1, <2>1, SMT
    <3>2. f * q >= f * 1
      <4>1. q >= 1
        BY <2>1, <3>1
      <4> HIDE DEF q
      <4>2. QED
        BY <2>1, <3>1, <4>1, SMT
    <3>3. f * q \in Nat /\ f * 1 = f
      BY <2>1, <3>1
    <3> DEFINE m == f * q
    <3>4. m \in Nat /\ m <= PCLK /\ m >= f
      BY <3>1, <3>2, <3>3
    <3> HIDE DEF m
    <3>5. QED
      BY <1>1, <2>1, <3>4
  <2>3. QED
    BY <1>1, <2>1, <2>2
<1>5. T \subseteq Nat /\ T # {}
  BY <1>3, <1>4
<1>6. PICK x \in T : \A y \in T : ~(<<y, x>> \in R)
  <2>1. IsWellFoundedOn(R, Nat)
    BY NatLessThanWellFounded
  <2> HIDE DEF R, T
  <2>2. QED
    BY <1>5, <2>1, WFMin
<1>7. PICK f \in S : x = PCLK - f
  BY <1>6
<1>8. ASSUME NEW n \in DOMAIN freq PROVE freq[n] <= f
  <2> DEFINE g == freq[n]
             y == PCLK - g
  <2>1. g \in S /\ y \in T
    OBVIOUS
  <2>2. ~(<<y, x>> \in R)
    BY <1>6, <2>1
  <2>3. y \in Nat /\ x \in Nat
    BY <1>5, <1>6, <2>1
  <2> HIDE DEF y
  <2>4. ~(y < x)
    BY <2>2, <2>3 DEF OpToRel
  <2> HIDE DEF g, S
  <2>5. g \in Nat /\ f \in Nat
    BY <1>4, <1>7, <2>1
  <2>6. QED
    BY <1>1, <1>7, <2>3, <2>4, <2>5 DEF y, g
<1>9. \E h \in S : \A n \in DOMAIN freq : freq[n] <= h
  BY <1>8
<1>10. Speaker!MaxFreq \in S /\ \A n \in DOMAIN freq : freq[n] <= Speaker!MaxFreq
  BY <1>9 DEF Speaker!MaxFreq
<1>11. QED
  BY <1>4, <1>10

\* What the tones have in common.
LEMMA ToneFacts ==
  /\ 0 \in ToneNumbers /\ Len(freq) \in Nat \ {0}
  /\ \A k \in ToneNumbers :
       /\ Clocks(k) \in Nat /\ Clocks(k) >= 2 /\ Clocks(k) <= W * W
       /\ Second(k) \in Nat \ {0} /\ Second(k) <= Speaker!MaxFreq
       /\ Before(k) \in ToneNumbers /\ Clocks(Before(k)) # Clocks(k)
       /\ Speaker!Clocks(k) = Clocks(k)
       /\ k + 1 \in DOMAIN freq
       /\ Before(k) + 1 \in DOMAIN freq /\ (Before(k) + 1) % Len(freq) = k
<1>1. /\ PCLK \in Nat /\ freq \in Seq(Nat \ {0}) /\ freq # <<>> /\ W * W \in Nat
      /\ \A n \in DOMAIN freq :
           /\ 2 <= PCLK \div freq[n] /\ PCLK \div freq[n] <= W * W
           /\ PCLK \div freq[n] # PCLK \div freq[(n % Len(freq)) + 1]
  BY SctAssumption, CounterWidth DEF SctAssumption
<1>2. Len(freq) \in Nat /\ Len(freq) > 0 /\ DOMAIN freq = 1 .. Len(freq)
  BY <1>1
<1>3. \A n \in DOMAIN freq : freq[n] \in Nat \ {0}
  BY <1>1, <1>2
<1>4. ASSUME NEW k \in ToneNumbers
      PROVE  /\ k \in Nat /\ k + 1 \in DOMAIN freq /\ Before(k) \in ToneNumbers
             /\ Before(k) + 1 \in DOMAIN freq /\ (Before(k) + 1) % Len(freq) = k
  <2> DEFINE n == Len(freq)
  <2>1. k \in 0 .. n - 1 /\ n \in Nat /\ n > 0 /\ DOMAIN freq = 1 .. n
    BY <1>2 DEF ToneNumbers
  <2> HIDE DEF n
  <2>2. k \in Nat /\ k + 1 \in DOMAIN freq
    BY <2>1
  <2>3. CASE k = 0
    <3>1. Before(k) = n - 1
      BY <2>3 DEF Before, n
    <3>2. n % n = 0 /\ n - 1 + 1 = n
      BY <2>1, SMT
    <3>3. (Before(k) + 1) % n = k
      BY <2>1, <2>3, <3>1, <3>2
    <3>4. Before(k) \in 0 .. n - 1 /\ Before(k) + 1 \in 1 .. n
      BY <2>1, <3>1
    <3>5. QED
      BY <2>1, <2>2, <3>3, <3>4 DEF ToneNumbers, n
  <2>4. CASE k > 0
    <3>1. Before(k) = k - 1
      BY <2>1, <2>4 DEF Before
    <3>2. k % n = k /\ k - 1 + 1 = k
      BY <2>1, SMT
    <3>3. (Before(k) + 1) % n = k
      BY <2>1, <3>1, <3>2
    <3>4. Before(k) \in 0 .. n - 1 /\ Before(k) + 1 \in 1 .. n
      BY <2>1, <2>4, <3>1
    <3>5. QED
      BY <2>1, <2>2, <3>3, <3>4 DEF ToneNumbers, n
  <2>5. QED
    BY <2>1, <2>3, <2>4
<1>5. ASSUME NEW k \in ToneNumbers
      PROVE  /\ Clocks(k) \in Nat /\ Clocks(k) >= 2 /\ Clocks(k) <= W * W
             /\ Second(k) \in Nat \ {0} /\ Second(k) <= Speaker!MaxFreq
  <2>1. k + 1 \in DOMAIN freq
    BY <1>4
  <2> DEFINE f == freq[k + 1]
  <2>2. /\ f \in Nat \ {0} /\ 2 <= PCLK \div f /\ PCLK \div f <= W * W
        /\ f <= Speaker!MaxFreq
    BY <1>1, <1>3, <2>1, MostPeriods
  <2> HIDE DEF f
  <2>3. PCLK \div f \in Nat
    BY <1>1, <2>2, SMT
  <2>4. QED
    BY <2>2, <2>3 DEF f, Clocks, Second
<1>6. ASSUME NEW k \in ToneNumbers PROVE Clocks(Before(k)) # Clocks(k)
  <2> DEFINE b == Before(k) + 1
  <2>1. b \in DOMAIN freq /\ b % Len(freq) = k
    BY <1>4
  <2>2. PCLK \div freq[b] # PCLK \div freq[(b % Len(freq)) + 1]
    BY <1>1, <2>1
  <2>3. PCLK \div freq[b] # PCLK \div freq[k + 1]
    BY <2>1, <2>2
  <2>4. QED
    BY <2>3 DEF Clocks
<1>7. \A k : Speaker!Clocks(k) = Clocks(k)
  BY DEF Speaker!Clocks, Clocks
<1>8. 0 \in ToneNumbers
  BY <1>2 DEF ToneNumbers
<1>9. QED
  BY <1>2, <1>4, <1>5, <1>6, <1>7, <1>8

\* The tone after the one that is heard.
LEMMA ToneAfter ==
  ASSUME NEW k \in ToneNumbers, NEW n, n = (k + 1) % Len(freq)
  PROVE  n \in ToneNumbers /\ Before(n) = k
<1> DEFINE m == Len(freq)
<1>1. m \in Nat \ {0} /\ k \in 0 .. m - 1 /\ n = (k + 1) % m
  BY ToneFacts DEF ToneNumbers
<1> HIDE DEF m
<1>2. CASE k = m - 1
  <2>1. n = 0
    BY <1>1, <1>2, SMT
  <2>2. QED
    BY <1>1, <1>2, <2>1 DEF Before, ToneNumbers, m
<1>3. CASE k < m - 1
  <2>1. n = k + 1
    BY <1>1, <1>3, SMT
  <2>2. QED
    BY <1>1, <1>3, <2>1 DEF Before, ToneNumbers, m
<1>4. QED
  BY <1>1, <1>2, <1>3

\* piezo.c begins with its first tone.
LEMMA SpeakerInitially == Speaker!Init => PiezoInv
<1> SUFFICES ASSUME Speaker!Init PROVE PiezoInv
  OBVIOUS
<1> DEFINE c == Clocks(0)
<1>1. /\ c \in Nat /\ c >= 2 /\ Second(0) \in Nat \ {0} /\ 0 \in ToneNumbers
      /\ Speaker!Clocks(0) = c
  BY ToneFacts
<1> HIDE DEF c
<1>2. c - 1 \in Nat /\ c \div 2 \in Nat
  BY <1>1
<1>3. IsNumber(Clocks(0) - 1) /\ IsNumber(Clocks(0) \div 2)
  BY <1>2 DEF IsNumber, c
<1>4. /\ Up(sct) /\ State(sct) = 0 /\ Count(sct) = 0 /\ sct.evflag = {}
      /\ SpeakerEvents(sct)
      /\ Reg(sct, 0) = c - 1 /\ Rel(sct, 0) = c - 1
      /\ Reg(sct, 1) = 0 /\ Rel(sct, 1) = 0
      /\ Reg(sct, 2) = c \div 2 /\ Rel(sct, 2) = c \div 2
  BY <1>3, SpeakerSetUp DEF Speaker!Init, c
<1>5. /\ findex = 0 /\ count = Second(0) /\ isr = "none"
      /\ tone = c /\ periods = 0
  BY <1>1 DEF Speaker!Init, Second
<1>6. SameTone
  BY <1>1, <1>4, <1>5 DEF SameTone, Asking
<1>7. tone = Clocks(findex)
  BY <1>5 DEF c
<1>8. Wave
  BY <1>4, <1>5 DEF Wave
<1>9. QED
  BY <1>1, <1>2, <1>4, <1>5, <1>6, <1>7, <1>8 DEF PiezoInv, Asking

\* The tone that is heard, and the numbers that come with it.
LEMMA ToneHeard ==
  ASSUME PiezoInv
  PROVE  /\ tone \in Nat /\ tone >= 2 /\ tone <= W * W
         /\ tone \div 2 \in Nat /\ tone \div 2 >= 1 /\ tone \div 2 <= tone - 1
         /\ Clocks(findex) \in Nat /\ Clocks(findex) >= 2 /\ Clocks(findex) <= W * W
         /\ Clocks(findex) \div 2 \in Nat /\ Clocks(findex) \div 2 >= 1
         /\ Second(findex) \in Nat \ {0} /\ Second(findex) <= Speaker!MaxFreq
         /\ Speaker!MaxFreq \in Nat
<1>1. findex \in ToneNumbers
  BY DEF PiezoInv
<1> DEFINE c == Clocks(findex)
           b == Clocks(Before(findex))
<1>2. /\ c \in Nat /\ c >= 2 /\ c <= W * W
      /\ b \in Nat /\ b >= 2 /\ b <= W * W
      /\ Second(findex) \in Nat \ {0} /\ Second(findex) <= Speaker!MaxFreq
  BY <1>1, ToneFacts
<1>3. tone = c \/ tone = b
  BY DEF PiezoInv, NextTone
<1> HIDE DEF c, b
<1>4. tone \in Nat /\ tone >= 2 /\ tone <= W * W
  BY <1>2, <1>3
<1>5. tone \div 2 \in Nat /\ tone \div 2 >= 1 /\ tone \div 2 <= tone - 1
  BY <1>4
<1>6. c \div 2 \in Nat /\ c \div 2 >= 1
  BY <1>2
<1>7. Speaker!MaxFreq \in Nat
  BY MostPeriods
<1>8. QED
  BY <1>2, <1>4, <1>5, <1>6, <1>7 DEF c

\* A tick while piezo.c runs: a tone ends only when its handler asked for the next.
LEMMA SpeakerClock ==
  ASSUME PiezoInv, Speaker!Clock
  PROVE  PiezoInv' /\ (tone' # tone => NextTone /\ tone' = Clocks(findex))
<1> DEFINE E == Timer!Happening(sct, {}, {})
           v == Count(sct)
           h == tone \div 2
           last == Reg(sct, 0)
           c == Clocks(findex)
<1>1. /\ sct' = Timer!Tick(sct, {}, {})
      /\ high' = (IF v = 0 THEN 0 ELSE high) + (IF 0 \in sct'.out THEN 1 ELSE 0)
      /\ v = 0 => /\ tone' = last + 1
                  /\ periods' = IF tone' # tone THEN 1
                                ELSE IF periods > Speaker!MaxFreq THEN periods ELSE periods + 1
      /\ v # 0 => tone' = tone /\ periods' = periods
      /\ findex' = findex /\ count' = count /\ isr' = isr
      /\ ~(v = last /\ (isr # "none" \/ Asking))
  BY SpeakerTimer DEF Speaker!Clock, Asking
<1>2. /\ tone \in Nat /\ tone >= 2 /\ tone <= W * W
      /\ h \in Nat /\ h >= 1 /\ h <= tone - 1
      /\ c \in Nat /\ c >= 2 /\ c <= W * W /\ c \div 2 \in Nat /\ c \div 2 >= 1
      /\ Second(findex) \in Nat \ {0} /\ Second(findex) <= Speaker!MaxFreq
      /\ Speaker!MaxFreq \in Nat /\ W * W \in Nat
  BY ToneHeard, CounterWidth
<1>3. /\ tone = c => SameTone
      /\ tone # c => NextTone
      /\ v \in Nat /\ v <= last /\ isr \in {"none", "limit", "width", "clear"}
      /\ isr # "none" => Asking
      /\ Asking => v > 0
      /\ Reg(sct, 1) = 0 /\ Rel(sct, 1) = 0
  BY DEF PiezoInv
<1>4. /\ v = 0 /\ tone = c => last = tone - 1 /\ Reg(sct, 2) = h
      /\ v = 0 /\ tone # c => last = c - 1 /\ Reg(sct, 2) = c \div 2
      /\ v > 0 => last = tone - 1 /\ Reg(sct, 2) = h
  BY <1>3 DEF SameTone, NextTone
<1>5. /\ last \in Nat /\ last >= 1 /\ last < W * W /\ v < W * W
      /\ Reg(sct, 2) \in Nat /\ Reg(sct, 2) >= 1
  <2> HIDE DEF v, h, last, c
  <2>1. QED
    BY <1>2, <1>3, <1>4
<1>6. /\ 0 \in E <=> v = 0
      /\ 1 \in E <=> v = Reg(sct, 2)
      /\ 2 \in E <=> v = 0
      /\ 3 \in E <=> v = Reg(sct, 2)
      /\ 4 \in E <=> v = 0
      /\ 5 \notin E
      /\ E \subseteq Timer!Events
  <2>1. /\ Up(sct) /\ State(sct) = 0 /\ At(sct, 0, 1, 0) /\ At(sct, 1, 2, 0)
        /\ At(sct, 2, 1, 0) /\ At(sct, 3, 2, 0) /\ At(sct, 4, 1, 0) /\ Never(sct, 5)
    BY DEF PiezoInv, SpeakerEvents
  <2>2. E \subseteq Timer!Events
    BY DEF Timer!Happening
  <2> HIDE DEF E, v
  <2>3. /\ 0 \in E <=> v = Reg(sct, 1)
        /\ 1 \in E <=> v = Reg(sct, 2)
        /\ 2 \in E <=> v = Reg(sct, 1)
        /\ 3 \in E <=> v = Reg(sct, 2)
        /\ 4 \in E <=> v = Reg(sct, 1)
        /\ 5 \notin E
    BY <2>1, HappensAt, Numbers DEF E, v
  <2>4. QED
    BY <1>3, <2>2, <2>3
<1>7. sct' = Timer!Tick(sct, {}, {}) /\ Up(sct) /\ Count(sct) \in Nat /\ Count(sct) < W * W
  BY <1>1, <1>3, <1>5 DEF PiezoInv
<1>8. /\ Up(sct)'
      /\ sct'.ev = sct.ev /\ sct'.set = sct.set /\ sct'.clr = sct.clr
      /\ sct'.evflag = sct.evflag \cup E
      /\ \A o \in Timer!Outputs : sct.set[o] \cap E = {} \/ sct.clr[o] \cap E = {} =>
           (o \in sct'.out <=> sct.set[o] \cap E # {} \/ (o \in sct.out /\ sct.clr[o] \cap E = {}))
      /\ State(sct)' = Timer!NextState(sct, "l", E)
      /\ \A n : Rel(sct, n)' = Rel(sct, n)
      /\ Count(sct) # Reg(sct, 0) =>
           /\ Count(sct)' = (Count(sct) + 1) % (W * W)
           /\ \A n : Reg(sct, n)' = Reg(sct, n)
      /\ Count(sct) = Reg(sct, 0) => Count(sct)' = 0 /\ \A n : Reg(sct, n)' = Rel(sct, n)
  BY <1>7, TickUp
<1>9. State(sct)' = 0
  <2>1. Unified(sct) /\ State(sct) = 0
    BY DEF PiezoInv, Up, Unified
  <2>2. \A e \in {0, 1, 2, 3, 4} : Still(sct, e)
    BY DEF PiezoInv, SpeakerEvents, At, Still
  <2>3. \A e \in E : Still(sct, e)
    BY <1>6, <2>2 DEF Timer!Events
  <2> HIDE DEF E
  <2>4. Timer!NextState(sct, "l", E) = State(sct)
    BY <1>6, <2>1, <2>3, StateStays
  <2>5. QED
    BY <1>8, <2>1, <2>4
<1>10. SpeakerEvents(sct)'
  BY <1>8 DEF PiezoInv, SpeakerEvents, At, Never
<1>11. Asking' <=> Asking \/ v = 0
  BY <1>6, <1>8 DEF Asking
<1>12. /\ 0 \in sct'.out <=> v = 0 \/ (0 \in sct.out /\ v # Reg(sct, 2))
       /\ 1 \in sct'.out <=> v = Reg(sct, 2) \/ (1 \in sct.out /\ v # 0)
  <2>1. sct.set[0] = {0} /\ sct.clr[0] = {1} /\ sct.set[1] = {3} /\ sct.clr[1] = {2}
    BY DEF PiezoInv, SpeakerEvents
  <2>2. /\ {0} \cap E # {} <=> v = 0
        /\ {1} \cap E # {} <=> v = Reg(sct, 2)
        /\ {2} \cap E # {} <=> v = 0
        /\ {3} \cap E # {} <=> v = Reg(sct, 2)
    <3> HIDE DEF E, v
    <3>1. QED
      BY <1>6
  <2>3. ~(v = 0 /\ v = Reg(sct, 2))
    BY <1>5
  <2> HIDE DEF E, v
  <2>4. /\ {0} \cap E = {} \/ {1} \cap E = {} =>
             (0 \in sct'.out <=> {0} \cap E # {} \/ (0 \in sct.out /\ {1} \cap E = {}))
        /\ {3} \cap E = {} \/ {2} \cap E = {} =>
             (1 \in sct'.out <=> {3} \cap E # {} \/ (1 \in sct.out /\ {2} \cap E = {}))
    BY <1>8, <2>1, Numbers
  <2>5. QED
    BY <2>2, <2>3, <2>4
<1>13. /\ v # last => Count(sct)' = v + 1 /\ \A n : Reg(sct, n)' = Reg(sct, n)
       /\ v = last => Count(sct)' = 0 /\ \A n : Reg(sct, n)' = Rel(sct, n)
       /\ \A n : Rel(sct, n)' = Rel(sct, n)
  <2>1. v # last => (v + 1) % (W * W) = v + 1
    <3> DEFINE n == W * W
    <3>1. n \in Nat /\ last < n
      BY <1>2, <1>5
    <3> HIDE DEF n, v, last
    <3>2. v # last => (v + 1) % n = v + 1
      BY <1>3, <1>5, <3>1
    <3>3. QED
      BY <3>2 DEF n
  <2> DEFINE next == (v + 1) % (W * W)
  <2>2. next = (Count(sct) + 1) % (W * W)
    OBVIOUS
  <2> HIDE DEF next
  <2>3. /\ v # last => Count(sct)' = next /\ \A n : Reg(sct, n)' = Reg(sct, n)
        /\ v = last => Count(sct)' = 0 /\ \A n : Reg(sct, n)' = Rel(sct, n)
        /\ \A n : Rel(sct, n)' = Rel(sct, n)
    BY <1>8, <2>2
  <2>4. QED
    BY <2>1, <2>3 DEF next
<1>14. CASE v = 0
  <2>1. isr = "none" /\ ~Asking /\ Asking'
    BY <1>3, <1>11, <1>14
  <2>2. Count(sct)' = 1 /\ \A n : Reg(sct, n)' = Reg(sct, n)
    BY <1>5, <1>13, <1>14
  <2>3. /\ tone' = c /\ SameTone'
        /\ tone' # tone => NextTone
        /\ periods' > 0 /\ Reg(sct, 0)' = tone' - 1 /\ Reg(sct, 2)' = tone' \div 2
    <3>1. CASE tone = c
      <4>1. tone' = tone
        BY <1>1, <1>2, <1>4, <1>14, <3>1
      <4>2. /\ periods \in Nat /\ count \in Nat \ {0} /\ periods + count = Second(findex)
        <5>1. /\ periods \in Nat /\ count \in Nat \ {0}
              /\ periods + count = Second(findex) + (IF isr = "none" /\ Asking THEN 1 ELSE 0)
          BY <1>3, <3>1 DEF SameTone
        <5>2. periods + count = Second(findex) + 0
          BY <2>1, <5>1
        <5>3. QED
          BY <1>2, <5>1, <5>2
      <4>3. periods <= Speaker!MaxFreq /\ periods' = periods + 1
        BY <1>1, <1>2, <1>14, <4>1, <4>2
      <4>4. periods' \in Nat /\ periods' > 0 /\ periods' + count' = Second(findex) + 1
        BY <1>1, <1>2, <4>2, <4>3
      <4>5. /\ Reg(sct, 0)' = tone' - 1 /\ Rel(sct, 0)' = tone' - 1
            /\ Reg(sct, 2)' = tone' \div 2 /\ Rel(sct, 2)' = tone' \div 2
        BY <1>3, <1>13, <2>2, <3>1, <4>1 DEF SameTone
      <4>6. SameTone'
        BY <1>1, <2>1, <4>2, <4>4, <4>5 DEF SameTone
      <4>7. QED
        BY <3>1, <4>1, <4>4, <4>5, <4>6
    <3>2. CASE tone # c
      <4>1. NextTone /\ last = c - 1
        BY <1>3, <1>4, <1>14, <3>2
      <4>2. tone' = c /\ tone' # tone /\ periods' = 1
        BY <1>1, <1>2, <1>14, <3>2, <4>1
      <4>3. count' = Second(findex)
        BY <1>1, <2>1, <4>1 DEF NextTone
      <4>4. /\ Reg(sct, 0)' = tone' - 1 /\ Rel(sct, 0)' = tone' - 1
            /\ Reg(sct, 2)' = tone' \div 2 /\ Rel(sct, 2)' = tone' \div 2
        BY <1>13, <1>14, <2>1, <2>2, <4>1, <4>2 DEF NextTone
      <4>5. periods' \in Nat /\ count' \in Nat \ {0} /\ periods' + count' = Second(findex) + 1
        BY <1>2, <4>2, <4>3
      <4>6. SameTone'
        BY <1>1, <2>1, <4>2, <4>4, <4>5 DEF SameTone
      <4>7. QED
        BY <4>1, <4>2, <4>4, <4>6
    <3>3. QED
      BY <3>1, <3>2
  <2>4. Wave'
    <3>1. 0 \in sct'.out /\ 1 \notin sct'.out /\ high' = 1
      BY <1>1, <1>5, <1>12, <1>14
    <3>2. tone' \in Nat /\ tone' \div 2 \in Nat /\ tone' \div 2 >= 1
      BY <1>2, <2>3
    <3>3. QED
      BY <2>2, <2>3, <3>1, <3>2 DEF Wave, Least
  <2>5. Count(sct)' <= Reg(sct, 0)' /\ Count(sct)' \in Nat /\ Count(sct)' > 0
    BY <1>5, <2>2
  <2>6. Reg(sct, 1)' = 0 /\ Rel(sct, 1)' = 0
    BY <1>3, <1>13, <2>2
  <2>7. PiezoInv'
    BY <1>1, <1>8, <1>9, <1>10, <2>1, <2>3, <2>4, <2>5, <2>6 DEF PiezoInv
  <2>8. QED
    BY <2>3, <2>7
<1>15. CASE v > 0 /\ v # last
  <2>1. /\ Count(sct)' = v + 1 /\ tone' = tone /\ periods' = periods
        /\ \A n : Reg(sct, n)' = Reg(sct, n) /\ Rel(sct, n)' = Rel(sct, n)
        /\ Asking' <=> Asking
    BY <1>1, <1>11, <1>13, <1>15
  <2>2. Count(sct)' > 0 /\ Count(sct)' \in Nat
    BY <1>3, <2>1
  <2>3. tone' = Clocks(findex)' => SameTone'
    BY <1>1, <1>3, <1>15, <2>1, <2>2 DEF SameTone
  <2>4. tone' # Clocks(findex)' => NextTone'
    BY <1>1, <1>3, <1>15, <2>1, <2>2 DEF NextTone
  <2>5. Wave'
    <3>1. /\ periods > 0 /\ high = Least(v, h)
          /\ 0 \in sct.out <=> v <= h
          /\ 1 \in sct.out <=> v > h
      BY <1>15 DEF PiezoInv, Wave
    <3>2. Reg(sct, 2) = h /\ tone' \div 2 = h
      BY <1>4, <1>15, <2>1
    <3> HIDE DEF v, h
    <3>3. /\ 0 \in sct'.out <=> v + 1 <= h
          /\ 1 \in sct'.out <=> v + 1 > h
      BY <1>2, <1>3, <1>12, <1>15, <3>1, <3>2
    <3>4. high' = high + (IF 0 \in sct'.out THEN 1 ELSE 0)
      BY <1>1, <1>15
    <3>5. high' = Least(v + 1, h)
      BY <1>2, <1>3, <3>1, <3>3, <3>4 DEF Least
    <3>6. QED
      BY <2>1, <2>2, <3>1, <3>2, <3>3, <3>5 DEF Wave
  <2>6. Count(sct)' <= Reg(sct, 0)'
    BY <1>3, <1>5, <1>15, <2>1
  <2>7. Reg(sct, 1)' = 0 /\ Rel(sct, 1)' = 0
    BY <1>3, <2>1
  <2>8. PiezoInv'
    BY <1>1, <1>3, <1>8, <1>9, <1>10, <2>1, <2>2, <2>3, <2>4, <2>5, <2>6, <2>7
       DEF PiezoInv
  <2>9. QED
    BY <2>1, <2>8
<1>16. CASE v > 0 /\ v = last
  <2>1. /\ Count(sct)' = 0 /\ tone' = tone /\ periods' = periods /\ isr = "none"
        /\ ~Asking /\ ~Asking'
        /\ \A n : Reg(sct, n)' = Rel(sct, n) /\ Rel(sct, n)' = Rel(sct, n)
    BY <1>1, <1>3, <1>11, <1>13, <1>16
  <2>2. tone' = Clocks(findex)' => SameTone'
    BY <1>1, <1>3, <2>1 DEF SameTone
  <2>3. tone' # Clocks(findex)' => NextTone'
    BY <1>1, <1>3, <2>1 DEF NextTone
  <2>4. Wave'
    <3>1. /\ high = Least(v, h)
          /\ 0 \in sct.out <=> v <= h
          /\ 1 \in sct.out <=> v > h
      BY <1>16 DEF PiezoInv, Wave
    <3>2. Reg(sct, 2) = h /\ tone' \div 2 = h /\ v = tone - 1
      BY <1>4, <1>16, <2>1
    <3> HIDE DEF v, h
    <3>3. 0 \notin sct'.out /\ 1 \in sct'.out
      BY <1>2, <1>3, <1>12, <1>16, <3>1, <3>2
    <3>4. high' = high
      <4>1. high' = high + 0
        BY <1>1, <1>16, <3>3
      <4>2. QED
        BY <1>2, <1>3, <3>1, <4>1 DEF Least
    <3>5. high' = h
      BY <1>2, <1>3, <3>1, <3>2, <3>4 DEF Least
    <3>6. QED
      BY <2>1, <3>2, <3>3, <3>5 DEF Wave
  <2>5. Count(sct)' <= Reg(sct, 0)' /\ Count(sct)' \in Nat
    <3>1. Rel(sct, 0) = tone - 1 \/ Rel(sct, 0) = c - 1
      BY <1>3, <2>1 DEF SameTone, NextTone
    <3> HIDE DEF c
    <3>2. QED
      BY <1>2, <2>1, <3>1
  <2>6. Reg(sct, 1)' = 0 /\ Rel(sct, 1)' = 0
    BY <1>3, <2>1
  <2>7. PiezoInv'
    BY <1>1, <1>3, <1>8, <1>9, <1>10, <2>1, <2>2, <2>3, <2>4, <2>5, <2>6 DEF PiezoInv
  <2>8. QED
    BY <2>1, <2>7
<1>17. QED
  BY <1>3, <1>14, <1>15, <1>16

\* An interrupt is cleared.
Cleared(s, e) == Timer!sct_clear_interrupt(s, {e}, {})

\* What that leaves alone.
SameButFlags(t, s) == \A f \in SctNames \ {"evflag", "conflag"} : t[f] = s[f]

\* sct_clear_event_flag clears one flag.
LEMMA ClearIs ==
  ASSUME NEW s, Registers(s), NEW e, NEW t, t = Cleared(s, e)
  PROVE  Registers(t) /\ SameButFlags(t, s) /\ t.evflag = s.evflag \ {e}
<1> DEFINE events == s.evflag \ {e}
           conflicts == s.conflag \ {}
<1>1. t = [s EXCEPT !.evflag = events, !.conflag = conflicts]
  BY Zenon DEF Cleared, Timer!sct_clear_interrupt
<1> HIDE DEF events, conflicts
<1>2. DOMAIN s = SctNames /\ s = [f \in SctNames |-> s[f]]
  BY DEF Registers
<1>3. DOMAIN t = SctNames /\ t = [f \in SctNames |-> t[f]] /\ t.evflag = events
  BY <1>1, <1>2 DEF SctNames
<1>4. SameButFlags(t, s)
  BY <1>1, <1>2 DEF SctNames, SameButFlags
<1>5. /\ t.match = s.match /\ t.reload = s.reload /\ t.ev = s.ev /\ t.set = s.set
      /\ t.clr = s.clr
  BY <1>4 DEF SameButFlags, SctNames
<1>6. Registers(t)
  BY <1>3, <1>5 DEF Registers
<1>7. QED
  BY <1>3, <1>4, <1>6 DEF events

\* A running timer does not notice that a flag is cleared.
LEMMA ClearKeeps ==
  ASSUME NEW s, Up(s), NEW e, NEW t, t = Cleared(s, e)
  PROVE  /\ Up(t) /\ SameMatch(t, s) /\ SameEvents(t, s)
         /\ Count(t) = Count(s) /\ State(t) = State(s) /\ t.out = s.out
         /\ t.evflag = s.evflag \ {e}
<1>1. Registers(s) /\ Unified(s)
  BY DEF Up, Unified
<1>2. Registers(t) /\ SameButFlags(t, s) /\ t.evflag = s.evflag \ {e}
  BY <1>1, ClearIs
<1>3. /\ t.limit = s.limit /\ t.haltmask = s.haltmask /\ t.stopmask = s.stopmask
      /\ t.startmask = s.startmask /\ t.regmode = s.regmode /\ t.down = s.down
      /\ t.bidir = s.bidir /\ t.dirctrl = s.dirctrl /\ t.res = s.res
      /\ t.unify = s.unify /\ t.autolimit = s.autolimit /\ t.noreload = s.noreload
      /\ t.pre = s.pre /\ t.phase = s.phase /\ t.count = s.count /\ t.state = s.state
      /\ t.out = s.out /\ t.even = s.even
      /\ t.ev = s.ev /\ t.set = s.set /\ t.clr = s.clr
      /\ t.stop = s.stop /\ t.halt = s.halt /\ t.match = s.match /\ t.reload = s.reload
  BY <1>2 DEF SameButFlags, SctNames
<1>4. Plain(t)
  BY <1>3 DEF Up, Plain
<1>5. Up(t)
  BY <1>2, <1>3, <1>4 DEF Up
<1>6. SameMatch(t, s)
  <2>1. Unified(t) /\ t.match = s.match /\ t.reload = s.reload
    BY <1>1, <1>3 DEF Unified
  <2>2. QED
    BY <1>1, <2>1, HeldIs DEF SameMatch
<1>7. QED
  BY <1>2, <1>3, <1>5, <1>6 DEF SameEvents, Count, State

\* What the handler does.
LEMMA SpeakerHandler ==
  /\ Speaker!Pending => Asking
  /\ \A s : Speaker!Timer!sct_clear_interrupt(s, {4}, {}) = Cleared(s, 4)
  /\ \A n, v : Speaker!Reload(n, v) <=> sct' = PutReload(sct, n, v)
<1>1. Speaker!Pending => Asking
  BY DEF Speaker!Pending, Speaker!Timer!sct_get_interrupt_mask,
         Speaker!Timer!sct_get_interrupt_status, Asking
<1>2. \A s : Speaker!Timer!sct_clear_interrupt(s, {4}, {}) = Cleared(s, 4)
  BY DEF Speaker!Timer!sct_clear_interrupt, Cleared, Timer!sct_clear_interrupt
<1>3. \A n, v : Speaker!Reload(n, v) <=> sct' = PutReload(sct, n, v)
  BY SpeakerTimer, Zenon DEF Speaker!Reload
<1>4. QED
  BY <1>1, <1>2, <1>3

\* The handler of piezo.c counts a period, or turns to the next tone.
LEMMA SpeakerEnter == PiezoInv /\ Speaker!Enter => PiezoInv' /\ tone' = tone
<1> SUFFICES ASSUME PiezoInv, Speaker!Enter PROVE PiezoInv' /\ tone' = tone
  OBVIOUS
<1>1. /\ isr = "none" /\ Asking /\ count' = count - 1
      /\ count' = 0 => findex' = (findex + 1) % Len(freq) /\ isr' = "limit"
      /\ count' # 0 => findex' = findex /\ isr' = "clear"
      /\ sct' = sct /\ tone' = tone /\ periods' = periods /\ high' = high
  BY SpeakerHandler DEF Speaker!Enter
<1>2. findex \in ToneNumbers /\ tone = Clocks(findex) /\ SameTone /\ Count(sct) > 0
  BY <1>1 DEF PiezoInv, NextTone
<1>3. /\ Reg(sct, 0) = tone - 1 /\ Rel(sct, 0) = tone - 1
      /\ Reg(sct, 2) = tone \div 2 /\ Rel(sct, 2) = tone \div 2
      /\ periods \in Nat /\ count \in Nat \ {0} /\ periods # 0
  BY <1>1, <1>2 DEF SameTone
<1>4. Second(findex) \in Nat /\ periods + count = Second(findex) + 1
  BY <1>1, <1>2, ToneFacts DEF SameTone
<1>5. Asking' /\ Wave' /\ Up(sct)' /\ State(sct)' = 0 /\ SpeakerEvents(sct)'
  BY <1>1 DEF PiezoInv, Wave, Asking, Up, State, SpeakerEvents
<1>6. /\ \A n : Reg(sct, n)' = Reg(sct, n) /\ Rel(sct, n)' = Rel(sct, n)
      /\ Count(sct)' = Count(sct)
  BY <1>1
<1>7. CASE count' = 0
  <2>1. findex' \in ToneNumbers /\ Before(findex)' = findex /\ isr' = "limit"
    BY <1>1, <1>2, <1>7, ToneAfter
  <2>2. periods = Second(findex)
    BY <1>1, <1>3, <1>4, <1>7
  <2>3. Clocks(findex)' # tone'
    <3> DEFINE k == findex'
    <3>1. k \in ToneNumbers /\ Before(k) = findex
      BY <2>1
    <3> HIDE DEF k
    <3>2. Clocks(k) # Clocks(findex)
      BY <3>1, ToneFacts
    <3>3. QED
      BY <1>1, <1>2, <3>2 DEF k
  <2>4. Clocks(Before(findex)') = tone /\ Second(Before(findex)') = periods
    BY <1>2, <2>1, <2>2
  <2>5. NextTone'
    <3>1. tone' = Clocks(Before(findex)') /\ periods' = Second(Before(findex)')
      BY <1>1, <2>4
    <3>2. Count(sct)' > 0 /\ Reg(sct, 0)' = tone' - 1 /\ Reg(sct, 2)' = tone' \div 2
      BY <1>1, <1>2, <1>3, <1>6
    <3>3. Rel(sct, 0)' = tone' - 1 /\ Rel(sct, 2)' = tone' \div 2
      BY <1>1, <1>3, <1>6
    <3>4. Count(sct)' # 0
      BY <1>1, <1>2
    <3>5. Count(sct) \in Nat
      BY DEF PiezoInv
    <3>6. QED
      BY <1>6, <2>1, <3>1, <3>2, <3>3, <3>4, <3>5 DEF NextTone
  <2>6. QED
    BY <1>1, <1>2, <1>5, <1>6, <2>1, <2>3, <2>5 DEF PiezoInv
<1>8. CASE count' # 0
  <2>1. findex' = findex /\ isr' = "clear"
    BY <1>1, <1>8
  <2>2. count' \in Nat \ {0} /\ periods' + count' = Second(findex) + 0
    BY <1>1, <1>3, <1>4, <1>8
  <2>3. /\ Second(findex)' = Second(findex) /\ Clocks(findex)' = Clocks(findex)
    BY <2>1
  <2>4. SameTone'
    BY <1>1, <1>3, <1>6, <2>1, <2>2, <2>3 DEF SameTone
  <2>5. QED
    BY <1>1, <1>2, <1>5, <1>6, <2>1, <2>3, <2>4 DEF PiezoInv
<1>9. QED
  BY <1>1, <1>7, <1>8

\* The timer runs on while the reload registers are written.
LEMMA SpeakerReload ==
  ASSUME PiezoInv, NEW n \in {0, 2}, NEW v, IsNumber(v), sct' = PutReload(sct, n, v)
  PROVE  /\ Up(sct)' /\ State(sct)' = 0 /\ SpeakerEvents(sct)'
         /\ Count(sct)' = Count(sct) /\ sct'.out = sct.out /\ (Asking' <=> Asking)
         /\ Rel(sct, n)' = v /\ \A m : Reg(sct, m)' = Reg(sct, m)
         /\ \A m \in Timer!Regs : m # n => Rel(sct, m)' = Rel(sct, m)
<1>1. Up(sct) /\ State(sct) = 0 /\ n \in Timer!Regs
  BY Numbers DEF PiezoInv
<1> DEFINE t == sct'
<1>2. t = PutReload(sct, n, v)
  OBVIOUS
<1> HIDE DEF t
<1>3. Up(t) /\ ReloadedAt(t, sct, n, v) /\ SameRun(t, sct)
  BY <1>1, <1>2, ReloadKeeps
<1>4. SpeakerEvents(t)
  BY <1>3 DEF PiezoInv, SameRun, SameEvents, SpeakerEvents, At, Never
<1>5. QED
  BY <1>1, <1>3, <1>4 DEF ReloadedAt, SameRun, t, Asking

\* The handler writes the length of the next tone.
LEMMA SpeakerIsrLimit == PiezoInv /\ Speaker!IsrLimit => PiezoInv' /\ tone' = tone
<1> SUFFICES ASSUME PiezoInv, Speaker!IsrLimit PROVE PiezoInv' /\ tone' = tone
  OBVIOUS
<1> DEFINE c == Clocks(findex)
<1>1. /\ isr = "limit" /\ isr' = "width" /\ sct' = PutReload(sct, 0, c - 1)
      /\ findex' = findex /\ count' = count
      /\ tone' = tone /\ periods' = periods /\ high' = high
  <2>1. Speaker!Clocks(findex) = c
    BY ToneFacts DEF PiezoInv
  <2>2. Speaker!Reload(0, Speaker!Clocks(findex) - 1)
    BY Zenon DEF Speaker!IsrLimit
  <2>3. sct' = PutReload(sct, 0, Speaker!Clocks(findex) - 1)
    BY <2>2, SpeakerHandler, Zenon
  <2>4. QED
    BY <2>1, <2>3 DEF Speaker!IsrLimit
<1>2. c \in Nat /\ c >= 2
  BY ToneHeard
<1>3. NextTone /\ tone # c /\ Asking /\ Count(sct) > 0 /\ Count(sct) \in Nat
  BY <1>1 DEF PiezoInv, SameTone
<1> DEFINE v == c - 1
<1>4. IsNumber(v) /\ sct' = PutReload(sct, 0, v)
  BY <1>1, <1>2 DEF IsNumber
<1> HIDE DEF v
<1>5. /\ Up(sct)' /\ State(sct)' = 0 /\ SpeakerEvents(sct)'
      /\ Count(sct)' = Count(sct) /\ sct'.out = sct.out /\ (Asking' <=> Asking)
      /\ Rel(sct, 0)' = v /\ \A m : Reg(sct, m)' = Reg(sct, m)
      /\ \A m \in Timer!Regs : m # 0 => Rel(sct, m)' = Rel(sct, m)
  BY <1>4, SpeakerReload
<1>6. Rel(sct, 1)' = Rel(sct, 1) /\ Rel(sct, 2)' = Rel(sct, 2) /\ Rel(sct, 0)' = c - 1
  BY <1>5, Numbers DEF v
<1>7. Clocks(findex)' = c /\ Second(findex)' = Second(findex) /\ Before(findex)' = Before(findex)
  BY <1>1
<1>8. NextTone'
  <2>1. /\ tone = Clocks(Before(findex)) /\ periods = Second(Before(findex))
        /\ Reg(sct, 0) = tone - 1 /\ Reg(sct, 2) = tone \div 2 /\ Rel(sct, 2) = tone \div 2
    BY <1>1, <1>3 DEF NextTone
  <2>2. Count(sct)' > 0 /\ Count(sct)' # 0
    BY <1>3, <1>5
  <2>3. QED
    BY <1>1, <1>5, <1>6, <1>7, <2>1, <2>2 DEF NextTone
<1>9. Wave'
  BY <1>1, <1>5 DEF PiezoInv, Wave
<1>10. QED
  BY <1>1, <1>3, <1>5, <1>6, <1>7, <1>8, <1>9 DEF PiezoInv

\* The handler writes the width of the next tone.
LEMMA SpeakerIsrWidth == PiezoInv /\ Speaker!IsrWidth => PiezoInv' /\ tone' = tone
<1> SUFFICES ASSUME PiezoInv, Speaker!IsrWidth PROVE PiezoInv' /\ tone' = tone
  OBVIOUS
<1> DEFINE c == Clocks(findex)
<1>1. /\ isr = "width" /\ isr' = "clear" /\ sct' = PutReload(sct, 2, c \div 2)
      /\ findex' = findex /\ count' = Second(findex)
      /\ tone' = tone /\ periods' = periods /\ high' = high
  <2>1. Speaker!Clocks(findex) = c
    BY ToneFacts DEF PiezoInv
  <2>2. Speaker!Reload(2, Speaker!Clocks(findex) \div 2)
    BY Zenon DEF Speaker!IsrWidth
  <2>3. sct' = PutReload(sct, 2, Speaker!Clocks(findex) \div 2)
    BY <2>2, SpeakerHandler, Zenon
  <2>4. QED
    BY <2>1, <2>3 DEF Speaker!IsrWidth, Second
<1>2. c \in Nat /\ c \div 2 \in Nat
  BY ToneHeard
<1>3. NextTone /\ tone # c /\ Asking /\ Count(sct) > 0 /\ Count(sct) \in Nat
  BY <1>1 DEF PiezoInv, SameTone
<1> DEFINE v == c \div 2
<1>4. IsNumber(v) /\ sct' = PutReload(sct, 2, v)
  BY <1>1, <1>2 DEF IsNumber
<1> HIDE DEF v
<1>5. /\ Up(sct)' /\ State(sct)' = 0 /\ SpeakerEvents(sct)'
      /\ Count(sct)' = Count(sct) /\ sct'.out = sct.out /\ (Asking' <=> Asking)
      /\ Rel(sct, 2)' = v /\ \A m : Reg(sct, m)' = Reg(sct, m)
      /\ \A m \in Timer!Regs : m # 2 => Rel(sct, m)' = Rel(sct, m)
  BY <1>4, SpeakerReload
<1>6. Rel(sct, 1)' = Rel(sct, 1) /\ Rel(sct, 0)' = Rel(sct, 0) /\ Rel(sct, 2)' = c \div 2
  BY <1>5, Numbers DEF v
<1>7. Clocks(findex)' = c /\ Second(findex)' = Second(findex) /\ Before(findex)' = Before(findex)
  BY <1>1
<1>8. NextTone'
  <2>1. /\ tone = Clocks(Before(findex)) /\ periods = Second(Before(findex))
        /\ Reg(sct, 0) = tone - 1 /\ Reg(sct, 2) = tone \div 2 /\ Rel(sct, 0) = c - 1
    BY <1>1, <1>3 DEF NextTone
  <2>2. Count(sct)' > 0 /\ Count(sct)' # 0
    BY <1>3, <1>5
  <2>3. QED
    BY <1>1, <1>5, <1>6, <1>7, <2>1, <2>2 DEF NextTone
<1>9. Wave'
  BY <1>1, <1>5 DEF PiezoInv, Wave
<1>10. QED
  BY <1>1, <1>3, <1>5, <1>6, <1>7, <1>8, <1>9 DEF PiezoInv

\* The handler clears the flag and returns.
LEMMA SpeakerIsrClear == PiezoInv /\ Speaker!IsrClear => PiezoInv' /\ tone' = tone
<1> SUFFICES ASSUME PiezoInv, Speaker!IsrClear PROVE PiezoInv' /\ tone' = tone
  OBVIOUS
<1>1. /\ isr = "clear" /\ isr' = "none" /\ sct' = Cleared(sct, 4)
      /\ findex' = findex /\ count' = count
      /\ tone' = tone /\ periods' = periods /\ high' = high
  BY SpeakerHandler DEF Speaker!IsrClear
<1>2. Asking /\ Count(sct) > 0 /\ Count(sct) \in Nat /\ Up(sct) /\ State(sct) = 0
  BY <1>1 DEF PiezoInv
<1> DEFINE t == sct'
<1>3. t = Cleared(sct, 4)
  BY <1>1
<1> HIDE DEF t
<1>4. /\ Up(t) /\ SameMatch(t, sct) /\ SameEvents(t, sct)
      /\ Count(t) = Count(sct) /\ State(t) = State(sct) /\ t.out = sct.out
      /\ t.evflag = sct.evflag \ {4}
  BY <1>2, <1>3, ClearKeeps
<1>5. SpeakerEvents(t)
  BY <1>4 DEF PiezoInv, SameEvents, SpeakerEvents, At, Never
<1>6. /\ ~Asking' /\ Count(sct)' = Count(sct) /\ sct'.out = sct.out
      /\ \A m : Reg(sct, m)' = Reg(sct, m) /\ Rel(sct, m)' = Rel(sct, m)
  BY <1>4 DEF t, Asking, SameMatch
<1>7. Clocks(findex)' = Clocks(findex) /\ Second(findex)' = Second(findex)
      /\ Before(findex)' = Before(findex)
  BY <1>1
<1>8. ASSUME SameTone PROVE SameTone'
  <2>1. /\ Reg(sct, 0) = tone - 1 /\ Rel(sct, 0) = tone - 1
        /\ Reg(sct, 2) = tone \div 2 /\ Rel(sct, 2) = tone \div 2
        /\ periods \in Nat /\ count \in Nat \ {0} /\ periods # 0
        /\ periods + count = Second(findex) + 0
    BY <1>1, <1>2, <1>8 DEF SameTone
  <2>2. QED
    BY <1>1, <1>6, <1>7, <2>1 DEF SameTone
<1>9. ASSUME NextTone PROVE NextTone'
  <2>1. Count(sct)' > 0 /\ Count(sct)' # 0
    BY <1>2, <1>6
  <2>2. QED
    BY <1>1, <1>6, <1>7, <1>9, <2>1 DEF NextTone
<1>10. Wave'
  BY <1>1, <1>6 DEF PiezoInv, Wave
<1>11. Up(sct)' /\ State(sct)' = 0 /\ SpeakerEvents(sct)'
  BY <1>2, <1>4, <1>5 DEF t
<1>12. QED
  BY <1>1, <1>2, <1>6, <1>7, <1>8, <1>9, <1>10, <1>11 DEF PiezoInv

\* Every step of the program.
LEMMA SpeakerStep ==
  PiezoInv /\ (Speaker!Next \/ UNCHANGED speaker) =>
    PiezoInv' /\ (tone' # tone => NextTone /\ tone' = Clocks(findex))
<1> SUFFICES ASSUME PiezoInv, Speaker!Next \/ UNCHANGED speaker
             PROVE  PiezoInv' /\ (tone' # tone => NextTone /\ tone' = Clocks(findex))
  OBVIOUS
<1>1. CASE Speaker!Clock
  BY <1>1, SpeakerClock
<1>2. CASE Speaker!Enter
  BY <1>2, SpeakerEnter
<1>3. CASE Speaker!IsrLimit
  BY <1>3, SpeakerIsrLimit
<1>4. CASE Speaker!IsrWidth
  BY <1>4, SpeakerIsrWidth
<1>5. CASE Speaker!IsrClear
  BY <1>5, SpeakerIsrClear
<1>6. CASE UNCHANGED speaker
  BY <1>6 DEF speaker, PiezoInv, Wave, SameTone, NextTone, Asking, Up, State, SpeakerEvents
<1>7. QED
  BY <1>1, <1>2, <1>3, <1>4, <1>5, <1>6 DEF Speaker!Next, Speaker!sct_isr

\* The invariant says what piezo.c promises of its two outputs.
LEMMA SpeakerWaves == PiezoInv => Speaker!HalfAndHalf /\ Speaker!Opposite
<1> SUFFICES ASSUME PiezoInv PROVE Speaker!HalfAndHalf /\ Speaker!Opposite
  OBVIOUS
<1>1. Wave /\ Count(sct) \in Nat
  BY DEF PiezoInv
<1>2. tone \div 2 \in Nat
  BY ToneHeard
<1>3. Speaker!HalfAndHalf
  BY <1>1, SpeakerTimer DEF Wave, Speaker!HalfAndHalf
<1>4. Speaker!Opposite
  <2> DEFINE h == tone \div 2
             v == Count(sct)
  <2>1. /\ v > 0 => /\ 0 \in sct.out <=> v <= h
                    /\ 1 \in sct.out <=> v > h
        /\ v = 0 /\ periods > 0 => 0 \notin sct.out /\ 1 \in sct.out
        /\ v \in Nat /\ h \in Nat
    BY <1>1, <1>2 DEF Wave
  <2> HIDE DEF h, v
  <2>2. v = 0 \/ v > 0
    BY <2>1
  <2>3. ~(v <= h /\ v > h) /\ (v <= h \/ v > h)
    BY <2>1
  <2>4. periods > 0 => (0 \in sct.out <=> 1 \notin sct.out)
    BY <2>1, <2>2, <2>3
  <2>5. QED
    BY <2>4 DEF Speaker!Opposite
<1>5. QED
  BY <1>3, <1>4

\* A tone that ends has lasted a second.
LEMMA SpeakerSeconds ==
  PiezoInv /\ (Speaker!Next \/ UNCHANGED speaker) => Speaker!FullSecond
<1> SUFFICES ASSUME PiezoInv, Speaker!Next \/ UNCHANGED speaker, tone' # tone
             PROVE  \E n \in DOMAIN freq :
                      /\ tone = Speaker!Clocks(n - 1) /\ periods = freq[n]
                      /\ tone' = Speaker!Clocks(n % Len(freq))
  BY DEF Speaker!FullSecond
<1> DEFINE b == Before(findex)
           n == b + 1
<1>1. findex \in ToneNumbers /\ NextTone /\ tone' = Clocks(findex)
  BY SpeakerStep DEF PiezoInv
<1>2. n \in DOMAIN freq /\ n % Len(freq) = findex /\ b \in ToneNumbers
  BY <1>1, ToneFacts
<1>3. n - 1 = b
  BY <1>2 DEF ToneNumbers
<1>4. tone = Clocks(b) /\ periods = freq[n]
  BY <1>1 DEF NextTone, Second
<1>5. /\ Speaker!Clocks(n - 1) = Clocks(b)
      /\ Speaker!Clocks(n % Len(freq)) = Clocks(findex)
  BY <1>1, <1>2, <1>3, ToneFacts
<1>6. QED
  BY <1>1, <1>2, <1>4, <1>5

-----------------------------------------------------------------------------
(* The two halves.                                                         *)

\* Half x reaches its limit with this clock.
Ends(s, x) == s.phase[x] + 1 >= s.pre[x] /\ s.count[x] = s.match[x][0]

\* The clock of half x goes on.
Steps16(s, x) == s.phase[x] + 1 >= s.pre[x]

\* The halves and their events.
LEMMA HalfNames == Of("l") = 0 /\ Of("h") = 1 /\ Halves = {"l", "h"} /\ Timer!Halves = Halves
BY DEF Of, Halves, Timer!Halves

\* What happens with a clock.
LEMMA HalfEvents ==
  ASSUME NEW s, Halved(s), NEW E, E = Timer!Happening(s, {}, {})
  PROVE  /\ E \subseteq {0, 1}
         /\ \A x \in Halves : /\ Timer!Clocked(s, x) <=> Steps16(s, x)
                              /\ Timer!Running(s, x)
                              /\ Of(x) \in E <=> Ends(s, x)
                              /\ Timer!Limited(s, x, E) <=> Ends(s, x)
                              /\ Timer!NextState(s, x, E) = 0
<1> USE HalfNames
<1>1. ASSUME NEW x \in Halves
      PROVE  /\ Timer!Running(s, x) /\ (Timer!Clocked(s, x) <=> Steps16(s, x))
             /\ Timer!Matches(s, x, 0) <=> Ends(s, x)
             /\ Timer!Limited(s, x, E) <=> Ends(s, x)
  <2>1. s.halt = {} /\ s.stop = {} /\ s.regmode[x] = {} /\ s.limit[x] = {} /\ s.unify = FALSE
        /\ s.autolimit = Halves
    BY DEF Halved, Plain, Timer!Pair
  <2>2. Timer!Running(s, x) /\ (Timer!Clocked(s, x) <=> Steps16(s, x))
    BY <2>1 DEF Timer!Running, Timer!Clocked, Steps16
  <2>3. Timer!Matches(s, x, 0) <=> Ends(s, x)
    BY <2>1, <2>2 DEF Timer!Matches, Timer!Value, Timer!RegValue, Ends, Steps16
  <2>4. Timer!Limited(s, x, E) <=> Ends(s, x)
    BY <2>1, <2>3 DEF Timer!Limited
  <2>5. QED
    BY <2>2, <2>3, <2>4
<1>2. ASSUME NEW e \in Timer!Events
      PROVE  e \in E <=> Timer!Happens(s, e, {}, {})
  BY DEF Timer!Happening
<1>3. ASSUME NEW x \in Halves
      PROVE  Of(x) \in E <=> Ends(s, x)
  <2>1. Of(x) \in Timer!Events
    BY Numbers
  <2> DEFINE e == Of(x)
  <2>2. /\ Timer!Of(s, e) = x /\ s.ev[e].comb = "match" /\ s.ev[e].match = 0
        /\ s.ev[e].states = {0} /\ s.state[x] = 0 /\ x \notin s.halt
    BY DEF Halved, Timer!Of
  <2> HIDE DEF e
  <2>3. Timer!Happens(s, e, {}, {}) <=> Timer!Matches(s, x, 0)
    BY <2>2 DEF Timer!Happens
  <2>4. QED
    BY <1>1, <1>2, <2>1, <2>3 DEF e
<1>4. ASSUME NEW e \in Timer!Events \ {0, 1}
      PROVE  e \notin E
  <2>1. s.ev[e].states = {}
    BY DEF Halved, Never
  <2>2. ~Timer!Happens(s, e, {}, {})
    BY <2>1 DEF Timer!Happens
  <2>3. QED
    BY <1>2, <2>2
<1>5. E \subseteq {0, 1}
  BY <1>4 DEF Timer!Happening
<1>6. ASSUME NEW x \in Halves
      PROVE  Timer!NextState(s, x, E) = 0
  <2> DEFINE mine == {e \in E : Timer!Of(s, e) = x}
             top == CHOOSE e \in mine : \A f \in mine : f <= e
  <2>1. Timer!NextState(s, x, E) = IF mine = {} THEN s.state[x]
                                   ELSE IF s.ev[top].load THEN s.ev[top].statev
                                   ELSE (s.state[x] + s.ev[top].statev) % 32
    BY DEF Timer!NextState
  <2>2. s.ev[0].half = "l" /\ s.ev[1].half = "h" /\ s.unify = FALSE
    BY DEF Halved
  <2>3. mine \subseteq {Of(x)}
    BY <1>5, <2>2 DEF Timer!Of
  <2>4. s.state[x] = 0 /\ s.ev[Of(x)].statev = 0 /\ ~s.ev[Of(x)].load
    BY DEF Halved
  <2>5. CASE mine # {}
    <3>1. Of(x) \in mine /\ \A f \in mine : f <= Of(x)
      BY <2>3, <2>5
    <3>2. top \in mine
      BY <3>1
    <3>3. top = Of(x)
      BY <2>3, <3>2
    <3> HIDE DEF top, mine
    <3>4. Timer!NextState(s, x, E) = (0 + 0) % 32
      BY <2>1, <2>4, <2>5, <3>3
    <3>5. QED
      BY <3>4
  <2>6. QED
    BY <2>1, <2>4, <2>5
<1>7. QED
  BY <1>1, <1>3, <1>5, <1>6

\* A tick of two halves, each at its own pace.
LEMMA TickHalves ==
  ASSUME NEW s, Halved(s), NEW E, E = Timer!Happening(s, {}, {}),
         NEW t, t = Timer!Tick(s, {}, {})
  PROVE  /\ Halved(t) /\ t.evflag = s.evflag \cup E
         /\ \A x \in Halves :
              /\ t.pre[x] = s.pre[x] /\ t.match[x] = s.match[x]
              /\ t.phase[x] = (s.phase[x] + 1) % s.pre[x]
              /\ ~Steps16(s, x) => t.count[x] = s.count[x]
              /\ Steps16(s, x) /\ Ends(s, x) => t.count[x] = 0
              /\ Steps16(s, x) /\ ~Ends(s, x) => t.count[x] = (s.count[x] + 1) % W
<1> DEFINE out == {o \in Timer!Outputs : Timer!OutputHigh(s, o, E)}
           state == [x \in Timer!Halves |-> Timer!NextState(s, x, E)]
           phase == [x \in Timer!Halves |->
                       IF Timer!Running(s, x) THEN (s.phase[x] + 1) % s.pre[x] ELSE s.phase[x]]
           down == {x \in Timer!Halves :
                      IF Timer!Clocked(s, x) THEN Timer!Turned(s, x, E) ELSE x \in s.down}
           match == [x \in Timer!Halves |->
                       IF x \in Timer!Reloaded(s, E) THEN s.reload[x] ELSE s.match[x]]
           conflicts == {o \in Timer!Outputs : Timer!Sets(s, o, E) /\ Timer!Clears(s, o, E)}
           halt == s.halt \cup {x \in Timer!Counters(s) : s.haltmask[x] \cap E # {}}
           stop == (s.stop \ {x \in Timer!Counters(s) : s.startmask[x] \cap E # {}})
                     \cup {x \in Timer!Counters(s) : s.stopmask[x] \cap E # {}}
           number == [x \in Timer!Halves |->
                        IF x \in Timer!Counters(s) THEN Timer!NextCount(s, x, E) ELSE 0]
<1>1. t = [s EXCEPT !.evflag = @ \cup E, !.conflag = @ \cup conflicts, !.out = out,
                    !.state = state, !.count = number, !.phase = phase, !.down = down,
                    !.match = match, !.halt = halt, !.stop = stop]
  <2>1. ~s.unify
    BY DEF Halved
  <2> DEFINE c == IF s.unify THEN Timer!Split(number["l"]) ELSE number
  <2>2. t = [s EXCEPT !.evflag = @ \cup E, !.conflag = @ \cup conflicts, !.out = out,
                      !.state = state, !.count = c, !.phase = phase, !.down = down,
                      !.match = match, !.halt = halt, !.stop = stop]
    BY DEF Timer!Tick
  <2> HIDE DEF out, state, number, phase, down, match, conflicts, halt, stop
  <2>3. c = number
    BY <2>1, Zenon
  <2> HIDE DEF c
  <2>4. QED
    BY <2>2, <2>3
<1>2. DOMAIN s = SctNames /\ s = [f \in SctNames |-> s[f]]
  BY DEF Halved, Registers
<1> HIDE DEF out, state, number, phase, down, match, conflicts, halt, stop
<1>3. /\ DOMAIN t = SctNames /\ t = [f \in SctNames |-> t[f]]
      /\ t.evflag = s.evflag \cup E
      /\ t.state = state /\ t.count = number /\ t.phase = phase /\ t.down = down
      /\ t.match = match /\ t.halt = halt /\ t.stop = stop
  <2>1. DOMAIN t = SctNames /\ t = [f \in SctNames |-> t[f]]
    BY <1>1, <1>2, Zenon
  <2>2. t.evflag = s.evflag \cup E /\ t.state = state
    BY <1>1, <1>2, ZenonT(40) DEF SctNames
  <2>3. t.count = number /\ t.phase = phase
    BY <1>1, <1>2, ZenonT(40) DEF SctNames
  <2>4. t.down = down /\ t.match = match
    BY <1>1, <1>2, ZenonT(40) DEF SctNames
  <2>5. t.halt = halt /\ t.stop = stop
    BY <1>1, <1>2, ZenonT(40) DEF SctNames
  <2>6. QED
    BY <2>1, <2>2, <2>3, <2>4, <2>5
<1>4. /\ t.unify = s.unify /\ t.autolimit = s.autolimit /\ t.noreload = s.noreload
      /\ t.bidir = s.bidir /\ t.pre = s.pre /\ t.limit = s.limit /\ t.haltmask = s.haltmask
      /\ t.stopmask = s.stopmask /\ t.startmask = s.startmask /\ t.regmode = s.regmode
      /\ t.dirctrl = s.dirctrl /\ t.res = s.res /\ t.reload = s.reload
      /\ t.ev = s.ev /\ t.set = s.set /\ t.clr = s.clr
  <2>1. t.unify = s.unify /\ t.autolimit = s.autolimit /\ t.noreload = s.noreload
    BY <1>1, <1>2, ZenonT(40) DEF SctNames
  <2>2. t.bidir = s.bidir /\ t.pre = s.pre
    BY <1>1, <1>2, ZenonT(40) DEF SctNames
  <2>3. t.limit = s.limit /\ t.haltmask = s.haltmask
    BY <1>1, <1>2, ZenonT(40) DEF SctNames
  <2>4. t.stopmask = s.stopmask /\ t.startmask = s.startmask /\ t.regmode = s.regmode
    BY <1>1, <1>2, ZenonT(40) DEF SctNames
  <2>5. t.dirctrl = s.dirctrl /\ t.res = s.res /\ t.reload = s.reload
    BY <1>1, <1>2, ZenonT(40) DEF SctNames
  <2>6. t.ev = s.ev /\ t.set = s.set /\ t.clr = s.clr
    BY <1>1, <1>2, ZenonT(40) DEF SctNames
  <2>7. QED
    BY <2>1, <2>2, <2>3, <2>4, <2>5, <2>6
<1>5. Timer!Counters(s) = Halves /\ Timer!Halves = Halves
  BY HalfNames DEF Timer!Counters, Halved
<1>6. \A x \in Halves : s.haltmask[x] = {} /\ s.startmask[x] = {} /\ s.stopmask[x] = {}
  BY HalfNames DEF Halved, Plain, Timer!Pair
<1>7. halt = s.halt /\ stop = s.stop
  BY <1>5, <1>6 DEF halt, stop, Halved, Plain
<1>8. \A x \in Halves : ~Timer!Turned(s, x, E)
  BY DEF Timer!Turned, Halved, Plain
<1>9. down = {}
  BY <1>5, <1>8 DEF down, Halved, Plain
<1>10. match = s.match
  <2>1. Timer!Reloaded(s, E) = {}
    BY HalfNames DEF Timer!Reloaded, Halved
  <2>2. match = [x \in Halves |-> s.match[x]]
    BY <1>5, <2>1 DEF match
  <2>3. MatchRegs(s.match)
    BY DEF Halved, Registers
  <2>4. QED
    BY <2>2, <2>3 DEF MatchRegs
<1>11. Registers(t)
  BY <1>3, <1>4, <1>10 DEF Halved, Registers
<1>12. Plain(t)
  BY <1>3, <1>4, <1>7, <1>9 DEF Halved, Plain
<1>13. \A x \in Halves : t.state[x] = 0
  BY <1>3, <1>5, HalfEvents DEF state
<1>14. Halved(t)
  <2>1. /\ t.unify = FALSE /\ t.autolimit = Halves /\ t.noreload = Halves /\ t.halt = {}
    BY <1>3, <1>4, <1>7 DEF Halved
  <2>2. \A e \in Timer!Events \ {0, 1} : Never(t, e)
    BY <1>4 DEF Halved, Never
  <2>3. \A x \in Halves :
          /\ t.ev[Of(x)].half = x /\ t.ev[Of(x)].comb = "match" /\ t.ev[Of(x)].match = 0
          /\ t.ev[Of(x)].states = {0} /\ t.ev[Of(x)].statev = 0 /\ ~t.ev[Of(x)].load
    BY <1>4 DEF Halved
  <2>4. QED
    BY <1>11, <1>12, <1>13, <2>1, <2>2, <2>3 DEF Halved
<1>15. ASSUME NEW x \in Halves
       PROVE  /\ t.phase[x] = (s.phase[x] + 1) % s.pre[x]
              /\ ~Steps16(s, x) => t.count[x] = s.count[x]
              /\ Steps16(s, x) /\ Ends(s, x) => t.count[x] = 0
              /\ Steps16(s, x) /\ ~Ends(s, x) => t.count[x] = (s.count[x] + 1) % W
  <2>1. /\ Timer!Clocked(s, x) <=> Steps16(s, x)
        /\ Timer!Running(s, x)
        /\ Timer!Limited(s, x, E) <=> Ends(s, x)
    BY HalfEvents
  <2>2. t.phase[x] = (s.phase[x] + 1) % s.pre[x]
    BY <1>3, <1>5, <2>1 DEF phase
  <2>3. t.count[x] = Timer!NextCount(s, x, E)
    BY <1>3, <1>5 DEF number
  <2>4. x \notin s.bidir /\ s.unify = FALSE
    BY DEF Halved, Plain
  <2>5. Timer!NextCount(s, x, E) = IF ~Timer!Clocked(s, x) THEN s.count[x]
                                   ELSE IF Timer!Limited(s, x, E) THEN 0
                                   ELSE (s.count[x] + 1) % W
    BY <1>8, <2>4 DEF Timer!NextCount, Timer!Value
  <2>6. QED
    BY <2>1, <2>2, <2>3, <2>5
<1>16. QED
  BY <1>3, <1>4, <1>10, <1>14, <1>15

\* While the two halves are set up.
HalvesSettingUp(s) ==
  /\ Registers(s) /\ Plain(s)
  /\ s.unify = FALSE /\ s.autolimit = Halves /\ s.noreload = Halves
  /\ s.count = Timer!Pair(0, 0) /\ s.phase = Timer!Pair(0, 0) /\ s.state = Timer!Pair(0, 0)
  /\ s.evflag = {} /\ DOMAIN s.pre = Halves

\* What a call may leave alone.
SamePre(t, s)    == t.pre = s.pre
SameLimits(t, s) == t.match = s.match
SameHalt(t, s)   == t.halt = s.halt
SameEvent(t, s)  == t.ev = s.ev

\* The calls.
BeginHalves      == Timer!sct_config(Timer!Reset, FALSE, Halves, Halves)
PutLast(s, x)    == Timer!sct_set_match(s, x, 0, Last)
HalfOp(x)        == [half |-> x, comb |-> "match", cond |-> "low", states |-> {0}]
HalfEvent(s, x)  == Timer!sct_setup_event(s, Of(x), 0, 0, HalfOp(x), Interrupt, 0)
PutPre(s, x)     == Timer!sct_set_prescaler(s, x, Pre[x])
StartHalf(s, x)  == Timer!sct_start_counter(s, x)

\* The calls of sct_setup of the example sct.
LEMMA BlinkCalls ==
  /\ Blink!Halves = Halves
  /\ Blink!Timer!sct_config(Blink!Timer!Reset, FALSE, Blink!Halves, Blink!Halves) = BeginHalves
  /\ \A s, x : Blink!Timer!sct_set_match(s, x, 0, Last) = PutLast(s, x)
  /\ \A s, x : Blink!Setup(s, x) = HalfEvent(s, x)
  /\ \A s, x : Blink!Timer!sct_set_prescaler(s, x, Pre[x]) = PutPre(s, x)
  /\ \A s, x : Blink!Timer!sct_start_counter(s, x) = StartHalf(s, x)
  /\ \A x : Blink!Of(x) = Of(x)
<1>1. Blink!Halves = Halves
  BY DEF Blink!Halves, Blink!Timer!Halves, Halves
<1>2. Blink!Timer!sct_config(Blink!Timer!Reset, FALSE, Blink!Halves, Blink!Halves) = BeginHalves
  BY <1>1 DEF BeginHalves, Blink!Timer!sct_config, Blink!Timer!Reset, Blink!Timer!Pair,
         Blink!Timer!Halves, Blink!Timer!Outputs, Blink!Timer!Regs, Blink!Timer!Events,
         Timer!sct_config, Timer!Reset, Timer!Pair, Timer!Halves,
         Timer!Outputs, Timer!Regs, Timer!Events
<1>3. \A s, x : Blink!Timer!sct_set_match(s, x, 0, Last) = PutLast(s, x)
  BY DEF PutLast, Blink!Timer!sct_set_match, Blink!Timer!WriteReg, Blink!Timer!Halves,
         Timer!sct_set_match, Timer!WriteReg, Timer!Halves
<1>4. \A x : Blink!Of(x) = Of(x)
  BY DEF Blink!Of, Of
<1>5. \A s, x : Blink!Setup(s, x) = HalfEvent(s, x)
  <2>1. \A s, e, op, action : Blink!Timer!sct_setup_event(s, e, 0, 0, op, action, 0)
                                = Timer!sct_setup_event(s, e, 0, 0, op, action, 0)
    BY DEF Blink!Timer!sct_setup_event, Blink!Timer!Adding, Blink!Timer!AddingOutput,
         Blink!Timer!Marking, Blink!Timer!SetBit, Blink!Timer!Bits, Blink!Timer!Halves,
         Blink!Timer!Outputs, Blink!Timer!Regs,
         Timer!sct_setup_event, Timer!Adding, Timer!AddingOutput, Timer!Marking,
         Timer!SetBit, Timer!Bits, Timer!Halves, Timer!Outputs, Timer!Regs
  <2>2. ASSUME NEW s, NEW x
        PROVE  Blink!Setup(s, x) = HalfEvent(s, x)
    <3> DEFINE op == HalfOp(x)
               e == Of(x)
               action == Interrupt
    <3>1. Blink!Setup(s, x) = Blink!Timer!sct_setup_event(s, e, 0, 0, op, action, 0)
      BY Zenon DEF Blink!Setup, HalfOp, Interrupt, Blink!Of, Of
    <3>2. HalfEvent(s, x) = Timer!sct_setup_event(s, e, 0, 0, op, action, 0)
      BY Zenon DEF HalfEvent
    <3> HIDE DEF op, e, action
    <3>3. QED
      BY <2>1, <3>1, <3>2
  <2>3. QED
    BY <2>2
<1>6. \A s, x : Blink!Timer!sct_set_prescaler(s, x, Pre[x]) = PutPre(s, x)
  BY DEF PutPre, Blink!Timer!sct_set_prescaler, Blink!Timer!Half, Timer!sct_set_prescaler,
         Timer!Half
<1>7. \A s, x : Blink!Timer!sct_start_counter(s, x) = StartHalf(s, x)
  BY DEF StartHalf, Blink!Timer!sct_start_counter, Blink!Timer!Half, Timer!sct_start_counter,
         Timer!Half
<1>8. QED
  BY <1>1, <1>2, <1>3, <1>4, <1>5, <1>6, <1>7

\* The timer after sct_config for two halves.
LEMMA BeginHalvesIs ==
  ASSUME NEW s, s = BeginHalves
  PROVE  /\ HalvesSettingUp(s) /\ s.halt = Halves
         /\ \A e \in Timer!Events : Never(s, e)
<1> DEFINE r == Timer!Reset
<1>1. s = [r EXCEPT !.unify = FALSE, !.noreload = Halves, !.autolimit = Halves]
  BY DEF BeginHalves, Timer!sct_config
<1> HIDE DEF r
<1>2. /\ Registers(r) /\ Plain(r) /\ r.halt = Halves
      /\ r.pre = Timer!Pair(1, 1) /\ r.phase = Timer!Pair(0, 0)
      /\ r.count = Timer!Pair(0, 0) /\ r.state = Timer!Pair(0, 0)
      /\ r.evflag = {} /\ \A e \in Timer!Events : Never(r, e)
  BY ResetRegisters DEF r
<1>3. DOMAIN r = SctNames /\ r = [f \in SctNames |-> r[f]]
  BY <1>2 DEF Registers
<1>4. /\ DOMAIN s = SctNames /\ s = [f \in SctNames |-> s[f]]
      /\ s.unify = FALSE /\ s.noreload = Halves /\ s.autolimit = Halves
      /\ \A f \in SctNames \ {"unify", "noreload", "autolimit"} : s[f] = r[f]
  BY <1>1, <1>3 DEF SctNames
<1>5. /\ s.match = r.match /\ s.reload = r.reload /\ s.ev = r.ev /\ s.set = r.set
      /\ s.clr = r.clr /\ s.limit = r.limit /\ s.haltmask = r.haltmask
      /\ s.stopmask = r.stopmask /\ s.startmask = r.startmask /\ s.regmode = r.regmode
      /\ s.down = r.down /\ s.bidir = r.bidir /\ s.stop = r.stop /\ s.dirctrl = r.dirctrl
      /\ s.res = r.res /\ s.halt = r.halt /\ s.pre = r.pre /\ s.phase = r.phase
      /\ s.count = r.count /\ s.state = r.state /\ s.evflag = r.evflag
  BY <1>4 DEF SctNames
<1>6. Registers(s)
  <2>1. Registers(r)
    BY <1>2
  <2>2. QED
    BY <1>4, <1>5, <2>1 DEF Registers
<1>7. Plain(s)
  BY <1>2, <1>5 DEF Plain
<1>8. \A e \in Timer!Events : Never(s, e)
  BY <1>2, <1>5 DEF Never
<1>9. DOMAIN s.pre = Halves
  BY <1>2, <1>5 DEF Timer!Pair, Timer!Halves, Halves
<1>10. QED
  BY <1>2, <1>4, <1>5, <1>6, <1>7, <1>8, <1>9 DEF HalvesSettingUp

\* The limit of a half is written.
LEMMA LastPut ==
  ASSUME NEW s, HalvesSettingUp(s), NEW x \in Halves, NEW t, t = PutLast(s, x)
  PROVE  /\ HalvesSettingUp(t) /\ SamePre(t, s) /\ SameHalt(t, s) /\ SameEvent(t, s)
         /\ t.match[x][0] = Last[x]
         /\ \A y \in Halves : y # x => t.match[y] = s.match[y]
<1> DEFINE regs == Timer!WriteReg(s.match, x, 0, Last)
<1>1. t = [s EXCEPT !.match = regs]
  BY DEF PutLast, Timer!sct_set_match
<1> HIDE DEF regs
<1>2. DOMAIN s = SctNames /\ s = [f \in SctNames |-> s[f]] /\ MatchRegs(s.match)
  BY DEF HalvesSettingUp, Registers
<1>3. /\ DOMAIN t = SctNames /\ t = [f \in SctNames |-> t[f]] /\ t.match = regs
      /\ \A f \in SctNames \ {"match"} : t[f] = s[f]
  BY <1>1, <1>2 DEF SctNames
<1>4. /\ t.limit = s.limit /\ t.haltmask = s.haltmask /\ t.stopmask = s.stopmask
      /\ t.startmask = s.startmask /\ t.regmode = s.regmode /\ t.down = s.down
      /\ t.bidir = s.bidir /\ t.dirctrl = s.dirctrl /\ t.res = s.res
      /\ t.unify = s.unify /\ t.autolimit = s.autolimit /\ t.noreload = s.noreload
      /\ t.pre = s.pre /\ t.phase = s.phase /\ t.count = s.count /\ t.state = s.state
      /\ t.evflag = s.evflag /\ t.ev = s.ev /\ t.set = s.set /\ t.clr = s.clr
      /\ t.stop = s.stop /\ t.halt = s.halt /\ t.reload = s.reload
  BY <1>3 DEF SctNames
<1>5. regs = [y \in Halves |-> IF y = x THEN [s.match[y] EXCEPT ![0] = Last[y]] ELSE s.match[y]]
  BY HalfNames DEF regs, Timer!WriteReg
<1>6. \A y \in Halves : s.match[y] = [m \in Timer!Regs |-> s.match[y][m]]
  BY <1>2 DEF MatchRegs
<1>7. /\ \A y \in Halves : y # x => regs[y] = s.match[y]
      /\ regs[x] = [m \in Timer!Regs |-> IF m = 0 THEN Last[x] ELSE s.match[x][m]]
  <2>1. regs[x] = [s.match[x] EXCEPT ![0] = Last[x]]
    BY <1>5
  <2>2. regs[x] = [m \in Timer!Regs |-> IF m = 0 THEN Last[x] ELSE s.match[x][m]]
    BY <1>6, <2>1, Zenon
  <2>3. QED
    BY <1>5, <2>2
<1>8. regs[x][0] = Last[x]
  BY <1>7, Numbers
<1>9. MatchRegs(regs)
  <2>1. ASSUME NEW y \in Halves
        PROVE  regs[y] = [m \in Timer!Regs |-> regs[y][m]]
    BY <1>6, <1>7
  <2>2. regs = [y \in Halves |-> regs[y]]
    BY <1>5
  <2>3. QED
    BY <2>1, <2>2 DEF MatchRegs
<1>10. Registers(t)
  BY <1>3, <1>4, <1>9 DEF HalvesSettingUp, Registers
<1>11. Plain(t)
  BY <1>4 DEF HalvesSettingUp, Plain
<1>12. HalvesSettingUp(t)
  BY <1>4, <1>10, <1>11 DEF HalvesSettingUp
<1>13. QED
  BY <1>3, <1>4, <1>7, <1>8, <1>12 DEF SamePre, SameHalt, SameEvent

\* The event of a half, set up.
Blinks(s, x) ==
  /\ s.ev[Of(x)].half = x /\ s.ev[Of(x)].comb = "match" /\ s.ev[Of(x)].match = 0
  /\ s.ev[Of(x)].states = {0} /\ s.ev[Of(x)].statev = 0 /\ ~s.ev[Of(x)].load

\* The event of a half is set up.
LEMMA HalfEventSet ==
  ASSUME NEW s, HalvesSettingUp(s), NEW x \in Halves, NEW t, t = HalfEvent(s, x)
  PROVE  /\ HalvesSettingUp(t) /\ SamePre(t, s) /\ SameHalt(t, s) /\ SameLimits(t, s)
         /\ Blinks(t, x) /\ Others(t, s, Of(x))
<1> DEFINE op == HalfOp(x)
           zero == 0
           e == Of(x)
           action == Interrupt
<1>1. t = Timer!sct_setup_event(s, e, zero, zero, op, action, zero)
  BY DEF HalfEvent
<1>2. e \in Timer!Events /\ Quiet(action) /\ ~Loads(action)
  BY HalfNames, Numbers, OtherActions DEF Halves
<1> HIDE DEF op, zero, e, action
<1>3. Registers(s) /\ Plain(s)
  BY DEF HalvesSettingUp
<1>4. /\ SameButEvents(t, s) /\ Others(t, s, e)
      /\ EventIs(t.ev[e], zero, zero, op, action, zero)
  BY <1>1, <1>2, <1>3, EventSetUp
<1>5. /\ t.limit = s.limit /\ t.haltmask = s.haltmask /\ t.stopmask = s.stopmask
      /\ t.startmask = s.startmask /\ t.regmode = s.regmode /\ t.down = s.down
      /\ t.bidir = s.bidir /\ t.dirctrl = s.dirctrl /\ t.res = s.res
      /\ t.unify = s.unify /\ t.autolimit = s.autolimit /\ t.noreload = s.noreload
      /\ t.pre = s.pre /\ t.phase = s.phase /\ t.count = s.count /\ t.state = s.state
      /\ t.evflag = s.evflag
      /\ t.stop = s.stop /\ t.halt = s.halt /\ t.match = s.match /\ t.reload = s.reload
  BY <1>4 DEF SameButEvents, SctNames
<1>6. Plain(t)
  BY <1>5 DEF HalvesSettingUp, Plain
<1>7. HalvesSettingUp(t)
  BY <1>4, <1>5, <1>6 DEF SameButEvents, HalvesSettingUp
<1>8. ~t.ev[e].load
  <2> DEFINE d == t.ev[e]
  <2>1. d = [match |-> zero, half |-> op.half, comb |-> op.comb, io |-> zero,
             cond |-> op.cond, load |-> <<"load">> \in action, statev |-> zero,
             states |-> op.states]
    BY <1>4 DEF EventIs
  <2> HIDE DEF d
  <2>2. d.load = (<<"load">> \in action)
    BY <2>1, Zenon
  <2>3. QED
    BY <1>2, <2>2, Zenon DEF Loads, d
<1>9. /\ t.ev[e].half = x /\ t.ev[e].comb = "match" /\ t.ev[e].match = 0
      /\ t.ev[e].states = {0} /\ t.ev[e].statev = 0
  BY <1>4 DEF EventIs, op, HalfOp, zero
<1>10. QED
  BY <1>4, <1>5, <1>7, <1>8, <1>9 DEF Blinks, SamePre, SameHalt, SameLimits, e

\* The prescaler of a half is written.
LEMMA PrePut ==
  ASSUME NEW s, HalvesSettingUp(s), NEW x \in Halves, NEW t, t = PutPre(s, x)
  PROVE  /\ HalvesSettingUp(t) /\ SameHalt(t, s) /\ SameLimits(t, s) /\ SameEvent(t, s)
         /\ t.pre[x] = Pre[x]
         /\ \A y \in Halves : y # x => t.pre[y] = s.pre[y]
<1> DEFINE p == [s.pre EXCEPT ![x] = Pre[x]]
<1>1. t = [s EXCEPT !.pre = p]
  <2>1. Timer!Half(x) = x
    BY HalfNames DEF Timer!Half
  <2>2. t = [s EXCEPT !.pre[x] = Pre[x]]
    BY <2>1, Zenon DEF PutPre, Timer!sct_set_prescaler
  <2>3. QED
    BY <2>2, Zenon
<1>2. DOMAIN s.pre = Halves
  BY DEF HalvesSettingUp
<1>3. /\ DOMAIN p = Halves /\ p[x] = Pre[x]
      /\ \A y \in Halves : y # x => p[y] = s.pre[y]
  BY <1>2
<1> HIDE DEF p
<1>4. DOMAIN s = SctNames /\ s = [f \in SctNames |-> s[f]]
  BY DEF HalvesSettingUp, Registers
<1>5. /\ DOMAIN t = SctNames /\ t = [f \in SctNames |-> t[f]] /\ t.pre = p
      /\ \A f \in SctNames \ {"pre"} : t[f] = s[f]
  BY <1>1, <1>4 DEF SctNames
<1>6. /\ t.limit = s.limit /\ t.haltmask = s.haltmask /\ t.stopmask = s.stopmask
      /\ t.startmask = s.startmask /\ t.regmode = s.regmode /\ t.down = s.down
      /\ t.bidir = s.bidir /\ t.dirctrl = s.dirctrl /\ t.res = s.res
      /\ t.unify = s.unify /\ t.autolimit = s.autolimit /\ t.noreload = s.noreload
      /\ t.phase = s.phase /\ t.count = s.count /\ t.state = s.state
      /\ t.evflag = s.evflag /\ t.ev = s.ev /\ t.set = s.set /\ t.clr = s.clr
      /\ t.stop = s.stop /\ t.halt = s.halt /\ t.match = s.match /\ t.reload = s.reload
  BY <1>5 DEF SctNames
<1>7. Registers(t)
  BY <1>5, <1>6 DEF HalvesSettingUp, Registers
<1>8. Plain(t)
  BY <1>6 DEF HalvesSettingUp, Plain
<1>9. HalvesSettingUp(t)
  BY <1>3, <1>5, <1>6, <1>7, <1>8 DEF HalvesSettingUp
<1>10. QED
  BY <1>3, <1>5, <1>6, <1>9 DEF SameHalt, SameLimits, SameEvent

\* A half is started.
LEMMA HalfStarted ==
  ASSUME NEW s, HalvesSettingUp(s), NEW x \in Halves, NEW t, t = StartHalf(s, x)
  PROVE  /\ HalvesSettingUp(t) /\ SamePre(t, s) /\ SameLimits(t, s) /\ SameEvent(t, s)
         /\ t.halt = s.halt \ {x}
<1>1. t = [s EXCEPT !.stop = s.stop \ {x}, !.halt = s.halt \ {x}]
  <2>1. Timer!Half(x) = x
    BY HalfNames DEF Timer!Half
  <2>2. QED
    BY <2>1, Zenon DEF StartHalf, Timer!sct_start_counter
<1>2. DOMAIN s = SctNames /\ s = [f \in SctNames |-> s[f]] /\ s.stop = {}
  BY DEF HalvesSettingUp, Registers, Plain
<1>3. /\ DOMAIN t = SctNames /\ t = [f \in SctNames |-> t[f]]
      /\ t.stop = {} /\ t.halt = s.halt \ {x}
      /\ \A f \in SctNames \ {"stop", "halt"} : t[f] = s[f]
  BY <1>1, <1>2 DEF SctNames
<1>4. /\ t.limit = s.limit /\ t.haltmask = s.haltmask /\ t.stopmask = s.stopmask
      /\ t.startmask = s.startmask /\ t.regmode = s.regmode /\ t.down = s.down
      /\ t.bidir = s.bidir /\ t.dirctrl = s.dirctrl /\ t.res = s.res
      /\ t.unify = s.unify /\ t.autolimit = s.autolimit /\ t.noreload = s.noreload
      /\ t.pre = s.pre /\ t.phase = s.phase /\ t.count = s.count /\ t.state = s.state
      /\ t.evflag = s.evflag /\ t.ev = s.ev /\ t.set = s.set /\ t.clr = s.clr
      /\ t.match = s.match /\ t.reload = s.reload
  BY <1>3 DEF SctNames
<1>5. Registers(t)
  BY <1>3, <1>4 DEF HalvesSettingUp, Registers
<1>6. Plain(t)
  BY <1>3, <1>4 DEF HalvesSettingUp, Plain
<1>7. HalvesSettingUp(t)
  BY <1>3, <1>4, <1>5, <1>6 DEF HalvesSettingUp
<1>8. QED
  BY <1>3, <1>4, <1>7 DEF SamePre, SameLimits, SameEvent

\* sct_setup of the example sct, call by call.
LEMMA BlinkSetUp ==
  ASSUME NEW s, s = Blink!sct_setup
  PROVE  /\ Halved(s) /\ s.evflag = {}
         /\ \A x \in Halves : /\ s.pre[x] = Pre[x] /\ s.match[x][0] = Last[x]
                              /\ s.count[x] = 0 /\ s.phase[x] = 0
<1> DEFINE a == Blink!Timer!sct_config(Blink!Timer!Reset, FALSE, Blink!Halves, Blink!Halves)
           m0 == Blink!Timer!sct_set_match(a, "l", 0, Last)
           m1 == Blink!Timer!sct_set_match(m0, "h", 0, Last)
           e0 == Blink!Setup(m1, "l")
           e1 == Blink!Setup(e0, "h")
           p0 == Blink!Timer!sct_set_prescaler(e1, "l", Pre["l"])
           p1 == Blink!Timer!sct_set_prescaler(p0, "h", Pre["h"])
           r0 == Blink!Timer!sct_start_counter(p1, "l")
<1>1. s = Blink!Timer!sct_start_counter(r0, "h")
  BY Zenon DEF Blink!sct_setup
<1>2. a = BeginHalves /\ m0 = PutLast(a, "l") /\ m1 = PutLast(m0, "h")
  BY BlinkCalls, Zenon
<1>3. e0 = HalfEvent(m1, "l") /\ e1 = HalfEvent(e0, "h")
  BY BlinkCalls, Zenon
<1>4. p0 = PutPre(e1, "l") /\ p1 = PutPre(p0, "h")
  BY BlinkCalls, Zenon
<1>5. r0 = StartHalf(p1, "l") /\ s = StartHalf(r0, "h")
  BY <1>1, BlinkCalls, Zenon
<1> HIDE DEF a, m0, m1, e0, e1, p0, p1, r0
<1> DEFINE l == "l"
           h == "h"
<1>6. l \in Halves /\ h \in Halves /\ l # h /\ \A x \in Halves : x = l \/ x = h
  BY DEF Halves
<1>7. /\ m0 = PutLast(a, l) /\ m1 = PutLast(m0, h)
      /\ e0 = HalfEvent(m1, l) /\ e1 = HalfEvent(e0, h)
      /\ p0 = PutPre(e1, l) /\ p1 = PutPre(p0, h)
      /\ r0 = StartHalf(p1, l) /\ s = StartHalf(r0, h)
  BY <1>2, <1>3, <1>4, <1>5, Zenon
<1>8. Of(l) = 0 /\ Of(h) = 1
  BY HalfNames
<1> HIDE DEF l, h
<1>9. /\ HalvesSettingUp(a) /\ a.halt = Halves /\ \A e \in Timer!Events : Never(a, e)
  BY <1>2, BeginHalvesIs
<1>10. /\ HalvesSettingUp(m0) /\ SameHalt(m0, a) /\ SameEvent(m0, a)
       /\ m0.match[l][0] = Last[l]
  BY <1>6, <1>7, <1>9, LastPut
<1>11. /\ HalvesSettingUp(m1) /\ SameHalt(m1, m0) /\ SameEvent(m1, m0)
       /\ m1.match[h][0] = Last[h] /\ m1.match[l] = m0.match[l]
  BY <1>6, <1>7, <1>10, LastPut
<1>12. /\ HalvesSettingUp(e0) /\ SameHalt(e0, m1) /\ SameLimits(e0, m1)
       /\ Blinks(e0, l) /\ Others(e0, m1, Of(l))
  BY <1>6, <1>7, <1>11, HalfEventSet
<1>13. /\ HalvesSettingUp(e1) /\ SameHalt(e1, e0) /\ SameLimits(e1, e0)
       /\ Blinks(e1, h) /\ Others(e1, e0, Of(h))
  BY <1>6, <1>7, <1>12, HalfEventSet
<1>14. /\ HalvesSettingUp(p0) /\ SameHalt(p0, e1) /\ SameLimits(p0, e1) /\ SameEvent(p0, e1)
       /\ p0.pre[l] = Pre[l]
  BY <1>6, <1>7, <1>13, PrePut
<1>15. /\ HalvesSettingUp(p1) /\ SameHalt(p1, p0) /\ SameLimits(p1, p0) /\ SameEvent(p1, p0)
       /\ p1.pre[h] = Pre[h] /\ p1.pre[l] = p0.pre[l]
  BY <1>6, <1>7, <1>14, PrePut
<1>16. /\ HalvesSettingUp(r0) /\ SamePre(r0, p1) /\ SameLimits(r0, p1) /\ SameEvent(r0, p1)
       /\ r0.halt = p1.halt \ {l}
  BY <1>6, <1>7, <1>15, HalfStarted
<1>17. /\ HalvesSettingUp(s) /\ SamePre(s, r0) /\ SameLimits(s, r0) /\ SameEvent(s, r0)
       /\ s.halt = r0.halt \ {h}
  BY <1>6, <1>7, <1>16, HalfStarted
<1>18. s.halt = {}
  BY <1>6, <1>9, <1>10, <1>11, <1>12, <1>13, <1>14, <1>15, <1>16, <1>17 DEF SameHalt
<1>19. s.pre[l] = Pre[l] /\ s.pre[h] = Pre[h]
  BY <1>14, <1>15, <1>16, <1>17 DEF SamePre
<1>20. s.match = m1.match /\ s.match[l][0] = Last[l] /\ s.match[h][0] = Last[h]
  BY <1>10, <1>11, <1>12, <1>13, <1>14, <1>15, <1>16, <1>17 DEF SameLimits
<1>21. s.ev = e1.ev
  BY <1>14, <1>15, <1>16, <1>17 DEF SameEvent
<1>22. Blinks(s, l) /\ Blinks(s, h)
  <2>1. s.ev[Of(l)] = e0.ev[Of(l)] /\ s.ev[Of(h)] = e1.ev[Of(h)]
    BY <1>8, <1>13, <1>21, Numbers DEF Others
  <2>2. QED
    BY <1>12, <1>13, <2>1 DEF Blinks
<1>23. \A e \in Timer!Events \ {0, 1} : Never(s, e)
  <2>1. ASSUME NEW e \in Timer!Events \ {0, 1}
        PROVE  s.ev[e] = a.ev[e]
    BY <1>8, <1>10, <1>11, <1>12, <1>13, <1>21 DEF Others, SameEvent
  <2>2. QED
    BY <1>9, <2>1 DEF Never
<1>24. \A x \in Halves : s.count[x] = 0 /\ s.phase[x] = 0 /\ s.state[x] = 0
  BY <1>17, HalfNames DEF HalvesSettingUp, Timer!Pair
<1>25. Halved(s) /\ s.evflag = {}
  <2>1. \A x \in Halves : Blinks(s, x)
    BY <1>6, <1>22
  <2>2. QED
    BY <1>17, <1>18, <1>23, <1>24, <2>1 DEF HalvesSettingUp, Halved, Blinks
<1>26. QED
  BY <1>6, <1>19, <1>20, <1>24, <1>25

\* The timer of the program is the one above.
LEMMA BlinkTimer ==
  /\ Blink!Timer!Tick(sct, {}, {}) = Timer!Tick(sct, {}, {})
  /\ Blink!Limits = {x \in Halves : Timer!Limited(sct, x, Timer!Happening(sct, {}, {}))}
  /\ \A s, e : Blink!Timer!sct_clear_interrupt(s, {e}, {}) = Cleared(s, e)
<1>1. \A s, now, before : Blink!Timer!Happening(s, now, before) = Timer!Happening(s, now, before)
  BY DEF Blink!Timer!Happening, Blink!Timer!Happens, Blink!Timer!Matches,
         Blink!Timer!Clocked, Blink!Timer!Running, Blink!Timer!Value, Blink!Timer!RegValue,
         Blink!Timer!Whole, Blink!Timer!Of, Blink!Timer!Signals, Blink!Timer!Halves,
         Blink!Timer!Events, Timer!Happening, Timer!Happens, Timer!Matches, Timer!Clocked,
         Timer!Running, Timer!Value, Timer!RegValue, Timer!Whole, Timer!Of, Timer!Signals,
         Timer!Halves, Timer!Events
<1>2. \A s, x, E : Blink!Timer!Limited(s, x, E) = Timer!Limited(s, x, E)
  BY DEF Blink!Timer!Limited, Blink!Timer!Matches, Blink!Timer!Clocked, Blink!Timer!Running,
         Blink!Timer!Value, Blink!Timer!RegValue, Blink!Timer!Whole, Blink!Timer!Halves,
         Timer!Limited, Timer!Matches, Timer!Clocked, Timer!Running, Timer!Value,
         Timer!RegValue, Timer!Whole, Timer!Halves
<1>3. Blink!Timer!Tick(sct, {}, {}) = Timer!Tick(sct, {}, {})
  BY DEF Blink!Timer!Tick, Blink!Timer!Happening, Blink!Timer!Happens,
         Blink!Timer!Matches, Blink!Timer!Clocked, Blink!Timer!Running,
         Blink!Timer!Value, Blink!Timer!RegValue, Blink!Timer!Whole,
         Blink!Timer!Split, Blink!Timer!Pair, Blink!Timer!Of, Blink!Timer!Signals,
         Blink!Timer!NextCount, Blink!Timer!Turned, Blink!Timer!Limited,
         Blink!Timer!NextState, Blink!Timer!Reloaded, Blink!Timer!OutputHigh,
         Blink!Timer!Sets, Blink!Timer!Clears, Blink!Timer!Reversed,
         Blink!Timer!Counters, Blink!Timer!Halves, Blink!Timer!Events,
         Blink!Timer!Outputs, Blink!Timer!Regs, Timer!Tick, Timer!Happening,
         Timer!Happens, Timer!Matches, Timer!Clocked, Timer!Running, Timer!Value,
         Timer!RegValue, Timer!Whole, Timer!Split, Timer!Pair, Timer!Of, Timer!Signals,
         Timer!NextCount, Timer!Turned, Timer!Limited, Timer!NextState, Timer!Reloaded,
         Timer!OutputHigh, Timer!Sets, Timer!Clears, Timer!Reversed, Timer!Counters,
         Timer!Halves, Timer!Events, Timer!Outputs, Timer!Regs
<1>4. Blink!Limits = {x \in Halves : Timer!Limited(sct, x, Timer!Happening(sct, {}, {}))}
  BY <1>1, <1>2, BlinkCalls DEF Blink!Limits
<1>5. \A s, e : Blink!Timer!sct_clear_interrupt(s, {e}, {}) = Cleared(s, e)
  BY DEF Blink!Timer!sct_clear_interrupt, Cleared, Timer!sct_clear_interrupt
<1>6. QED
  BY <1>3, <1>4, <1>5

\* Both halves begin at zero with nothing owed.
LEMMA BlinkInitially == Blink!Init => BlinkInv
<1> SUFFICES ASSUME Blink!Init PROVE BlinkInv
  OBVIOUS
<1>1. /\ Halved(sct) /\ sct.evflag = {}
      /\ \A x \in Halves : /\ sct.pre[x] = Pre[x] /\ sct.match[x][0] = Last[x]
                           /\ sct.count[x] = 0 /\ sct.phase[x] = 0
  BY BlinkSetUp DEF Blink!Init
<1>2. /\ isr = "none" /\ owed = [x \in Halves |-> 0] /\ since = [x \in Halves |-> 0]
  BY BlinkCalls DEF Blink!Init
<1>3. \A x \in Halves : Last[x] \in Nat /\ Pre[x] \in Nat \ {0}
  BY SctAssumption DEF SctAssumption
<1>4. \A x \in Halves : Paced(sct, x)
  BY <1>1, <1>3 DEF Paced
<1>5. \A x \in Halves : since[x] = sct.count[x] * Pre[x] + sct.phase[x]
  <2>1. \A x \in Halves : 0 * Pre[x] + 0 = 0
    BY <1>3
  <2>2. QED
    BY <1>1, <1>2, <2>1
<1>6. QED
  BY <1>1, <1>2, <1>4, <1>5 DEF BlinkInv

\* The time since the last limit, in clocks, and one clock later.
LEMMA OneMore ==
  ASSUME NEW c \in Nat, NEW p \in Nat \ {0}, NEW f \in Nat, f < p
  PROVE  /\ f + 1 < p => (f + 1) % p = f + 1
         /\ f + 1 >= p => /\ (f + 1) % p = 0
                          /\ c * p + f + 1 = (c + 1) * p
         /\ c * p + f + 1 = c * p + (f + 1)
         /\ 0 * p + 0 = 0
<1>1. f + 1 < p => (f + 1) % p = f + 1
  BY SMT
<1>2. f + 1 >= p => (f + 1) % p = 0
  <2>1. f + 1 >= p => f + 1 = p
    OBVIOUS
  <2>2. p % p = 0
    BY SMT
  <2>3. QED
    BY <2>1, <2>2
<1>3. c * p \in Nat /\ (c + 1) * p = c * p + p
  BY SMT
<1> DEFINE m == c * p
<1>4. m \in Nat
  BY <1>3
<1> HIDE DEF m
<1>5. f + 1 >= p => m + f + 1 = m + p
  BY <1>4
<1>6. m + f + 1 = m + (f + 1)
  BY <1>4
<1>7. 0 * p + 0 = 0
  OBVIOUS
<1>8. QED
  BY <1>1, <1>2, <1>3, <1>5, <1>6, <1>7 DEF m

\* A tick of both halves.
LEMMA BlinkClock ==
  ASSUME BlinkInv, Blink!Clock
  PROVE  BlinkInv' /\ Blink!OwnPace
<1> DEFINE E == Timer!Happening(sct, {}, {})
<1>1. /\ sct' = Timer!Tick(sct, {}, {})
      /\ \A x \in Blink!Limits : Of(x) \notin sct.evflag
      /\ owed' = [x \in Halves |-> IF x \in Blink!Limits THEN owed[x] + 1 ELSE owed[x]]
      /\ since' = [x \in Halves |-> IF x \in Blink!Limits THEN 0 ELSE since[x] + 1]
      /\ isr' = isr /\ seen' = seen
  <2>1. /\ Blink!Timer!Tick(sct, {}, {}) = Timer!Tick(sct, {}, {})
        /\ Blink!Halves = Halves /\ \A x : Blink!Of(x) = Of(x)
    BY BlinkTimer, BlinkCalls, Zenon
  <2>2. QED
    BY <2>1 DEF Blink!Clock
<1>2. Halved(sct)
  BY DEF BlinkInv
<1> DEFINE t == sct'
<1>3. t = Timer!Tick(sct, {}, {})
  BY <1>1
<1> HIDE DEF t
<1>4. /\ Halved(t) /\ t.evflag = sct.evflag \cup E
      /\ \A x \in Halves :
           /\ t.pre[x] = sct.pre[x] /\ t.match[x] = sct.match[x]
           /\ t.phase[x] = (sct.phase[x] + 1) % sct.pre[x]
           /\ ~Steps16(sct, x) => t.count[x] = sct.count[x]
           /\ Steps16(sct, x) /\ Ends(sct, x) => t.count[x] = 0
           /\ Steps16(sct, x) /\ ~Ends(sct, x) => t.count[x] = (sct.count[x] + 1) % W
  BY <1>2, <1>3, TickHalves
<1>5. /\ \A x \in Halves : Of(x) \in E <=> Ends(sct, x)
      /\ Blink!Limits = {x \in Halves : Timer!Limited(sct, x, E)}
      /\ \A x \in Halves : Timer!Limited(sct, x, E) <=> Ends(sct, x)
  BY <1>2, HalfEvents, BlinkTimer
<1>6. \A x \in Halves : x \in Blink!Limits <=> Ends(sct, x)
  BY <1>5
<1>7. /\ \A x \in Halves :
           /\ Paced(sct, x) /\ since[x] = sct.count[x] * Pre[x] + sct.phase[x]
           /\ owed[x] = IF Of(x) \in sct.evflag THEN 1 ELSE 0
      /\ isr \in {"none", "l", "h"}
      /\ isr = "l" => seen \subseteq sct.evflag
      /\ isr = "h" => seen \cap {1} \subseteq sct.evflag
  BY DEF BlinkInv
<1>8. /\ W \in Nat /\ \A x \in Halves : /\ Last[x] \in Nat /\ Last[x] < W
                                        /\ Pre[x] \in Nat \ {0}
  BY SctAssumption DEF SctAssumption
<1>9. ASSUME NEW x \in Halves
      PROVE  /\ Paced(t, x) /\ since'[x] = t.count[x] * Pre[x] + t.phase[x]
             /\ owed'[x] = IF Of(x) \in t.evflag THEN 1 ELSE 0
             /\ owed'[x] > owed[x] => since[x] + 1 = (Last[x] + 1) * Pre[x]
  <2> DEFINE c == sct.count[x]
             f == sct.phase[x]
             p == Pre[x]
             last == Last[x]
             m == c * p
  <2>1. /\ c \in Nat /\ c <= last /\ f \in Nat /\ f < p /\ sct.pre[x] = p
        /\ sct.match[x][0] = last /\ since[x] = m + f
    BY <1>7 DEF Paced
  <2>2. /\ last \in Nat /\ last < W /\ p \in Nat \ {0} /\ W \in Nat
    BY <1>8
  <2>3. /\ Steps16(sct, x) <=> f + 1 >= p
        /\ Ends(sct, x) <=> f + 1 >= p /\ c = last
    BY <2>1 DEF Steps16, Ends
  <2>4. /\ t.pre[x] = p /\ t.match[x][0] = last /\ t.phase[x] = (f + 1) % p
        /\ ~(f + 1 >= p) => t.count[x] = c
        /\ f + 1 >= p /\ c = last => t.count[x] = 0
        /\ f + 1 >= p /\ c # last => t.count[x] = (c + 1) % W
    BY <1>4, <2>1, <2>3
  <2>5. /\ x \in Blink!Limits => since'[x] = 0
        /\ x \notin Blink!Limits => since'[x] = since[x] + 1
        /\ x \in Blink!Limits => owed'[x] = owed[x] + 1
        /\ x \notin Blink!Limits => owed'[x] = owed[x]
    BY <1>1
  <2>6. x \in Blink!Limits <=> f + 1 >= p /\ c = last
    BY <1>6, <2>3
  <2>7. /\ f + 1 < p => (f + 1) % p = f + 1
        /\ f + 1 >= p => (f + 1) % p = 0 /\ c * p + f + 1 = (c + 1) * p
        /\ c * p + f + 1 = c * p + (f + 1)
        /\ 0 * p + 0 = 0
    <3> HIDE DEF c, f, p, last
    <3>1. QED
      BY <2>1, <2>2, OneMore
  <2>8. owed'[x] = IF Of(x) \in t.evflag THEN 1 ELSE 0
    <3>1. owed[x] = IF Of(x) \in sct.evflag THEN 1 ELSE 0
      BY <1>7
    <3>2. Of(x) \in t.evflag <=> Of(x) \in sct.evflag \/ x \in Blink!Limits
      BY <1>4, <1>5, <1>6
    <3>3. CASE x \in Blink!Limits
      <4>1. Of(x) \notin sct.evflag
        BY <1>1, <3>3
      <4>2. owed[x] = 0 /\ owed'[x] = owed[x] + 1
        BY <2>5, <3>1, <3>3, <4>1
      <4>3. QED
        BY <3>2, <3>3, <4>2
    <3>4. CASE x \notin Blink!Limits
      BY <2>5, <3>1, <3>2, <3>4
    <3>5. QED
      BY <3>3, <3>4
  <2>9. owed[x] \in Nat
    BY <1>7
  <2> HIDE DEF c, f, p, last
  <2>10. owed'[x] > owed[x] => since[x] + 1 = (last + 1) * p
    <3>1. owed'[x] > owed[x] => x \in Blink!Limits
      BY <2>5, <2>9
    <3>2. x \in Blink!Limits => since[x] + 1 = c * p + f + 1 /\ c = last /\ f + 1 >= p
      BY <2>1, <2>6
    <3>3. QED
      BY <2>7, <3>1, <3>2
  <2>11. /\ t.count[x] \in Nat /\ t.count[x] <= last
         /\ t.phase[x] \in Nat /\ t.phase[x] < p
         /\ since'[x] = t.count[x] * p + t.phase[x]
    <3>1. CASE f + 1 < p
      <4>1. t.count[x] = c /\ t.phase[x] = f + 1 /\ since'[x] = since[x] + 1
        BY <2>1, <2>2, <2>4, <2>5, <2>6, <2>7, <3>1
      <4>2. since[x] + 1 = c * p + f + 1
        BY <2>1
      <4>3. QED
        BY <2>1, <2>2, <2>7, <3>1, <4>1, <4>2
    <3>2. CASE f + 1 >= p /\ c = last
      <4>1. t.count[x] = 0 /\ t.phase[x] = 0 /\ since'[x] = 0
        BY <2>4, <2>5, <2>6, <2>7, <3>2
      <4>2. QED
        BY <2>1, <2>2, <2>7, <4>1
    <3>3. CASE f + 1 >= p /\ c # last
      <4>1. t.count[x] = (c + 1) % W /\ t.phase[x] = 0 /\ since'[x] = since[x] + 1
        BY <2>4, <2>5, <2>6, <2>7, <3>3
      <4>2. (c + 1) % W = c + 1 /\ c + 1 <= last /\ c + 1 \in Nat
        <5>1. c + 1 < W /\ c + 1 <= last /\ c + 1 \in Nat
          BY <2>1, <2>2, <3>3
        <5>2. QED
          BY <2>2, <5>1
      <4>3. since[x] + 1 = c * p + f + 1
        BY <2>1
      <4>4. since'[x] = (c + 1) * p
        BY <2>7, <3>3, <4>1, <4>3
      <4>5. (c + 1) * p + 0 = (c + 1) * p
        <5> DEFINE k == c + 1
        <5>1. k * p \in Nat
          BY <2>1, <2>2
        <5>2. k * p + 0 = k * p
          BY <5>1
        <5>3. QED
          BY <5>2
      <4>6. QED
        BY <2>1, <2>2, <4>1, <4>2, <4>4, <4>5
    <3>4. QED
      BY <2>1, <2>2, <3>1, <3>2, <3>3
  <2>12. QED
    BY <2>4, <2>8, <2>10, <2>11 DEF Paced, p, last
<1>10. Blink!OwnPace
  <2>1. Blink!Halves = Halves
    BY BlinkCalls, Zenon
  <2>2. \A x \in Halves : owed'[x] > owed[x] => since[x] + 1 = (Last[x] + 1) * Pre[x]
    BY <1>9
  <2>3. QED
    BY <2>1, <2>2, Zenon DEF Blink!OwnPace
<1>11. /\ isr' \in {"none", "l", "h"}
       /\ isr' = "l" => seen' \subseteq t.evflag
       /\ isr' = "h" => seen' \cap {1} \subseteq t.evflag
  <2> HIDE DEF E
  <2>1. QED
    BY <1>1, <1>4, <1>7
<1>12. DOMAIN owed' = Halves /\ DOMAIN since' = Halves
  BY <1>1
<1>13. BlinkInv'
  BY <1>4, <1>9, <1>11, <1>12 DEF BlinkInv, t
<1>14. QED
  BY <1>10, <1>13

\* The registers, but for the flags.
LEMMA HalvesCleared ==
  ASSUME NEW s, Halved(s), NEW e, NEW t, t = Cleared(s, e)
  PROVE  /\ Halved(t) /\ t.evflag = s.evflag \ {e}
         /\ \A x \in Halves : Paced(s, x) => Paced(t, x)
         /\ t.count = s.count /\ t.phase = s.phase
<1>1. Registers(s)
  BY DEF Halved
<1>2. Registers(t) /\ SameButFlags(t, s) /\ t.evflag = s.evflag \ {e}
  BY <1>1, ClearIs
<1>3. /\ t.limit = s.limit /\ t.haltmask = s.haltmask /\ t.stopmask = s.stopmask
      /\ t.startmask = s.startmask /\ t.regmode = s.regmode /\ t.down = s.down
      /\ t.bidir = s.bidir /\ t.dirctrl = s.dirctrl /\ t.res = s.res
      /\ t.unify = s.unify /\ t.autolimit = s.autolimit /\ t.noreload = s.noreload
      /\ t.pre = s.pre /\ t.phase = s.phase /\ t.count = s.count /\ t.state = s.state
      /\ t.ev = s.ev /\ t.stop = s.stop /\ t.halt = s.halt /\ t.match = s.match
  BY <1>2 DEF SameButFlags, SctNames
<1>4. Plain(t)
  BY <1>3 DEF Halved, Plain
<1>5. Halved(t)
  BY <1>2, <1>3, <1>4 DEF Halved, Never
<1>6. \A x \in Halves : Paced(s, x) => Paced(t, x)
  BY <1>3 DEF Paced
<1>7. QED
  BY <1>2, <1>3, <1>5, <1>6

\* The handler begins.
LEMMA BlinkEnter == BlinkInv /\ Blink!Enter => BlinkInv' /\ owed' = owed
<1> SUFFICES ASSUME BlinkInv, Blink!Enter PROVE BlinkInv' /\ owed' = owed
  OBVIOUS
<1>1. /\ isr' = "l" /\ sct' = sct /\ owed' = owed /\ since' = since
      /\ seen' \subseteq sct.evflag
  BY DEF Blink!Enter, Blink!Timer!sct_get_interrupt_mask,
         Blink!Timer!sct_get_interrupt_status
<1>2. QED
  BY <1>1 DEF BlinkInv

\* The handler clears the flag of a half and toggles its LED.
LEMMA BlinkHandle ==
  ASSUME BlinkInv, NEW x \in Halves, Blink!Handle(x)
  PROVE  BlinkInv' /\ \A y \in Halves : ~(owed'[y] > owed[y])
<1>1. /\ isr = x /\ isr' = IF x = "l" THEN "h" ELSE "none"
      /\ seen' = seen /\ since' = since
      /\ Of(x) \in seen => owed' = [owed EXCEPT ![x] = @ - 1] /\ sct' = Cleared(sct, Of(x))
      /\ Of(x) \notin seen => owed' = owed /\ sct' = sct
  <2>1. \A y : Blink!Of(y) = Of(y)
    BY BlinkCalls, Zenon
  <2>2. \A s, e : Blink!Timer!sct_clear_interrupt(s, {e}, {}) = Cleared(s, e)
    BY BlinkTimer, Zenon
  <2>3. QED
    BY <2>1, <2>2, Zenon DEF Blink!Handle, Blink!After
<1>2. /\ Halved(sct) /\ DOMAIN owed = Halves /\ DOMAIN since = Halves
      /\ \A y \in Halves :
           /\ Paced(sct, y) /\ since[y] = sct.count[y] * Pre[y] + sct.phase[y]
           /\ owed[y] = IF Of(y) \in sct.evflag THEN 1 ELSE 0
      /\ isr = "l" => seen \subseteq sct.evflag
      /\ isr = "h" => seen \cap {1} \subseteq sct.evflag
  BY DEF BlinkInv
<1>3. /\ x = "l" \/ x = "h"
      /\ x = "l" => Of(x) = 0
      /\ x = "h" => Of(x) = 1
      /\ \A y \in Halves : y # x => Of(y) # Of(x)
  BY HalfNames
<1>4. Of(x) \in seen => Of(x) \in sct.evflag
  BY <1>1, <1>2, <1>3
<1>5. isr' \in {"none", "l", "h"} /\ isr' # "l" /\ (isr' = "h" => x = "l")
  BY <1>1, <1>3
<1>6. CASE Of(x) \notin seen
  <2>1. owed' = owed /\ sct' = sct
    BY <1>1, <1>6
  <2>2. isr' = "h" => seen' \cap {1} \subseteq sct'.evflag
    BY <1>1, <1>2, <1>5, <2>1
  <2>3. BlinkInv'
    BY <1>1, <1>2, <1>5, <2>1, <2>2 DEF BlinkInv
  <2>4. \A y \in Halves : owed[y] \in Nat
    BY <1>2
  <2>5. QED
    BY <2>1, <2>3, <2>4
<1>7. CASE Of(x) \in seen
  <2> DEFINE t == sct'
             e == Of(x)
  <2>1. t = Cleared(sct, e) /\ owed' = [owed EXCEPT ![x] = @ - 1]
    BY <1>1, <1>7
  <2> HIDE DEF t, e
  <2>2. /\ Halved(t) /\ t.evflag = sct.evflag \ {e}
        /\ \A y \in Halves : Paced(sct, y) => Paced(t, y)
        /\ t.count = sct.count /\ t.phase = sct.phase
    BY <1>2, <2>1, HalvesCleared
  <2>3. /\ owed[x] = 1 /\ owed'[x] = owed[x] - 1 /\ DOMAIN owed' = Halves
        /\ \A y \in Halves : y # x => owed'[y] = owed[y]
    BY <1>2, <1>4, <1>7, <2>1
  <2>4. \A y \in Halves : owed'[y] = IF Of(y) \in t.evflag THEN 1 ELSE 0
    <3>1. owed'[x] = 0
      BY <2>3
    <3>2. Of(x) \notin t.evflag
      BY <2>2 DEF e
    <3>3. ASSUME NEW y \in Halves, y # x
          PROVE  owed'[y] = IF Of(y) \in t.evflag THEN 1 ELSE 0
      <4>1. Of(y) # e
        BY <1>3, <3>3 DEF e
      <4>2. Of(y) \in t.evflag <=> Of(y) \in sct.evflag
        BY <2>2, <4>1
      <4>3. QED
        BY <1>2, <2>3, <3>3, <4>2
    <3>4. QED
      BY <3>1, <3>2, <3>3
  <2>5. isr' = "h" => seen' \cap {1} \subseteq t.evflag
    <3>1. ASSUME isr' = "h" PROVE seen \subseteq sct.evflag /\ e = 0
      BY <1>1, <1>2, <1>3, <1>5, <3>1 DEF e
    <3>2. QED
      BY <1>1, <2>2, <3>1
  <2>6. BlinkInv'
    BY <1>1, <1>2, <1>5, <2>2, <2>3, <2>4, <2>5 DEF BlinkInv, t
  <2>7. \A y \in Halves : owed[y] \in Nat
    BY <1>2
  <2>8. ~(owed'[x] > owed[x])
    BY <2>3
  <2>9. QED
    BY <2>3, <2>6, <2>7, <2>8
<1>8. QED
  BY <1>6, <1>7

\* Every step of the program.
LEMMA BlinkStep ==
  BlinkInv /\ (Blink!Next \/ UNCHANGED blink) => BlinkInv' /\ Blink!OwnPace
<1> SUFFICES ASSUME BlinkInv, Blink!Next \/ UNCHANGED blink PROVE BlinkInv' /\ Blink!OwnPace
  OBVIOUS
<1>1. CASE Blink!Clock
  BY <1>1, BlinkClock
<1>2. ASSUME \A x \in Halves : ~(owed'[x] > owed[x]) PROVE Blink!OwnPace
  <2>1. Blink!Halves = Halves
    BY BlinkCalls, Zenon
  <2>2. QED
    BY <1>2, <2>1, Zenon DEF Blink!OwnPace
<1>3. ASSUME owed' = owed PROVE Blink!OwnPace
  <2>1. \A x \in Halves : owed[x] \in Nat
    BY DEF BlinkInv
  <2>2. \A x \in Halves : ~(owed'[x] > owed[x])
    BY <1>3, <2>1
  <2>3. QED
    BY <1>2, <2>2
<1>4. CASE Blink!Enter
  BY <1>3, <1>4, BlinkEnter
<1>5. CASE \E x \in Halves : Blink!Handle(x)
  BY <1>2, <1>5, BlinkHandle
<1>6. CASE UNCHANGED blink
  <2>1. BlinkInv' /\ owed' = owed
    BY <1>6 DEF blink, BlinkInv, Halved, Paced
  <2>2. QED
    BY <1>3, <2>1
<1>7. Blink!Halves = Halves
  BY BlinkCalls, Zenon
<1>8. QED
  BY <1>1, <1>4, <1>5, <1>6, <1>7 DEF Blink!Next, Blink!sct_isr

\* The invariant says what the example sct promises of its LEDs.
LEMMA BlinkToggles == BlinkInv => Blink!ToggledOnce
<1> SUFFICES ASSUME BlinkInv PROVE Blink!ToggledOnce
  OBVIOUS
<1>1. Blink!Halves = Halves /\ \A x : Blink!Of(x) = Of(x)
  BY BlinkCalls, Zenon
<1>2. \A x \in Halves : owed[x] = IF Of(x) \in sct.evflag THEN 1 ELSE 0
  BY DEF BlinkInv
<1>3. QED
  BY <1>1, <1>2, Zenon DEF Blink!ToggledOnce

-----------------------------------------------------------------------------
(* The board.                                                              *)

\* Every program begins in its invariant.
LEMMA Initially == Init => SctInv
<1> SUFFICES ASSUME Init PROVE SctInv
  OBVIOUS
<1>1. \/ program = "sct_pwm" /\ Pwm!Init
      \/ program = "rc_servo" /\ Servo!Init
      \/ program = "acmp" /\ Dimmer!Init
      \/ program = "piezo" /\ Speaker!Init
      \/ program = "sct" /\ Blink!Init
  BY Zenon DEF Init
<1>2. CASE program = "sct_pwm" /\ Pwm!Init
  BY <1>2, PwmInitially DEF SctInv
<1>3. CASE program = "rc_servo" /\ Servo!Init
  BY <1>3, ServoInitially DEF SctInv
<1>4. CASE program = "acmp" /\ Dimmer!Init
  BY <1>4, DimmerInitially DEF SctInv
<1>5. CASE program = "piezo" /\ Speaker!Init
  BY <1>5, SpeakerInitially DEF SctInv
<1>6. CASE program = "sct" /\ Blink!Init
  BY <1>6, BlinkInitially DEF SctInv
<1>7. QED
  BY <1>1, <1>2, <1>3, <1>4, <1>5, <1>6

\* A step is one of the program that the board runs, or none.
LEMMA StepIs ==
  ASSUME SctInv, [Next]_vars
  PROVE  /\ program' = program
         /\ program = "sct_pwm" => Pwm!Next \/ UNCHANGED pwm
         /\ program = "rc_servo" => Servo!Next \/ UNCHANGED pwm
         /\ program = "acmp" => Dimmer!Next \/ UNCHANGED dimmer
         /\ program = "piezo" => Speaker!Next \/ UNCHANGED speaker
         /\ program = "sct" => Blink!Next \/ UNCHANGED blink
<1>1. CASE UNCHANGED vars
  BY <1>1 DEF vars
<1>2. CASE Next
  <2>1. program' = program
    BY <1>2, Zenon DEF Next, PwmOnly, DimmerOnly, SpeakerOnly, BlinkOnly
  <2>2. \/ program = "sct_pwm" /\ Pwm!Next
        \/ program = "rc_servo" /\ Servo!Next
        \/ program = "acmp" /\ Dimmer!Next
        \/ program = "piezo" /\ Speaker!Next
        \/ program = "sct" /\ Blink!Next
    BY <1>2, Zenon DEF Next
  <2>3. CASE program = "sct_pwm" /\ Pwm!Next
    BY <2>1, <2>3
  <2>4. CASE program = "rc_servo" /\ Servo!Next
    BY <2>1, <2>4
  <2>5. CASE program = "acmp" /\ Dimmer!Next
    BY <2>1, <2>5
  <2>6. CASE program = "piezo" /\ Speaker!Next
    BY <2>1, <2>6
  <2>7. CASE program = "sct" /\ Blink!Next
    BY <2>1, <2>7
  <2>8. QED
    BY <2>2, <2>3, <2>4, <2>5, <2>6, <2>7
<1>3. QED
  BY <1>1, <1>2

\* Every step of the board keeps the invariant of its program.
LEMMA Step == SctInv /\ [Next]_vars => SctInv'
<1> SUFFICES ASSUME SctInv, [Next]_vars PROVE SctInv'
  OBVIOUS
<1>1. program' = program /\ program \in {"sct_pwm", "rc_servo", "acmp", "piezo", "sct"}
  BY StepIs DEF SctInv
<1>2. CASE program = "sct_pwm"
  <2>1. PwmInv'
    BY <1>2, StepIs, PwmStep DEF SctInv
  <2>2. QED
    BY <1>1, <1>2, <2>1 DEF SctInv
<1>3. CASE program = "rc_servo"
  <2>1. ServoInv'
    BY <1>3, StepIs, ServoStep DEF SctInv
  <2>2. QED
    BY <1>1, <1>3, <2>1 DEF SctInv
<1>4. CASE program = "acmp"
  <2>1. DimmerInv'
    BY <1>4, StepIs, DimmerStep DEF SctInv
  <2>2. QED
    BY <1>1, <1>4, <2>1 DEF SctInv
<1>5. CASE program = "piezo"
  <2>1. PiezoInv'
    BY <1>5, StepIs, SpeakerStep DEF SctInv
  <2>2. QED
    BY <1>1, <1>5, <2>1 DEF SctInv
<1>6. CASE program = "sct"
  <2>1. BlinkInv'
    BY <1>6, StepIs, BlinkStep DEF SctInv
  <2>2. QED
    BY <1>1, <1>6, <2>1 DEF SctInv
<1>7. QED
  BY <1>1, <1>2, <1>3, <1>4, <1>5, <1>6

\* Whatever the period, the widths, the tones and the limits are, and however
\* the buttons, the input voltage and the interrupt handlers come in between:
\* every pulse has the width that was asked for when it began (a width of 0
\* leaves the dimmer's output as it was), the square wave and its opposite are half and half, and an LED owes a toggle just when the
\* timer still asks for one (sct_pwm.c:66-130, rc_servo.c:66-106,
\* acmp.c:73-155, piezo.c:93-134, sct.c:92-118 of the example).
THEOREM TimerOutputs == Spec => []OutputsAsPromised
<1>1. Init => SctInv
  BY Initially
<1>2. SctInv /\ [Next]_vars => SctInv'
  BY Step
<1>3. SctInv => OutputsAsPromised
  <2> SUFFICES ASSUME SctInv PROVE OutputsAsPromised
    OBVIOUS
  <2>1. program = "sct_pwm" => Pwm!PulseAsAsked /\ Pwm!NoConflict
    BY PwmPulses DEF SctInv
  <2>2. program = "rc_servo" => Servo!PulseAsAsked /\ Servo!NoConflict
    BY ServoPulses DEF SctInv
  <2>3. program = "acmp" => Dimmer!PulseAsAsked
    BY DimmerPulses DEF SctInv
  <2>4. program = "piezo" => Speaker!HalfAndHalf /\ Speaker!Opposite
    BY SpeakerWaves DEF SctInv
  <2>5. program = "sct" => Blink!ToggledOnce
    BY BlinkToggles DEF SctInv
  <2>6. QED
    BY <2>1, <2>2, <2>3, <2>4, <2>5, Zenon DEF OutputsAsPromised
<1>4. QED
  BY <1>1, <1>2, <1>3, PTL DEF Spec

\* Every tone lasts for the periods of one second, though the handler counts
\* them one by one and the timer runs on meanwhile; and each half of the
\* counter has its limits at its own pace (piezo.c:87-88, 119-145,
\* sct.c:63-118 of the example).
THEOREM TimerDurations == Spec => Durations
<1>1. Init => SctInv
  BY Initially
<1>2. SctInv /\ [Next]_vars => SctInv'
  BY Step
<1>3. SctInv /\ [Next]_vars => /\ program = "piezo" => Speaker!FullSecond
                               /\ program = "sct" => Blink!OwnPace
  BY StepIs, SpeakerSeconds, BlinkStep DEF SctInv
<1>4. QED
  BY <1>1, <1>2, <1>3, PTL DEF Spec, Durations
=============================================================================
