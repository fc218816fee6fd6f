---------------------------- MODULE MCInterrupts ----------------------------
(***************************************************************************)
(* Small instances of the programs about time and interrupts: mrt, wkt,    *)
(* wwdt, usart_irq, and pinint with a button that bounces or does not, and *)
(* of a program that calls pinint.c in any order.  A board runs one of     *)
(* them, which the initial state chooses; they share no more than the      *)
(* names of variables, and a variable that a program does not have is Off. *)
(***************************************************************************)
EXTENDS Integers, Sequences

CONSTANTS Half, Stalls, Ms,                      \* MrtDemo
          Rates, Clocks, Garbage, ButtonTests,   \* WatchdogTest
          Pins,                                  \* PinintModes
          QUEUESIZE, MaxChars, NoChar            \* UsartIrq

\* The main clock is up to 1.5% off, and the period of the watchdog oscillator up
\* to 40%, as the comments on the tests have it (wwdt.c:139-140), so that its rate
\* is between 1/1.4 and 1/0.6 of the nominal one.
ASSUME InterruptsAssumption ==
  /\ {Half, Stalls, Ms} \subseteq Nat \ {0}
  /\ Rates \subseteq {v \in Int : 715 <= v /\ v <= 1666}
  /\ Clocks \subseteq {v \in Int : 985 <= v /\ v <= 1015}
  /\ Garbage \subseteq {v \in Int : 0 <= v /\ v <= 255}
  /\ ButtonTests \subseteq {0, 1, 2, 3, 4, 5}
  /\ QUEUESIZE \in Nat \ {0} /\ MaxChars \in Nat /\ NoChar \notin Nat

VARIABLES program,
          pc, isr, i, j, count, osc, reg, levels,      \* of more than one program
          mrt, toggles,                                \* MrtDemo
          ctrl, counter, pcon, PMU_GPREG0, sleep, cut, \* WakeUp
          TESTNUM, phase, INTSTATUS, status, rate, clock, elapsed, \* WatchdogTest
          led, count0, count1, pending, edge,          \* PinintDemo
          told, went,                                  \* PinintModes
          rxdat, txdat, inten, came, wire, queue, head, tail, qlen, mask, seen,
          accepted                                     \* UsartIrq

Mrt == INSTANCE MrtDemo

Wkt == INSTANCE WakeUp

Wwdt == INSTANCE WatchdogTest

Slow == INSTANCE PinintDemo WITH Bounces <- FALSE
Fast == INSTANCE PinintDemo WITH Bounces <- TRUE

Modes == INSTANCE PinintModes

Echo == INSTANCE UsartIrq WITH m <- mask, s <- seen

ofMrt    == <<mrt, count, isr, pc, i, j, toggles>>
ofWkt    == <<ctrl, counter, pcon, osc, PMU_GPREG0, sleep, count, isr, pc, cut>>
ofWwdt   == <<TESTNUM, phase, INTSTATUS, status, osc, rate, clock, elapsed, i, j, pc>>
ofPinint == <<reg, levels, led, count0, count1, pending, isr, edge>>
ofModes  == <<reg, levels, told, went>>
ofEcho   == <<rxdat, txdat, inten, came, wire, queue, head, tail, qlen, mask, seen, pc, accepted>>
vars     == <<program, ofMrt, ofWkt, ofWwdt, ofPinint, ofModes, ofEcho>>

-----------------------------------------------------------------------------
Off == "off"

MrtOff  == mrt = Off /\ toggles = Off
WktOff  == ctrl = Off /\ counter = Off /\ pcon = Off /\ PMU_GPREG0 = Off /\ sleep = Off /\ cut = Off
WwdtOff == /\ TESTNUM = Off /\ phase = Off /\ INTSTATUS = Off /\ status = Off
           /\ rate = Off /\ clock = Off /\ elapsed = Off
PinsOff == reg = Off /\ levels = Off
DemoOff == led = Off /\ count0 = Off /\ count1 = Off /\ pending = Off /\ edge = Off
CallsOff == told = Off /\ went = Off
EchoOff == /\ rxdat = Off /\ txdat = Off /\ inten = Off /\ came = Off /\ wire = Off
           /\ queue = Off /\ head = Off /\ tail = Off /\ qlen = Off
           /\ mask = Off /\ seen = Off /\ accepted = Off

Init ==
  \/ /\ program = "mrt" /\ Mrt!Init
     /\ osc = Off /\ WktOff /\ WwdtOff /\ PinsOff /\ DemoOff /\ CallsOff /\ EchoOff
  \/ /\ program = "wkt" /\ Wkt!Init
     /\ i = Off /\ j = Off /\ MrtOff /\ WwdtOff /\ PinsOff /\ DemoOff /\ CallsOff /\ EchoOff
  \/ /\ program = "wwdt" /\ Wwdt!Init
     /\ isr = Off /\ count = Off /\ MrtOff /\ WktOff /\ PinsOff /\ DemoOff /\ CallsOff /\ EchoOff
  \/ /\ \/ program = "pinint" /\ Slow!Init
        \/ program = "bounces" /\ Fast!Init
     /\ pc = Off /\ i = Off /\ j = Off /\ count = Off /\ osc = Off
     /\ MrtOff /\ WktOff /\ WwdtOff /\ CallsOff /\ EchoOff
  \/ /\ program = "calls" /\ Modes!Init
     /\ pc = Off /\ isr = Off /\ i = Off /\ j = Off /\ count = Off /\ osc = Off
     /\ MrtOff /\ WktOff /\ WwdtOff /\ DemoOff /\ EchoOff
  \/ /\ program = "echo" /\ Echo!Init
     /\ isr = Off /\ i = Off /\ j = Off /\ count = Off /\ osc = Off
     /\ MrtOff /\ WktOff /\ WwdtOff /\ PinsOff /\ DemoOff /\ CallsOff

\* What a program leaves alone.
timeouts == <<TESTNUM, phase, INTSTATUS, status, rate, clock, elapsed>>
sleeping == <<ctrl, counter, pcon, PMU_GPREG0, sleep, cut>>
demo     == <<led, count0, count1, pending, edge>>
echo     == <<rxdat, txdat, inten, came, wire, queue, head, tail, qlen, mask, seen, accepted>>

MrtOnly  == UNCHANGED <<program, osc, reg, levels, sleeping, timeouts, demo, told, went, echo>>
WktOnly  ==
  UNCHANGED <<program, i, j, reg, levels, mrt, toggles, timeouts, demo, told, went, echo>>
WwdtOnly ==
  UNCHANGED <<program, isr, count, reg, levels, mrt, toggles, sleeping, demo, told, went, echo>>
DemoOnly ==
  UNCHANGED <<program, pc, i, j, count, osc, mrt, toggles, sleeping, timeouts, told, went, echo>>
CallsOnly ==
  UNCHANGED <<program, pc, isr, i, j, count, osc, mrt, toggles, sleeping, timeouts, demo, echo>>
EchoOnly ==
  UNCHANGED <<program, isr, i, j, count, osc, reg, levels, mrt, toggles, sleeping, timeouts,
              demo, told, went>>

Next ==
  \/ program = "mrt" /\ Mrt!Next /\ MrtOnly
  \/ program = "wkt" /\ Wkt!Next /\ WktOnly
  \/ program = "wwdt" /\ Wwdt!Next /\ WwdtOnly
  \/ program = "pinint" /\ Slow!Next /\ DemoOnly
  \/ program = "bounces" /\ Fast!Next /\ DemoOnly
  \/ program = "calls" /\ Modes!Next /\ CallsOnly
  \/ program = "echo" /\ Echo!Next /\ EchoOnly

\* The timers count, whether the processor is awake or asleep, and the USART
\* transmits.
Devices == \/ program = "mrt" /\ Mrt!Clock /\ MrtOnly
           \/ program = "wkt" /\ (Wkt!Alarm \/ Wkt!Wake) /\ WktOnly
           \/ program = "echo" /\ Echo!Transmit /\ EchoOnly

\* It serves interrupts, and main() runs.
Handlers == \/ program = "mrt" /\ Mrt!mrt_isr /\ MrtOnly
            \/ program = "wkt" /\ Wkt!wkt_isr /\ WktOnly
            \/ program = "bounces" /\ (Fast!pinint0_isr \/ Fast!pinint1_isr) /\ DemoOnly
            \/ program = "echo" /\ Echo!uart0_isr /\ EchoOnly

Main == \/ program = "mrt" /\ Mrt!main /\ MrtOnly
        \/ program = "wkt" /\ Wkt!main /\ WktOnly
        \/ program = "wwdt" /\ Wwdt!main /\ WwdtOnly

Spec == Init /\ [][Next]_vars /\ WF_vars(Devices) /\ WF_vars(Handlers) /\ WF_vars(Main)

-----------------------------------------------------------------------------
(* Properties.                                                             *)

\* A watchdog that works passes every test: no feed comes too late or too
\* early, and no reset later than the test waits, for all rates of the two clocks
\* and wherever the last reset came from, except for test 0 with the oscillator of
\* test 4, after the button during test 3 or power-on with 3 in the RAM
\* (wwdt.c:44, 136-430, 447-476).
TestsPass == program = "wwdt" => Wwdt!TestsPass

\* A part in deep power-down wakes up after its time, knows why it starts, and
\* does not take an interrupted start for an error (wkt.c:134-172).
WakesAsPromised ==
  program = "wkt" => Wkt!Seconds /\ Wkt!WillWake /\ Wkt!NoFalseError

\* Each phase of the timer demonstration toggles the LED ten times, with delays
\* of their full length, and the repeating channel is at rest in the others
\* (mrt.c:77-143).
PhasesComplete ==
  [][program = "mrt" => Mrt!AtRest /\ Mrt!TenEach /\ Mrt!FullDelay]_vars

\* "Change the interrupt mode when the button is pushed and released 3 times":
\* the LED is as the pushes so far say (pinint.c:69-190 of the example).
LedAsPromised == program = "pinint" => Slow!LedAsPromised

\* Whatever calls and edges came before, a mode reads back as it was set, and a
\* pin asks for an interrupt exactly when its mode says so (pinint.c:22-110).
ModesAsTold == program = "calls" => Modes!ReadsBack /\ Modes!AsksAsTold

\* Every character that usart_irq accepts is in exactly one place, in the order
\* of arrival: on the wire, in the transmitter, or in the ring
\* (usart_irq.c:113-149).
Conserved == program = "echo" => Echo!Conserved

\* While characters wait in the ring the transmit interrupt is enabled: no
\* order of receive and transmit interrupts forgets them (usart_irq.c:124, 147).
Armed == program = "echo" => Echo!Armed

\* The handler implements a channel in order that discards only when full.
EchoesInOrder ==
  /\ program = "echo" => Echo!Channel!Init
  /\ [][program = "echo" => [Echo!Channel!Next]_Echo!Channel!vars]_vars

\* Everything that was accepted is sent in the end.
Drains == <>[](program = "echo" => wire = accepted)

\* Nothing waits for ever: the phases of mrt.c:120-143 come round; wkt.c:86-172
\* sleeps again and again and all tests of wwdt.c come round, unless the reset
\* button is pressed again and again, or test 0 has run with the slow oscillator
\* and main() is in its error loop; the modes of the pin interrupts change
\* while the button is pushed, in whatever way its edges fall into the handlers
\* (pinint.c:80-190).
GoesOn ==
  /\ \A p \in {"wait", "poll", "stall"} : []<>(program = "mrt" => pc = p)
  /\ \/ []<>(program = "wkt" => pc \in {"sleep", "error"})
     \/ []<><<program = "wkt" /\ Wkt!Button>>_ofWkt
  /\ \/ \A t \in 0 .. 5 : []<>(program = "wwdt" => TESTNUM = t /\ phase = 1)
     \/ []<><<program = "wwdt" /\ Wwdt!Button>>_ofWwdt
     \/ <>[](program = "wwdt" /\ pc = "error2" /\ Wwdt!TestsPass)
  /\ []<><<program = "bounces" /\ Fast!Button>>_ofPinint =>
       /\ []<>(program = "bounces" /\ Fast!PatternMatch)
       /\ []<>(program = "bounces" /\ ~Fast!PatternMatch)
=============================================================================
