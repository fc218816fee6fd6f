------------------------------- MODULE MCSct -------------------------------
(***************************************************************************)
(* Small instances of the programs that use the state-configurable timer.  *)
(* A board runs one of them, which the initial state chooses; they share   *)
(* no more than the names of variables, and a variable that a program does *)
(* not have is Off.                                                        *)
(***************************************************************************)
EXTENDS Integers, Sequences

CONSTANTS W,                                          \* of all of them
          Period, Steps, Shorter,                     \* SctPwm as sct_pwm.c
          ServoPeriod, Width0, Width1,                \* SctPwm as rc_servo.c
          LadderSteps, Voltages,                      \* AcmpDimmer, with Period
          PCLK, freq,                                 \* Piezo
          Last, Pre                                   \* SctBlink

Halves == {"l", "h"}

\* The counter holds a period and more, and every width is inside its period.
\* Tones that follow each other differ.  Each half of the counter holds its limit.
ASSUME SctAssumption ==
  /\ W \in Nat \ {0}
  /\ Period \in Nat /\ Period <= W * W
  /\ Steps \in Nat /\ Steps > 1 /\ Shorter \in Nat \ {0} /\ Period \div Steps >= Shorter
  /\ ServoPeriod \in Nat /\ ServoPeriod <= W * W
  /\ {Width0, Width1} \subseteq {w \in Nat : 1 <= w /\ w < ServoPeriod}
  /\ LadderSteps \in Nat \ {0} /\ Period >= LadderSteps /\ Voltages \subseteq Nat
  /\ PCLK \in Nat /\ freq \in Seq(Nat \ {0}) /\ freq # <<>>
  /\ \A n \in DOMAIN freq :
       /\ 2 <= PCLK \div freq[n] /\ PCLK \div freq[n] <= W * W
       /\ PCLK \div freq[n] # PCLK \div freq[(n % Len(freq)) + 1]
  /\ Last \in [Halves -> {v \in Nat : v < W}] /\ Pre \in [Halves -> Nat \ {0}]

\* Small values.
Tones  == <<3, 4, 5>>
Limits == [x \in Halves |-> IF x = "l" THEN 2 ELSE 3]
Scales == [x \in Halves |-> IF x = "l" THEN 3 ELSE 2]

VARIABLES program,
          sct, i, pc, isr, high, asked, count, whole, \* of more than one program
          button, wasHigh, up, first, pure,           \* SctPwm
          voltage, ladder, began,                     \* AcmpDimmer
          findex, tone, periods,                      \* Piezo
          seen, owed, since                           \* SctBlink

Pwm   == INSTANCE SctPwm WITH Program <- "sct_pwm"
Servo == INSTANCE SctPwm WITH Program <- "rc_servo", Period <- ServoPeriod

Dimmer == INSTANCE AcmpDimmer WITH Steps <- LadderSteps

Speaker == INSTANCE Piezo

Blink == INSTANCE SctBlink

pwm     == <<sct, button, wasHigh, i, up, first, high, asked, pure>>
dimmer  == <<sct, voltage, ladder, i, pc, high, began, asked, whole>>
speaker == <<sct, findex, count, isr, tone, periods, high>>
blink   == <<sct, isr, seen, owed, since>>
vars    == <<program, pwm, dimmer, speaker, blink>>

-----------------------------------------------------------------------------
Off == "off"

PwmOff     == button = Off /\ wasHigh = Off /\ up = Off /\ first = Off /\ pure = Off
DimmerOff  == voltage = Off /\ ladder = Off /\ began = Off /\ pc = Off
SpeakerOff == findex = Off /\ tone = Off /\ periods = Off /\ count = Off
BlinkOff   == seen = Off /\ owed = Off /\ since = Off

Init ==
  \/ /\ program = "sct_pwm" /\ Pwm!Init
     /\ DimmerOff /\ whole = Off /\ SpeakerOff /\ BlinkOff /\ isr = Off
  \/ /\ program = "rc_servo" /\ Servo!Init
     /\ DimmerOff /\ whole = Off /\ SpeakerOff /\ BlinkOff /\ isr = Off
  \/ /\ program = "acmp" /\ Dimmer!Init
     /\ PwmOff /\ SpeakerOff /\ BlinkOff /\ isr = Off
  \/ /\ program = "piezo" /\ Speaker!Init
     /\ PwmOff /\ i = Off /\ asked = Off /\ DimmerOff /\ whole = Off /\ BlinkOff
  \/ /\ program = "sct" /\ Blink!Init
     /\ PwmOff /\ i = Off /\ high = Off /\ asked = Off
     /\ DimmerOff /\ whole = Off /\ SpeakerOff

\* What a program leaves alone.
PwmOnly == UNCHANGED <<program, pc, isr, count, whole, voltage, ladder, began,
                       findex, tone, periods, seen, owed, since>>
DimmerOnly == UNCHANGED <<program, isr, count, button, wasHigh, up, first, pure,
                          findex, tone, periods, seen, owed, since>>
SpeakerOnly == UNCHANGED <<program, i, pc, asked, whole, button, wasHigh, up, first, pure,
                           voltage, ladder, began, seen, owed, since>>
BlinkOnly == UNCHANGED <<program, i, pc, high, asked, count, whole, button, wasHigh, up,
                         first, pure, voltage, ladder, began, findex, tone, periods>>

Next ==
  \/ program = "sct_pwm" /\ Pwm!Next /\ PwmOnly
  \/ program = "rc_servo" /\ Servo!Next /\ PwmOnly
  \/ program = "acmp" /\ Dimmer!Next /\ DimmerOnly
  \/ program = "piezo" /\ Speaker!Next /\ SpeakerOnly
  \/ program = "sct" /\ Blink!Next /\ BlinkOnly

\* The clock of the timer and the processor run.
Clock == \/ program = "sct_pwm" /\ Pwm!Clock /\ PwmOnly
         \/ program = "rc_servo" /\ Servo!Clock /\ PwmOnly
         \/ program = "acmp" /\ Dimmer!Clock /\ DimmerOnly
         \/ program = "piezo" /\ Speaker!Clock /\ SpeakerOnly
         \/ program = "sct" /\ Blink!Clock /\ BlinkOnly

Processor == \/ program = "sct_pwm" /\ Pwm!main /\ PwmOnly
             \/ program = "acmp" /\ Dimmer!main /\ DimmerOnly
             \/ program = "piezo" /\ Speaker!sct_isr /\ SpeakerOnly
             \/ program = "sct" /\ Blink!sct_isr /\ BlinkOnly

Spec == Init /\ [][Next]_vars /\ WF_vars(Clock) /\ WF_vars(Processor)

-----------------------------------------------------------------------------
(* Properties.                                                             *)

\* What comes out is what the program promises: pulses of the width asked for,
\* however it is changed meanwhile (sct_pwm.c:66-130, rc_servo.c:66-106,
\* acmp.c:73-82, 155), where a width of 0 leaves the dimmer's output as it was; a
\* square wave and its opposite, also when the tone changes (piezo.c:93-134); a
\* toggle for every limit of a half of the counter (sct.c:92-118 of the example).
OutputsAsPromised ==
  /\ program = "sct_pwm" => Pwm!PulseAsAsked /\ Pwm!NoConflict
  /\ program = "rc_servo" => Servo!PulseAsAsked /\ Servo!NoConflict
  /\ program = "acmp" => Dimmer!PulseAsAsked
  /\ program = "piezo" => Speaker!HalfAndHalf /\ Speaker!Opposite
  /\ program = "sct" => Blink!ToggledOnce

\* It lasts as long as it is to: a second for each tone (piezo.c:87-88,
\* 130-131), and for each half of the counter its own time, whatever the other
\* half and the handler do (sct.c:63-88 of the example).
Durations ==
  [][/\ program = "piezo" => Speaker!FullSecond
     /\ program = "sct" => Blink!OwnPace]_vars

\* Nothing gets stuck: both widths come round while input 0 goes on falling
\* (sct_pwm.c:90-104), the dimmer settles at an input that stays
\* (acmp.c:143-157), every tone is heard again (piezo.c:119-145), and both LEDs
\* go on blinking (sct.c:92-118 of the example).
GoesOn ==
  /\ []<><<program = "sct_pwm" /\ Pwm!Falls>>_pwm =>
       \A x \in 0 .. 1 : []<>(program = "sct_pwm" /\ sct.state["l"] = x)
  /\ []<><<program = "rc_servo" /\ Servo!Falls>>_pwm =>
       \A x \in 0 .. 1 : []<>(program = "rc_servo" /\ sct.state["l"] = x)
  /\ \A v \in Voltages :
       <>[](program = "acmp" /\ voltage = v) =>
         <>[](program = "acmp" /\ Dimmer!Shows(v))
  /\ \A t \in DOMAIN freq :
       []<>(program = "piezo" => tone = Speaker!Clocks(t - 1))
  /\ \A x \in Halves :
       []<>(program = "sct" => owed[x] = 0) /\ []<>(program = "sct" => owed[x] = 1)
=============================================================================
