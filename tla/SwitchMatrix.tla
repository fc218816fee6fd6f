---------------------------- MODULE SwitchMatrix ----------------------------
(***************************************************************************)
(* gpio_config() and gpio_reconfig() of lib/nxp_lpc/lpc81x/gpio.c: who     *)
(* drives which pin.  A pin belongs to the movable functions assigned to   *)
(* it (SWM_PINASSIGN), to the fixed-pin functions enabled on it            *)
(* (SWM_PINENABLE0), or else to the GPIO port, with its direction          *)
(* (GPIO_DIR0).  Both are called from one thread, so a call is one action. *)
(* Definitions under "Mistake" are not part of the model: each stands for  *)
(* a plausible error in the definition after it.                           *)
(***************************************************************************)
EXTENDS Integers, FiniteSets

CONSTANTS Pin,        \* pins of the package, a subset of 0 .. GPIO_MAXPIN - 1
          Movable,    \* movable functions the program uses
          Iocon,      \* IOCON settings the program uses
          ResetIocon, \* IOCON setting after a reset
          NoPin       \* 0xff in a field of SWM_PINASSIGN: not assigned

FixedPin == [GPIO_ACMP_I1 |-> 0, GPIO_ACMP_I2 |-> 1, GPIO_SWCLK |-> 3,
             GPIO_SWDIO |-> 2, GPIO_XTALIN |-> 8, GPIO_XTALOUT |-> 9,
             GPIO_RESET |-> 5, GPIO_CLKIN |-> 1, GPIO_VDDCMP |-> 6]

Fixed == {f \in DOMAIN FixedPin : FixedPin[f] \in Pin}

Port == {"GPIO_OUTPUT", "GPIO_INPUT"}

\* What is assumed of the constants: pins of a package, and names that do not
\* clash.
Package ==
  /\ Pin \subseteq 0 .. 17
  /\ Movable \cap (Fixed \cup Port \cup {"reset"}) = {}
  /\ ResetIocon \in Iocon
  /\ NoPin \notin 0 .. 17

VARIABLES assign,  \* SWM_PINASSIGN: the pin of a movable function, or NoPin
          fixed,   \* fixed-pin functions enabled in SWM_PINENABLE0
          dir,     \* GPIO_DIR0: the pins that are outputs
          iocon,   \* IOCON register of each pin
          wanted   \* history: what each pin was last configured for

vars == <<assign, fixed, dir, iocon, wanted>>

-----------------------------------------------------------------------------
DisableFixed(pins) == {f \in fixed : FixedPin[f] \notin pins}

DisableMovable(pins) ==
  [f \in Movable |-> IF assign[f] \in pins THEN NoPin ELSE assign[f]]

\* The pin a movable function goes to: the first of pins, if there is one.
First(pins) == {p \in pins : \A q \in pins : p <= q}

EnableMovable(a, func, pins) ==
  [f \in Movable |-> IF f = func /\ First(pins) # {}
                     THEN CHOOSE p \in First(pins) : TRUE
                     ELSE a[f]]

SetIocon(c, pins) == [p \in Pin |-> IF p \in pins THEN c ELSE iocon[p]]

Want(func, c, pins) ==
  wanted' = [p \in Pin |-> IF p \in pins THEN <<func, c>> ELSE wanted[p]]

Unused == <<"reset", ResetIocon>>

\* Nothing has been configured on these pins since the reset.
Fresh(pins) == \A p \in pins : wanted[p] = Unused

-----------------------------------------------------------------------------
(* gpio_config: for pins that are as the reset left them.                  *)

ConfigPort(func, c, pins) ==
  /\ Fresh(pins)
  /\ fixed' = DisableFixed(pins)
  /\ iocon' = SetIocon(c, pins)
  /\ dir' = IF func = "GPIO_OUTPUT" THEN dir \cup pins ELSE dir
  /\ Want(func, c, pins)
  /\ UNCHANGED assign

ConfigFixed(func, c) ==
  /\ Fresh({FixedPin[func]})
  /\ fixed' = fixed \cup {func}
  /\ iocon' = SetIocon(c, {FixedPin[func]})
  /\ Want(func, c, {FixedPin[func]})
  /\ UNCHANGED <<assign, dir>>

ConfigMovable(func, c, pins) ==
  /\ Fresh(pins)
  /\ assign' = EnableMovable(assign, func, pins)
  /\ fixed' = DisableFixed(First(pins))
  /\ iocon' = SetIocon(c, First(pins))
  /\ Want(func, c, First(pins))
  /\ UNCHANGED dir

(* gpio_reconfig: for any pins, whatever they are used for.                *)

\* Mistake: as in gpio_config, GPIO_INPUT leaves GPIO_DIR0 alone.
ReconfigOutput(func, c, pins) ==
  /\ fixed' = DisableFixed(pins)
  /\ assign' = DisableMovable(pins)
  /\ iocon' = SetIocon(c, pins)
  /\ dir' = IF func = "GPIO_OUTPUT" THEN dir \cup pins ELSE dir
  /\ Want(func, c, pins)

ReconfigPort(func, c, pins) ==
  /\ fixed' = DisableFixed(pins)
  /\ assign' = DisableMovable(pins)
  /\ iocon' = SetIocon(c, pins)
  /\ dir' = IF func = "GPIO_OUTPUT" THEN dir \cup pins ELSE dir \ pins
  /\ Want(func, c, pins)

\* Mistake: as in gpio_config, movable functions are not taken off.
ReconfigFixedOnly(func, c) ==
  /\ fixed' = fixed \cup {func}
  /\ iocon' = SetIocon(c, {FixedPin[func]})
  /\ Want(func, c, {FixedPin[func]})
  /\ UNCHANGED <<assign, dir>>

ReconfigFixed(func, c) ==
  /\ fixed' = fixed \cup {func}
  /\ assign' = DisableMovable({FixedPin[func]})
  /\ iocon' = SetIocon(c, {FixedPin[func]})
  /\ Want(func, c, {FixedPin[func]})
  /\ UNCHANGED dir

ReconfigMovable(func, c, pins) ==
  /\ assign' = EnableMovable(DisableMovable(pins), func, pins)
  /\ fixed' = DisableFixed(First(pins))
  /\ iocon' = SetIocon(c, First(pins))
  /\ Want(func, c, First(pins))
  /\ UNCHANGED dir

-----------------------------------------------------------------------------
Init ==
  /\ assign = [f \in Movable |-> NoPin]
  /\ fixed = {"GPIO_SWCLK", "GPIO_SWDIO", "GPIO_RESET"} \cap Fixed
  /\ dir = {}
  /\ iocon = [p \in Pin |-> ResetIocon]
  /\ wanted = [p \in Pin |-> Unused]

PortCall == \E func \in Port, c \in Iocon, pins \in SUBSET Pin :
              ConfigPort(func, c, pins) \/ ReconfigPort(func, c, pins)

FixedCall == \E func \in Fixed, c \in Iocon :
               ConfigFixed(func, c) \/ ReconfigFixed(func, c)

MovableCall == \E func \in Movable, c \in Iocon, pins \in SUBSET Pin :
                 ConfigMovable(func, c, pins) \/ ReconfigMovable(func, c, pins)

Next == PortCall \/ FixedCall \/ MovableCall

Spec == Init /\ [][Next]_vars

-----------------------------------------------------------------------------
\* The ranges of the registers; no function is on a pin that does not exist.
TypeOK ==
  /\ assign \in [Movable -> Pin \cup {NoPin}]
  /\ fixed \subseteq Fixed
  /\ dir \subseteq Pin
  /\ iocon \in [Pin -> Iocon]
  /\ wanted \in [Pin -> (Movable \cup Fixed \cup Port \cup {"reset"}) \X Iocon]

MovableOn(p) == {f \in Movable : assign[f] = p}
FixedOn(p) == {f \in fixed : FixedPin[f] = p}

\* Whatever sequence of calls is made, two functions never fight over a pin
\* (gpio.c:182-251): a pin with a movable function has no other function of
\* either kind.  Two fixed-pin functions can meet on PIO0_1 only, where
\* ACMP_I2 and CLKIN are not taken off for each other.
NoConflict ==
  \A p \in Pin :
    /\ \A f, g \in MovableOn(p) : f = g
    /\ MovableOn(p) = {} \/ FixedOn(p) = {}
    /\ p # 1 => \A f, g \in FixedOn(p) : f = g

\* A pin does what it was last configured for, however other pins and
\* functions were used meanwhile (gpio.c:182-251): a port pin has the
\* direction asked for and no function; a fixed-pin function is still
\* enabled; a movable function is on the pin, or nothing is once it has been
\* assigned to another pin or taken off by a call that named several pins.
\* A pin that was never configured is an input without a movable function,
\* which gpio_config relies on.
AsConfigured ==
  \A p \in Pin : LET func == wanted[p][1] IN
    /\ iocon[p] = wanted[p][2]
    /\ func = "reset" => p \notin dir /\ MovableOn(p) = {}
    /\ func \in Port => /\ MovableOn(p) \cup FixedOn(p) = {}
                        /\ p \in dir <=> func = "GPIO_OUTPUT"
    /\ func \in Fixed => func \in FixedOn(p)
    /\ func \in Movable => FixedOn(p) = {} /\ MovableOn(p) \subseteq {func}
=============================================================================
