---------------------------- MODULE PinintModes ----------------------------
(***************************************************************************)
(* Any sequence of calls of pinint_set_interrupt_mode() and of the clear   *)
(* functions of lib pinint.c, with edges of the pins between them.         *)
(***************************************************************************)
EXTENDS Integers

CONSTANT Pins

Port == INSTANCE Pinint

VARIABLES reg,    \* the registers
          levels, \* the pins that are high
          told,   \* for each pin: the mode it was last set to
          went    \* for each pin: edges since they were last cleared

vars == <<reg, levels, told, went>>

Init ==
  /\ reg = Port!Reset /\ levels \in SUBSET Pins
  /\ told = [p \in Pins |-> "disable"] /\ went = [p \in Pins |-> {}]

SetMode(mode, pins) ==
  /\ reg' = Port!pinint_set_interrupt_mode(reg, mode, pins)
  /\ told' = [p \in Pins |-> IF p \in pins THEN mode ELSE told[p]]
  /\ UNCHANGED <<levels, went>>

Forget(pins, kinds) ==
  went' = [p \in Pins |-> IF p \in pins THEN went[p] \ kinds ELSE went[p]]

\* pinint_clear_interrupt() of pins that are edge sensitive.
Clear(pins) ==
  /\ pins \cap reg.isel = {}
  /\ reg' = Port!pinint_clear_interrupt(reg, pins)
  /\ Forget(pins, {"rise", "fall"})
  /\ UNCHANGED <<levels, told>>

ClearEdge(pins) ==
  /\ \/ reg' = Port!pinint_clear_rising_edge(reg, pins) /\ Forget(pins, {"rise"})
     \/ reg' = Port!pinint_clear_falling_edge(reg, pins) /\ Forget(pins, {"fall"})
  /\ UNCHANGED <<levels, told>>

Edge(p) ==
  /\ reg' = Port!Edge(reg, p, p \notin levels)
  /\ levels' = (levels \ {p}) \cup ({p} \ levels)
  /\ went' = [went EXCEPT ![p] = @ \cup {IF p \in levels THEN "fall" ELSE "rise"}]
  /\ UNCHANGED told

Next ==
  \/ \E pins \in (SUBSET Pins) \ {{}} :
       (\E mode \in Port!Modes : SetMode(mode, pins)) \/ Clear(pins) \/ ClearEdge(pins)
  \/ \E p \in Pins : Edge(p)

Spec == Init /\ [][Next]_vars

-----------------------------------------------------------------------------
(* Properties.                                                             *)

\* Pins that were all set to a mode read back as being in it, in whatever
\* calls that was done and whatever modes they had before (pinint.c:22-90).
\* But pins that were disabled, some of them from a level and some from an
\* edge mode, are "unknown": to disable a pin leaves its kind as it was.
ReadsBack ==
  \A pins \in (SUBSET Pins) \ {{}}, mode \in Port!Modes :
    (\A p \in pins : told[p] = mode) =>
      Port!pinint_get_interrupt_mode(reg, pins) =
        IF mode # "disable" \/ pins \cap reg.isel \in {{}, pins} THEN mode ELSE "unknown"

\* A pin asks for an interrupt exactly when what its mode waits for is there:
\* a level, or an edge since the last time that edges were cleared, even one
\* from before the mode was set (pinint.c:22-110).
AsksAsTold ==
  \A p \in Pins :
    (p \in Port!pinint_get_interrupt_status(reg, levels, Pins)) =
      CASE told[p] = "disable" -> FALSE
        [] told[p] = "low"     -> p \notin levels
        [] told[p] = "high"    -> p \in levels
        [] told[p] = "rising"  -> "rise" \in went[p]
        [] told[p] = "falling" -> "fall" \in went[p]
        [] told[p] = "both"    -> went[p] # {}
=============================================================================
