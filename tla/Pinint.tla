------------------------------- MODULE Pinint -------------------------------
(***************************************************************************)
(* lib/nxp_lpc/lpc81x/pinint.c and pinint.h: the pin interrupts.  A record *)
(* holds the registers, a set of pins each; a function of the library is   *)
(* an operator from the registers before the call to those after it.       *)
(* Definitions under "Mistake" are not part of the model.                  *)
(***************************************************************************)
EXTENDS Integers

CONSTANT Pins

Modes == {"disable", "rising", "falling", "both", "low", "high"}

Slices == 0 .. 7

Reset ==
  [isel |-> {}, ienr |-> {}, ienf |-> {}, rise |-> {}, fall |-> {},
   pmatch |-> FALSE, rxev |-> FALSE, endpoints |-> {}, sticky |-> {},
   src |-> [b \in Slices |-> 0], cfg |-> [b \in Slices |-> "const_high"]]

-----------------------------------------------------------------------------
(* Modes.                                                                  *)

\* PININT_DISABLE leaves the kind of the interrupt as it was.
pinint_set_interrupt_mode(r, mode, pins) ==
  [r EXCEPT
    !.isel = IF mode \in {"low", "high"} THEN @ \cup pins
             ELSE IF mode = "disable" THEN @ ELSE @ \ pins,
    !.ienr = IF mode \in {"disable", "falling"} THEN @ \ pins ELSE @ \cup pins,
    !.ienf = IF mode \in {"falling", "both", "high"} THEN @ \cup pins ELSE @ \ pins]

\* All of the pins, or none of them.
AllIn(pins, bits)  == pins \subseteq bits
NoneIn(pins, bits) == pins \cap bits = {}

\* Pins of which some are level and some edge sensitive, and pins of which
\* some have the register bit set and some not, are "unknown" in some cases.
pinint_get_interrupt_mode(r, pins) ==
  CASE AllIn(pins, r.isel) ->
         (CASE AllIn(pins, r.ienr) ->
                 (CASE AllIn(pins, r.ienf)  -> "high"
                    [] NoneIn(pins, r.ienf) -> "low"
                    [] OTHER -> "disable")
            [] NoneIn(pins, r.ienr) -> "disable"
            [] OTHER -> "unknown")
    [] NoneIn(pins, r.isel) ->
         (CASE AllIn(pins, r.ienr)  -> IF AllIn(pins, r.ienf) THEN "both" ELSE "rising"
            [] NoneIn(pins, r.ienr) -> IF AllIn(pins, r.ienf) THEN "falling" ELSE "disable"
            [] OTHER -> "unknown")
    [] OTHER -> "unknown"

-----------------------------------------------------------------------------
(* Edges.  All edges are detected, whatever the mode of the pin.           *)

\* The pins that ask for an interrupt, given those that are high.
Status(r, high) ==
  {p \in Pins :
     IF p \in r.isel
       THEN p \in r.ienr /\ (p \in high <=> p \in r.ienf)
       ELSE (p \in r.rise /\ p \in r.ienr) \/ (p \in r.fall /\ p \in r.ienf)}

pinint_get_interrupt_status(r, high, pins) == Status(r, high) \cap pins

\* Mistake: the falling edge is left as it was.
ClearRising(r, pins) == [r EXCEPT !.rise = @ \ pins]

\* Edge sensitive pins; for level sensitive ones the write changes the level.
pinint_clear_interrupt(r, pins) ==
  LET edge == pins \ r.isel
  IN  [r EXCEPT !.rise = @ \ edge, !.fall = @ \ edge,
                !.ienf = (@ \ (pins \cap r.isel)) \cup ((pins \cap r.isel) \ @)]

pinint_rising_edge_detected(r, pins)  == r.rise \cap pins
pinint_falling_edge_detected(r, pins) == r.fall \cap pins
pinint_clear_rising_edge(r, pins)     == [r EXCEPT !.rise = @ \ pins]
pinint_clear_falling_edge(r, pins)    == [r EXCEPT !.fall = @ \ pins]

-----------------------------------------------------------------------------
(* Pattern match.                                                          *)

\* Writing the source and the configuration forgets the edges of the slices.
pinint_set_bit_slice(r, b, pin, match, endpoint) ==
  [r EXCEPT !.src[b] = pin, !.cfg[b] = match,
            !.endpoints = IF b = 7 THEN @ ELSE IF endpoint THEN @ \cup {b} ELSE @ \ {b},
            !.sticky = {}]

pinint_enable_pattern_match(r)  == [r EXCEPT !.pmatch = TRUE]
pinint_disable_pattern_match(r) == [r EXCEPT !.pmatch = FALSE]
pinint_pattern_match_enabled(r) == r.pmatch

\* The slices that match, given the pins that are high; slices up to an end
\* point make one product, which asks for the interrupt of its end point.
SliceMatches(r, high, b) ==
  CASE r.cfg[b] = "const_high" -> TRUE
    [] r.cfg[b] = "const_low" -> FALSE
    [] r.cfg[b] = "high_level" -> r.src[b] \in high
    [] r.cfg[b] = "low_level" -> r.src[b] \notin high
    [] OTHER -> b \in r.sticky

pinint_get_pattern_match_state(r, high, pins) ==
  {b \in r.endpoints \cap pins :
     \A c \in 0 .. b :
       (\A e \in r.endpoints : ~(c <= e /\ e < b)) => SliceMatches(r, high, c)}

\* A pin goes up or down.
Edge(r, p, up) ==
  [r EXCEPT
    !.rise = IF up THEN @ \cup {p} ELSE @,
    !.fall = IF up THEN @ ELSE @ \cup {p},
    !.sticky = @ \cup {b \in Slices :
                         /\ r.src[b] = p
                         /\ r.cfg[b] \in {"sticky_both"} \cup
                              (IF up THEN {"sticky_rising"} ELSE {"sticky_falling"})}]
=============================================================================
