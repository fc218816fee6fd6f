---------------------------- MODULE EchoChannel -----------------------------
(***************************************************************************)
(* What the usart_irq example promises: it is a channel that sends back    *)
(* what it receives, in order and once, and it discards a character only   *)
(* when Capacity characters are waiting.                                   *)
(***************************************************************************)
EXTENDS Integers, Sequences

CONSTANTS Capacity, \* characters that may wait before one is discarded
          Char,     \* characters
          NoChar    \* an empty data register

VARIABLES arrived, \* the character the receiver holds, or NoChar
          waiting, \* characters taken and not yet sent
          sent     \* characters sent

vars == <<arrived, waiting, sent>>

Init == arrived = NoChar /\ waiting = <<>> /\ sent = <<>>

Arrive == /\ arrived = NoChar
          /\ arrived' \in Char
          /\ UNCHANGED <<waiting, sent>>

Take == /\ arrived # NoChar
        /\ waiting' = Append(waiting, arrived)
        /\ arrived' = NoChar
        /\ UNCHANGED sent

Discard == /\ arrived # NoChar
           /\ Len(waiting) >= Capacity
           /\ arrived' = NoChar
           /\ UNCHANGED <<waiting, sent>>

Emit == /\ waiting # <<>>
        /\ sent' = Append(sent, Head(waiting))
        /\ waiting' = Tail(waiting)
        /\ UNCHANGED arrived

Next == Arrive \/ Take \/ Discard \/ Emit

Spec == Init /\ [][Next]_vars
=============================================================================
