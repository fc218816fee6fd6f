------------------------------ MODULE UsartIrq ------------------------------
(***************************************************************************)
(* The interrupt handler of examples/.../usart_irq/usart_irq.c, which      *)
(* sends back through a ring of QUEUESIZE characters what it receives, on  *)
(* a USART that receives and transmits while the handler runs.  main()     *)
(* only waits, so nothing else touches the ring.                           *)
(* Definitions under "Mistake" are not part of the model.                  *)
(***************************************************************************)
EXTENDS Integers, Sequences

CONSTANTS QUEUESIZE, \* size of the ring
          MaxChars,  \* bound: characters that arrive
          NoChar     \* an empty data register

VARIABLES rxdat,    \* USART_RXDAT: a received character, or NoChar
          txdat,    \* USART_TXDAT: a character to transmit, or NoChar
          inten,    \* enabled interrupts (USART_INTENSET, USART_INTENCLR)
          came,     \* characters that have arrived; the n-th one is n
          wire,     \* characters transmitted
          queue, head, tail, qlen, \* static variables of uart0_isr
          m, s,     \* local variables of uart0_isr: mask and status
          pc,       \* "main", or the part of uart0_isr to come: "rx", "tx"
          accepted  \* history: characters put into the ring

usart == <<rxdat, txdat, inten>>
ring == <<queue, head, tail, qlen>>
vars == <<rxdat, txdat, inten, came, wire, queue, head, tail, qlen, m, s, pc, accepted>>

Char == 1 .. MaxChars

Interrupt == {"RXRDY", "TXRDY"}

-----------------------------------------------------------------------------
(* The USART.                                                              *)

\* USART_INTSTAT shows the interrupts that are enabled.
Status == {i \in inten : \/ i = "RXRDY" /\ rxdat # NoChar
                         \/ i = "TXRDY" /\ txdat = NoChar}

\* A character that finds the receiver full is lost.
Arrive == /\ came < MaxChars
          /\ came' = came + 1
          /\ rxdat' = IF rxdat = NoChar THEN came + 1 ELSE rxdat
          /\ UNCHANGED <<txdat, inten, wire, queue, head, tail, qlen, m, s, pc, accepted>>

Transmit == /\ txdat # NoChar
            /\ wire' = Append(wire, txdat)
            /\ txdat' = NoChar
            /\ UNCHANGED <<rxdat, inten, came, queue, head, tail, qlen, m, s, pc, accepted>>

-----------------------------------------------------------------------------
(* uart0_isr.                                                              *)

Enter == /\ pc = "main"
         /\ Status # {}
         /\ m' = inten
         /\ s' = Status
         /\ pc' = "rx"
         /\ UNCHANGED <<rxdat, txdat, inten, came, wire, queue, head, tail, qlen, accepted>>

\* Mistake: the transmit interrupt stays as it is.
PutUnarmed ==
  /\ pc = "rx" /\ "RXRDY" \in m \cap s
  /\ qlen < QUEUESIZE
  /\ queue' = [queue EXCEPT ![tail] = rxdat]
  /\ accepted' = Append(accepted, rxdat)
  /\ tail' = (tail + 1) % QUEUESIZE
  /\ qlen' = qlen + 1
  /\ rxdat' = NoChar
  /\ pc' = "tx"
  /\ UNCHANGED <<txdat, inten, came, wire, head, m, s>>

\* A character goes into the ring, and makes sure that it will come out.
Put ==
  /\ pc = "rx" /\ "RXRDY" \in m \cap s
  /\ qlen < QUEUESIZE
  /\ queue' = [queue EXCEPT ![tail] = rxdat]
  /\ accepted' = Append(accepted, rxdat)
  /\ tail' = (tail + 1) % QUEUESIZE
  /\ qlen' = qlen + 1
  /\ inten' = IF "TXRDY" \in m THEN inten ELSE inten \cup {"TXRDY"}
  /\ rxdat' = NoChar
  /\ pc' = "tx"
  /\ UNCHANGED <<txdat, came, wire, head, m, s>>

\* Mistake: the last slot of the ring is not used.
OverflowEarly ==
  /\ pc = "rx" /\ "RXRDY" \in m \cap s
  /\ qlen >= QUEUESIZE - 1
  /\ rxdat' = NoChar
  /\ pc' = "tx"
  /\ UNCHANGED <<txdat, inten, came, wire, queue, head, tail, qlen, m, s, accepted>>

\* The ring is full: the character is read and dropped.
Overflow ==
  /\ pc = "rx" /\ "RXRDY" \in m \cap s
  /\ qlen = QUEUESIZE
  /\ rxdat' = NoChar
  /\ pc' = "tx"
  /\ UNCHANGED <<txdat, inten, came, wire, queue, head, tail, qlen, m, s, accepted>>

NothingReceived ==
  /\ pc = "rx" /\ "RXRDY" \notin m \cap s
  /\ pc' = "tx"
  /\ UNCHANGED <<rxdat, txdat, inten, came, wire, queue, head, tail, qlen, m, s, accepted>>

\* Mistake: the character is sent again.
GetAgain ==
  /\ pc = "tx" /\ "TXRDY" \in m \cap s
  /\ qlen > 0
  /\ txdat' = queue[head]
  /\ UNCHANGED <<head, qlen>>
  /\ pc' = "main"
  /\ UNCHANGED <<rxdat, inten, came, wire, queue, tail, m, s, accepted>>

Get ==
  /\ pc = "tx" /\ "TXRDY" \in m \cap s
  /\ qlen > 0
  /\ txdat' = queue[head]
  /\ head' = (head + 1) % QUEUESIZE
  /\ qlen' = qlen - 1
  /\ pc' = "main"
  /\ UNCHANGED <<rxdat, inten, came, wire, queue, tail, m, s, accepted>>

\* Mistake: the transmit interrupt is disabled with the last character, not
\* after it.
DisableEarly ==
  /\ pc = "tx" /\ "TXRDY" \in m \cap s
  /\ qlen <= 1
  /\ inten' = inten \ {"TXRDY"}
  /\ pc' = "main"
  /\ UNCHANGED <<rxdat, txdat, came, wire, queue, head, tail, qlen, m, s, accepted>>

\* No more data: the transmitter must not interrupt again.
Disable ==
  /\ pc = "tx" /\ "TXRDY" \in m \cap s
  /\ qlen = 0
  /\ inten' = inten \ {"TXRDY"}
  /\ pc' = "main"
  /\ UNCHANGED <<rxdat, txdat, came, wire, queue, head, tail, qlen, m, s, accepted>>

NotReady ==
  /\ pc = "tx" /\ "TXRDY" \notin m \cap s
  /\ pc' = "main"
  /\ UNCHANGED <<rxdat, txdat, inten, came, wire, queue, head, tail, qlen, m, s, accepted>>

-----------------------------------------------------------------------------
\* After usart_setup(), which enables the receive interrupt only.
Init ==
  /\ rxdat = NoChar /\ txdat = NoChar /\ inten = {"RXRDY"}
  /\ came = 0 /\ wire = <<>> /\ accepted = <<>>
  /\ queue = [k \in 0 .. QUEUESIZE - 1 |-> 0]
  /\ head = 0 /\ tail = 0 /\ qlen = 0
  /\ m = {} /\ s = {} /\ pc = "main"

uart0_isr == Enter \/ Put \/ Overflow \/ NothingReceived \/ Get \/ Disable \/ NotReady

Next == Arrive \/ Transmit \/ uart0_isr

-----------------------------------------------------------------------------
(* Properties.                                                             *)

TypeOK ==
  /\ rxdat \in Char \cup {NoChar} /\ txdat \in Char \cup {NoChar}
  /\ inten \subseteq Interrupt /\ m \subseteq Interrupt /\ s \subseteq Interrupt
  /\ came \in 0 .. MaxChars
  /\ wire \in Seq(Char) /\ accepted \in Seq(Char)
  /\ queue \in [0 .. QUEUESIZE - 1 -> Char \cup {0}]
  /\ head \in 0 .. QUEUESIZE - 1 /\ tail \in 0 .. QUEUESIZE - 1
  /\ qlen \in 0 .. QUEUESIZE
  /\ pc \in {"main", "rx", "tx"}

\* The ring slot of the i-th waiting character, counted from 0.
Slot(i) == IF head + i < QUEUESIZE THEN head + i ELSE head + i - QUEUESIZE

InTransmitter == IF txdat = NoChar THEN 0 ELSE 1

\* Every accepted character is in one place, in the order of arrival.
Conserved ==
  /\ Len(accepted) = Len(wire) + InTransmitter + qlen
  /\ \A i \in 1 .. Len(wire) : accepted[i] = wire[i]
  /\ txdat # NoChar => accepted[Len(wire) + 1] = txdat
  /\ \A i \in 0 .. qlen - 1 : queue[Slot(i)] = accepted[Len(wire) + InTransmitter + i + 1]

\* While characters wait the transmit interrupt is enabled.
Armed == qlen > 0 => "TXRDY" \in inten

\* Seen from outside, the handler is a channel in order.
Waiting ==
  [i \in 1 .. InTransmitter + qlen |->
     IF i = InTransmitter THEN txdat ELSE queue[Slot(i - 1 - InTransmitter)]]

Channel == INSTANCE EchoChannel WITH
  Capacity <- QUEUESIZE, arrived <- rxdat, waiting <- Waiting, sent <- wire
=============================================================================
