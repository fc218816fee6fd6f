---------------------------- MODULE SpiBarometer ----------------------------
(***************************************************************************)
(* examples/.../spi_barometer/spi_barometer.c: main() hands buffers to     *)
(* spi0_isr, which exchanges words with an MPL115A1 pressure sensor, and   *)
(* both change the same variables.                                         *)
(* Definitions under "Mistake" are not part of the model.                  *)
(***************************************************************************)
EXTENDS Integers, Sequences

CONSTANT None \* an empty register

VARIABLES txdat, shift, rxdat, \* SPI_TXDATCTL, the word on the wire, SPI_RXDAT
          inten,  \* enabled interrupts
          last,   \* the sensor: the command it received last
          ssel,   \* the sensor is selected
          conv,   \* the sensor is converting
          sample, \* the sensor's measurements are numbered 0, 1, 0, 1, ...
          sndbuf, sndbuflen, rcvbuf, rcvbuflen, unexpected_rxrdy, \* globals
          buf,    \* main(): what is received
          what,   \* main(): which transfer it is at
          pc      \* main(): the statement to come

wire == <<txdat, shift, rxdat, last, ssel, conv, sample>>
globals == <<sndbuf, sndbuflen, rcvbuf, rcvbuflen, unexpected_rxrdy>>
vars == <<wire, inten, globals, buf, what, pc>>

-----------------------------------------------------------------------------
(* Words to send: 8 bits with SPI_RXIGNORE and SPI_EOT.                    *)

Word(c, i, e) == [cmd |-> c, ignore |-> i, eot |-> e]

START_CONVERSIONS == 36
READ_PRESSURE_MSB == 128 \* and 130, 132, 134
READ_A0_MSB == 136       \* and 138, ..., 150

\* n registers from r on: each a command, and a word during which it answers.
ReadAll(r, n) ==
  [k \in 1 .. 2 * n + 1 |->
     IF k = 2 * n + 1 THEN Word(0, TRUE, TRUE)
     ELSE IF k % 2 = 1 THEN Word(r + k - 1, TRUE, FALSE)
                       ELSE Word(0, FALSE, FALSE)]

\* The arrays coeff, conv and press of main().
Array ==
  [coeff |-> ReadAll(READ_A0_MSB, 8),
   conv  |-> <<Word(START_CONVERSIONS, TRUE, FALSE), Word(0, TRUE, TRUE)>>,
   press |-> ReadAll(READ_PRESSURE_MSB, 4)]

Replies == [coeff |-> 8, conv |-> 0, press |-> 4]

-----------------------------------------------------------------------------
(* The SPI master and the sensor.                                          *)

Status == {s \in inten : \/ s = "TXRDY" /\ txdat = None
                         \/ s = "RXRDY" /\ rxdat # None}

Shift ==
  /\ txdat # None /\ shift = None
  /\ shift' = txdat /\ txdat' = None /\ ssel' = TRUE
  /\ UNCHANGED <<rxdat, last, conv, sample, inten, globals, buf, what, pc>>

\* What the sensor sends while it receives the word after command c.
Reply(c) == IF c \in 128 .. 134 THEN <<c, sample>> ELSE <<c, 0>>

\* The master stalls while the receiver is full.
Complete ==
  /\ shift # None
  /\ shift.ignore \/ rxdat = None
  /\ rxdat' = IF shift.ignore THEN rxdat ELSE Reply(last)
  /\ last' = shift.cmd
  /\ conv' = (conv \/ shift.cmd = START_CONVERSIONS)
  /\ ssel' = ~shift.eot
  /\ shift' = None
  /\ UNCHANGED <<txdat, sample, inten, globals, buf, what, pc>>

Convert ==
  /\ conv
  /\ conv' = FALSE /\ sample' = 1 - sample
  /\ UNCHANGED <<txdat, shift, rxdat, last, ssel, inten, globals, buf, what, pc>>

-----------------------------------------------------------------------------
(* spi0_isr.                                                               *)

Transmit ==
  IF "TXRDY" \notin Status THEN UNCHANGED <<txdat, inten, sndbuf, sndbuflen>>
  ELSE IF sndbuflen > 0
         THEN /\ txdat' = Head(sndbuf)
              /\ sndbuf' = Tail(sndbuf) /\ sndbuflen' = sndbuflen - 1
              /\ UNCHANGED inten
         ELSE /\ inten' = inten \ {"TXRDY"}
              /\ UNCHANGED <<txdat, sndbuf, sndbuflen>>

Receive ==
  IF "RXRDY" \notin Status
    THEN UNCHANGED <<rxdat, buf, rcvbuf, rcvbuflen, unexpected_rxrdy>>
    ELSE /\ rxdat' = None
         /\ IF rcvbuflen > 0
              THEN /\ buf' = [buf EXCEPT ![rcvbuf] = rxdat]
                   /\ rcvbuf' = rcvbuf + 1 /\ rcvbuflen' = rcvbuflen - 1
                   /\ UNCHANGED unexpected_rxrdy
              ELSE /\ unexpected_rxrdy' = TRUE
                   /\ UNCHANGED <<buf, rcvbuf, rcvbuflen>>

spi0_isr ==
  /\ Status # {}
  /\ Transmit
  /\ Receive
  /\ UNCHANGED <<shift, last, ssel, conv, sample, what, pc>>

-----------------------------------------------------------------------------
(* main(): the statements that prepare a transfer come one by one.         *)

SetSndbuf ==
  /\ pc = "sndbuf"
  /\ sndbuf' = Array[what]
  /\ pc' = "sndbuflen"
  /\ UNCHANGED <<wire, inten, sndbuflen, rcvbuf, rcvbuflen, unexpected_rxrdy, buf, what>>

SetSndbuflen ==
  /\ pc = "sndbuflen"
  /\ sndbuflen' = Len(Array[what])
  /\ pc' = IF what = "conv" THEN "rcvbuflen" ELSE "rcvbuf"
  /\ UNCHANGED <<wire, inten, sndbuf, rcvbuf, rcvbuflen, unexpected_rxrdy, buf, what>>

SetRcvbuf ==
  /\ pc = "rcvbuf"
  /\ rcvbuf' = 0
  /\ pc' = "rcvbuflen"
  /\ UNCHANGED <<wire, inten, sndbuf, sndbuflen, rcvbuflen, unexpected_rxrdy, buf, what>>

SetRcvbuflen ==
  /\ pc = "rcvbuflen"
  /\ rcvbuflen' = Replies[what]
  /\ pc' = "enable"
  /\ UNCHANGED <<wire, inten, sndbuf, sndbuflen, rcvbuf, unexpected_rxrdy, buf, what>>

Enable ==
  /\ pc = "enable"
  /\ inten' = inten \cup {"TXRDY"}
  /\ pc' = "wait"
  /\ UNCHANGED <<wire, globals, buf, what>>

\* Mistake: main() goes on as soon as the last word is in the transmitter.
WaitForSending ==
  /\ pc = "wait" /\ sndbuflen = 0
  /\ pc' = "pause"
  /\ UNCHANGED <<wire, inten, globals, buf, what>>

Wait ==
  /\ pc = "wait" /\ sndbuflen = 0
  /\ what = "conv" \/ rcvbuflen = 0
  /\ pc' = "pause"
  /\ UNCHANGED <<wire, inten, globals, buf, what>>

Following == [wakeup |-> "coeff", coeff |-> "conv", conv |-> "press", press |-> "conv"]

\* delay_ms, or the printing of a line: milliseconds, in which the words on
\* their way (1 microsecond each) and a conversion come to an end.
Pause ==
  /\ pc = "pause"
  /\ txdat = None /\ shift = None /\ rxdat = None /\ ~conv /\ "TXRDY" \notin inten
  /\ what' = Following[what]
  /\ pc' = "sndbuf"
  /\ UNCHANGED <<wire, inten, globals, buf>>

-----------------------------------------------------------------------------
Init ==
  /\ txdat = None /\ shift = None /\ rxdat = None /\ inten = {"RXRDY"}
  /\ last = 0 /\ ssel = FALSE /\ conv = FALSE /\ sample = 0
  /\ sndbuf = <<>> /\ sndbuflen = 0 /\ rcvbuf = 0 /\ rcvbuflen = 0
  /\ unexpected_rxrdy = FALSE
  /\ buf = [k \in 0 .. 7 |-> <<0, 0>>]
  /\ what = "wakeup" /\ pc = "pause"

Hardware == Shift \/ Complete \/ Convert

main == \/ SetSndbuf \/ SetSndbuflen \/ SetRcvbuf \/ SetRcvbuflen
        \/ Enable \/ Wait \/ Pause

Next == Hardware \/ spi0_isr \/ main

Spec == Init /\ [][Next]_vars

\* The sensor is clocked, interrupts are served, and main() runs.
FairSpec == Spec /\ WF_vars(Hardware) /\ WF_vars(spi0_isr) /\ WF_vars(main)

-----------------------------------------------------------------------------
(* Properties.                                                             *)

\* When main() reads buf, every byte is the sensor's answer to the command it
\* belongs to, and the pressure is of the conversion just started
\* (spi_barometer.c:393-436).
RepliesInPlace ==
  pc = "pause" =>
    /\ what = "coeff" => \A k \in 0 .. 7 : buf[k] = <<READ_A0_MSB + 2 * k, 0>>
    /\ what = "press" => \A k \in 0 .. 3 : buf[k] = <<READ_PRESSURE_MSB + 2 * k, sample>>

\* No byte arrives that main() has not made room for, although the transmit
\* interrupt may be enabled when it returns (spi_barometer.c:280-291).
NothingUnexpected == ~unexpected_rxrdy

\* The handler never runs past the end of a buffer (spi_barometer.c:256-292).
InBounds ==
  /\ pc # "sndbuflen" => sndbuflen <= Len(sndbuf)
  /\ pc \notin {"rcvbuf", "rcvbuflen"} => rcvbuf + rcvbuflen <= 8

\* A transfer begins with the sensor deselected: every array ends with
\* SPI_EOT (spi_barometer.c:359-384).
Framed == pc = "sndbuf" => ~ssel
=============================================================================
