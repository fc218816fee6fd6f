---------------------------- MODULE I2cProximity ----------------------------
(***************************************************************************)
(* examples/.../i2c_proximity/i2c_proximity.c: main() asks a VCNL4000      *)
(* sensor for measurements, and i2c_isr carries a transfer on from one     *)
(* state of the I2C master to the next.  The bus may refuse a byte and may *)
(* be lost to another master.                                              *)
(* Definitions under "Mistake" are not part of the model.                  *)
(***************************************************************************)
EXTENDS Integers, Sequences

CONSTANT Words \* values that the sensor may measure

VARIABLES mst,     \* I2C_STAT: master state code
          pending, \* I2C_STAT: MSTPENDING
          ctl,     \* I2C_MSTCTL: the command being carried out
          mstdat,  \* I2C_MSTDAT
          reading, \* direction of the transfer on the bus
          inten,   \* I2C_INTENSET: MSTPENDINGEN
          fault,   \* history: a byte was refused, or the bus lost
          ptr,     \* the sensor's register pointer, or 0 before it is set
          reg,     \* the sensor's registers
          state, next_state, sndbuf, rcvbuf, rcvbuflen, busy, \* globals; sndbuflen = Len(sndbuf)
          at, i,   \* where main() is, and its loop variable
          pc,      \* the part of a call that main() is in
          h, d,    \* the bytes read, and then the word
          total, prox_off, n, x, p \* local variables of main()

bus == <<mst, pending, ctl, mstdat, reading, fault, ptr, reg>>
globals == <<state, next_state, sndbuf, rcvbuf, rcvbuflen, busy>>
sums == <<total, prox_off, n, x, p>>
vars == <<bus, inten, globals, at, i, pc, h, d, sums>>

PROX_THRESH == 25
VCNL4000_SLA == 38 \* address for writing; the next one is for reading

\* Registers of the sensor.
COMMAND == 128
IR_CURRENT == 131
LIGHT == 133
PROXIMITY == 135
FREQUENCY == 137
MODULATION == 138
Register == 128 .. 138

\* What the three initial commands set.
Setup == <<<<IR_CURRENT, 10>>, <<FREQUENCY, 2>>, <<MODULATION, 129>>>>

-----------------------------------------------------------------------------
(* The bus and the sensor.                                                 *)

\* A write to I2C_MSTCTL starts the next piece of the transfer.
Command(c) == ctl' = c /\ pending' = FALSE

Becomes(s) == mst' = s /\ pending' = TRUE /\ ctl' = "none"

\* Register 128 starts a measurement; its result is there before main() reads.
Store(r, b) ==
  \E w \in Words :
    reg' = CASE r = COMMAND /\ b = 8  -> [reg EXCEPT ![135] = w \div 256, ![136] = w % 256]
             [] r = COMMAND /\ b = 16 -> [reg EXCEPT ![133] = w \div 256, ![134] = w % 256]
             [] OTHER                 -> [reg EXCEPT ![r] = b]

\* START and an address; a read fetches the first byte as well.
BusStart ==
  /\ ctl = "start"
  /\ reading' = (mstdat % 2 = 1)
  /\ IF reading'
       THEN /\ Becomes("RX_RDY")
            /\ mstdat' = IF ptr \in Register THEN reg[ptr] ELSE 0
            /\ ptr' = IF ptr \in Register THEN ptr + 1 ELSE ptr
       ELSE Becomes("TX_RDY") /\ ptr' = 0 /\ UNCHANGED mstdat
  /\ UNCHANGED <<inten, fault, reg, globals, at, i, pc, h, d, sums>>

\* A byte is sent: the first one selects a register.
BusSend ==
  /\ ctl = "continue" /\ ~reading
  /\ Becomes("TX_RDY")
  /\ IF ptr = 0
       THEN ptr' = mstdat /\ UNCHANGED reg
       ELSE ptr' = ptr + 1 /\ Store(ptr, mstdat)
  /\ UNCHANGED <<inten, mstdat, reading, fault, globals, at, i, pc, h, d, sums>>

BusStop ==
  /\ ctl = "stop"
  /\ Becomes("IDLE")
  /\ UNCHANGED <<inten, mstdat, reading, fault, ptr, reg, globals, at, i, pc, h, d, sums>>

\* The sensor does not acknowledge, or another master wins the bus.
BusFault ==
  /\ ctl \in {"start", "continue"}
  /\ fault' = TRUE
  /\ \/ ctl = "start" /\ Becomes("NACK_ADDR")
     \/ ctl = "continue" /\ Becomes("NACK_DATA")
     \/ Becomes("IDLE")
  /\ UNCHANGED <<inten, mstdat, reading, ptr, reg, globals, at, i, pc, h, d, sums>>

-----------------------------------------------------------------------------
(* i2c_isr.  Only the pending interrupt is ever enabled, so the branches   *)
(* for bus errors and lost arbitration are never taken.                    *)

\* A state other than next_state ends the transfer, but is still handled.
Unexpected == mst # next_state

Release == inten' = FALSE /\ busy' = FALSE

KeepUnlessUnexpected == IF Unexpected THEN Release ELSE UNCHANGED <<inten, busy>>

Interrupted == inten /\ pending

\* Mistake: next_state is left as it is.
AddressForgetsState ==
  /\ Interrupted /\ mst = "IDLE" /\ (sndbuf # <<>> \/ rcvbuflen > 0)
  /\ state' = mst
  /\ KeepUnlessUnexpected
  /\ Command("start")
  /\ mstdat' = IF sndbuf # <<>> THEN VCNL4000_SLA ELSE VCNL4000_SLA + 1
  /\ UNCHANGED <<mst, reading, fault, ptr, reg, next_state, sndbuf, rcvbuf, rcvbuflen, at, i, pc, h, d, sums>>

\* Idle with something to do: START and the address.
Address ==
  /\ Interrupted /\ mst = "IDLE" /\ (sndbuf # <<>> \/ rcvbuflen > 0)
  /\ state' = mst
  /\ KeepUnlessUnexpected
  /\ Command("start")
  /\ mstdat' = IF sndbuf # <<>> THEN VCNL4000_SLA ELSE VCNL4000_SLA + 1
  /\ next_state' = IF sndbuf # <<>> THEN "TX_RDY" ELSE "RX_RDY"
  /\ UNCHANGED <<mst, reading, fault, ptr, reg, sndbuf, rcvbuf, rcvbuflen, at, i, pc, h, d, sums>>

\* Mistake: the interrupt is disabled and main() is not told.
TransferEndUntold ==
  /\ Interrupted /\ mst = "IDLE" /\ sndbuf = <<>> /\ rcvbuflen = 0
  /\ state' = mst
  /\ inten' = FALSE
  /\ UNCHANGED <<bus, next_state, sndbuf, rcvbuf, rcvbuflen, busy, at, i, pc, h, d, sums>>

\* Idle with nothing left: the end of the transfer.
TransferEnd ==
  /\ Interrupted /\ mst = "IDLE" /\ sndbuf = <<>> /\ rcvbuflen = 0
  /\ state' = mst
  /\ Release
  /\ UNCHANGED <<bus, next_state, sndbuf, rcvbuf, rcvbuflen, at, i, pc, h, d, sums>>

\* Send data, or STOP when there is none left.
SendOrStop ==
  IF sndbuf # <<>>
    THEN /\ Command("continue")
         /\ mstdat' = Head(sndbuf) /\ sndbuf' = Tail(sndbuf)
         /\ next_state' = "TX_RDY"
    ELSE /\ Command("stop")
         /\ next_state' = "IDLE"
         /\ UNCHANGED <<mstdat, sndbuf>>

\* main() asks for one byte at a time, so it is the last.  There is no break
\* after this case: the next one sends a second STOP.
Receive ==
  /\ Interrupted /\ mst = "RX_RDY"
  /\ state' = mst
  /\ KeepUnlessUnexpected
  /\ IF rcvbuf = "h" THEN h' = mstdat /\ UNCHANGED d ELSE d' = mstdat /\ UNCHANGED h
  /\ rcvbuflen' = rcvbuflen - 1
  /\ SendOrStop
  /\ UNCHANGED <<mst, reading, fault, ptr, reg, rcvbuf, at, i, pc, sums>>

Transmit ==
  /\ Interrupted /\ mst = "TX_RDY"
  /\ state' = mst
  /\ KeepUnlessUnexpected
  /\ SendOrStop
  /\ UNCHANGED <<mst, reading, fault, ptr, reg, rcvbuf, rcvbuflen, at, i, pc, h, d, sums>>

Refused ==
  /\ Interrupted /\ mst \in {"NACK_ADDR", "NACK_DATA"}
  /\ state' = mst
  /\ KeepUnlessUnexpected
  /\ UNCHANGED <<bus, next_state, sndbuf, rcvbuf, rcvbuflen, at, i, pc, h, d, sums>>

i2c_isr == Address \/ TransferEnd \/ Receive \/ Transmit \/ Refused

-----------------------------------------------------------------------------
(* main() and its two functions.                                           *)

\* vcnl_write_command: the buffers are ready before the interrupt comes.
WriteCommand(r, b) ==
  /\ sndbuf' = <<r, b>> /\ rcvbuflen' = 0
  /\ busy' = TRUE /\ next_state' = "IDLE" /\ inten' = TRUE
  /\ pc' = "writing"
  /\ UNCHANGED <<bus, state, rcvbuf, at, i, h, d, sums>>

\* The next command of main(): a register of Setup, or a measurement.
Write ==
  /\ pc = "write"
  /\ IF at = "setup" THEN WriteCommand(Setup[i + 1][1], Setup[i + 1][2])
                     ELSE WriteCommand(COMMAND, IF at = "light" THEN 16 ELSE 8)

Fail == at' = "error" /\ pc' = "stopped"

\* vcnl_write_command returns.
Written ==
  /\ pc = "writing" /\ ~busy
  /\ \/ state # next_state /\ Fail /\ UNCHANGED i
     \/ /\ state = next_state /\ at = "setup"
        /\ pc' = "write"
        /\ at' = IF i = 2 THEN "offset" ELSE "setup"
        /\ i' = (i + 1) % 3
     \/ state = next_state /\ at # "setup" /\ pc' = "read" /\ UNCHANGED <<at, i>>
  /\ UNCHANGED <<bus, inten, globals, h, d, sums>>

\* vcnl_read_word, first transfer: the register address, then the high byte.
ReadHigh ==
  /\ pc = "read"
  /\ sndbuf' = <<IF at = "light" THEN LIGHT ELSE PROXIMITY>>
  /\ rcvbuf' = "h" /\ rcvbuflen' = 1
  /\ busy' = TRUE /\ next_state' = "IDLE" /\ inten' = TRUE
  /\ pc' = "high"
  /\ UNCHANGED <<bus, state, at, i, h, d, sums>>

\* Second transfer: the low byte, from the register that follows.
ReadLow ==
  /\ pc = "high" /\ ~busy
  /\ IF state # next_state
       THEN Fail /\ UNCHANGED <<inten, globals>>
       ELSE /\ sndbuf' = <<>> /\ rcvbuf' = "data" /\ rcvbuflen' = 1
            /\ busy' = TRUE /\ inten' = TRUE
            /\ pc' = "low"
            /\ UNCHANGED <<at, state, next_state>>
  /\ UNCHANGED <<bus, i, h, d, sums>>

ReadEnd ==
  /\ pc = "low" /\ ~busy
  /\ IF state # next_state
       THEN Fail /\ UNCHANGED d
       ELSE d' = d + 256 * h /\ pc' = "word" /\ UNCHANGED at
  /\ UNCHANGED <<bus, inten, globals, i, h, sums>>

\* What main() does with a word: five measurements give the offset.
Offset ==
  /\ pc = "word" /\ at = "offset"
  /\ LET t == (IF i = 0 THEN 0 ELSE total) + d
     IN  /\ total' = IF i = 4 THEN 0 ELSE t
         /\ prox_off' = IF i = 4 THEN t \div 5 ELSE prox_off
  /\ i' = (i + 1) % 5
  /\ at' = IF i = 4 THEN "light" ELSE at
  /\ pc' = "write"
  /\ UNCHANGED <<bus, inten, globals, h, d, n, x, p>>

Light ==
  /\ pc = "word" /\ at = "light"
  /\ at' = "loop" /\ pc' = "write"
  /\ n' = 0 /\ x' = 0 /\ p' = 0
  /\ UNCHANGED <<bus, inten, globals, i, h, d, total, prox_off>>

\* A round ends with the ninth small or the tenth large value; with the
\* latter their mean is printed.
Measure ==
  /\ pc = "word" /\ at = "loop"
  /\ pc' = "write"
  /\ LET large == d > prox_off + PROX_THRESH
         nn == IF large THEN n ELSE n + 1
         xx == IF large THEN x + 1 ELSE x
         ends == nn = 9 \/ xx = 10
     IN  /\ n' = IF ends THEN 0 ELSE nn
         /\ x' = IF ends THEN 0 ELSE xx
         /\ p' = IF ends THEN 0 ELSE IF large THEN p + d ELSE p
  /\ UNCHANGED <<bus, inten, globals, at, i, h, d, total, prox_off>>

main == Write \/ Written \/ ReadHigh \/ ReadLow \/ ReadEnd \/ Offset \/ Light \/ Measure

-----------------------------------------------------------------------------
Init ==
  /\ mst = "IDLE" /\ pending = TRUE /\ ctl = "none" /\ mstdat = 0 /\ reading = FALSE
  /\ inten = FALSE /\ fault = FALSE /\ ptr = 0 /\ reg = [r \in Register |-> 0]
  /\ state = "IDLE" /\ next_state = "IDLE"
  /\ sndbuf = <<>> /\ rcvbuf = "h" /\ rcvbuflen = 0 /\ busy = FALSE
  /\ at = "setup" /\ i = 0 /\ pc = "write" /\ h = 0 /\ d = 0
  /\ total = 0 /\ prox_off = 0 /\ n = 0 /\ x = 0 /\ p = 0

Bus == BusStart \/ BusSend \/ BusStop \/ BusFault

Next == Bus \/ i2c_isr \/ main

Spec == Init /\ [][Next]_vars

\* The bus goes on, interrupts are served, and main() runs.
FairSpec == Spec /\ WF_vars(Bus) /\ WF_vars(i2c_isr) /\ WF_vars(main)

-----------------------------------------------------------------------------
(* Properties.                                                             *)

\* main() takes a transfer for good exactly when the bus carried all of it,
\* although state and next_state change hands between main() and the handler
\* and an unexpected state is handled like any other (i2c_proximity.c:291-303, 398).
Verdict ==
  /\ pc \in {"writing", "high", "low"} /\ ~busy => (state = next_state <=> ~fault)
  /\ at = "error" => fault

\* Two transfers of one byte each give the word that the sensor holds, high
\* byte first (i2c_proximity.c:406-460).
WordIsMeasured ==
  pc = "word" => LET r == IF at = "light" THEN LIGHT ELSE PROXIMITY
                 IN  d = 256 * reg[r] + reg[r + 1]

\* No measurement is used before the sensor is set up (i2c_proximity.c:485-501).
SetUpFirst ==
  at \notin {"setup", "error"} => \A c \in 1 .. 3 : reg[Setup[c][1]] = Setup[c][2]

\* The sum of a round is that of its x large values, so the mean that is
\* printed is one (i2c_proximity.c:552-581).
RoundAddsUp ==
  x * (prox_off + PROX_THRESH + 1) <= p /\ (x = 0 => p = 0)
=============================================================================
