----------------------------- MODULE MCSensors -----------------------------
(***************************************************************************)
(* Small instances of the programs that read sensors: i2c_proximity,       *)
(* spi_barometer, and the arithmetic of the latter (Pressure, which this   *)
(* module extends).  A board runs one of them, which the initial state     *)
(* chooses; they share no more than the names of variables, and a variable *)
(* that a program does not have is Off.                                    *)
(***************************************************************************)
EXTENDS Pressure

CONSTANTS Words, \* what the sensor of i2c_proximity measures
          None   \* an empty register of the SPI

\* A measurement is of 16 bits; an empty register holds neither a word to send
\* nor a reply.
ASSUME SensorsAssumption ==
  /\ Words \subseteq {w \in Int : 0 <= w /\ w <= 65535}
  /\ None \notin [cmd : Nat, ignore : BOOLEAN, eot : BOOLEAN]
  /\ None \notin Nat \X {0, 1}

VARIABLES program,
          inten, sndbuf, rcvbuf, rcvbuflen, pc,                    \* of both programs
          mst, pending, ctl, mstdat, reading, fault, ptr, reg,     \* I2cProximity
          state, next_state, busy, at, i, h, d, total, prox_off, n, x, p,
          txdat, shift, rxdat, last, ssel, conv, sample,           \* SpiBarometer
          sndbuflen, unexpected_rxrdy, buf, what

I2c == INSTANCE I2cProximity
Spi == INSTANCE SpiBarometer

\* Small values, for which the exact formula fits into TLC's integers.
SmallCoefficients ==
  [a0 : {-200, 0, 255}, b1 : {-5000, -3, 77}, b2 : {-8000, 5}, c12 : {-1999, 0, 700}]
SmallConversions == {0, 1, 17, 62}

shared == <<inten, sndbuf, rcvbuf, rcvbuflen, pc>>
onlyI2c == <<mst, pending, ctl, mstdat, reading, fault, ptr, reg,
             state, next_state, busy, at, i, h, d, total, prox_off, n, x, p>>
onlySpi == <<txdat, shift, rxdat, last, ssel, conv, sample,
             sndbuflen, unexpected_rxrdy, buf, what>>
allVars == <<program, vars, shared, onlyI2c, onlySpi>>

-----------------------------------------------------------------------------
Off == "off"

SharedOff ==
  /\ inten = Off /\ sndbuf = Off /\ rcvbuf = Off /\ rcvbuflen = Off
  /\ pc = Off

I2cOff ==
  /\ mst = Off /\ pending = Off /\ ctl = Off /\ mstdat = Off
  /\ reading = Off /\ fault = Off /\ ptr = Off /\ reg = Off /\ state = Off
  /\ next_state = Off /\ busy = Off /\ at = Off /\ i = Off /\ h = Off
  /\ d = Off /\ total = Off /\ prox_off = Off /\ n = Off /\ x = Off
  /\ p = Off

SpiOff ==
  /\ txdat = Off /\ shift = Off /\ rxdat = Off /\ last = Off /\ ssel = Off
  /\ conv = Off /\ sample = Off /\ sndbuflen = Off
  /\ unexpected_rxrdy = Off /\ buf = Off /\ what = Off

\* A board without a sensor of pressure has one calibration, and never measures.
NoPressure == Init /\ k = CHOOSE c \in Coefficients : TRUE

SensorInit ==
  \/ program = "i2c" /\ I2c!Init /\ SpiOff /\ NoPressure
  \/ program = "spi" /\ Spi!Init /\ I2cOff /\ NoPressure
  \/ program = "pressure" /\ Init /\ SharedOff /\ I2cOff /\ SpiOff

I2cOnly == UNCHANGED <<program, vars, onlySpi>>
SpiOnly == UNCHANGED <<program, vars, onlyI2c>>

SensorNext ==
  \/ program = "i2c" /\ I2c!Next /\ I2cOnly
  \/ program = "spi" /\ Spi!Next /\ SpiOnly
  \/ program = "pressure" /\ Next /\ UNCHANGED <<program, shared, onlyI2c, onlySpi>>

\* The bus goes on, and the sensor answers.
Wire == \/ program = "i2c" /\ I2c!Bus /\ I2cOnly
        \/ program = "spi" /\ Spi!Hardware /\ SpiOnly

\* Interrupts are served, and main() runs.
Handlers == \/ program = "i2c" /\ I2c!i2c_isr /\ I2cOnly
            \/ program = "spi" /\ Spi!spi0_isr /\ SpiOnly

Main == \/ program = "i2c" /\ I2c!main /\ I2cOnly
        \/ program = "spi" /\ Spi!main /\ SpiOnly

SensorSpec == /\ SensorInit /\ [][SensorNext]_allVars
              /\ WF_allVars(Wire) /\ WF_allVars(Handlers) /\ WF_allVars(Main)

-----------------------------------------------------------------------------
(* Properties; Accurate is another.                                        *)

\* Although state and next_state change hands between main() and the handler,
\* main() takes a transfer for good exactly when the bus carried all of it, and
\* works with words that the sensor measured after it was set up
\* (i2c_proximity.c:291-581).
TransfersAreTrue ==
  program = "i2c" => I2c!Verdict /\ I2c!WordIsMeasured /\ I2c!SetUpFirst /\ I2c!RoundAddsUp

\* Whatever way words, interrupts and main()'s statements fall, the bytes that
\* main() reads are the answers to its commands, in order and of the last
\* conversion, and none arrives without room for it (spi_barometer.c:256-436).
RepliesInPlace ==
  program = "spi" =>
    Spi!RepliesInPlace /\ Spi!NothingUnexpected /\ Spi!InBounds /\ Spi!Framed

\* Unless the bus fails, i2c_proximity gets one measurement after the other
\* (i2c_proximity.c:395, 428, 449); spi_barometer reads and prints every
\* conversion (spi_barometer.c:411-455).
KeepsMeasuring ==
  /\ []<>(program = "i2c" => pc = "word") \/ <>(program = "i2c" /\ at = "error")
  /\ \A s \in {0, 1} :
       []<>(program = "spi" => pc = "pause" /\ what = "press" /\ sample = s)
=============================================================================
