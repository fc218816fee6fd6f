--------------------------- MODULE SensorsProofs ---------------------------
(***************************************************************************)
(* Theorems about the programs that read sensors.                          *)
(*                                                                         *)
(* i2c_proximity: main(), the handler and the bus hand a transfer on, so   *)
(* the invariant (I2cInv) lists the stages of each of them, with what is   *)
(* in the buffers, on the wire and in the sensor at every stage, and what  *)
(* remains when the bus fails.                                             *)
(*                                                                         *)
(* spi_barometer: the words of an array are counted (SpiInv): what has not *)
(* left the buffer, the register and the wire determines the word that is  *)
(* under way, the command that the sensor answers, and the place of the    *)
(* answer in the buffer.                                                   *)
(*                                                                         *)
(* Its arithmetic (Pressure): bounds of every intermediate value, and of   *)
(* what the shifts drop, for every calibration and every conversion.       *)
(***************************************************************************)
EXTENDS MCSensors, Sequences, TLAPS

-----------------------------------------------------------------------------
(* i2c_proximity: the stages of a transfer.                                *)

\* The handler is told of a state it expects; the bus has been asked for one.
Told(s) == pending /\ ctl = "none" /\ mst = s /\ next_state = s
Asked(c, s) == ~pending /\ ctl = c /\ next_state = s

\* The register that main() writes, what it writes, and the one it reads.
ToSend == IF at = "setup" THEN I2c!Setup[i + 1] ELSE <<128, IF at = "light" THEN 16 ELSE 8>>
Target == ToSend[1]
Value == ToSend[2]
Source == IF at = "light" THEN 133 ELSE 135

Settled == at = "setup" => reg[Target] = Value

\* From the start to the stop of a transfer that writes a register: two bytes.
Writing ==
  /\ pc = "writing" /\ rcvbuflen = 0
  /\ \/ Told("IDLE") /\ sndbuf = <<Target, Value>>
     \/ Asked("start", "TX_RDY") /\ mstdat = 38 /\ sndbuf = <<Target, Value>>
     \/ Told("TX_RDY") /\ ~reading /\ ptr = 0 /\ sndbuf = <<Target, Value>>
     \/ Asked("continue", "TX_RDY") /\ ~reading /\ ptr = 0 /\ mstdat = Target /\ sndbuf = <<Value>>
     \/ Told("TX_RDY") /\ ~reading /\ ptr = Target /\ sndbuf = <<Value>>
     \/ Asked("continue", "TX_RDY") /\ ~reading /\ ptr = Target /\ mstdat = Value /\ sndbuf = <<>>
     \/ Told("TX_RDY") /\ sndbuf = <<>> /\ Settled
     \/ Asked("stop", "IDLE") /\ sndbuf = <<>> /\ Settled
     \/ Told("IDLE") /\ sndbuf = <<>> /\ Settled

\* A transfer that writes the number of a register, to read it next.
Selecting ==
  /\ pc = "high" /\ rcvbuflen = 1 /\ rcvbuf = "h"
  /\ \/ Told("IDLE") /\ sndbuf = <<Source>>
     \/ Asked("start", "TX_RDY") /\ mstdat = 38 /\ sndbuf = <<Source>>
     \/ Told("TX_RDY") /\ ~reading /\ ptr = 0 /\ sndbuf = <<Source>>
     \/ Asked("continue", "TX_RDY") /\ ~reading /\ ptr = 0 /\ mstdat = Source /\ sndbuf = <<>>
     \/ Told("TX_RDY") /\ ptr = Source /\ sndbuf = <<>>
     \/ Asked("stop", "IDLE") /\ ptr = Source /\ sndbuf = <<>>

\* A transfer that reads a byte.
Fetched(r) == IF rcvbuf = "h" THEN h = reg[r] ELSE d = reg[r]

Fetching ==
  LET r == IF pc = "high" THEN Source ELSE Source + 1
  IN  /\ sndbuf = <<>>
      /\ \/ pc = "high" /\ rcvbuf = "h"
         \/ pc = "low" /\ rcvbuf = "data" /\ h = reg[Source]
      /\ \/ Told("IDLE") /\ rcvbuflen = 1 /\ ptr = r
         \/ Asked("start", "RX_RDY") /\ rcvbuflen = 1 /\ mstdat = 39 /\ ptr = r
         \/ Told("RX_RDY") /\ rcvbuflen = 1 /\ mstdat = reg[r] /\ ptr = r + 1
         \/ Asked("stop", "IDLE") /\ rcvbuflen = 0 /\ Fetched(r) /\ ptr = r + 1
         \/ Told("IDLE") /\ rcvbuflen = 0 /\ Fetched(r) /\ ptr = r + 1

\* A transfer is over or none has begun.
Resting ==
  /\ Told("IDLE") /\ sndbuf = <<>> /\ rcvbuflen = 0 /\ state = "IDLE"
  /\ pc \in {"write", "writing", "read", "high", "low", "word"}
  /\ pc = "writing" => Settled
  /\ pc \in {"high", "low"} => h = reg[Source]
  /\ pc = "high" => ptr = Source + 1
  /\ pc = "low" => d = reg[Source + 1]
  /\ pc = "word" => d = 256 * reg[Source] + reg[Source + 1]

Good == /\ at \in {"setup", "offset", "light", "loop"}
        /\ \/ busy /\ inten /\ (Writing \/ Selecting \/ Fetching)
           \/ ~busy /\ ~inten /\ Resting

\* A fault is reported to main().
Faulty ==
  \/ /\ busy /\ inten /\ pending /\ ctl = "none"
     /\ mst \in {"IDLE", "NACK_ADDR", "NACK_DATA"} /\ next_state \in {"TX_RDY", "RX_RDY"}
     /\ pc \in {"writing", "high", "low"} /\ at \in {"setup", "offset", "light", "loop"}
  \/ /\ ~busy /\ ~inten /\ ctl \in {"none", "start"} /\ state # next_state
     /\ \/ pc \in {"writing", "high", "low"} /\ at \in {"setup", "offset", "light", "loop"}
        \/ pc = "stopped" /\ at = "error"

\* The registers of the sensor keep what they were set to.
SetUp ==
  at # "error" =>
    /\ at # "setup" \/ i > 0 => reg[131] = 10
    /\ at # "setup" \/ i > 1 => reg[137] = 2
    /\ at # "setup" => reg[138] = 129

Types ==
  /\ reg \in [128 .. 138 -> Nat] /\ mstdat \in Nat /\ h \in Nat /\ d \in Nat
  /\ i \in 0 .. 4 /\ (at = "setup" => i <= 2)

\* What main() computes from the words.
Sums ==
  /\ total \in Nat /\ prox_off \in Nat /\ x \in Nat /\ p \in Nat
  /\ at \in {"setup", "offset", "light"} => x = 0 /\ p = 0
  /\ x * (prox_off + 26) <= p /\ (x = 0 => p = 0)

I2cInv ==
  /\ IF fault THEN Faulty ELSE Good
  /\ Types /\ SetUp /\ Sums
  /\ at = "setup" => pc \in {"write", "writing"}

-----------------------------------------------------------------------------
LEMMA Tuples ==
  /\ \A a, b : /\ <<a, b>> # <<>> /\ Head(<<a, b>>) = a /\ Tail(<<a, b>>) = <<b>>
               /\ <<a, b>>[1] = a /\ <<a, b>>[2] = b
  /\ \A a : <<a>> # <<>> /\ Head(<<a>>) = a /\ Tail(<<a>>) = <<>>
OBVIOUS

\* The requests that main() makes.
LEMMA Requests ==
  /\ at = "setup" /\ i = 0 => Target = 131 /\ Value = 10
  /\ at = "setup" /\ i = 1 => Target = 137 /\ Value = 2
  /\ at = "setup" /\ i = 2 => Target = 138 /\ Value = 129
  /\ at # "setup" => Target = 128 /\ Value = IF at = "light" THEN 16 ELSE 8
<1>2. at = "setup" /\ i = 0 => ToSend = <<131, 10>>
  BY SMT DEF ToSend, I2c!Setup, I2c!IR_CURRENT
<1>3. at = "setup" /\ i = 1 => ToSend = <<137, 2>>
  BY SMT DEF ToSend, I2c!Setup, I2c!FREQUENCY
<1>4. at = "setup" /\ i = 2 => ToSend = <<138, 129>>
  BY SMT DEF ToSend, I2c!Setup, I2c!MODULATION
<1>5. at # "setup" => ToSend = <<128, IF at = "light" THEN 16 ELSE 8>>
  BY SMT DEF ToSend
<1>6. QED
  BY <1>2, <1>3, <1>4, <1>5, Tuples, SMT DEF Target, Value

LEMMA I2cInitially == I2c!Init => I2cInv
<1> SUFFICES ASSUME I2c!Init PROVE I2cInv
  OBVIOUS
<1>1. /\ mst = "IDLE" /\ ctl = "none" /\ mstdat = 0 /\ state = "IDLE" /\ next_state = "IDLE"
      /\ sndbuf = <<>> /\ rcvbuflen = 0 /\ at = "setup" /\ i = 0 /\ pc = "write" /\ h = 0 /\ d = 0
      /\ total = 0 /\ prox_off = 0 /\ x = 0 /\ p = 0
  BY SMT DEF I2c!Init
<1>2. reg \in [128 .. 138 -> Nat]
  BY SMT DEF I2c!Init, I2c!Register
<1>3. pending /\ ~inten /\ ~fault /\ ~busy
  BY DEF I2c!Init
<1>4. Good
  BY <1>1, <1>3, SMT DEF Good, Resting, Told
<1>5. QED
  BY <1>1, <1>2, <1>3, <1>4, SMT DEF I2cInv, Types, SetUp, Sums

-----------------------------------------------------------------------------
(* The bus.                                                                *)

LEMMA SameRequest ==
  at' = at /\ i' = i => Target' = Target /\ Value' = Value /\ Source' = Source
BY DEF Target, Value, Source, ToSend

LEMMA BusStartStep == I2cInv /\ I2c!BusStart => I2cInv'
<1> SUFFICES ASSUME I2cInv, I2c!BusStart PROVE I2cInv'
  OBVIOUS
<1>1. /\ ctl = "start" /\ ctl' = "none" /\ UNCHANGED <<reg, at, i, pc, h, d, total, prox_off, n, x, p>>
      /\ UNCHANGED <<inten, fault, state, next_state, sndbuf, rcvbuf, rcvbuflen, busy>>
  BY Zenon DEF I2c!BusStart, I2c!Becomes, I2c!globals, I2c!sums
<1>2. pending' /\ (reading' <=> mstdat % 2 = 1)
  BY Zenon DEF I2c!BusStart, I2c!Becomes
<1>3. reading' => /\ mst' = "RX_RDY"
                  /\ mstdat' = IF ptr \in 128 .. 138 THEN reg[ptr] ELSE 0
                  /\ ptr' = IF ptr \in 128 .. 138 THEN ptr + 1 ELSE ptr
  BY SMT DEF I2c!BusStart, I2c!Becomes, I2c!Register
<1>4. ~reading' => mst' = "TX_RDY" /\ ptr' = 0 /\ mstdat' = mstdat
  BY SMT DEF I2c!BusStart, I2c!Becomes
<1>5. mstdat' \in Nat
  BY <1>3, <1>4, SMT DEF I2cInv, Types, SetUp, Sums
<1>6. Target' = Target /\ Value' = Value /\ Source' = Source
  BY <1>1, SameRequest
<1>7. Source \in {133, 135}
  BY DEF Source
<1>8. CASE fault
  <2>1. Faulty
    BY <1>8 DEF I2cInv
  <2>2. Faulty'
    BY <1>1, <2>1, SMT DEF Faulty
  <2>3. QED
    BY <1>1, <1>5, <1>8, <2>2, SMT DEF I2cInv, Types, SetUp, Sums
<1>9. CASE ~fault
  <2>1. Good
    BY <1>9 DEF I2cInv
  <2>2. Good'
    BY <1>1, <1>2, <1>3, <1>4, <1>6, <1>7, <2>1, SMT
       DEF Good, Writing, Selecting, Fetching, Resting, Told, Asked, Settled, Fetched
  <2>3. QED
    BY <1>1, <1>5, <1>9, <2>2, SMT DEF I2cInv, Types, SetUp, Sums
<1>10. QED
  BY <1>8, <1>9

LEMMA BusSendStep == I2cInv /\ I2c!BusSend => I2cInv'
<1> SUFFICES ASSUME I2cInv, I2c!BusSend PROVE I2cInv'
  OBVIOUS
<1>1. /\ ctl = "continue" /\ ctl' = "none" /\ mst' = "TX_RDY"
      /\ UNCHANGED <<at, i, pc, h, d, total, prox_off, n, x, p>>
      /\ UNCHANGED <<mstdat, inten, fault, state, next_state, sndbuf, rcvbuf, rcvbuflen, busy>>
  BY Zenon DEF I2c!BusSend, I2c!Becomes, I2c!globals, I2c!sums
<1>2. pending' /\ ~reading /\ (reading' <=> reading)
  BY Zenon DEF I2c!BusSend, I2c!Becomes
<1>3. ptr = 0 => ptr' = mstdat /\ reg' = reg
  BY SMT DEF I2c!BusSend
<1>4. ptr # 0 => ptr' = ptr + 1 /\ I2c!Store(ptr, mstdat)
  BY SMT DEF I2c!BusSend
<1>5. Target' = Target /\ Value' = Value /\ Source' = Source
  BY <1>1, SameRequest
<1>6. ~fault /\ Good
  BY <1>1, SMT DEF I2cInv, Faulty
<1>7. \/ Writing /\ Asked("continue", "TX_RDY") /\ ptr = 0 /\ mstdat = Target /\ sndbuf = <<Value>>
      \/ Writing /\ Asked("continue", "TX_RDY") /\ ptr = Target /\ mstdat = Value /\ sndbuf = <<>>
      \/ Selecting /\ Asked("continue", "TX_RDY") /\ ptr = 0 /\ mstdat = Source /\ sndbuf = <<>>
  BY <1>1, <1>6, SMT DEF Good, Writing, Selecting, Fetching, Resting, Told, Asked
<1>8. busy /\ inten /\ busy' /\ inten' /\ ~fault' /\ at' \in {"setup", "offset", "light", "loop"}
  BY <1>1, <1>6, <1>7, SMT DEF Good, Writing, Selecting, Resting, Told, Asked
<1>9. Told("TX_RDY")'
  BY <1>1, <1>2, <1>7, SMT DEF Told, Asked
<1>10. CASE ptr = 0
  <2>1. Good'
    <3>1. CASE Writing /\ ptr = 0 /\ mstdat = Target /\ sndbuf = <<Value>>
      <4>1. ptr' = Target' /\ sndbuf' = <<Value'>> /\ ~reading'
        BY <1>1, <1>2, <1>3, <1>5, <1>10, <3>1
      <4>2. Writing'
        BY <1>1, <1>9, <3>1, <4>1, SMT DEF Writing
      <4>3. QED
        BY <1>8, <4>2 DEF Good
    <3>2. CASE Selecting /\ ptr = 0 /\ mstdat = Source /\ sndbuf = <<>>
      <4>1. ptr' = Source' /\ sndbuf' = <<>>
        BY <1>1, <1>2, <1>3, <1>5, <1>10, <3>2
      <4>2. Selecting'
        BY <1>1, <1>9, <3>2, <4>1, SMT DEF Selecting
      <4>3. QED
        BY <1>8, <4>2 DEF Good
    <3>3. Target # 0
      BY Requests, SMT DEF I2cInv, Types
    <3>4. QED
      BY <1>7, <1>10, <3>1, <3>2, <3>3
  <2>2. QED
    BY <1>1, <1>3, <1>8, <1>10, <2>1, SMT DEF I2cInv, Types, SetUp, Sums
<1>11. CASE ptr # 0
  <2>1. Writing /\ ptr = Target /\ mstdat = Value /\ sndbuf = <<>>
    BY <1>7, <1>11, SMT
  <2>2. /\ at = "setup" => i \in 0 .. 2
        /\ reg \in [128 .. 138 -> Nat]
    BY SMT DEF I2cInv, Types
  <2>3. PICK w \in Words :
          reg' = CASE ptr = 128 /\ mstdat = 8  -> [reg EXCEPT ![135] = w \div 256, ![136] = w % 256]
                   [] ptr = 128 /\ mstdat = 16 -> [reg EXCEPT ![133] = w \div 256, ![134] = w % 256]
                   [] OTHER -> [reg EXCEPT ![ptr] = mstdat]
    BY <1>4, <1>11 DEF I2c!Store, I2c!COMMAND
  <2>4. w \div 256 \in Nat /\ w % 256 \in Nat
    BY SensorsAssumption, SMT
  <2>5. CASE at = "setup"
    <3>1. ptr \in {131, 137, 138} /\ reg' = [reg EXCEPT ![ptr] = mstdat]
      <4>1. i = 0 \/ i = 1 \/ i = 2
        BY <2>2, <2>5, SMT
      <4>2. ptr = 131 \/ ptr = 137 \/ ptr = 138
        BY <2>1, <2>5, <4>1, Requests
      <4>3. ~(ptr = 128 /\ mstdat = 8) /\ ~(ptr = 128 /\ mstdat = 16)
        BY <4>2, SMT
      <4>4. QED
        BY <2>3, <4>2, <4>3
    <3>2. reg' \in [128 .. 138 -> Nat] /\ reg'[ptr] = mstdat /\ (\A r \in {131, 137, 138} \ {ptr} : reg'[r] = reg[r])
      BY <2>2, <3>1, SMT DEF I2cInv, Types
    <3>3. Settled'
      BY <1>5, <2>1, <3>2, SMT DEF Settled
    <3>4. Good'
      BY <1>1, <1>8, <1>9, <2>1, <3>3, SMT DEF Good, Writing
    <3>5. \/ i = 0 /\ ptr = 131
          \/ i = 1 /\ ptr = 137
          \/ i = 2 /\ ptr = 138
      <4>1. i = 0 \/ i = 1 \/ i = 2
        BY <2>2, <2>5, SMT
      <4>2. QED
        BY <2>1, <2>5, <4>1, Requests
    <3>6. SetUp'
      BY <1>1, <2>5, <3>2, <3>5, SMT DEF I2cInv, SetUp
    <3>7. QED
      BY <1>1, <1>8, <3>2, <3>4, <3>6, SMT DEF I2cInv, Types, Sums
  <2>6. CASE at # "setup"
    <3>1. ptr = 128 /\ (mstdat = 8 \/ mstdat = 16)
      BY <2>1, <2>6, Requests, SMT
    <3>2. /\ reg' \in [128 .. 138 -> Nat]
          /\ reg'[131] = reg[131] /\ reg'[137] = reg[137] /\ reg'[138] = reg[138]
      BY <2>2, <2>3, <2>4, <3>1, SMT
    <3>3. Settled'
      BY <1>1, <2>6, SMT DEF Settled
    <3>4. Good'
      BY <1>1, <1>8, <1>9, <2>1, <3>3, SMT DEF Good, Writing
    <3>5. QED
      BY <1>1, <1>8, <3>2, <3>4, SMT DEF I2cInv, Types, SetUp, Sums
  <2>7. QED
    BY <2>5, <2>6
<1>12. QED
  BY <1>10, <1>11

LEMMA BusStopStep == I2cInv /\ I2c!BusStop => I2cInv'
<1> SUFFICES ASSUME I2cInv, I2c!BusStop PROVE I2cInv'
  OBVIOUS
<1>1. /\ ctl = "stop" /\ ctl' = "none" /\ mst' = "IDLE"
      /\ UNCHANGED <<ptr, reg, at, i, pc, h, d, total, prox_off, n, x, p>>
      /\ UNCHANGED <<mstdat, inten, fault, state, next_state, sndbuf, rcvbuf, rcvbuflen, busy>>
  BY Zenon DEF I2c!BusStop, I2c!Becomes, I2c!globals, I2c!sums
<1>2. pending' /\ (reading' <=> reading)
  BY Zenon DEF I2c!BusStop, I2c!Becomes
<1>3. Target' = Target /\ Value' = Value /\ Source' = Source
  BY <1>1, SameRequest
<1>4. ~fault /\ Good
  BY <1>1, SMT DEF I2cInv, Faulty
<1>5. Good'
  BY <1>1, <1>2, <1>3, <1>4, SMT
     DEF Good, Writing, Selecting, Fetching, Resting, Told, Asked, Settled, Fetched
<1>6. QED
  BY <1>1, <1>4, <1>5, SMT DEF I2cInv, Types, SetUp, Sums

LEMMA BusFaultStep == I2cInv /\ I2c!BusFault => I2cInv'
<1> SUFFICES ASSUME I2cInv, I2c!BusFault PROVE I2cInv'
  OBVIOUS
<1>1. /\ ctl \in {"start", "continue"} /\ ctl' = "none" /\ mst' \in {"NACK_ADDR", "NACK_DATA", "IDLE"}
      /\ UNCHANGED <<ptr, reg, at, i, pc, h, d, total, prox_off, n, x, p>>
      /\ UNCHANGED <<mstdat, inten, state, next_state, sndbuf, rcvbuf, rcvbuflen, busy>>
  BY Zenon DEF I2c!BusFault, I2c!Becomes, I2c!globals, I2c!sums
<1>2. pending' /\ fault'
  BY Zenon DEF I2c!BusFault, I2c!Becomes
<1>3. Faulty'
  <2>1. CASE fault
    BY <1>1, <1>2, <2>1, SMT DEF I2cInv, Faulty
  <2>2. CASE ~fault
    <3>1. Good
      BY <2>2 DEF I2cInv
    <3>2. QED
      BY <1>1, <1>2, <3>1, SMT DEF Good, Writing, Selecting, Fetching, Resting, Told, Asked, Faulty
  <2>3. QED
    BY <2>1, <2>2
<1>4. QED
  BY <1>1, <1>2, <1>3, SMT DEF I2cInv, Types, SetUp, Sums

-----------------------------------------------------------------------------
(* The handler.                                                            *)

\* After a fault the handler releases main() and tells it.
LEMMA Resigns ==
  ASSUME I2cInv, fault, I2c!Interrupted, I2c!KeepUnlessUnexpected, state' = mst,
         next_state' = next_state \/ (mst = "IDLE" /\ next_state' \in {"TX_RDY", "RX_RDY"}),
         ctl' \in {"none", "start"}, pc' = pc, at' = at
  PROVE  Faulty'
<1>1. inten
  BY DEF I2c!Interrupted
<1>2. /\ mst \in {"IDLE", "NACK_ADDR", "NACK_DATA"} /\ next_state \in {"TX_RDY", "RX_RDY"}
      /\ pc \in {"writing", "high", "low"} /\ at \in {"setup", "offset", "light", "loop"}
  BY <1>1, SMT DEF I2cInv, Faulty
<1>3. I2c!Release
  BY <1>2, SMT DEF I2c!KeepUnlessUnexpected, I2c!Unexpected
<1>4. ~inten' /\ ~busy'
  BY <1>3 DEF I2c!Release
<1>5. QED
  BY <1>2, <1>4, SMT DEF Faulty

\* Without a fault no state is unexpected.
LEMMA Expected ==
  ASSUME I2cInv, ~fault, I2c!Interrupted
  PROVE  /\ Good /\ busy /\ inten /\ pending /\ ctl = "none" /\ next_state = mst
         /\ Writing \/ Selecting \/ Fetching
         /\ at \in {"setup", "offset", "light", "loop"}
         /\ I2c!KeepUnlessUnexpected => inten' /\ busy'
<1>1. inten /\ pending
  BY DEF I2c!Interrupted
<1>2. Good
  BY DEF I2cInv
<1>3. /\ busy /\ (Writing \/ Selecting \/ Fetching)
      /\ at \in {"setup", "offset", "light", "loop"}
  BY <1>1, <1>2 DEF Good
<1>4. ctl = "none" /\ next_state = mst
  BY <1>1, <1>3, SMT DEF Writing, Selecting, Fetching, Told, Asked
<1>5. I2c!KeepUnlessUnexpected => inten' /\ busy'
  BY <1>1, <1>3, <1>4 DEF I2c!KeepUnlessUnexpected, I2c!Unexpected
<1>6. QED
  BY <1>1, <1>2, <1>3, <1>4, <1>5

LEMMA AddressStep == I2cInv /\ I2c!Address => I2cInv'
<1> SUFFICES ASSUME I2cInv, I2c!Address PROVE I2cInv'
  OBVIOUS
<1>1. /\ I2c!Interrupted /\ I2c!KeepUnlessUnexpected
      /\ mst = "IDLE" /\ state' = mst /\ ctl' = "start"
      /\ UNCHANGED <<fault, mst, ptr, reg, at, i, pc, h, d, total, prox_off, n, x, p>>
      /\ UNCHANGED <<sndbuf, rcvbuf, rcvbuflen>>
  BY Zenon DEF I2c!Address, I2c!Command, I2c!sums
<1>2. ~pending' /\ (reading' <=> reading)
  BY Zenon DEF I2c!Address, I2c!Command
<1>3. /\ sndbuf # <<>> => mstdat' = 38 /\ next_state' = "TX_RDY"
      /\ sndbuf = <<>> => mstdat' = 39 /\ next_state' = "RX_RDY" /\ rcvbuflen > 0
  BY SMT DEF I2c!Address, I2c!VCNL4000_SLA
<1>4. mstdat' \in Nat
  BY <1>3, SMT
<1>5. Target' = Target /\ Value' = Value /\ Source' = Source
  BY <1>1, SameRequest
<1>6. CASE fault
  <2>1. Faulty'
    BY <1>1, <1>3, <1>6, Resigns, SMT
  <2>2. QED
    BY <1>1, <1>4, <1>6, <2>1, SMT DEF I2cInv, Types, SetUp, Sums
<1>7. CASE ~fault
  <2>1. /\ Writing \/ Selecting \/ Fetching
        /\ at \in {"setup", "offset", "light", "loop"} /\ inten' /\ busy' /\ pending
    BY <1>1, <1>7, Expected
  <2>2. \/ Writing /\ sndbuf = <<Target, Value>>
        \/ Selecting /\ sndbuf = <<Source>>
        \/ Fetching /\ sndbuf = <<>> /\ rcvbuflen = 1 /\ ptr = IF pc = "high" THEN Source ELSE Source + 1
    <3>1. CASE Writing
      BY <1>1, <1>3, <2>1, <3>1, Tuples, SMT DEF Writing, Told, Asked
    <3>2. CASE Selecting
      BY <1>1, <2>1, <3>2, SMT DEF Selecting, Told, Asked
    <3>3. CASE Fetching
      BY <1>1, <1>3, <2>1, <3>3, SMT DEF Fetching, Told, Asked
    <3>4. QED
      BY <2>1, <3>1, <3>2, <3>3
  <2>3. CASE Writing /\ sndbuf = <<Target, Value>>
    <3>1. sndbuf # <<>>
      BY <2>3, Tuples
    <3>2. Writing'
      BY <1>1, <1>2, <1>3, <1>5, <2>3, <3>1, SMT DEF Writing, Told, Asked
    <3>3. QED
      BY <1>1, <1>4, <1>7, <2>1, <3>2, SMT DEF I2cInv, Types, SetUp, Sums, Good
  <2>4. CASE Selecting /\ sndbuf = <<Source>>
    <3>1. sndbuf # <<>>
      BY <2>4, Tuples
    <3>2. Selecting'
      BY <1>1, <1>2, <1>3, <1>5, <2>4, <3>1, SMT DEF Selecting, Told, Asked
    <3>3. QED
      BY <1>1, <1>4, <1>7, <2>1, <3>2, SMT DEF I2cInv, Types, SetUp, Sums, Good
  <2>5. CASE Fetching /\ sndbuf = <<>> /\ rcvbuflen = 1 /\ ptr = IF pc = "high" THEN Source ELSE Source + 1
    <3>1. Fetching'
      BY <1>1, <1>2, <1>3, <1>5, <2>5, SMT DEF Fetching, Told, Asked
    <3>2. QED
      BY <1>1, <1>4, <1>7, <2>1, <3>1, SMT DEF I2cInv, Types, SetUp, Sums, Good
  <2>6. QED
    BY <2>2, <2>3, <2>4, <2>5
<1>8. QED
  BY <1>6, <1>7

LEMMA TransferEndStep == I2cInv /\ I2c!TransferEnd => I2cInv'
<1> SUFFICES ASSUME I2cInv, I2c!TransferEnd PROVE I2cInv'
  OBVIOUS
<1>1. /\ I2c!Interrupted /\ mst = "IDLE" /\ state' = mst /\ sndbuf = <<>> /\ rcvbuflen = 0
      /\ UNCHANGED <<mst, pending, ctl, mstdat, reading, fault, ptr, reg>>
      /\ UNCHANGED <<next_state, sndbuf, rcvbuf, rcvbuflen, at, i, pc, h, d, total, prox_off, n, x, p>>
  BY Zenon DEF I2c!TransferEnd, I2c!bus, I2c!sums
<1>2. mst # next_state => I2c!KeepUnlessUnexpected
  BY DEF I2c!TransferEnd, I2c!Release, I2c!KeepUnlessUnexpected, I2c!Unexpected
<1>3. Target' = Target /\ Value' = Value /\ Source' = Source
  BY <1>1, SameRequest
<1>4. CASE fault
  <2>1. mst # next_state
    BY <1>1, <1>4, SMT DEF I2cInv, Faulty, I2c!Interrupted
  <2>2. ctl = "none"
    BY <1>1, <1>4, SMT DEF I2cInv, Faulty, I2c!Interrupted
  <2>3. Faulty'
    BY <1>1, <1>2, <1>4, <2>1, <2>2, Resigns, SMT
  <2>4. QED
    BY <1>1, <1>4, <2>3, SMT DEF I2cInv, Types, SetUp, Sums
<1>5. CASE ~fault
  <2>1. /\ Writing \/ Selecting \/ Fetching
        /\ at \in {"setup", "offset", "light", "loop"} /\ pending /\ ctl = "none" /\ next_state = mst
    BY <1>1, <1>5, Expected
  <2>2. ~inten' /\ ~busy'
    BY DEF I2c!TransferEnd, I2c!Release
  <2>3. Resting'
    <3>1. CASE Writing
      <4>1. Settled
        BY <1>1, <2>1, <3>1, Tuples, SMT DEF Writing, Told, Asked
      <4>2. pc = "writing"
        BY <3>1 DEF Writing
      <4>3. QED
        BY <1>1, <1>3, <2>1, <4>1, <4>2, SMT DEF Resting, Told, Settled
    <3>2. CASE Selecting
      BY <1>1, <3>2, SMT DEF Selecting
    <3>3. CASE Fetching
      BY <1>1, <1>3, <2>1, <3>3, SMT DEF Fetching, Fetched, Told, Asked, Resting
    <3>4. QED
      BY <2>1, <3>1, <3>2, <3>3
  <2>4. QED
    BY <1>1, <1>5, <2>1, <2>2, <2>3, SMT DEF I2cInv, Types, SetUp, Sums, Good
<1>6. QED
  BY <1>4, <1>5

LEMMA RefusedStep == I2cInv /\ I2c!Refused => I2cInv'
<1> SUFFICES ASSUME I2cInv, I2c!Refused PROVE I2cInv'
  OBVIOUS
<1>1. /\ I2c!Interrupted /\ I2c!KeepUnlessUnexpected
      /\ mst \in {"NACK_ADDR", "NACK_DATA"} /\ state' = mst
      /\ UNCHANGED <<mst, pending, ctl, mstdat, reading, fault, ptr, reg>>
      /\ UNCHANGED <<next_state, sndbuf, rcvbuf, rcvbuflen, at, i, pc, h, d, total, prox_off, n, x, p>>
  BY Zenon DEF I2c!Refused, I2c!bus, I2c!sums
<1>2. fault
  <2>1. SUFFICES ASSUME ~fault PROVE FALSE
    OBVIOUS
  <2>2. (Writing \/ Selecting \/ Fetching) /\ pending
    BY <1>1, <2>1, Expected
  <2>3. QED
    BY <1>1, <2>2, SMT DEF Writing, Selecting, Fetching, Told, Asked
<1>3. ctl = "none"
  BY <1>1, <1>2, SMT DEF I2cInv, Faulty, I2c!Interrupted
<1>4. Faulty'
  BY <1>1, <1>2, <1>3, Resigns, SMT
<1>5. QED
  BY <1>1, <1>2, <1>4, SMT DEF I2cInv, Types, SetUp, Sums

\* The handler sends the next byte, or ends the transfer.
LEMMA TransmitStep == I2cInv /\ I2c!Transmit => I2cInv'
<1> SUFFICES ASSUME I2cInv, I2c!Transmit PROVE I2cInv'
  OBVIOUS
<1>1. /\ I2c!Interrupted /\ I2c!KeepUnlessUnexpected /\ I2c!SendOrStop
      /\ mst = "TX_RDY"
      /\ UNCHANGED <<mst, reading, fault, ptr, reg, rcvbuf, rcvbuflen, at, i, pc, h, d>>
      /\ UNCHANGED <<total, prox_off, n, x, p>>
  BY Zenon DEF I2c!Transmit, I2c!sums
<1>2. ~fault
  BY <1>1, SMT DEF I2cInv, Faulty, I2c!Interrupted
<1>3. /\ Writing \/ Selecting \/ Fetching
      /\ at \in {"setup", "offset", "light", "loop"} /\ inten' /\ busy' /\ pending
  BY <1>1, <1>2, Expected
<1>4. Target' = Target /\ Value' = Value /\ Source' = Source
  BY <1>1, SameRequest
<1>5. sndbuf # <<>> => /\ Asked("continue", "TX_RDY")'
                       /\ mstdat' = Head(sndbuf) /\ sndbuf' = Tail(sndbuf)
  BY Zenon, <1>1 DEF I2c!SendOrStop, I2c!Command, Asked
<1>6. sndbuf = <<>> => Asked("stop", "IDLE")' /\ mstdat' = mstdat /\ sndbuf' = sndbuf
  BY Zenon, <1>1 DEF I2c!SendOrStop, I2c!Command, Asked
<1>7. (Writing' \/ Selecting') /\ mstdat' \in Nat
  <2>1. CASE Writing
    <3>1. \/ ~reading /\ ptr = 0 /\ sndbuf = <<Target, Value>>
          \/ ~reading /\ ptr = Target /\ sndbuf = <<Value>>
          \/ sndbuf = <<>> /\ Settled
      BY <1>1, <1>3, <2>1, SMT DEF Writing, Told, Asked
    <3>2. Target \in Nat /\ Value \in Nat /\ mstdat \in Nat
      BY Requests, SMT DEF I2cInv, Types
    <3>3. pc = "writing" /\ rcvbuflen = 0
      BY <2>1 DEF Writing
    <3>4. ~reading => ~reading'
      BY <1>1
    <3>5. CASE ~reading /\ ptr = 0 /\ sndbuf = <<Target, Value>>
      <4>1. Asked("continue", "TX_RDY")' /\ mstdat' = Target' /\ sndbuf' = <<Value'>>
        BY <1>4, <1>5, <3>5, Tuples
      <4>2. Writing'
        BY <1>1, <3>3, <3>4, <3>5, <4>1 DEF Writing
      <4>3. QED
        BY <1>4, <3>2, <4>1, <4>2
    <3>6. CASE ~reading /\ ptr = Target /\ sndbuf = <<Value>>
      <4>1. Asked("continue", "TX_RDY")' /\ mstdat' = Value' /\ sndbuf' = <<>>
        BY <1>4, <1>5, <3>6, Tuples
      <4>2. Writing'
        BY <1>1, <1>4, <3>3, <3>4, <3>6, <4>1 DEF Writing
      <4>3. QED
        BY <1>4, <3>2, <4>1, <4>2
    <3>7. CASE sndbuf = <<>> /\ Settled
      <4>1. Settled'
        BY <1>1, <1>4, <3>7 DEF Settled
      <4>2. Writing'
        BY <1>1, <1>6, <3>3, <3>7, <4>1 DEF Writing
      <4>3. QED
        BY <1>6, <3>2, <3>7, <4>2
    <3>8. QED
      BY <3>1, <3>5, <3>6, <3>7
  <2>2. CASE Selecting
    <3>1. \/ ~reading /\ ptr = 0 /\ sndbuf = <<Source>>
          \/ ptr = Source /\ sndbuf = <<>>
      BY <1>1, <1>3, <2>2, SMT DEF Selecting, Told, Asked
    <3>2. Source \in Nat /\ mstdat \in Nat
      BY SMT DEF I2cInv, Types, Source
    <3>3. pc = "high" /\ rcvbuflen = 1 /\ rcvbuf = "h"
      BY <2>2 DEF Selecting
    <3>4. CASE ~reading /\ ptr = 0 /\ sndbuf = <<Source>>
      <4>1. Asked("continue", "TX_RDY")' /\ mstdat' = Source' /\ sndbuf' = <<>>
        BY <1>4, <1>5, <3>4, Tuples
      <4>2. Selecting'
        BY <1>1, <3>3, <3>4, <4>1 DEF Selecting
      <4>3. QED
        BY <1>4, <3>2, <4>1, <4>2
    <3>5. CASE ptr = Source /\ sndbuf = <<>>
      <4>1. Selecting'
        BY <1>1, <1>4, <1>6, <3>3, <3>5 DEF Selecting
      <4>2. QED
        BY <1>6, <3>2, <3>5, <4>1
    <3>6. QED
      BY <3>1, <3>4, <3>5
  <2>3. CASE Fetching
    BY <1>1, <1>3, <2>3, SMT DEF Fetching, Told, Asked
  <2>4. QED
    BY <1>3, <2>1, <2>2, <2>3
<1>8. QED
  BY <1>1, <1>2, <1>3, <1>7, SMT DEF I2cInv, Types, SetUp, Sums, Good

\* The byte is the last one, and the second STOP changes nothing.
LEMMA ReceiveStep == I2cInv /\ I2c!Receive => I2cInv'
<1> SUFFICES ASSUME I2cInv, I2c!Receive PROVE I2cInv'
  OBVIOUS
<1>1. /\ I2c!Interrupted /\ I2c!KeepUnlessUnexpected /\ I2c!SendOrStop
      /\ mst = "RX_RDY" /\ rcvbuflen' = rcvbuflen - 1
      /\ UNCHANGED <<mst, reading, fault, ptr, reg, rcvbuf, at, i, pc>>
      /\ UNCHANGED <<total, prox_off, n, x, p>>
  BY Zenon DEF I2c!Receive, I2c!sums
<1>2. ~fault
  BY <1>1, SMT DEF I2cInv, Faulty, I2c!Interrupted
<1>3. /\ Writing \/ Selecting \/ Fetching
      /\ at \in {"setup", "offset", "light", "loop"} /\ inten' /\ busy' /\ pending
  BY <1>1, <1>2, Expected
<1>4. Source' = Source
  BY <1>1, SameRequest
<1>5. Fetching
  BY <1>1, <1>3, SMT DEF Writing, Selecting, Told, Asked
<1>6. /\ sndbuf = <<>> /\ rcvbuflen = 1
      /\ mstdat = reg[IF pc = "high" THEN Source ELSE Source + 1]
      /\ ptr = (IF pc = "high" THEN Source ELSE Source + 1) + 1
  BY <1>1, <1>3, <1>5, SMT DEF Fetching, Told, Asked
<1>7. Asked("stop", "IDLE")' /\ mstdat' = mstdat /\ sndbuf' = sndbuf
  BY <1>1, <1>6, Zenon DEF I2c!SendOrStop, I2c!Command, Asked
<1>8. /\ rcvbuf = "h" => h' = mstdat /\ d' = d
      /\ rcvbuf # "h" => d' = mstdat /\ h' = h
  BY Zenon DEF I2c!Receive
<1>9. h' \in Nat /\ d' \in Nat
  BY <1>8, SMT DEF I2cInv, Types
<1>10. Fetching'
  BY <1>1, <1>4, <1>5, <1>6, <1>7, <1>8, SMT DEF Fetching, Fetched
<1>11. QED
  BY <1>1, <1>2, <1>3, <1>7, <1>9, <1>10, SMT DEF I2cInv, Types, SetUp, Sums, Good

-----------------------------------------------------------------------------
(* main().                                                                 *)

LEMMA AtRest == I2cInv /\ pc \in {"write", "read", "word"} => ~fault /\ Good /\ Resting /\ ~busy /\ ~inten
<1> SUFFICES ASSUME I2cInv, pc \in {"write", "read", "word"}
             PROVE  ~fault /\ Good /\ Resting /\ ~busy /\ ~inten
  OBVIOUS
<1>1. ~fault
  BY SMT DEF I2cInv, Faulty
<1>2. Good
  BY <1>1 DEF I2cInv
<1>3. ~(Writing \/ Selecting \/ Fetching)
  BY SMT DEF Writing, Selecting, Fetching
<1>4. QED
  BY <1>1, <1>2, <1>3 DEF Good

\* What main() finds when a transfer is over.
LEMMA Over ==
  ASSUME I2cInv, ~busy, pc \in {"writing", "high", "low"}
  PROVE  /\ state = next_state <=> ~fault
         /\ fault => Faulty /\ ~inten /\ ctl \in {"none", "start"} /\ state # next_state
         /\ ~fault => Good /\ Resting /\ ~inten
<1>1. CASE fault
  <2>1. Faulty
    BY <1>1 DEF I2cInv
  <2>2. QED
    BY <1>1, <2>1 DEF Faulty
<1>2. CASE ~fault
  <2>1. Good
    BY <1>2 DEF I2cInv
  <2>2. Resting /\ ~inten
    BY <2>1 DEF Good
  <2>3. QED
    BY <1>2, <2>1, <2>2 DEF Resting, Told
<1>3. QED
  BY <1>1, <1>2

\* main() gives up.
LEMMA GivesUp ==
  ASSUME I2cInv, fault, ~busy, ~inten, ctl \in {"none", "start"}, state # next_state,
         at' = "error", pc' = "stopped", fault' = fault, busy' = busy, inten' = inten, ctl' = ctl,
         state' = state, next_state' = next_state, d' = d,
         UNCHANGED <<reg, mstdat, h, i, total, prox_off, x, p>>
  PROVE  I2cInv'
<1>1. Faulty'
  BY DEF Faulty
<1>2. Types' /\ SetUp'
  BY SMT DEF I2cInv, Types, SetUp
<1>3. Sums'
  BY SMT DEF I2cInv, Sums
<1>4. QED
  BY <1>1, <1>2, <1>3 DEF I2cInv

LEMMA WriteStep == I2cInv /\ I2c!Write => I2cInv'
<1> SUFFICES ASSUME I2cInv, I2c!Write PROVE I2cInv'
  OBVIOUS
<1>1. pc = "write"
  BY DEF I2c!Write
<1>2. ~fault /\ Good /\ Resting
  BY <1>1, AtRest
<1>3. at = "setup" => i \in 0 .. 2
  BY SMT DEF I2cInv, Types
<1>4. I2c!WriteCommand(Target, Value)
  <2>1. CASE at = "setup"
    BY <1>1, <2>1, Zenon DEF I2c!Write, Target, Value, ToSend
  <2>2. CASE at # "setup"
    BY <1>1, <2>2, Requests DEF I2c!Write, I2c!COMMAND
  <2>3. QED
    BY <2>1, <2>2
<1>5. /\ sndbuf' = <<Target, Value>> /\ rcvbuflen' = 0 /\ busy' /\ inten' /\ next_state' = "IDLE"
      /\ pc' = "writing"
      /\ UNCHANGED <<mst, pending, ctl, mstdat, reading, fault, ptr, reg, state, rcvbuf, at, i, h, d>>
      /\ UNCHANGED <<total, prox_off, n, x, p>>
  BY <1>4, Zenon DEF I2c!WriteCommand, I2c!bus, I2c!sums
<1>6. Target' = Target /\ Value' = Value
  BY <1>5, SameRequest
<1>7. Writing'
  BY <1>2, <1>5, <1>6, SMT DEF Resting, Writing, Told
<1>8. Good'
  BY <1>2, <1>5, <1>7 DEF Good
<1>9. QED
  BY <1>2, <1>5, <1>8, SMT DEF I2cInv, Types, SetUp, Sums

LEMMA WrittenStep == I2cInv /\ I2c!Written => I2cInv'
<1> SUFFICES ASSUME I2cInv, I2c!Written PROVE I2cInv'
  OBVIOUS
<1>1. /\ pc = "writing" /\ ~busy
      /\ UNCHANGED <<mst, pending, ctl, mstdat, reading, fault, ptr, reg, inten, h, d>>
      /\ UNCHANGED <<state, next_state, sndbuf, rcvbuf, rcvbuflen, busy>>
      /\ UNCHANGED <<total, prox_off, n, x, p>>
  BY Zenon DEF I2c!Written, I2c!bus, I2c!globals, I2c!sums
<1>2. CASE state # next_state
  <2>1. at' = "error" /\ pc' = "stopped" /\ i' = i
    BY <1>2, Zenon DEF I2c!Written, I2c!Fail
  <2>2. QED
    BY <1>1, <1>2, <2>1, Over, GivesUp
<1>3. CASE state = next_state
  <2>1. ~fault /\ Good /\ Resting /\ ~inten
    BY <1>1, <1>3, Over
  <2>2. CASE at = "setup"
    <3>1. pc' = "write" /\ at' = (IF i = 2 THEN "offset" ELSE "setup") /\ i' = (i + 1) % 3
      BY <1>3, <2>2, SMT DEF I2c!Written
    <3>2. i = 0 \/ i = 1 \/ i = 2
      BY <2>2, SMT DEF I2cInv, Types
    <3>3. reg[Target] = Value
      BY <1>1, <2>1, <2>2 DEF Resting, Settled
    <3>4. i' \in 0 .. 2 /\ (at' = "setup" => i' = i + 1)
      BY <3>1, <3>2, SMT
    <3>5. SetUp'
      <4>1. CASE i = 0
        BY <1>1, <2>2, <3>1, <3>3, <4>1, Requests, SMT DEF I2cInv, SetUp
      <4>2. CASE i = 1
        BY <1>1, <2>2, <3>1, <3>3, <4>2, Requests, SMT DEF I2cInv, SetUp
      <4>3. CASE i = 2
        BY <1>1, <2>2, <3>1, <3>3, <4>3, Requests, SMT DEF I2cInv, SetUp
      <4>4. QED
        BY <3>2, <4>1, <4>2, <4>3
    <3>6. Resting'
      BY <1>1, <2>1, <3>1, SMT DEF Resting, Told
    <3>7. Good'
      BY <1>1, <2>1, <3>1, <3>6, SMT DEF Good
    <3>8. QED
      BY <1>1, <2>1, <2>2, <3>1, <3>4, <3>5, <3>7, SMT DEF I2cInv, Types, Sums
  <2>3. CASE at # "setup"
    <3>1. pc' = "read" /\ UNCHANGED <<at, i>>
      BY <1>3, <2>3, Zenon DEF I2c!Written
    <3>2. Resting'
      BY <1>1, <2>1, <3>1, SMT DEF Resting, Told
    <3>3. Good'
      BY <1>1, <2>1, <3>1, <3>2, SMT DEF Good
    <3>4. QED
      BY <1>1, <2>1, <2>3, <3>1, <3>3, SMT DEF I2cInv, Types, SetUp, Sums
  <2>4. QED
    BY <2>2, <2>3
<1>4. QED
  BY <1>2, <1>3

LEMMA ReadHighStep == I2cInv /\ I2c!ReadHigh => I2cInv'
<1> SUFFICES ASSUME I2cInv, I2c!ReadHigh PROVE I2cInv'
  OBVIOUS
<1>1. /\ pc = "read" /\ rcvbuf' = "h" /\ rcvbuflen' = 1 /\ busy' /\ inten' /\ next_state' = "IDLE"
      /\ pc' = "high" /\ sndbuf' = <<Source>>
      /\ UNCHANGED <<mst, pending, ctl, mstdat, reading, fault, ptr, reg, state, at, i, h, d>>
      /\ UNCHANGED <<total, prox_off, n, x, p>>
  BY Zenon DEF I2c!ReadHigh, I2c!bus, I2c!sums, Source, I2c!LIGHT, I2c!PROXIMITY
<1>2. ~fault /\ Good /\ Resting
  BY <1>1, AtRest
<1>3. Source' = Source
  BY <1>1, SameRequest
<1>4. Selecting'
  BY <1>1, <1>2, <1>3, SMT DEF Resting, Selecting, Told
<1>5. at # "setup"
  BY <1>1, SMT DEF I2cInv
<1>6. Good'
  BY <1>1, <1>2, <1>4 DEF Good
<1>7. QED
  BY <1>1, <1>2, <1>5, <1>6, SMT DEF I2cInv, Types, SetUp, Sums

LEMMA ReadLowStep == I2cInv /\ I2c!ReadLow => I2cInv'
<1> SUFFICES ASSUME I2cInv, I2c!ReadLow PROVE I2cInv'
  OBVIOUS
<1>1. /\ pc = "high" /\ ~busy
      /\ UNCHANGED <<mst, pending, ctl, mstdat, reading, fault, ptr, reg, i, h, d>>
      /\ UNCHANGED <<total, prox_off, n, x, p>>
  BY Zenon DEF I2c!ReadLow, I2c!bus, I2c!sums
<1>2. CASE state # next_state
  <2>1. at' = "error" /\ pc' = "stopped" /\ UNCHANGED <<inten, state, next_state, busy>>
    BY <1>2, Zenon DEF I2c!ReadLow, I2c!Fail, I2c!globals
  <2>2. QED
    BY <1>1, <1>2, <2>1, Over, GivesUp
<1>3. CASE state = next_state
  <2>1. ~fault /\ Good /\ Resting
    BY <1>1, <1>3, Over
  <2>2. /\ sndbuf' = <<>> /\ rcvbuf' = "data" /\ rcvbuflen' = 1 /\ busy' /\ inten' /\ pc' = "low"
        /\ UNCHANGED <<at, state, next_state>>
    BY <1>3, Zenon DEF I2c!ReadLow
  <2>3. Source' = Source
    BY <1>1, <2>2, SameRequest
  <2>4. Fetching'
    BY <1>1, <2>1, <2>2, <2>3, SMT DEF Resting, Fetching, Told
  <2>5. at # "setup"
    BY <1>1, SMT DEF I2cInv
  <2>6. Good'
    BY <2>1, <2>2, <2>4 DEF Good
  <2>7. QED
    BY <1>1, <2>1, <2>2, <2>5, <2>6, SMT DEF I2cInv, Types, SetUp, Sums
<1>4. QED
  BY <1>2, <1>3

LEMMA ReadEndStep == I2cInv /\ I2c!ReadEnd => I2cInv'
<1> SUFFICES ASSUME I2cInv, I2c!ReadEnd PROVE I2cInv'
  OBVIOUS
<1>1. /\ pc = "low" /\ ~busy
      /\ UNCHANGED <<mst, pending, ctl, mstdat, reading, fault, ptr, reg, inten, i, h>>
      /\ UNCHANGED <<state, next_state, sndbuf, rcvbuf, rcvbuflen, busy>>
      /\ UNCHANGED <<total, prox_off, n, x, p>>
  BY Zenon DEF I2c!ReadEnd, I2c!bus, I2c!globals, I2c!sums
<1>2. CASE state # next_state
  <2>1. at' = "error" /\ pc' = "stopped" /\ d' = d
    BY <1>2, Zenon DEF I2c!ReadEnd, I2c!Fail
  <2>2. QED
    BY <1>1, <1>2, <2>1, Over, GivesUp
<1>3. CASE state = next_state
  <2>1. ~fault /\ Good /\ Resting
    BY <1>1, <1>3, Over
  <2>2. d' = d + 256 * h /\ pc' = "word" /\ at' = at
    BY <1>3, SMT DEF I2c!ReadEnd
  <2>3. Source' = Source
    BY <1>1, <2>2, SameRequest
  <2>4. d' \in Nat
    BY <2>2, SMT DEF I2cInv, Types
  <2>5. d' = 256 * reg[Source] + reg[Source + 1]
    <3>1. h = reg[Source] /\ d = reg[Source + 1]
      BY <1>1, <2>1, SMT DEF Resting
    <3>2. h \in Nat /\ d \in Nat
      BY DEF I2cInv, Types
    <3>3. d' = 256 * h + d
      BY <2>2, <3>2, SMT
    <3>4. QED
      BY <3>1, <3>3
  <2>6. Resting'
    BY <1>1, <2>1, <2>2, <2>3, <2>5, SMT DEF Resting, Told
  <2>7. Good'
    BY <1>1, <2>1, <2>2, <2>6 DEF Good
  <2>8. at # "setup"
    BY <1>1, SMT DEF I2cInv
  <2>9. QED
    BY <1>1, <2>1, <2>2, <2>4, <2>7, <2>8, SMT DEF I2cInv, Types, SetUp, Sums
<1>4. QED
  BY <1>2, <1>3

\* With a word, main() does no more than count.
LEMMA CountsOn ==
  ASSUME I2cInv, pc = "word", pc' = "write", at' \in {"offset", "light", "loop"},
         UNCHANGED <<mst, pending, ctl, mstdat, reading, fault, ptr, reg>>, UNCHANGED <<h, d, inten>>,
         UNCHANGED <<state, next_state, sndbuf, rcvbuf, rcvbuflen, busy>>, i' \in 0 .. 4
  PROVE  at # "setup" /\ (Sums' => I2cInv')
<1>1. ~fault /\ Good /\ Resting /\ ~busy /\ ~inten
  BY AtRest
<1>2. at # "setup" /\ at # "error"
  BY <1>1, SMT DEF I2cInv, Good
<1>3. Resting'
  BY <1>1, SMT DEF Resting, Told
<1>4. Good'
  BY <1>1, <1>3 DEF Good
<1>5. QED
  BY <1>1, <1>2, <1>4, SMT DEF I2cInv, Types, SetUp

LEMMA OffsetStep == I2cInv /\ I2c!Offset => I2cInv'
<1> SUFFICES ASSUME I2cInv, I2c!Offset PROVE I2cInv'
  OBVIOUS
<1> DEFINE t == (IF i = 0 THEN 0 ELSE total) + d
<1>1. /\ pc = "word" /\ at = "offset" /\ pc' = "write"
      /\ UNCHANGED <<mst, pending, ctl, mstdat, reading, fault, ptr, reg, inten, h, d>>
      /\ UNCHANGED <<state, next_state, sndbuf, rcvbuf, rcvbuflen, busy, n, x, p>>
  BY Zenon DEF I2c!Offset, I2c!bus, I2c!globals
<1>2. /\ total' = (IF i = 4 THEN 0 ELSE t) /\ prox_off' = (IF i = 4 THEN t \div 5 ELSE prox_off)
      /\ i' = (i + 1) % 5 /\ at' = (IF i = 4 THEN "light" ELSE at)
  BY Zenon DEF I2c!Offset
<1>3. t \in Nat /\ i \in 0 .. 4
  BY SMT DEF I2cInv, Types, Sums
<1>4. t \div 5 \in Nat
  <2> HIDE DEF t
  <2>1. QED
    BY <1>3, SMT
<1>5. total' \in Nat /\ prox_off' \in Nat
  <2> HIDE DEF t
  <2>1. prox_off \in Nat
    BY DEF I2cInv, Sums
  <2>2. QED
    BY <1>2, <1>3, <1>4, <2>1, SMT
<1>6. x = 0 /\ p = 0
  BY <1>1, SMT DEF I2cInv, Sums
<1>7. Sums'
  <2>1. x' = 0 /\ p' = 0
    BY <1>1, <1>6
  <2>2. 0 * (prox_off' + 26) = 0
    <3>1. \A v \in Int : 0 * v = 0
      BY SMT
    <3>2. prox_off' + 26 \in Int
      BY <1>5, SMT
    <3>3. QED
      BY <3>1, <3>2
  <2>3. x' * (prox_off' + 26) = 0
    BY <2>1, <2>2
  <2>4. x' \in Nat /\ p' \in Nat /\ 0 <= p'
    BY <2>1, SMT
  <2>5. x' * (prox_off' + 26) <= p'
    BY <2>3, <2>4
  <2>6. QED
    BY <1>5, <2>1, <2>4, <2>5 DEF Sums
<1>8. i' \in 0 .. 4 /\ at' \in {"offset", "light"}
  BY <1>1, <1>2, <1>3, SMT
<1>9. QED
  BY <1>1, <1>7, <1>8, CountsOn

LEMMA LightStep == I2cInv /\ I2c!Light => I2cInv'
<1> SUFFICES ASSUME I2cInv, I2c!Light PROVE I2cInv'
  OBVIOUS
<1>1. /\ pc = "word" /\ at' = "loop" /\ pc' = "write" /\ x' = 0 /\ p' = 0
      /\ UNCHANGED <<mst, pending, ctl, mstdat, reading, fault, ptr, reg, inten, h, d>>
      /\ UNCHANGED <<state, next_state, sndbuf, rcvbuf, rcvbuflen, busy, i, total, prox_off>>
  BY Zenon DEF I2c!Light, I2c!bus, I2c!globals
<1>2. Sums'
  BY <1>1, SMT DEF I2cInv, Sums
<1>3. i' \in 0 .. 4
  BY <1>1 DEF I2cInv, Types
<1>4. QED
  BY <1>1, <1>2, <1>3, CountsOn

LEMMA MeasureStep == I2cInv /\ I2c!Measure => I2cInv'
<1> SUFFICES ASSUME I2cInv, I2c!Measure PROVE I2cInv'
  OBVIOUS
<1> DEFINE large == d > prox_off + 25
           nn == IF large THEN n ELSE n + 1
           xx == IF large THEN x + 1 ELSE x
           ends == nn = 9 \/ xx = 10
<1>1. /\ pc = "word" /\ at = "loop" /\ pc' = "write"
      /\ UNCHANGED <<mst, pending, ctl, mstdat, reading, fault, ptr, reg, inten, h, d>>
      /\ UNCHANGED <<state, next_state, sndbuf, rcvbuf, rcvbuflen, busy, at, i, total, prox_off>>
  BY Zenon DEF I2c!Measure, I2c!bus, I2c!globals
<1>2. /\ x' = (IF ends THEN 0 ELSE xx)
      /\ p' = (IF ends THEN 0 ELSE IF large THEN p + d ELSE p)
  BY Zenon DEF I2c!Measure, I2c!PROX_THRESH
<1>3. /\ total \in Nat /\ prox_off \in Nat /\ x \in Nat /\ p \in Nat /\ d \in Nat
      /\ x * (prox_off + 26) <= p /\ (x = 0 => p = 0)
  BY DEF I2cInv, Types, Sums
<1>4. large => d >= prox_off + 26
  BY <1>3, SMT
<1>5. large => (x + 1) * (prox_off + 26) <= p + d
  <2>1. (x + 1) * (prox_off + 26) = x * (prox_off + 26) + (prox_off + 26)
    BY <1>3, SMT
  <2>2. x * (prox_off + 26) \in Int
    BY <1>3, SMT
  <2>3. QED
    BY <1>3, <1>4, <2>1, <2>2, SMT
<1>6. x' \in Nat /\ p' \in Nat /\ x' * (prox_off + 26) <= p' /\ (x' = 0 => p' = 0)
  <2>1. CASE ends
    BY <1>2, <1>3, <2>1, SMT
  <2>2. CASE ~ends /\ large
    <3>1. x' = x + 1 /\ p' = p + d
      BY <1>2, <2>2
    <3>2. QED
      BY <1>3, <1>5, <2>2, <3>1, SMT
  <2>3. CASE ~ends /\ ~large
    <3>1. x' = x /\ p' = p
      BY <1>2, <2>3
    <3>2. QED
      BY <1>3, <3>1
  <2>4. QED
    BY <2>1, <2>2, <2>3
<1>7. Sums'
  <2>1. total' \in Nat /\ prox_off' \in Nat
    BY <1>1, <1>3
  <2>2. at' \notin {"setup", "offset", "light"}
    BY <1>1, SMT
  <2>3. x' * (prox_off' + 26) <= p'
    BY <1>1, <1>6
  <2>4. QED
    BY <1>6, <2>1, <2>2, <2>3 DEF Sums
<1>8. i' \in 0 .. 4
  BY <1>1 DEF I2cInv, Types
<1>9. QED
  BY <1>1, <1>7, <1>8, CountsOn

LEMMA I2cInductive == I2cInv /\ [I2c!Next]_(I2c!vars) => I2cInv'
<1> SUFFICES ASSUME I2cInv, [I2c!Next]_(I2c!vars) PROVE I2cInv'
  OBVIOUS
<1>1. CASE I2c!Bus
  BY <1>1, BusStartStep, BusSendStep, BusStopStep, BusFaultStep DEF I2c!Bus
<1>2. CASE I2c!i2c_isr
  BY <1>2, AddressStep, TransferEndStep, ReceiveStep, TransmitStep, RefusedStep DEF I2c!i2c_isr
<1>3. CASE I2c!main
  BY <1>3, WriteStep, WrittenStep, ReadHighStep, ReadLowStep, ReadEndStep, OffsetStep,
     LightStep, MeasureStep DEF I2c!main
<1>4. CASE UNCHANGED I2c!vars
  <2>1. /\ UNCHANGED <<mst, pending, ctl, mstdat, reading, fault, ptr, reg, inten>>
        /\ UNCHANGED <<state, next_state, sndbuf, rcvbuf, rcvbuflen, busy, at, i, pc, h, d>>
        /\ UNCHANGED <<total, prox_off, n, x, p>>
    BY <1>4 DEF I2c!vars, I2c!bus, I2c!globals, I2c!sums
  <2>2. Target' = Target /\ Value' = Value /\ Source' = Source
    BY <2>1, SameRequest
  <2>3. Faulty => Faulty'
    BY <2>1, SMT DEF Faulty
  <2>4. Good => Good'
    BY <2>1, <2>2, SMT
       DEF Good, Writing, Selecting, Fetching, Resting, Told, Asked, Settled, Fetched
  <2>5. QED
    BY <2>1, <2>3, <2>4, SMT DEF I2cInv, Types, SetUp, Sums
<1>5. QED
  BY <1>1, <1>2, <1>3, <1>4 DEF I2c!Next

LEMMA I2cPromises ==
  I2cInv => I2c!Verdict /\ I2c!WordIsMeasured /\ I2c!SetUpFirst /\ I2c!RoundAddsUp
<1> SUFFICES ASSUME I2cInv PROVE I2c!Verdict /\ I2c!WordIsMeasured /\ I2c!SetUpFirst /\ I2c!RoundAddsUp
  OBVIOUS
<1>1. I2c!Verdict
  <2>1. at = "error" => fault
    BY SMT DEF I2cInv, Good
  <2>2. pc \in {"writing", "high", "low"} /\ ~busy => (state = next_state <=> ~fault)
    BY Over
  <2>3. QED
    BY <2>1, <2>2 DEF I2c!Verdict
<1>2. I2c!WordIsMeasured
  BY AtRest, SMT DEF Resting, I2c!WordIsMeasured, Source, I2c!LIGHT, I2c!PROXIMITY
<1>3. I2c!SetUpFirst
  <2>1. /\ I2c!Setup[1][1] = 131 /\ I2c!Setup[1][2] = 10
        /\ I2c!Setup[2][1] = 137 /\ I2c!Setup[2][2] = 2
        /\ I2c!Setup[3][1] = 138 /\ I2c!Setup[3][2] = 129
    BY SMT DEF I2c!Setup, I2c!IR_CURRENT, I2c!FREQUENCY, I2c!MODULATION
  <2>2. at \notin {"setup", "error"} => reg[131] = 10 /\ reg[137] = 2 /\ reg[138] = 129
    BY SMT DEF I2cInv, SetUp
  <2>3. \A c \in 1 .. 3 : c = 1 \/ c = 2 \/ c = 3
    BY SMT
  <2>4. QED
    BY <2>1, <2>2, <2>3 DEF I2c!SetUpFirst
<1>4. I2c!RoundAddsUp
  <2>1. prox_off \in Nat /\ x * (prox_off + 26) <= p /\ (x = 0 => p = 0)
    BY DEF I2cInv, Sums
  <2>2. prox_off + 25 + 1 = prox_off + 26
    BY <2>1, SMT
  <2>3. QED
    BY <2>1, <2>2 DEF I2c!RoundAddsUp, I2c!PROX_THRESH
<1>5. QED
  BY <1>1, <1>2, <1>3, <1>4

-----------------------------------------------------------------------------
(* spi_barometer: the words of a transfer.                                 *)

\* The words in a register.
Count(q) == IF q = None THEN 0 ELSE 1

SpiWords == [cmd : Nat, ignore : BOOLEAN, eot : BOOLEAN]

\* The words of the transfer, the registers they read, and their answers.
Sent == Spi!Array[what]
Length == IF what = "coeff" THEN 17 ELSE IF what = "conv" THEN 2 ELSE 9
First == IF what = "coeff" THEN 136 ELSE 128
Answers == IF what = "coeff" THEN 8 ELSE IF what = "conv" THEN 0 ELSE 4
Which == IF what = "press" THEN sample ELSE 0

\* Words that have left the shift register.
Done == Length - sndbuflen - Count(txdat) - Count(shift)

Quiet == /\ txdat = None /\ shift = None /\ rxdat = None
         /\ "TXRDY" \notin inten /\ ~ssel /\ ~conv

\* main() prepares a transfer, and nothing moves.
Preparing ==
  /\ Quiet
  /\ pc \in {"sndbuf", "sndbuflen", "rcvbuf", "rcvbuflen", "enable"}
  /\ what \in {"coeff", "conv", "press"}
  /\ pc \in {"sndbuf", "sndbuflen"} => sndbuflen = 0
  /\ pc # "sndbuf" => sndbuf = Sent
  /\ pc \in {"rcvbuf", "rcvbuflen", "enable"} => sndbuflen = Length
  /\ pc # "enable" => rcvbuflen = 0
  /\ pc = "enable" => rcvbuflen = Answers
  /\ pc \in {"rcvbuflen", "enable"} /\ what # "conv" => rcvbuf = 0

\* Every second word brings an answer, which is in the receiver or in buf.
Receiving ==
  /\ rcvbuf + rcvbuflen = Answers /\ rcvbuf + Count(rxdat) = Done \div 2
  /\ rxdat # None => rxdat = <<First + 2 * rcvbuf, Which>>
  /\ \A q \in 0 .. 7 : q < rcvbuf => buf[q] = <<First + 2 * q, Which>>

\* The transfer runs, or is over.
Running ==
  /\ pc \in {"wait", "pause"} /\ what \in {"coeff", "conv", "press"}
  /\ "TXRDY" \notin inten => sndbuflen = 0
  /\ Len(sndbuf) = sndbuflen /\ sndbuflen <= Length
  /\ \A q \in 1 .. sndbuflen : sndbuf[q] = Sent[Length - sndbuflen + q]
  /\ Done >= 0
  /\ txdat # None => txdat = Sent[Length - sndbuflen]
  /\ shift # None => shift = Sent[Done + 1]
  /\ Done > 0 => last = Sent[Done].cmd
  /\ Done = Length => ~ssel
  /\ IF what = "conv" THEN rxdat = None /\ rcvbuflen = 0 ELSE Receiving /\ ~conv
  /\ pc = "pause" => sndbuflen = 0 /\ rcvbuflen = 0

SpiTypes ==
  /\ "RXRDY" \in inten /\ inten \subseteq {"RXRDY", "TXRDY"}
  /\ ~unexpected_rxrdy
  /\ sample \in {0, 1} /\ sndbuf \in Seq(SpiWords) /\ sndbuflen \in Nat
  /\ buf \in [0 .. 7 -> Nat \X {0, 1}]
  /\ rcvbuf \in 0 .. 8 /\ rcvbuflen \in 0 .. 8 /\ rcvbuf + rcvbuflen <= 8

SpiInv ==
  /\ \/ what = "wakeup" /\ pc = "pause" /\ Quiet /\ sndbuflen = 0 /\ rcvbuflen = 0
     \/ Preparing
     \/ Running
  /\ SpiTypes

-----------------------------------------------------------------------------
LEMMA AWord ==
  ASSUME NEW c \in Nat, NEW g \in BOOLEAN, NEW e \in BOOLEAN
  PROVE  /\ Spi!Word(c, g, e) \in SpiWords
         /\ Spi!Word(c, g, e).cmd = c /\ Spi!Word(c, g, e).ignore = g /\ Spi!Word(c, g, e).eot = e
BY Zenon DEF Spi!Word, SpiWords

\* The commands that read a register, and a sequence of l words that reads the
\* registers from r on.
Commands == {v \in Int : v >= 128}

Reads(s, r, l) ==
  /\ s \in Seq(SpiWords) /\ Len(s) = l
  /\ \A q \in 1 .. l :
       /\ s[q].ignore <=> q % 2 = 1
       /\ s[q].eot <=> q = l
       /\ q % 2 = 1 /\ q < l => s[q].cmd = r + (q - 1)
       /\ s[q].cmd # 36

LEMMA AllRead ==
  ASSUME NEW r \in Commands, NEW m \in Nat, NEW l \in Nat, l = 2 * m + 1
  PROVE  Reads(Spi!ReadAll(r, m), r, l)
<1> DEFINE s == Spi!ReadAll(r, m)
           w(q) == IF q = l THEN Spi!Word(0, TRUE, TRUE)
                   ELSE IF q % 2 = 1 THEN Spi!Word(r + (q - 1), TRUE, FALSE)
                                     ELSE Spi!Word(0, FALSE, FALSE)
<1> r \in Nat
  BY SMT DEF Commands
<1>1. s = [q \in 1 .. l |-> w(q)]
  BY Zenon DEF Spi!ReadAll
<1>2. ASSUME NEW q \in 1 .. l
      PROVE  /\ w(q) \in SpiWords
             /\ w(q).ignore <=> q % 2 = 1
             /\ w(q).eot <=> q = l
             /\ q % 2 = 1 /\ q < l => w(q).cmd = r + (q - 1)
             /\ w(q).cmd # 36
  <2>1. l % 2 = 1 /\ r + (q - 1) \in Nat /\ r + (q - 1) # 36 /\ 0 # 36 /\ 0 \in Nat /\ q \in Nat
    BY SMT DEF Commands
  <2>2. CASE q = l
    <3>1. w(q) = Spi!Word(0, TRUE, TRUE)
      BY <2>2
    <3>2. w(q) \in SpiWords /\ w(q).cmd = 0 /\ w(q).ignore /\ w(q).eot
      BY <2>1, <3>1, AWord
    <3>3. q % 2 = 1 /\ ~(q < l)
      BY <2>1, <2>2, SMT
    <3>4. QED
      BY <2>1, <2>2, <3>2, <3>3
  <2>3. CASE q # l /\ q % 2 = 1
    <3>1. w(q) = Spi!Word(r + (q - 1), TRUE, FALSE)
      BY <2>3
    <3>2. w(q) \in SpiWords /\ w(q).cmd = r + (q - 1) /\ w(q).ignore /\ ~w(q).eot
      BY <2>1, <3>1, AWord
    <3>3. QED
      BY <2>1, <2>3, <3>2
  <2>4. CASE q # l /\ q % 2 # 1
    <3>1. w(q) = Spi!Word(0, FALSE, FALSE)
      BY <2>4
    <3>2. w(q) \in SpiWords /\ w(q).cmd = 0 /\ ~w(q).ignore /\ ~w(q).eot
      BY <2>1, <3>1, AWord
    <3>3. QED
      BY <2>1, <2>4, <3>2
  <2>5. QED
    BY <2>2, <2>3, <2>4
<1> HIDE DEF w
<1>3. s \in Seq(SpiWords) /\ Len(s) = l
  BY <1>1, <1>2, SMT
<1>4. \A q \in 1 .. l : s[q] = w(q)
  BY <1>1, Zenon
<1> HIDE DEF s
<1>5. \A q \in 1 .. l :
        /\ s[q].ignore <=> q % 2 = 1
        /\ s[q].eot <=> q = l
        /\ q % 2 = 1 /\ q < l => s[q].cmd = r + (q - 1)
        /\ s[q].cmd # 36
  BY <1>2, <1>4, Zenon
<1>6. QED
  BY <1>3, <1>5, Zenon DEF s, Reads

LEMMA SentWords ==
  ASSUME what \in {"coeff", "conv", "press"}
  PROVE  /\ Sent \in Seq(SpiWords) /\ Len(Sent) = Length
         /\ \A q \in 1 .. Length : Sent[q] \in SpiWords /\ (Sent[q].eot <=> q = Length)
         /\ what # "conv" => \A q \in 1 .. Length :
              /\ Sent[q].ignore <=> q % 2 = 1
              /\ q % 2 = 1 /\ q < Length => Sent[q].cmd = First + (q - 1)
              /\ Sent[q].cmd # 36
         /\ what = "conv" => \A q \in 1 .. Length : Sent[q].ignore
<1>1. \A t \in Seq(SpiWords) : \A q \in 1 .. Len(t) : t[q] \in SpiWords
  BY SMT
<1>2. CASE what = "coeff"
  <2> DEFINE r == 136  m == 8  l == 17
  <2>1. Sent = Spi!ReadAll(r, m) /\ Length = l /\ First = r
    BY <1>2, SMT DEF Sent, Spi!Array, Spi!READ_A0_MSB, Length, First
  <2>2. r \in Commands /\ m \in Nat /\ l \in Nat /\ l = 2 * m + 1
    BY SMT DEF Commands
  <2> HIDE DEF r, m, l
  <2>3. Reads(Sent, r, l)
    BY <2>1, <2>2, AllRead, Zenon
  <2>4. \A q \in 1 .. l : Sent[q] \in SpiWords
    BY <1>1, <2>3, Zenon DEF Reads
  <2>5. QED
    BY <1>2, <2>1, <2>3, <2>4, Zenon DEF Reads
<1>3. CASE what = "press"
  <2> DEFINE r == 128  m == 4  l == 9
  <2>1. Sent = Spi!ReadAll(r, m) /\ Length = l /\ First = r
    BY <1>3, SMT DEF Sent, Spi!Array, Spi!READ_PRESSURE_MSB, Length, First
  <2>2. r \in Commands /\ m \in Nat /\ l \in Nat /\ l = 2 * m + 1
    BY SMT DEF Commands
  <2> HIDE DEF r, m, l
  <2>3. Reads(Sent, r, l)
    BY <2>1, <2>2, AllRead, Zenon
  <2>4. \A q \in 1 .. l : Sent[q] \in SpiWords
    BY <1>1, <2>3, Zenon DEF Reads
  <2>5. QED
    BY <1>3, <2>1, <2>3, <2>4, Zenon DEF Reads
<1>4. CASE what = "conv"
  <2>1. Sent = <<Spi!Word(36, TRUE, FALSE), Spi!Word(0, TRUE, TRUE)>> /\ Length = 2
    BY <1>4 DEF Sent, Spi!Array, Spi!START_CONVERSIONS, Length
  <2>2. /\ Spi!Word(36, TRUE, FALSE) \in SpiWords /\ Spi!Word(0, TRUE, TRUE) \in SpiWords
        /\ Spi!Word(36, TRUE, FALSE).ignore /\ ~Spi!Word(36, TRUE, FALSE).eot
        /\ Spi!Word(0, TRUE, TRUE).ignore /\ Spi!Word(0, TRUE, TRUE).eot
    BY AWord, 36 \in Nat, 0 \in Nat
  <2>3. Sent \in Seq(SpiWords) /\ Len(Sent) = 2
    <3>1. \A v, w \in SpiWords : <<v, w>> \in Seq(SpiWords) /\ Len(<<v, w>>) = 2
      BY SMT
    <3>2. QED
      BY <2>1, <2>2, <3>1
  <2>4. \A q \in 1 .. 2 : q = 1 \/ q = 2
    BY SMT
  <2>5. Sent[1] = Spi!Word(36, TRUE, FALSE) /\ Sent[2] = Spi!Word(0, TRUE, TRUE)
    BY <2>1, SMT
  <2>6. 1 # 2
    BY SMT
  <2>7. QED
    BY <1>4, <2>1, <2>2, <2>3, <2>4, <2>5, <2>6
<1>5. QED
  BY <1>2, <1>3, <1>4

LEMMA WordsAreSome == \A v \in SpiWords : v # None
<1>1. None \notin SpiWords
  BY SensorsAssumption DEF SpiWords
<1>2. QED
  BY <1>1

LEMMA SpiInitially == Spi!Init => SpiInv
<1> SUFFICES ASSUME Spi!Init PROVE SpiInv
  OBVIOUS
<1>1. /\ txdat = None /\ shift = None /\ rxdat = None /\ inten = {"RXRDY"} /\ sample = 0
      /\ sndbuf = <<>> /\ sndbuflen = 0 /\ rcvbuf = 0 /\ rcvbuflen = 0
      /\ what = "wakeup" /\ pc = "pause" /\ buf = [q \in 0 .. 7 |-> <<0, 0>>]
  BY Zenon DEF Spi!Init
<1>2. ~ssel /\ ~conv /\ ~unexpected_rxrdy
  BY DEF Spi!Init
<1>3. Quiet
  BY <1>1, <1>2, SMT DEF Quiet
<1>4. buf \in [0 .. 7 -> Nat \X {0, 1}]
  BY <1>1, SMT
<1>5. sndbuf \in Seq(SpiWords)
  BY <1>1, SMT
<1>6. SpiTypes
  BY <1>1, <1>2, <1>4, <1>5, SMT DEF SpiTypes
<1>7. QED
  BY <1>1, <1>3, <1>6 DEF SpiInv

-----------------------------------------------------------------------------
(* The master and the sensor.                                              *)

LEMMA SameTransfer ==
  what' = what => Sent' = Sent /\ Length' = Length /\ First' = First /\ Answers' = Answers
BY DEF Sent, Length, First, Answers

\* Where a word is under way, a transfer is running.
LEMMA UnderWay ==
  ASSUME SpiInv, txdat # None \/ shift # None \/ rxdat # None \/ "TXRDY" \in inten \/ conv
  PROVE  /\ Running /\ SpiTypes /\ Done \in Nat /\ Length \in {2, 9, 17}
         /\ Length - sndbuflen - Count(txdat) = Done + Count(shift)
<1>1. Running /\ SpiTypes
  BY DEF SpiInv, Preparing, Quiet
<1>2. sndbuflen \in Nat /\ Length \in {2, 9, 17} /\ Count(txdat) \in {0, 1} /\ Count(shift) \in {0, 1}
  BY <1>1 DEF SpiTypes, Length, Count
<1>3. QED
  BY <1>1, <1>2, SMT DEF Running, Done

LEMMA ShiftStep == SpiInv /\ Spi!Shift => SpiInv'
<1> SUFFICES ASSUME SpiInv, Spi!Shift PROVE SpiInv'
  OBVIOUS
<1>1. /\ txdat # None /\ shift = None /\ shift' = txdat /\ txdat' = None
      /\ UNCHANGED <<rxdat, last, sample, inten, sndbuf, sndbuflen, rcvbuf, rcvbuflen, buf, what, pc>>
      /\ conv' = conv /\ unexpected_rxrdy' = unexpected_rxrdy
  BY Zenon DEF Spi!Shift, Spi!globals
<1>2. Running /\ SpiTypes /\ Done \in Nat /\ Length \in {2, 9, 17} /\ sndbuflen \in Nat
  BY <1>1, UnderWay DEF SpiTypes
<1>3. /\ Sent' = Sent /\ Length' = Length /\ First' = First /\ Answers' = Answers /\ Which' = Which
      /\ Count(rxdat)' = Count(rxdat)
  BY <1>1, SameTransfer DEF Which, Count
<1>4. Count(txdat) = 1 /\ Count(shift) = 0 /\ Count(txdat)' = 0 /\ Count(shift)' = 1
  BY <1>1 DEF Count
<1>5. Done' = Done /\ Done = (Length - sndbuflen) - 1
  BY <1>1, <1>2, <1>3, <1>4, SMT DEF Done
<1>6. Receiving => Receiving'
  BY <1>1, <1>3, <1>5, SMT DEF Receiving
<1>7. shift' = Sent[Done + 1] /\ Done # Length
  BY <1>1, <1>2, <1>5, SMT DEF Running
<1>8. Running'
  BY <1>1, <1>2, <1>3, <1>5, <1>6, <1>7 DEF Running
<1>9. QED
  BY <1>1, <1>2, <1>8 DEF SpiInv, SpiTypes

LEMMA ConvertStep == SpiInv /\ Spi!Convert => SpiInv'
<1> SUFFICES ASSUME SpiInv, Spi!Convert PROVE SpiInv'
  OBVIOUS
<1>1. /\ conv /\ sample' = 1 - sample
      /\ UNCHANGED <<txdat, shift, rxdat, last, inten, sndbuf, sndbuflen, rcvbuf, rcvbuflen, buf, what, pc>>
      /\ ssel' = ssel /\ unexpected_rxrdy' = unexpected_rxrdy
  BY Zenon DEF Spi!Convert, Spi!globals
<1>2. Running /\ SpiTypes
  BY <1>1, UnderWay
<1>3. what = "conv"
  BY <1>1, <1>2 DEF Running
<1>4. Sent' = Sent /\ Length' = Length /\ Done' = Done
  BY <1>1, SameTransfer DEF Done, Count
<1>5. Running'
  BY <1>1, <1>2, <1>3, <1>4 DEF Running
<1>6. sample' \in {0, 1}
  BY <1>1, <1>2, SMT DEF SpiTypes
<1>7. QED
  BY <1>1, <1>2, <1>5, <1>6 DEF SpiInv, SpiTypes

LEMMA AReply ==
  ASSUME NEW c \in Nat, SpiTypes
  PROVE  /\ Spi!Reply(c) # None
         /\ 128 <= c /\ c <= 134 => Spi!Reply(c) = <<c, sample>>
         /\ 136 <= c => Spi!Reply(c) = <<c, 0>>
<1>1. /\ 128 <= c /\ c <= 134 => Spi!Reply(c) = <<c, sample>>
      /\ 136 <= c => Spi!Reply(c) = <<c, 0>>
      /\ Spi!Reply(c) = <<c, sample>> \/ Spi!Reply(c) = <<c, 0>>
  BY SMT DEF Spi!Reply
<1>2. sample \in {0, 1} /\ 0 \in {0, 1}
  BY DEF SpiTypes
<1>3. Spi!Reply(c) \in Nat \X {0, 1}
  <2>1. \A v \in {0, 1} : <<c, v>> \in Nat \X {0, 1}
    BY SMT
  <2>2. QED
    BY <1>1, <1>2, <2>1
<1>4. QED
  BY <1>1, <1>3, SensorsAssumption, SMT

\* A word that leaves the shift register: the sensor answers the command
\* before it, unless it is to be ignored.
LEMMA CompleteReceives ==
  ASSUME SpiInv, Spi!Complete, what # "conv"
  PROVE  Receiving'
<1>1. /\ shift # None /\ (shift.ignore \/ rxdat = None)
      /\ rxdat' = IF shift.ignore THEN rxdat ELSE Spi!Reply(last)
      /\ shift' = None
      /\ UNCHANGED <<txdat, sample, sndbuf, sndbuflen, rcvbuf, rcvbuflen, buf, what>>
  BY Zenon DEF Spi!Complete, Spi!globals
<1>2. Running /\ SpiTypes /\ Done \in Nat /\ Length \in {2, 9, 17} /\ sndbuflen \in Nat
  BY <1>1, UnderWay DEF SpiTypes
<1>3. Sent' = Sent /\ Length' = Length /\ First' = First /\ Answers' = Answers /\ Which' = Which
  BY <1>1, SameTransfer DEF Which
<1>4. Count(shift) = 1 /\ Count(shift)' = 0 /\ Count(txdat)' = Count(txdat) /\ Count(txdat) \in {0, 1}
  BY <1>1 DEF Count
<1>5. Done' = Done + 1 /\ Done + 1 <= Length
  BY <1>1, <1>2, <1>3, <1>4, SMT DEF Done
<1>6. Receiving /\ what \in {"coeff", "press"}
  BY <1>2 DEF Running
<1>7. /\ shift = Sent[Done + 1]
      /\ Sent[Done + 1].ignore <=> (Done + 1) % 2 = 1
      /\ Done > 0 /\ Done % 2 = 1 => last = First + (Done - 1)
  <2>1. Done + 1 \in 1 .. Length /\ (Done > 0 => Done \in 1 .. Length /\ Done < Length)
    BY <1>2, <1>5, SMT
  <2>2. shift = Sent[Done + 1] /\ (Done > 0 => last = Sent[Done].cmd)
    BY <1>1, <1>2 DEF Running
  <2>3. QED
    BY <1>6, <2>1, <2>2, SentWords
<1>8. First \in Nat /\ rcvbuf \in Nat /\ rcvbuflen \in Nat
  BY <1>2, SMT DEF First, SpiTypes
<1>9. CASE shift.ignore
  <2>1. rxdat' = rxdat
    BY <1>1, <1>9
  <2>2. (Done + 1) \div 2 = Done \div 2
    BY <1>2, <1>7, <1>9, SMT
  <2>3. Count(rxdat)' = Count(rxdat)
    BY <2>1 DEF Count
  <2>4. QED
    BY <1>1, <1>3, <1>5, <1>6, <2>1, <2>2, <2>3 DEF Receiving
<1>10. CASE ~shift.ignore
  <2>1. rxdat = None /\ rxdat' = Spi!Reply(last)
    BY <1>1, <1>10
  <2>2. Done % 2 = 1 /\ Done > 0 /\ (Done + 1) \div 2 = Done \div 2 + 1 /\ Done - 1 = 2 * (Done \div 2)
    BY <1>2, <1>7, <1>10, SMT
  <2>3. rcvbuf = Done \div 2
    BY <1>6, <1>8, <2>1, SMT DEF Receiving, Count
  <2>4. last = First + 2 * rcvbuf
    BY <1>7, <2>2, <2>3
  <2>5. Spi!Reply(last) = <<First + 2 * rcvbuf, Which>> /\ Spi!Reply(last) # None
    <3>1. last \in Nat
      BY <1>8, <2>4, SMT
    <3>2. CASE what = "coeff"
      <4>1. 136 <= last /\ Which = 0
        BY <1>8, <2>4, <3>2, SMT DEF First, Which
      <4>2. QED
        BY <1>2, <2>4, <3>1, <4>1, AReply, SMT
    <3>3. CASE what = "press"
      <4>1. 128 <= last /\ last <= 134 /\ Which = sample
        BY <1>2, <1>5, <1>8, <2>2, <2>3, <2>4, <3>3, SMT DEF First, Which, Length
      <4>2. QED
        BY <1>2, <2>4, <3>1, <4>1, AReply, SMT
    <3>4. QED
      BY <1>6, <3>2, <3>3
  <2>6. Count(rxdat)' = 1
    BY <2>1, <2>5 DEF Count
  <2>7. QED
    BY <1>1, <1>3, <1>5, <1>6, <1>8, <2>1, <2>2, <2>3, <2>5, <2>6, SMT DEF Receiving
<1>11. QED
  BY <1>9, <1>10

LEMMA CompleteStep == SpiInv /\ Spi!Complete => SpiInv'
<1> SUFFICES ASSUME SpiInv, Spi!Complete PROVE SpiInv'
  OBVIOUS
<1>1. /\ shift # None /\ (shift.ignore \/ rxdat = None)
      /\ rxdat' = IF shift.ignore THEN rxdat ELSE Spi!Reply(last)
      /\ last' = shift.cmd
      /\ shift' = None
      /\ UNCHANGED <<txdat, sample, inten, sndbuf, sndbuflen, rcvbuf, rcvbuflen, buf, what, pc>>
      /\ unexpected_rxrdy' = unexpected_rxrdy
  BY Zenon DEF Spi!Complete, Spi!globals
<1>2. (conv' <=> conv \/ shift.cmd = 36) /\ (ssel' <=> ~shift.eot)
  BY DEF Spi!Complete, Spi!START_CONVERSIONS
<1>3. Running /\ SpiTypes /\ Done \in Nat /\ Length \in {2, 9, 17} /\ sndbuflen \in Nat
  BY <1>1, UnderWay DEF SpiTypes
<1>4. Sent' = Sent /\ Length' = Length
  BY <1>1, SameTransfer
<1>5. Count(shift) = 1 /\ Count(shift)' = 0 /\ Count(txdat)' = Count(txdat) /\ Count(txdat) \in {0, 1}
  BY <1>1 DEF Count
<1>6. Done' = Done + 1 /\ Done + 1 \in 1 .. Length
  BY <1>1, <1>3, <1>4, <1>5, SMT DEF Done
<1>7. shift = Sent[Done + 1] /\ what \in {"coeff", "conv", "press"}
  BY <1>1, <1>3 DEF Running
<1>8. Done' = Length' => ~ssel'
  BY <1>2, <1>4, <1>6, <1>7, SentWords
<1>9. IF what' = "conv" THEN (rxdat = None)' /\ (rcvbuflen = 0)' ELSE Receiving' /\ ~conv'
  <2>1. CASE what = "conv"
    <3>1. shift.ignore
      BY <1>6, <1>7, <2>1, SentWords
    <3>2. QED
      BY <1>1, <1>3, <2>1, <3>1 DEF Running
  <2>2. CASE what # "conv"
    <3>1. ~conv /\ shift.cmd # 36
      BY <1>3, <1>6, <1>7, <2>2, SentWords DEF Running
    <3>2. Receiving'
      BY <2>2, CompleteReceives
    <3>3. QED
      BY <1>1, <1>2, <2>2, <3>1, <3>2
  <2>3. QED
    BY <2>1, <2>2
<1>10. Done' >= 0 /\ last' = Sent[Done'].cmd
  BY <1>1, <1>3, <1>6, <1>7, SMT
<1>11. Running'
  BY <1>1, <1>3, <1>4, <1>8, <1>9, <1>10 DEF Running
<1>12. QED
  BY <1>1, <1>3, <1>11 DEF SpiInv, SpiTypes

-----------------------------------------------------------------------------
(* spi0_isr.                                                               *)

LEMMA Suffixes ==
  ASSUME NEW s \in Seq(SpiWords), Len(s) > 0
  PROVE  /\ Head(s) = s[1] /\ Head(s) \in SpiWords
         /\ Tail(s) \in Seq(SpiWords) /\ Len(Tail(s)) = Len(s) - 1
         /\ \A q \in 1 .. Len(s) - 1 : Tail(s)[q] = s[q + 1]
BY SMT

LEMMA IsrStep == SpiInv /\ Spi!spi0_isr => SpiInv'
<1> SUFFICES ASSUME SpiInv, Spi!spi0_isr PROVE SpiInv'
  OBVIOUS
<1>1. /\ UNCHANGED <<shift, last, sample, what, pc>>
      /\ ssel' = ssel /\ conv' = conv
  BY Zenon DEF Spi!spi0_isr
<1>2. /\ "TXRDY" \in Spi!Status <=> "TXRDY" \in inten /\ txdat = None
      /\ "RXRDY" \in Spi!Status <=> "RXRDY" \in inten /\ rxdat # None
      /\ "TXRDY" \in Spi!Status \/ "RXRDY" \in Spi!Status
  BY DEF Spi!spi0_isr, Spi!Status
<1>3. \/ UNCHANGED <<txdat, inten, sndbuf, sndbuflen>>
      \/ /\ "TXRDY" \in inten /\ txdat = None /\ sndbuflen > 0
         /\ txdat' = Head(sndbuf) /\ sndbuf' = Tail(sndbuf) /\ sndbuflen' = sndbuflen - 1
         /\ inten' = inten
      \/ /\ ~(sndbuflen > 0)
         /\ inten' = inten \ {"TXRDY"}
         /\ UNCHANGED <<txdat, sndbuf, sndbuflen>>
  BY <1>2, Zenon DEF Spi!spi0_isr, Spi!Transmit
<1>4. \/ /\ UNCHANGED <<rxdat, buf, rcvbuf, rcvbuflen>>
         /\ unexpected_rxrdy' = unexpected_rxrdy
      \/ /\ rxdat # None /\ rxdat' = None
         /\ rcvbuflen > 0 /\ buf' = [buf EXCEPT ![rcvbuf] = rxdat]
         /\ rcvbuf' = rcvbuf + 1 /\ rcvbuflen' = rcvbuflen - 1
         /\ unexpected_rxrdy' = unexpected_rxrdy
      \/ rxdat # None /\ ~(rcvbuflen > 0)
  BY <1>2, Zenon DEF Spi!spi0_isr, Spi!Receive
<1>5. Running /\ SpiTypes /\ Done \in Nat /\ Length \in {2, 9, 17} /\ sndbuflen \in Nat
  BY <1>2, UnderWay DEF SpiTypes
<1>6. Sent' = Sent /\ Length' = Length /\ First' = First /\ Answers' = Answers /\ Which' = Which
  BY <1>1, SameTransfer DEF Which
<1>7. Count(shift)' = Count(shift) /\ Count(shift) \in {0, 1} /\ Count(txdat) \in {0, 1}
  BY <1>1 DEF Count
\* What is sent.
<1>8. /\ Done' = Done
      /\ "TXRDY" \notin inten' => sndbuflen' = 0
      /\ Len(sndbuf') = sndbuflen' /\ sndbuflen' <= Length /\ sndbuflen' \in Nat
      /\ sndbuflen = 0 => sndbuflen' = 0
      /\ sndbuf' \in Seq(SpiWords)
      /\ \A q \in 1 .. sndbuflen' : sndbuf'[q] = Sent[Length - sndbuflen' + q]
      /\ txdat' # None => txdat' = Sent[Length - sndbuflen']
      /\ "RXRDY" \in inten' /\ inten' \subseteq {"RXRDY", "TXRDY"}
  <2>1. CASE UNCHANGED <<txdat, inten, sndbuf, sndbuflen>>
    <3>1. Done' = Done
      BY <1>6, <1>7, <2>1 DEF Done, Count
    <3>2. QED
      BY <1>5, <2>1, <3>1 DEF Running, SpiTypes
  <2>2. CASE /\ "TXRDY" \in inten /\ txdat = None /\ sndbuflen > 0
             /\ txdat' = Head(sndbuf) /\ sndbuf' = Tail(sndbuf) /\ sndbuflen' = sndbuflen - 1
             /\ inten' = inten
    <3>1. /\ sndbuf \in Seq(SpiWords) /\ Len(sndbuf) = sndbuflen /\ sndbuflen <= Length
          /\ \A q \in 1 .. sndbuflen : sndbuf[q] = Sent[Length - sndbuflen + q]
      BY <1>5 DEF Running, SpiTypes
    <3>2. /\ txdat' = sndbuf[1] /\ txdat' \in SpiWords
          /\ sndbuf' \in Seq(SpiWords) /\ Len(sndbuf') = sndbuflen - 1
          /\ \A q \in 1 .. sndbuflen - 1 : sndbuf'[q] = sndbuf[q + 1]
      BY <2>2, <3>1, Suffixes
    <3>3. Count(txdat) = 0 /\ Count(txdat)' = 1
      BY <2>2, <3>2, WordsAreSome DEF Count
    <3>4. Done' = Done
      BY <1>5, <1>6, <1>7, <2>2, <3>3, SMT DEF Done
    <3>5. txdat' = Sent[Length - sndbuflen']
      <4>1. 1 \in 1 .. sndbuflen /\ Length - sndbuflen + 1 = Length - (sndbuflen - 1)
        BY <1>5, <2>2, SMT
      <4>2. QED
        BY <2>2, <3>1, <3>2, <4>1
    <3>6. ASSUME NEW q \in 1 .. sndbuflen' PROVE sndbuf'[q] = Sent[Length - sndbuflen' + q]
      <4>1. /\ q + 1 \in 1 .. sndbuflen /\ q \in 1 .. sndbuflen - 1
            /\ Length - sndbuflen + (q + 1) = Length - sndbuflen' + q
        BY <1>5, <2>2, SMT
      <4>2. sndbuf'[q] = sndbuf[q + 1] /\ sndbuf[q + 1] = Sent[Length - sndbuflen + (q + 1)]
        BY <3>1, <3>2, <4>1
      <4>3. QED
        BY <4>1, <4>2
    <3>7. sndbuflen' \in Nat /\ sndbuflen' <= Length /\ Len(sndbuf') = sndbuflen' /\ sndbuflen # 0
      BY <1>5, <2>2, <3>1, <3>2, SMT
    <3>8. "RXRDY" \in inten' /\ inten' \subseteq {"RXRDY", "TXRDY"} /\ "TXRDY" \in inten'
      BY <1>5, <2>2 DEF SpiTypes
    <3>9. QED
      BY <3>2, <3>4, <3>5, <3>6, <3>7, <3>8
  <2>3. CASE /\ ~(sndbuflen > 0)
             /\ inten' = inten \ {"TXRDY"}
             /\ UNCHANGED <<txdat, sndbuf, sndbuflen>>
    <3>1. Done' = Done
      BY <1>6, <1>7, <2>3 DEF Done, Count
    <3>2. sndbuflen = 0
      BY <1>5, <2>3, SMT
    <3>3. "RXRDY" \in inten' /\ inten' \subseteq {"RXRDY", "TXRDY"}
      BY <1>5, <2>3 DEF SpiTypes
    <3>4. QED
      BY <1>5, <2>3, <3>1, <3>2, <3>3 DEF Running, SpiTypes
  <2>4. QED
    BY <1>3, <2>1, <2>2, <2>3
\* What is received.
<1>9. rcvbuf \in 0 .. 8 /\ rcvbuflen \in 0 .. 8 /\ buf \in [0 .. 7 -> Nat \X {0, 1}] /\ sample \in {0, 1}
  BY <1>5 DEF SpiTypes
<1>10. rxdat # None => what # "conv" /\ Receiving /\ rcvbuflen > 0 /\ rcvbuf < 8 /\ pc # "pause"
  <2>1. SUFFICES ASSUME rxdat # None
                 PROVE  what # "conv" /\ Receiving /\ rcvbuflen > 0 /\ rcvbuf < 8 /\ pc # "pause"
    OBVIOUS
  <2>2. what # "conv" /\ Receiving
    BY <1>5, <2>1 DEF Running
  <2>3. Done <= Length /\ Count(rxdat) = 1
    BY <1>5, <1>7, <2>1, SMT DEF Done, Count
  <2>4. Answers = Length \div 2 /\ Answers <= 8
    BY <1>5, <2>2, SMT DEF Answers, Length, Running
  <2>5. rcvbuf + 1 <= Answers /\ rcvbuf + rcvbuflen = Answers
    BY <1>5, <1>9, <2>2, <2>3, <2>4, SMT DEF Receiving
  <2>6. rcvbuflen > 0 /\ rcvbuf < 8
    BY <1>9, <2>4, <2>5, SMT
  <2>7. QED
    BY <1>5, <1>9, <2>2, <2>6, SMT DEF Running
<1>11. CASE /\ UNCHANGED <<rxdat, buf, rcvbuf, rcvbuflen>>
            /\ unexpected_rxrdy' = unexpected_rxrdy
  <2>1. Count(rxdat)' = Count(rxdat)
    BY <1>11 DEF Count
  <2>2. Receiving => Receiving'
    BY <1>6, <1>8, <1>11, <2>1 DEF Receiving
  <2>3. Running'
    BY <1>1, <1>5, <1>6, <1>8, <1>11, <2>2 DEF Running
  <2>4. SpiTypes'
    BY <1>1, <1>5, <1>8, <1>11 DEF SpiTypes
  <2>5. QED
    BY <2>3, <2>4 DEF SpiInv
<1>12. CASE /\ rxdat # None /\ rxdat' = None
            /\ rcvbuflen > 0 /\ buf' = [buf EXCEPT ![rcvbuf] = rxdat]
            /\ rcvbuf' = rcvbuf + 1 /\ rcvbuflen' = rcvbuflen - 1
            /\ unexpected_rxrdy' = unexpected_rxrdy
  <2>1. Count(rxdat) = 1 /\ Count(rxdat)' = 0
    BY <1>12 DEF Count
  <2>2. /\ rxdat = <<First + 2 * rcvbuf, Which>> /\ First \in Nat /\ Which \in {0, 1}
        /\ rcvbuf + rcvbuflen = Answers /\ rcvbuf + 1 = Done \div 2
        /\ \A q \in 0 .. 7 : q < rcvbuf => buf[q] = <<First + 2 * q, Which>>
    <3>1. First \in Nat /\ Which \in {0, 1}
      BY <1>9, SMT DEF First, Which
    <3>2. QED
      BY <1>10, <1>12, <2>1, <3>1, Zenon DEF Receiving
  <2>3. rxdat \in Nat \X {0, 1}
    BY <1>9, <2>2, SMT
  <2>4. buf' \in [0 .. 7 -> Nat \X {0, 1}]
    BY <1>9, <1>12, <2>3, Zenon
  <2>5. ASSUME NEW q \in 0 .. 7, q < rcvbuf + 1 PROVE buf'[q] = <<First + 2 * q, Which>>
    <3>1. CASE q = rcvbuf
      BY <1>9, <1>12, <2>2, <3>1
    <3>2. CASE q # rcvbuf
      <4>1. q < rcvbuf
        BY <1>9, <2>5, <3>2, SMT
      <4>2. buf'[q] = buf[q]
        BY <1>9, <1>12, <3>2, Zenon
      <4>3. QED
        BY <2>2, <4>1, <4>2
    <3>3. QED
      BY <3>1, <3>2
  <2>6. rcvbuf' + rcvbuflen' = Answers /\ rcvbuf' + 0 = Done \div 2
    BY <1>9, <1>12, <2>2, SMT
  <2>7. Receiving'
    BY <1>6, <1>8, <1>12, <2>1, <2>5, <2>6 DEF Receiving
  <2>8. what' # "conv" /\ ~conv' /\ pc' # "pause"
    BY <1>1, <1>5, <1>10, <1>12 DEF Running
  <2>9. Running'
    BY <1>1, <1>5, <1>6, <1>8, <2>7, <2>8 DEF Running
  <2>10. rcvbuf' \in 0 .. 8 /\ rcvbuflen' \in 0 .. 8 /\ rcvbuf' + rcvbuflen' <= 8
    BY <1>5, <1>9, <1>10, <1>12, SMT DEF SpiTypes
  <2>11. SpiTypes'
    BY <1>1, <1>5, <1>8, <1>12, <2>4, <2>10 DEF SpiTypes
  <2>12. QED
    BY <2>9, <2>11 DEF SpiInv
<1>13. QED
  BY <1>4, <1>10, <1>11, <1>12

-----------------------------------------------------------------------------
(* main().                                                                 *)

LEMMA Lengths ==
  what \in {"coeff", "conv", "press"} =>
    /\ Length \in {2, 9, 17} /\ Spi!Replies[what] = Answers /\ Answers \in {0, 4, 8}
    /\ what = "conv" <=> Answers = 0
BY DEF Length, Answers, Spi!Replies

LEMMA SetSndbufStep == SpiInv /\ Spi!SetSndbuf => SpiInv'
<1> SUFFICES ASSUME SpiInv, Spi!SetSndbuf PROVE SpiInv'
  OBVIOUS
<1>1. /\ pc = "sndbuf" /\ pc' = "sndbuflen" /\ sndbuf' = Sent
      /\ UNCHANGED <<txdat, shift, rxdat, last, sample, inten, sndbuflen, rcvbuf, rcvbuflen, buf, what>>
      /\ ssel' = ssel /\ conv' = conv /\ unexpected_rxrdy' = unexpected_rxrdy
  BY Zenon DEF Spi!SetSndbuf, Spi!wire, Sent
<1>2. Preparing /\ SpiTypes
  BY <1>1 DEF SpiInv, Running
<1>3. Sent' = Sent /\ Sent \in Seq(SpiWords)
  BY <1>1, <1>2, SameTransfer, SentWords DEF Preparing
<1>4. Quiet'
  BY <1>1, <1>2 DEF Preparing, Quiet
<1>5. Preparing'
  BY <1>1, <1>2, <1>3, <1>4 DEF Preparing
<1>6. SpiTypes'
  BY <1>1, <1>2, <1>3 DEF SpiTypes
<1>7. QED
  BY <1>5, <1>6 DEF SpiInv

LEMMA SetSndbuflenStep == SpiInv /\ Spi!SetSndbuflen => SpiInv'
<1> SUFFICES ASSUME SpiInv, Spi!SetSndbuflen PROVE SpiInv'
  OBVIOUS
<1>1. /\ pc = "sndbuflen" /\ pc' = (IF what = "conv" THEN "rcvbuflen" ELSE "rcvbuf")
      /\ sndbuflen' = Len(Sent)
      /\ UNCHANGED <<txdat, shift, rxdat, last, sample, inten, sndbuf, rcvbuf, rcvbuflen, buf, what>>
      /\ ssel' = ssel /\ conv' = conv /\ unexpected_rxrdy' = unexpected_rxrdy
  BY Zenon DEF Spi!SetSndbuflen, Spi!wire, Sent
<1>2. Preparing /\ SpiTypes
  BY <1>1 DEF SpiInv, Running
<1>3. Sent' = Sent /\ Length' = Length /\ sndbuflen' = Length /\ Length \in Nat
  BY <1>1, <1>2, SameTransfer, SentWords, Lengths DEF Preparing
<1>4. Quiet'
  BY <1>1, <1>2 DEF Preparing, Quiet
<1>5. pc' \in {"rcvbuf", "rcvbuflen"} /\ (what # "conv" => pc' = "rcvbuf")
  BY <1>1
<1>6. Preparing'
  BY <1>1, <1>2, <1>3, <1>4, <1>5 DEF Preparing
<1>7. SpiTypes'
  BY <1>1, <1>2, <1>3 DEF SpiTypes
<1>8. QED
  BY <1>6, <1>7 DEF SpiInv

LEMMA SetRcvbufStep == SpiInv /\ Spi!SetRcvbuf => SpiInv'
<1> SUFFICES ASSUME SpiInv, Spi!SetRcvbuf PROVE SpiInv'
  OBVIOUS
<1>1. /\ pc = "rcvbuf" /\ pc' = "rcvbuflen" /\ rcvbuf' = 0
      /\ UNCHANGED <<txdat, shift, rxdat, last, sample, inten, sndbuf, sndbuflen, rcvbuflen, buf, what>>
      /\ ssel' = ssel /\ conv' = conv /\ unexpected_rxrdy' = unexpected_rxrdy
  BY Zenon DEF Spi!SetRcvbuf, Spi!wire
<1>2. Preparing /\ SpiTypes
  BY <1>1 DEF SpiInv, Running
<1>3. Sent' = Sent /\ Length' = Length
  BY <1>1, SameTransfer
<1>4. Quiet'
  BY <1>1, <1>2 DEF Preparing, Quiet
<1>5. Preparing'
  BY <1>1, <1>2, <1>3, <1>4 DEF Preparing
<1>6. rcvbuf' \in 0 .. 8 /\ rcvbuf' + rcvbuflen' <= 8
  BY <1>1, <1>2, SMT DEF SpiTypes
<1>7. SpiTypes'
  BY <1>1, <1>2, <1>6 DEF SpiTypes
<1>8. QED
  BY <1>5, <1>7 DEF SpiInv

LEMMA SetRcvbuflenStep == SpiInv /\ Spi!SetRcvbuflen => SpiInv'
<1> SUFFICES ASSUME SpiInv, Spi!SetRcvbuflen PROVE SpiInv'
  OBVIOUS
<1>1. /\ pc = "rcvbuflen" /\ pc' = "enable" /\ rcvbuflen' = Spi!Replies[what]
      /\ UNCHANGED <<txdat, shift, rxdat, last, sample, inten, sndbuf, sndbuflen, rcvbuf, buf, what>>
      /\ ssel' = ssel /\ conv' = conv /\ unexpected_rxrdy' = unexpected_rxrdy
  BY Zenon DEF Spi!SetRcvbuflen, Spi!wire
<1>2. Preparing /\ SpiTypes
  BY <1>1 DEF SpiInv, Running
<1>3. /\ Sent' = Sent /\ Length' = Length /\ Answers' = Answers /\ rcvbuflen' = Answers
      /\ Answers \in {0, 4, 8} /\ (what = "conv" <=> Answers = 0)
  BY <1>1, <1>2, SameTransfer, Lengths DEF Preparing
<1>4. Quiet'
  BY <1>1, <1>2 DEF Preparing, Quiet
<1>5. Preparing'
  BY <1>1, <1>2, <1>3, <1>4 DEF Preparing
<1>6. rcvbuflen' \in 0 .. 8 /\ rcvbuf' + rcvbuflen' <= 8
  BY <1>1, <1>2, <1>3, SMT DEF SpiTypes, Preparing
<1>7. SpiTypes'
  BY <1>1, <1>2, <1>6 DEF SpiTypes
<1>8. QED
  BY <1>5, <1>7 DEF SpiInv

LEMMA EnableStep == SpiInv /\ Spi!Enable => SpiInv'
<1> SUFFICES ASSUME SpiInv, Spi!Enable PROVE SpiInv'
  OBVIOUS
<1>1. /\ pc = "enable" /\ pc' = "wait" /\ inten' = inten \cup {"TXRDY"}
      /\ UNCHANGED <<txdat, shift, rxdat, last, sample, sndbuf, sndbuflen, rcvbuf, rcvbuflen, buf, what>>
      /\ ssel' = ssel /\ conv' = conv /\ unexpected_rxrdy' = unexpected_rxrdy
  BY Zenon DEF Spi!Enable, Spi!wire, Spi!globals
<1>2. Preparing /\ SpiTypes
  BY <1>1 DEF SpiInv, Running
<1>3. /\ what \in {"coeff", "conv", "press"} /\ sndbuf = Sent /\ sndbuflen = Length
      /\ rcvbuflen = Answers /\ (what # "conv" => rcvbuf = 0) /\ ~ssel /\ ~conv
      /\ txdat = None /\ shift = None /\ rxdat = None
  BY <1>1, <1>2 DEF Preparing, Quiet
<1>4. Sent' = Sent /\ Length' = Length /\ First' = First /\ Answers' = Answers /\ Which' = Which
  BY <1>1, SameTransfer DEF Which
<1>5. Length \in {2, 9, 17} /\ Answers \in {0, 4, 8} /\ (what = "conv" <=> Answers = 0)
  BY <1>3, Lengths
<1>6. Len(sndbuf) = sndbuflen
  BY <1>3, SentWords
<1>7. Count(txdat)' = 0 /\ Count(shift)' = 0 /\ Count(rxdat)' = 0
  BY <1>1, <1>3 DEF Count
<1>8. Done' = 0
  BY <1>1, <1>3, <1>4, <1>5, <1>7, SMT DEF Done
<1>9. \A q \in 1 .. sndbuflen' : sndbuf'[q] = Sent'[Length' - sndbuflen' + q]
  BY <1>1, <1>3, <1>4, <1>5, SMT
<1>10. what # "conv" => Receiving'
  BY <1>1, <1>3, <1>4, <1>5, <1>7, <1>8, SMT DEF Receiving
<1>11. "TXRDY" \in inten' /\ inten' \subseteq {"RXRDY", "TXRDY"} /\ "RXRDY" \in inten'
  BY <1>1, <1>2 DEF SpiTypes
<1>12. /\ sndbuflen' <= Length' /\ Done' >= 0 /\ ~(Done' > 0) /\ Done' # Length'
  BY <1>1, <1>3, <1>4, <1>5, <1>8, SMT
<1>13. Running'
  BY <1>1, <1>3, <1>4, <1>5, <1>6, <1>9, <1>10, <1>11, <1>12 DEF Running
<1>14. SpiTypes'
  BY <1>1, <1>2, <1>11 DEF SpiTypes
<1>15. QED
  BY <1>13, <1>14 DEF SpiInv

LEMMA WaitStep == SpiInv /\ Spi!Wait => SpiInv'
<1> SUFFICES ASSUME SpiInv, Spi!Wait PROVE SpiInv'
  OBVIOUS
<1>1. /\ pc = "wait" /\ pc' = "pause" /\ sndbuflen = 0 /\ (what = "conv" \/ rcvbuflen = 0)
      /\ UNCHANGED <<txdat, shift, rxdat, last, sample, inten, sndbuf, sndbuflen, rcvbuf, rcvbuflen, buf, what>>
      /\ ssel' = ssel /\ conv' = conv /\ unexpected_rxrdy' = unexpected_rxrdy
  BY Zenon DEF Spi!Wait, Spi!wire, Spi!globals
<1>2. Running /\ SpiTypes
  BY <1>1 DEF SpiInv, Preparing
<1>3. Sent' = Sent /\ Length' = Length /\ First' = First /\ Answers' = Answers /\ Which' = Which
  BY <1>1, SameTransfer DEF Which
<1>4. Done' = Done /\ Count(rxdat)' = Count(rxdat)
  BY <1>1, <1>3 DEF Done, Count
<1>5. Receiving => Receiving'
  BY <1>1, <1>3, <1>4 DEF Receiving
<1>6. Running'
  BY <1>1, <1>2, <1>3, <1>4, <1>5 DEF Running
<1>7. SpiTypes'
  BY <1>1, <1>2 DEF SpiTypes
<1>8. QED
  BY <1>6, <1>7 DEF SpiInv

LEMMA PauseStep == SpiInv /\ Spi!Pause => SpiInv'
<1> SUFFICES ASSUME SpiInv, Spi!Pause PROVE SpiInv'
  OBVIOUS
<1>1. /\ pc = "pause" /\ pc' = "sndbuf" /\ what' = Spi!Following[what]
      /\ txdat = None /\ shift = None /\ rxdat = None /\ ~conv /\ "TXRDY" \notin inten
      /\ UNCHANGED <<txdat, shift, rxdat, last, sample, inten, sndbuf, sndbuflen, rcvbuf, rcvbuflen, buf>>
      /\ ssel' = ssel /\ conv' = conv /\ unexpected_rxrdy' = unexpected_rxrdy
  BY Zenon DEF Spi!Pause, Spi!wire, Spi!globals
<1>2. SpiTypes /\ sndbuflen = 0 /\ rcvbuflen = 0 /\ ~ssel /\ what \in {"wakeup", "coeff", "conv", "press"}
  <2>1. CASE what = "wakeup"
    BY <1>1, <2>1 DEF SpiInv, Preparing, Running, Quiet
  <2>2. CASE what # "wakeup"
    <3>1. Running /\ SpiTypes
      BY <1>1, <2>2 DEF SpiInv, Preparing
    <3>2. sndbuflen = 0 /\ rcvbuflen = 0 /\ what \in {"coeff", "conv", "press"}
      BY <1>1, <3>1 DEF Running
    <3>3. Count(txdat) = 0 /\ Count(shift) = 0 /\ Length \in {2, 9, 17}
      BY <1>1, <3>2, Lengths DEF Count
    <3>4. Done = Length
      BY <3>2, <3>3, SMT DEF Done
    <3>5. QED
      BY <3>1, <3>2, <3>4 DEF Running
  <2>3. QED
    BY <2>1, <2>2
<1>3. what' \in {"coeff", "conv", "press"}
  BY <1>1, <1>2 DEF Spi!Following
<1>4. Quiet'
  BY <1>1, <1>2 DEF Quiet
<1>5. Preparing'
  BY <1>1, <1>2, <1>3, <1>4 DEF Preparing
<1>6. SpiTypes'
  BY <1>1, <1>2 DEF SpiTypes
<1>7. QED
  BY <1>5, <1>6 DEF SpiInv

LEMMA SpiInductive == SpiInv /\ [Spi!Next]_(Spi!vars) => SpiInv'
<1>1. SpiInv /\ UNCHANGED Spi!vars => SpiInv'
  <2> SUFFICES ASSUME SpiInv, UNCHANGED Spi!vars PROVE SpiInv'
    OBVIOUS
  <2>1. /\ UNCHANGED <<txdat, shift, rxdat, last, sample, inten, sndbuf, sndbuflen, rcvbuf, rcvbuflen, buf, what, pc>>
        /\ ssel' = ssel /\ conv' = conv /\ unexpected_rxrdy' = unexpected_rxrdy
    BY Zenon DEF Spi!vars, Spi!wire, Spi!globals
  <2>2. Sent' = Sent /\ Length' = Length /\ First' = First /\ Answers' = Answers /\ Which' = Which
    BY <2>1, SameTransfer DEF Which
  <2>3. Done' = Done /\ Count(rxdat)' = Count(rxdat)
    BY <2>1, <2>2 DEF Done, Count
  <2>4. (Receiving => Receiving') /\ (Quiet => Quiet')
    BY <2>1, <2>2, <2>3 DEF Receiving, Quiet
  <2>5. (Preparing => Preparing') /\ (Running => Running') /\ (SpiTypes => SpiTypes')
    BY <2>1, <2>2, <2>3, <2>4 DEF Preparing, Running, SpiTypes
  <2>6. QED
    BY <2>1, <2>4, <2>5 DEF SpiInv
<1>2. QED
  BY <1>1, ShiftStep, CompleteStep, ConvertStep, IsrStep, SetSndbufStep, SetSndbuflenStep,
     SetRcvbufStep, SetRcvbuflenStep, EnableStep, WaitStep, PauseStep
  DEF Spi!Next, Spi!Hardware, Spi!main

LEMMA SpiPromises ==
  SpiInv => Spi!RepliesInPlace /\ Spi!NothingUnexpected /\ Spi!InBounds /\ Spi!Framed
<1> SUFFICES ASSUME SpiInv
             PROVE  Spi!RepliesInPlace /\ Spi!NothingUnexpected /\ Spi!InBounds /\ Spi!Framed
  OBVIOUS
<1>1. SpiTypes
  BY DEF SpiInv
<1>2. Spi!RepliesInPlace
  <2>1. SUFFICES ASSUME pc = "pause", what = "coeff" \/ what = "press"
                 PROVE  /\ what = "coeff" => \A q \in 0 .. 7 : buf[q] = <<136 + 2 * q, 0>>
                        /\ what = "press" => \A q \in 0 .. 3 : buf[q] = <<128 + 2 * q, sample>>
    BY Zenon DEF Spi!RepliesInPlace, Spi!READ_A0_MSB, Spi!READ_PRESSURE_MSB
  <2>2. Receiving /\ rcvbuflen = 0
    BY <2>1 DEF SpiInv, Preparing, Running
  <2>3. rcvbuf = Answers /\ \A q \in 0 .. 7 : q < Answers => buf[q] = <<First + 2 * q, Which>>
    <3>1. \A v \in 0 .. 8 : v + 0 = v
      BY SMT
    <3>2. rcvbuf = Answers
      BY <1>1, <2>2, <3>1 DEF Receiving, SpiTypes
    <3>3. QED
      BY <2>2, <3>2, Zenon DEF Receiving
  <2>4. CASE what = "coeff"
    <3>1. Answers = 8 /\ First = 136 /\ Which = 0
      BY <2>4, SMT DEF Answers, First, Which
    <3>2. QED
      BY <2>3, <2>4, <3>1, SMT
  <2>5. CASE what = "press"
    <3>1. Answers = 4 /\ First = 128 /\ Which = sample
      BY <2>5, SMT DEF Answers, First, Which
    <3>2. QED
      BY <2>3, <2>5, <3>1, SMT
  <2>6. QED
    BY <2>1, <2>4, <2>5
<1>3. Spi!NothingUnexpected
  BY <1>1 DEF SpiTypes, Spi!NothingUnexpected
<1>4. Spi!InBounds
  <2>1. rcvbuf + rcvbuflen <= 8 /\ Len(sndbuf) >= 0 /\ sndbuflen \in Nat
    BY <1>1, SMT DEF SpiTypes
  <2>2. ASSUME pc # "sndbuflen" PROVE sndbuflen <= Len(sndbuf)
    <3>1. CASE sndbuflen = 0
      BY <2>1, <3>1, SMT
    <3>2. CASE sndbuflen # 0
      <4>1. CASE Preparing
        BY <2>1, <2>2, <3>2, <4>1, SentWords, SMT DEF Preparing
      <4>2. CASE Running
        BY <2>1, <4>2, SMT DEF Running
      <4>3. QED
        BY <3>2, <4>1, <4>2 DEF SpiInv
    <3>3. QED
      BY <3>1, <3>2
  <2>3. QED
    BY <2>1, <2>2 DEF Spi!InBounds
<1>5. Spi!Framed
  BY DEF Spi!Framed, SpiInv, Preparing, Running, Quiet
<1>6. QED
  BY <1>2, <1>3, <1>4, <1>5

-----------------------------------------------------------------------------
(* The arithmetic of spi_barometer.                                        *)

Coefficient == [a0 : Bit16, b1 : Bit16, b2 : Bit16, c12 : Bit16]

\* A product with a factor of 10 bits.
LEMMA Product ==
  ASSUME NEW B \in Nat, NEW v \in Int, -B <= v, v <= B, NEW m \in Bit10
  PROVE  v * m \in Int /\ -(1023 * B) <= v * m /\ v * m <= 1023 * B
<1>1. 0 <= m /\ m <= 1023 /\ m \in Int
  BY SMT DEF Bit10
<1>2. v * m <= B * m /\ (-B) * m <= v * m
  BY <1>1, SMT
<1>3. B * m <= B * 1023
  BY <1>1, SMT
<1>4. (-B) * m = -(B * m)
  BY <1>1, SMT
<1>5. QED
  BY <1>1, <1>2, <1>3, <1>4, SMT

\* Division by a power of two, as a shift does it.
LEMMA Quotients ==
  ASSUME NEW v \in Int
  PROVE  /\ v \div 2048 \in Int /\ 0 <= v - 2048 * (v \div 2048) /\ v - 2048 * (v \div 2048) <= 2047
         /\ v \div 2 \in Int /\ 0 <= v - 2 * (v \div 2) /\ v - 2 * (v \div 2) <= 1
         /\ v \div 512 \in Int /\ 0 <= v - 512 * (v \div 512) /\ v - 512 * (v \div 512) <= 511
         /\ v \div 1048576 \in Int /\ 0 <= v - 1048576 * (v \div 1048576)
         /\ v - 1048576 * (v \div 1048576) <= 1048575
BY SMT

LEMMA ShortFits ==
  ASSUME NEW v \in Int
  PROVE  Short(v) \in Bit16 /\ (v \in Bit16 => Short(v) = v)
BY SMT DEF Short, Bit16

-----------------------------------------------------------------------------
(* One evaluation of the formula.                                          *)

\* The bounds of every intermediate value.
LEMMA Bounds ==
  ASSUME NEW c \in Coefficient, NEW m \in Bit10, NEW t \in Bit10
  PROVE  /\ c.c12 * t \in Bit28 /\ c.b1 + c12x2(c, t) \in Bit28
         /\ a1x1(c, m, t) \in Bit28 /\ c.a0 * 1024 \in Bit28
         /\ y1(c, m, t) \in Bit28 /\ c.b2 * t \in Bit28
         /\ y1(c, m, t) + a2x2(c, t) \in Bit28
<1>1. /\ c.a0 \in Int /\ -32768 <= c.a0 /\ c.a0 <= 32768
      /\ c.b1 \in Int /\ -32768 <= c.b1 /\ c.b1 <= 32768
      /\ c.b2 \in Int /\ -32768 <= c.b2 /\ c.b2 <= 32768
      /\ c.c12 \in Int /\ -32768 <= c.c12 /\ c.c12 <= 32768
  BY SMT DEF Coefficient, Bit16
<1>2. c.c12 * t \in Int /\ -33521664 <= c.c12 * t /\ c.c12 * t <= 33521664
  <2>1. c.c12 * t \in Int /\ -(1023 * 32768) <= c.c12 * t /\ c.c12 * t <= 1023 * 32768
    BY <1>1, Product, SMT
  <2>2. QED
    BY <2>1, SMT
<1>3. c.b2 * t \in Int /\ -33521664 <= c.b2 * t /\ c.b2 * t <= 33521664
  <2>1. c.b2 * t \in Int /\ -(1023 * 32768) <= c.b2 * t /\ c.b2 * t <= 1023 * 32768
    BY <1>1, Product, SMT
  <2>2. QED
    BY <2>1, SMT
<1>4. c12x2(c, t) \in Int /\ -16369 <= c12x2(c, t) /\ c12x2(c, t) <= 16368
  BY <1>2, Quotients, SMT DEF c12x2
<1>5. /\ c.b1 + c12x2(c, t) \in Int
      /\ -49152 <= c.b1 + c12x2(c, t) /\ c.b1 + c12x2(c, t) <= 49152
  BY <1>1, <1>4, SMT
<1>6. a1x1(c, m, t) \in Int /\ -50282496 <= a1x1(c, m, t) /\ a1x1(c, m, t) <= 50282496
  <2>1. /\ (c.b1 + c12x2(c, t)) * m \in Int
        /\ -(1023 * 49152) <= (c.b1 + c12x2(c, t)) * m
        /\ (c.b1 + c12x2(c, t)) * m <= 1023 * 49152
    BY <1>5, Product, SMT
  <2>2. QED
    BY <2>1, SMT DEF a1x1
<1>7. a2x2(c, t) \in Int /\ -16760832 <= a2x2(c, t) /\ a2x2(c, t) <= 16760832
  BY <1>3, Quotients, SMT DEF a2x2
<1>8. y1(c, m, t) \in Int /\ -83836928 <= y1(c, m, t) /\ y1(c, m, t) <= 83836928
  BY <1>1, <1>6, SMT DEF y1
<1>9. QED
  BY <1>1, <1>2, <1>3, <1>4, <1>5, <1>6, <1>7, <1>8, SMT DEF Bit28

\* What the shifts drop amounts to less than two sixteenths of a count.
LEMMA Rounding ==
  ASSUME NEW c \in Coefficient, NEW m \in Bit10, NEW t \in Bit10
  PROVE  /\ Exact(c, m, t) \in Int
         /\ 0 <= Exact(c, m, t) - 2048 * (y1(c, m, t) + a2x2(c, t))
         /\ Exact(c, m, t) - 2048 * (y1(c, m, t) + a2x2(c, t)) <= 2095105
<1> DEFINE u == c.c12 * t
           v == c.b2 * t
           q == u \div 2048
           w == v \div 2
           r == u - 2048 * q
<1>1. /\ c.a0 \in Int /\ c.b1 \in Int /\ c.b2 \in Int /\ c.c12 \in Int
      /\ m \in Int /\ t \in Int /\ 0 <= m /\ m <= 1023
  BY SMT DEF Coefficient, Bit16, Bit10
<1>2. u \in Int /\ v \in Int
  BY <1>1, SMT
<1>3. /\ q \in Int /\ w \in Int /\ r \in Int /\ 0 <= r /\ r <= 2047
      /\ 0 <= v - 2 * w /\ v - 2 * w <= 1
  BY <1>2, Quotients, SMT
<1>4. y1(c, m, t) + a2x2(c, t) = c.a0 * 1024 + (c.b1 + q) * m + w
  BY SMT DEF y1, a1x1, c12x2, a2x2
<1>5. Exact(c, m, t) = c.a0 * 2097152 + (c.b1 * 2048 + u) * m + v * 1024
  BY SMT DEF Exact
<1>6. u = 2048 * q + r
  BY <1>2, <1>3, SMT
<1> HIDE DEF u, v, q, w, r
<1>7. (c.b1 * 2048 + u) * m = 2048 * (c.b1 * m) + 2048 * (q * m) + r * m
  BY <1>1, <1>2, <1>3, <1>6, SMT
<1>8. (c.b1 + q) * m = c.b1 * m + q * m
  BY <1>1, <1>3, SMT
<1>9. r * m \in Int /\ 0 <= r * m /\ r * m <= 2094081
  <2>1. r * m \in Int /\ 0 <= r * m /\ r * m <= 2047 * m
    BY <1>1, <1>3, SMT
  <2>2. QED
    BY <1>1, <2>1, SMT
<1>10. c.b1 * m \in Int /\ q * m \in Int
  BY <1>1, <1>3, SMT
<1>11. QED
  BY <1>1, <1>2, <1>3, <1>4, <1>5, <1>7, <1>8, <1>9, <1>10, SMT

\* 1041 / 16384 in place of 65 / 1023.
LEMMA ScaleIsClose ==
  ASSUME NEW a \in Int, NEW c \in Int, 2 <= c, c <= 16368, 0 <= c - a, c - a <= 2
  PROVE  /\ (c * 65) \div 1023 - (a * 1041) \div 16384 \in Int
         /\ 0 <= (c * 65) \div 1023 - (a * 1041) \div 16384
         /\ (c * 65) \div 1023 - (a * 1041) \div 16384 <= 1
<1> DEFINE g == (c * 65) \div 1023
           f == (a * 1041) \div 16384
<1>1. g \in Int /\ 1023 * g <= 65 * c /\ 65 * c <= 1023 * g + 1022
  BY SMT
<1>2. f \in Int /\ 16384 * f <= 1041 * a /\ 1041 * a <= 16384 * f + 16383
  BY SMT
<1> HIDE DEF g, f
<1>3. 0 <= g - f /\ g - f <= 1
  BY <1>1, <1>2, SMT
<1>4. QED
  BY <1>1, <1>2, <1>3, SMT DEF g, f

-----------------------------------------------------------------------------
\* The state is what the last conversion gives.
IInv ==
  /\ k \in Coefficient
  /\ padc \in Bit10 /\ tadc \in Bit10
  /\ pcomp = CalcPcomp(k, padc, tadc)
  /\ pressure = Kilopascal(pcomp)

LEMMA Inductive == Spec => []IInv
<1>1. Init => IInv
  <2>1. 0 \in Bit10
    BY SMT DEF Bit10
  <2>2. QED
    BY <2>1, PressureAssumption, SMT DEF PressureAssumption, Init, IInv, Coefficient
<1>2. IInv /\ [Next]_vars => IInv'
  BY PressureAssumption, SMT DEF PressureAssumption, IInv, Next, Measure, vars
<1>3. QED
  BY <1>1, <1>2, PTL DEF Spec

\* calc_pcomp agrees with the formula of its comment for every sensor in its
\* range, and so does what is printed (spi_barometer.c:295-334, 443-446).
THEOREM CompensationIsAccurate == Spec => []Accurate
<1>1. IInv => Accurate
  <2> SUFFICES ASSUME IInv PROVE Accurate
    OBVIOUS
  <2>1. Exact(k, padc, tadc) \in Int
    BY Rounding, SMT DEF IInv
  <2>2. Counts \in Int
    BY <2>1, Quotients, SMT DEF Counts
  <2>3. SUFFICES ASSUME 0 <= Counts, Counts <= 16368
                 PROVE  /\ Counts - pcomp \in 0 .. 2
                        /\ 2 <= Counts => (Counts * 65) \div 1023 + 800 - pressure \in 0 .. 1
    BY <2>2, SMT DEF Accurate
  <2> DEFINE y == y1(k, padc, tadc) + a2x2(k, tadc)
             e == Exact(k, padc, tadc)
  <2>4. e \in Int /\ 0 <= e - 2048 * y /\ e - 2048 * y <= 2095105
    BY Rounding, SMT DEF IInv
  <2>5. y \in Int
    BY Bounds, SMT DEF IInv, Bit28
  <2>6. Counts = e \div 1048576 /\ pcomp = Short(y \div 512)
    BY SMT DEF Counts, IInv, CalcPcomp
  <2> HIDE DEF e, y
  <2>7. /\ e \div 1048576 \in Int /\ 0 <= e - 1048576 * (e \div 1048576)
        /\ e - 1048576 * (e \div 1048576) <= 1048575
        /\ y \div 512 \in Int /\ 0 <= y - 512 * (y \div 512) /\ y - 512 * (y \div 512) <= 511
    BY <2>4, <2>5, Quotients, SMT
  <2>8. 0 <= e \div 1048576 - y \div 512 /\ e \div 1048576 - y \div 512 <= 2
    BY <2>4, <2>5, <2>7, SMT
  <2>9. y \div 512 \in Bit16
    BY <2>3, <2>6, <2>7, <2>8, SMT DEF Bit16
  <2>10. Short(y \div 512) = y \div 512
    BY <2>7, <2>9, ShortFits, SMT
  <2>11. /\ pcomp \in Int
         /\ 0 <= Counts - pcomp /\ Counts - pcomp <= 2
    BY <2>2, <2>3, <2>6, <2>7, <2>8, <2>10, SMT
  <2>12. pressure = (pcomp * 1041) \div 16384 + 800
    BY SMT DEF IInv, Kilopascal
  <2>13. 2 <= Counts =>
           /\ (Counts * 65) \div 1023 - (pcomp * 1041) \div 16384 \in Int
           /\ 0 <= (Counts * 65) \div 1023 - (pcomp * 1041) \div 16384
           /\ (Counts * 65) \div 1023 - (pcomp * 1041) \div 16384 <= 1
    BY <2>2, <2>3, <2>11, ScaleIsClose, SMT
  <2>14. QED
    BY <2>2, <2>11, <2>12, <2>13, SMT
<1>2. QED
  BY <1>1, Inductive, PTL

\* No int of the computation overflows, whatever the sensor answers
\* (spi_barometer.c:310-331, 440).
THEOREM NothingOverflows == Spec => []FitsInt
<1>1. IInv => FitsInt
  <2> SUFFICES ASSUME IInv PROVE FitsInt
    OBVIOUS
  <2>1. pcomp * 1041 \in Bit28
    <3> DEFINE y == (y1(k, padc, tadc) + a2x2(k, tadc)) \div 512
    <3>1. y \in Int
      BY Bounds, Quotients, SMT DEF IInv, Bit28
    <3>2. pcomp = Short(y)
      BY SMT DEF IInv, CalcPcomp
    <3>3. pcomp \in Int /\ -32768 <= pcomp /\ pcomp <= 32767
      BY <3>1, <3>2, ShortFits, SMT DEF Bit16
    <3>4. QED
      BY <3>3, SMT DEF Bit28
  <2>2. QED
    BY <2>1, Bounds, SMT DEF IInv, FitsInt
<1>2. QED
  BY <1>1, Inductive, PTL

-----------------------------------------------------------------------------
(* The theorems about a board.                                             *)

\* The program that the board runs keeps its invariant.
Safe == /\ program = "i2c" => I2cInv
        /\ program = "spi" => SpiInv

LEMMA SafeAlways == SensorSpec => []Safe
<1>1. SensorInit => Safe
  <2> SUFFICES ASSUME SensorInit PROVE Safe
    OBVIOUS
  <2>1. CASE program = "i2c" /\ I2c!Init
    BY <2>1, I2cInitially DEF Safe
  <2>2. CASE program = "spi" /\ Spi!Init
    BY <2>2, SpiInitially DEF Safe
  <2>3. CASE program = "pressure"
    BY <2>3 DEF Safe
  <2>4. QED
    BY <2>1, <2>2, <2>3 DEF SensorInit
<1>2. Safe /\ [SensorNext]_allVars => Safe'
  <2> SUFFICES ASSUME Safe, [SensorNext]_allVars PROVE Safe'
    OBVIOUS
  <2>1. CASE program = "i2c" /\ I2c!Next /\ program' = program
    BY <2>1, I2cInductive DEF Safe
  <2>2. CASE program = "spi" /\ Spi!Next /\ program' = program
    BY <2>2, SpiInductive DEF Safe
  <2>3. CASE program = "pressure" /\ program' = program
    BY <2>3 DEF Safe
  <2>4. CASE UNCHANGED allVars
    <3>1. program' = program /\ UNCHANGED I2c!vars /\ UNCHANGED Spi!vars
      BY <2>4, Zenon DEF allVars, shared, onlyI2c, onlySpi, I2c!vars, I2c!bus, I2c!globals, I2c!sums,
              Spi!vars, Spi!wire, Spi!globals
    <3>2. QED
      BY <3>1, I2cInductive, SpiInductive DEF Safe
  <2>5. QED
    BY <2>1, <2>2, <2>3, <2>4 DEF SensorNext, I2cOnly, SpiOnly
<1>3. QED
  BY <1>1, <1>2, PTL DEF SensorSpec

\* Whatever the order in which main(), the handler and the bus come, and
\* whichever transfer fails, main() of i2c_proximity takes a transfer for good
\* exactly when the bus carried all of it, and its words are what the sensor
\* measured (i2c_proximity.c:291-581).
THEOREM TransfersAreAlwaysTrue == SensorSpec => []TransfersAreTrue
<1>1. Safe => TransfersAreTrue
  BY I2cPromises DEF Safe, TransfersAreTrue
<1>2. QED
  BY <1>1, SafeAlways, PTL

\* Whatever the order in which main(), the handler, the words on the wire and
\* the conversions come, the bytes that main() of spi_barometer reads are the
\* answers to its commands, and none arrives without room for it
\* (spi_barometer.c:256-436).
THEOREM RepliesAreAlwaysInPlace == SensorSpec => []RepliesInPlace
<1>1. Safe => RepliesInPlace
  BY SpiPromises DEF Safe, RepliesInPlace
<1>2. QED
  BY <1>1, SafeAlways, PTL

\* The steps of MCSensors are steps of Pressure: what is proved above of its
\* arithmetic holds in it.
LEMMA PressureInIt == SensorSpec => Spec
<1>1. SensorInit => Init
  BY DEF SensorInit, NoPressure
<1>2. [SensorNext]_allVars => [Next]_vars
  BY DEF SensorNext, I2cOnly, SpiOnly, allVars
<1>3. QED
  BY <1>1, <1>2, PTL DEF SensorSpec, Spec

THEOREM PressureToo == SensorSpec => [](Accurate /\ FitsInt)
BY PressureInIt, CompensationIsAccurate, NothingOverflows, PTL
=============================================================================
