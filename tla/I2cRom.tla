-------------------------------- MODULE I2cRom --------------------------------
(***************************************************************************)
(* examples/.../i2c_rom/i2c_rom.c: the polled I2C master at a 24FC64.      *)
(* While the device burns a page it does not acknowledge its address, and  *)
(* the three functions try again until it does; any other surprise is      *)
(* returned as an error, without a STOP.  A master that lost arbitration   *)
(* is idle, and the code of that state, 0, is also wait_i2c_state()'s      *)
(* "as expected".  Definitions under "Mistake" are not part of the model.  *)
(***************************************************************************)
EXTENDS RomTest

CONSTANTS High,     \* how many addresses share a high byte
          Refusals, \* how many bytes the device may leave unacknowledged
          Losses    \* how many times arbitration may be lost

VARIABLES test, \* the variables of main()
          pc,   \* what main() waits for, or "return", "i2c_error", "data_error"
          i, got, r, \* the function it is in: bytes done, bytes read, result
          bus,  \* the master: its state, the command it is at, its data
          dev,  \* the device's end of the bus
          rom, refusals, losses

program == <<test, pc, i, got, r>>
vars == <<program, bus, dev, rom, refusals, losses>>

Call == CallOf(test)

Init ==
  /\ test = Begin /\ pc = "idle" /\ i = 0 /\ got = <<>> /\ r = "ok"
  /\ bus = [state |-> "IDLE", command |-> "none", data |-> 0]
  /\ dev = [at |-> "off", high |-> 0, ptr |-> 0, latch |-> <<>>, busy |-> FALSE]
  /\ rom \in {[a \in Address |-> b] : b \in Byte}
  /\ refusals = 0 /\ losses = 0

-----------------------------------------------------------------------------
(* Hardware.                                                               *)

Answer(state, byte) == bus' = [state |-> state, command |-> "none", data |-> byte]

\* START and the address: a device that is burning a page does not hear it.
Start ==
  /\ bus.command \in {"start write", "start read"}
  /\ IF dev.busy
     THEN Answer("NACK_ADDR", bus.data) /\ dev' = [dev EXCEPT !.at = "off"]
     ELSE IF bus.command = "start write"
          THEN /\ Answer("TX_RDY", bus.data)
               /\ dev' = [dev EXCEPT !.at = "high", !.latch = <<>>]
          ELSE /\ Answer("RX_RDY", rom[dev.ptr])
               /\ dev' = [dev EXCEPT !.at = "reading", !.ptr = (@ + 1) % ROM_SIZE]
  /\ UNCHANGED <<rom, refusals, losses>>

\* A byte for the device: the address, high and low, and then data.
Send ==
  /\ bus.command = "send" /\ bus.state = "TX_RDY"
  /\ Answer("TX_RDY", bus.data)
  /\ dev' = CASE dev.at = "high" -> [dev EXCEPT !.at = "low", !.high = bus.data]
              [] dev.at = "low" ->
                   [dev EXCEPT !.at = "writing",
                               !.ptr = (High * dev.high + bus.data) % ROM_SIZE]
              [] dev.at = "writing" ->
                   [dev EXCEPT !.latch = Latched(@, dev.ptr, bus.data),
                               !.ptr = InPage(dev.ptr, 1)]
  /\ UNCHANGED <<rom, refusals, losses>>

\* The master acknowledges a byte and reads the next one.
Receive ==
  /\ bus.command = "recv" /\ bus.state = "RX_RDY"
  /\ Answer("RX_RDY", rom[dev.ptr])
  /\ dev' = [dev EXCEPT !.ptr = (@ + 1) % ROM_SIZE]
  /\ UNCHANGED <<rom, refusals, losses>>

\* STOP: the device begins to burn what it has latched.
Stop ==
  /\ bus.command = "stop" /\ Answer("IDLE", bus.data)
  /\ dev' = [dev EXCEPT !.at = "off", !.busy = dev.at = "writing" /\ dev.latch # <<>>]
  /\ UNCHANGED <<rom, refusals, losses>>

Burn ==
  /\ dev.busy
  /\ rom' = Burnt(rom, dev.latch) /\ dev' = [dev EXCEPT !.busy = FALSE, !.latch = <<>>]
  /\ UNCHANGED <<program, bus, refusals, losses>>

\* A byte is not acknowledged.
Refuse ==
  /\ bus.command = "send" /\ bus.state = "TX_RDY" /\ refusals < Refusals
  /\ Answer("NACK_DATA", bus.data)
  /\ dev' = [dev EXCEPT !.at = "off", !.latch = <<>>]
  /\ refusals' = refusals + 1 /\ UNCHANGED <<rom, losses>>

\* Arbitration is lost: the master lets go of the bus.
Lose ==
  /\ bus.command \notin {"none", "stop"} /\ losses < Losses
  /\ Answer("IDLE", bus.data)
  /\ dev' = [dev EXCEPT !.at = "off"]
  /\ losses' = losses + 1 /\ UNCHANGED <<rom, refusals>>

\* An idle master has nobody to send to or to receive from.
Nobody ==
  /\ bus.command \in {"send", "recv"} /\ bus.state = "IDLE"
  /\ Answer("IDLE", bus.data) /\ UNCHANGED <<dev, rom, refusals, losses>>

Serve == (Start \/ Send \/ Receive \/ Stop \/ Nobody) /\ UNCHANGED program

Fault == (Refuse \/ Lose) /\ UNCHANGED program

-----------------------------------------------------------------------------
(* The program.  Every step but the last two waits for MSTPENDING, checks  *)
(* the state and gives the master its next command.                        *)

\* What wait_i2c_state(state) returns.
Waited(state) ==
  IF bus.state \in {state, "IDLE"} THEN "ok" ELSE bus.state

i2c_master_send_addr(rw) == bus' = [bus EXCEPT !.command = rw]
i2c_master_send(b) == bus' = [bus EXCEPT !.command = "send", !.data = b]
i2c_master_recv == bus' = [bus EXCEPT !.command = "recv"]
i2c_stop == bus' = [bus EXCEPT !.command = "stop"]

Return(result) ==
  pc' = "return" /\ r' = result /\ UNCHANGED <<test, i, got, bus>>

\* "Wait for state; on anything else return it."
Wait(at, state) == pc = at /\ bus.command = "none" /\ Waited(state) = "ok"

\* Which state each wait is for.
Expected ==
  [idle |-> "IDLE", addr |-> "TX_RDY", high |-> "TX_RDY", low |-> "TX_RDY",
   data |-> "TX_RDY", read |-> "RX_RDY", stop |-> "IDLE"]

\* Mistake: a refused byte starts the transfer again, as a refused address does.
ErrorTriesAgain ==
  /\ pc \in DOMAIN Expected /\ bus.command = "none" /\ bus.state = "NACK_DATA"
  /\ bus' = [bus EXCEPT !.command = "start write"]
  /\ i' = 0 /\ got' = <<>> /\ pc' = "addr" /\ UNCHANGED <<test, r>>

Error ==
  /\ pc \in DOMAIN Expected /\ bus.command = "none"
  /\ Waited(Expected[pc]) # "ok"
  /\ ~(pc = "addr" /\ bus.state = "NACK_ADDR")
  /\ Return(bus.state)

Goes(to) == pc' = to /\ UNCHANGED <<test, r>>

SendAddr ==
  /\ \/ Wait("idle", "IDLE")
     \/ pc = "addr" /\ bus.command = "none" /\ bus.state = "NACK_ADDR"
  /\ i2c_master_send_addr("start write")
  /\ i' = 0 /\ got' = <<>> /\ Goes("addr")

SendHigh ==
  /\ Wait("addr", "TX_RDY")
  /\ i2c_master_send(Call.addr \div High) /\ Goes("high") /\ UNCHANGED <<i, got>>

SendLow ==
  /\ Wait("high", "TX_RDY")
  /\ i2c_master_send(Call.addr % High)
  /\ Goes(IF Call.op = "read" THEN "low" ELSE "data") /\ UNCHANGED <<i, got>>

Write ==
  /\ Wait("data", "TX_RDY")
  /\ IF i < Len(Call.bytes)
     THEN i2c_master_send(Call.bytes[i + 1]) /\ i' = i + 1 /\ Goes("data")
     ELSE i2c_stop /\ i' = i /\ Goes("stop")
  /\ UNCHANGED got

Turn ==
  /\ Wait("low", "TX_RDY")
  /\ i2c_master_send_addr("start read") /\ Goes("read") /\ UNCHANGED <<i, got>>

Read ==
  /\ Wait("read", "RX_RDY")
  /\ got' = Append(got, bus.data) /\ i' = i + 1
  /\ IF i + 1 < Len(Call.bytes)
     THEN i2c_master_recv /\ Goes("read") ELSE i2c_stop /\ Goes("stop")

Stopped == Wait("stop", "IDLE") /\ Return("ok")

\* main() has the result of a call.
main ==
  /\ pc = "return"
  /\ IF r # "ok" THEN pc' = "i2c_error" /\ UNCHANGED test
     ELSE IF Mismatch(test, got) THEN pc' = "data_error" /\ UNCHANGED test
     ELSE pc' = "idle" /\ test' = Following(test, got)
  /\ UNCHANGED <<i, got, r, bus>>

Run ==
  /\ \/ SendAddr \/ SendHigh \/ SendLow \/ Write \/ Turn \/ Read
     \/ Stopped \/ Error \/ main
  /\ UNCHANGED <<dev, rom, refusals, losses>>

\* The last thing both errors do is to loop.
Ended == pc \in {"i2c_error", "data_error"} /\ UNCHANGED vars

Next == Run \/ Serve \/ Burn \/ Fault \/ Ended

Spec == Init /\ [][Next]_vars /\ WF_vars(Run) /\ WF_vars(Serve) /\ WF_vars(Burn)

-----------------------------------------------------------------------------
(* Properties.                                                             *)

(* i2c_rom.c:454-475.  When the reading back begins every address of the   *)
(* device holds its counting byte, once the page that is being burnt is:   *)
(* pages are written where they begin and none wraps.                      *)
Stored ==
  refusals + losses = 0 /\ dev.at = "off" => Filled(Burnt(rom, dev.latch), test)

(* i2c_rom.c:228-356.  Whenever a function waits for the bus at its start, *)
(* the one before it has released it: the master is idle and the device    *)
(* not in the middle of anything.                                          *)
Released ==
  pc = "idle" => bus.state = "IDLE" /\ bus.command = "none" /\ dev.at = "off"

(* i2c_rom.c:446-511.  A healthy device never fails the test.              *)
Passes == refusals + losses = 0 => pc \notin {"i2c_error", "data_error"}
=============================================================================
