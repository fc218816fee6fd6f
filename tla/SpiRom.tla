-------------------------------- MODULE SpiRom --------------------------------
(***************************************************************************)
(* examples/.../spi_rom/spi_rom.c: the polled SPI master at a 25LC640A.    *)
(* Words wait in a holding register while another is on the wire, so that  *)
(* the program is up to two words ahead of the device, which ignores a     *)
(* WRITE without a WREN before it, and everything while it burns a page.   *)
(* Assumed of the timing: words and burning are over when a delay of TWC   *)
(* is.  Definitions under "Mistake" are not part of the model.             *)
(***************************************************************************)
EXTENDS RomTest

CONSTANT None \* an empty register

VARIABLES test, \* the variables of main()
          pc, i, got, \* the function main() is in: words sent, bytes read
          tx, shift, rx, \* SPI_TXDATCTL, the word on the wire, SPI_RXDAT
          dev,  \* the device: the transfer it is in, its latches
          rom

program == <<test, pc, i, got>>
wire == <<tx, shift, rx>>
vars == <<program, wire, dev, rom>>

Call == CallOf(test)

READ == 3
WRITE == 2
WREN == 6

-----------------------------------------------------------------------------
(* What the functions send: rom_read ends the transfer with its last byte, *)
(* the two that write before the instruction, too.  What comes in          *)
(* meanwhile is ignored, except for the bytes that are read.               *)

Word(b, control) == [data |-> b, ignore |-> "RXIGNORE" \in control, eot |-> "EOT" \in control]

rom_read(c) ==
  <<Word(READ, {"RXIGNORE"}), Word(c.addr, {"RXIGNORE"})>>
  \o [k \in DOMAIN c.bytes |-> Word(0, IF k = Len(c.bytes) THEN {"EOT"} ELSE {})]

\* Mistake: WRITE follows WREN in the same transfer.
rom_writeUnframed(c) ==
  <<Word(WREN, {"RXIGNORE"}), Word(WRITE, {"RXIGNORE"}), Word(c.addr, {"RXIGNORE"})>>
  \o [k \in DOMAIN c.bytes |->
        Word(c.bytes[k], {"RXIGNORE"} \cup IF k = Len(c.bytes) THEN {"EOT"} ELSE {})]

\* rom_write_byte and rom_write_page.
rom_write(c) ==
  <<Word(WREN, {"RXIGNORE", "EOT"}), Word(WRITE, {"RXIGNORE"}),
    Word(c.addr, {"RXIGNORE"})>>
  \o [k \in DOMAIN c.bytes |->
        Word(c.bytes[k], {"RXIGNORE"} \cup IF k = Len(c.bytes) THEN {"EOT"} ELSE {})]

Words == IF Call.op = "read" THEN rom_read(Call) ELSE rom_write(Call)

-----------------------------------------------------------------------------
(* Hardware.                                                               *)

Init ==
  /\ test = Begin /\ pc = "send" /\ i = 0 /\ got = <<>>
  /\ tx = None /\ shift = None /\ rx = None
  /\ dev = [n |-> 0, command |-> 0, ptr |-> 0, latch |-> <<>>,
            enabled |-> FALSE, busy |-> FALSE]
  /\ rom \in {[a \in Address |-> b] : b \in Byte}

Load ==
  /\ tx # None /\ shift = None
  /\ shift' = tx /\ tx' = None /\ UNCHANGED <<rx, dev, rom>>

\* The device takes a word: the instruction, the address and then data.
Took(d, b) ==
  CASE d.n = 0 -> [d EXCEPT !.n = 1, !.command = IF d.busy THEN 0 ELSE b,
                            !.latch = IF d.busy THEN @ ELSE <<>>]
    [] d.n = 1 -> [d EXCEPT !.n = 2, !.ptr = IF d.busy THEN @ ELSE b % ROM_SIZE]
    [] d.n = 2 /\ d.command = READ -> [d EXCEPT !.ptr = (@ + 1) % ROM_SIZE]
    [] d.n = 2 /\ d.command = WRITE /\ d.enabled ->
         [d EXCEPT !.latch = Latched(@, d.ptr, b), !.ptr = InPage(@, 1)]
    [] OTHER -> d

\* The end of a transfer: what the instruction asked for is begun.
Ended(d) ==
  [d EXCEPT !.n = 0, !.command = 0,
            !.busy = @ \/ (d.command = WRITE /\ d.latch # <<>>),
            !.enabled = \/ d.command = WREN
                        \/ @ /\ ~(d.command = WRITE /\ d.latch # <<>>)]

\* The master waits while the word it received last has not been read.
Exchange ==
  /\ shift # None /\ (shift.ignore \/ rx = None)
  /\ rx' = IF shift.ignore THEN rx
           ELSE IF dev.command = READ /\ dev.n = 2 THEN rom[dev.ptr] ELSE 0
  /\ dev' = IF shift.eot THEN Ended(Took(dev, shift.data)) ELSE Took(dev, shift.data)
  /\ shift' = None /\ UNCHANGED <<tx, rom>>

Burn ==
  /\ dev.busy
  /\ rom' = Burnt(rom, dev.latch) /\ dev' = [dev EXCEPT !.busy = FALSE, !.latch = <<>>]
  /\ UNCHANGED wire

Hardware == (Load \/ Exchange \/ Burn) /\ UNCHANGED program

-----------------------------------------------------------------------------
(* The program.                                                            *)

\* The bytes of rom_read, after the instruction and the address, are waited
\* for before the next word is sent.
Send ==
  /\ pc = "send" /\ tx = None
  /\ tx' = Words[i + 1] /\ i' = i + 1
  /\ pc' = IF Call.op = "read" /\ i > 1 THEN "recv"
           ELSE IF i + 1 < Len(Words) THEN "send" ELSE "delay"
  /\ UNCHANGED <<test, got, rx>>

Recv ==
  /\ pc = "recv" /\ rx # None
  /\ got' = Append(got, rx) /\ rx' = None
  /\ pc' = IF i < Len(Words) THEN "send" ELSE "return"
  /\ UNCHANGED <<test, i, tx>>

Then(t) == test' = t /\ pc' = "send" /\ i' = 0 /\ got' = <<>>

\* delay_ms(TWC), and what main() does between two calls.
Delay ==
  /\ pc = "delay" /\ tx = None /\ shift = None /\ ~dev.busy
  /\ Then(Following(test, got)) /\ UNCHANGED <<tx, rx>>

Check ==
  /\ pc = "return"
  /\ IF Mismatch(test, got)
     THEN pc' = "data_error" /\ UNCHANGED <<test, i, got>>
     ELSE Then(Following(test, got))
  /\ UNCHANGED <<tx, rx>>

main == (Send \/ Recv \/ Delay \/ Check) /\ UNCHANGED <<shift, dev, rom>>

Next == main \/ Hardware

Spec == Init /\ [][Next]_vars /\ WF_vars(main) /\ WF_vars(Hardware)

-----------------------------------------------------------------------------
(* Properties.                                                             *)

(* spi_rom.c:323-345.  When the reading back begins every address of the   *)
(* device holds its counting byte: each write was enabled by a transfer of *)
(* its own, came when the one before it was over and stayed in its page.   *)
Stored == Filled(rom, test)

(* spi_rom.c:237-256, 347-375.  A healthy device passes, though words of   *)
(* the writes before are still on the wire when a function returns: each   *)
(* byte that rom_read receives is the one it sent a word for.              *)
Passes == pc # "data_error"
=============================================================================
