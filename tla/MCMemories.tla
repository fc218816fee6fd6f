----------------------------- MODULE MCMemories -----------------------------
(***************************************************************************)
(* Small instances of the programs that test memories: i2c_rom, spi_rom    *)
(* and flash_iap.  A board runs one of them, which the initial state       *)
(* chooses; they share no more than the names of variables, and a variable *)
(* that a program does not have is Off.                                    *)
(***************************************************************************)
EXTENDS RomTest

CONSTANTS None,                     \* an empty register of the SPI
          High, Refusals, Losses,   \* I2cRom
          Blocks, MaxResets, MaxWear \* FlashIap

ASSUME MemoriesAssumption ==
  /\ None \notin Nat \cup [data : Nat, ignore : BOOLEAN, eot : BOOLEAN]
  /\ High \in Nat \ {0} /\ Blocks \in Nat \ {0}

VARIABLES program,
          pc, i, test, got, dev, rom,            \* of more than one program
          r, bus, refusals, losses,              \* I2cRom
          tx, shift, rx,                         \* SpiRom
          sector, prepared, start_data, data, status, resets, wear \* FlashIap

I2c == INSTANCE I2cRom
Spi == INSTANCE SpiRom
Iap == INSTANCE FlashIap

roms  == <<test, got, dev, rom>>
i2c   == <<r, bus, refusals, losses>>
spi   == <<tx, shift, rx>>
flash == <<sector, prepared, start_data, data, status, resets, wear>>
vars  == <<program, pc, i, roms, i2c, spi, flash>>

-----------------------------------------------------------------------------
Off == "off"

RomsOff == test = Off /\ got = Off /\ dev = Off /\ rom = Off
I2cOff == r = Off /\ bus = Off /\ refusals = Off /\ losses = Off
SpiOff == tx = Off /\ shift = Off /\ rx = Off
FlashOff == /\ sector = Off /\ prepared = Off /\ start_data = Off /\ data = Off
            /\ status = Off /\ resets = Off /\ wear = Off

Init ==
  \/ program = "i2c" /\ I2c!Init /\ SpiOff /\ FlashOff
  \/ program = "spi" /\ Spi!Init /\ I2cOff /\ FlashOff
  \/ program = "iap" /\ Iap!Init /\ RomsOff /\ I2cOff /\ SpiOff

I2cOnly == UNCHANGED <<program, spi, flash>>
SpiOnly == UNCHANGED <<program, i2c, flash>>
IapOnly == UNCHANGED <<program, roms, i2c, spi>>

Next ==
  \/ program = "i2c" /\ I2c!Next /\ I2cOnly
  \/ program = "spi" /\ Spi!Next /\ SpiOnly
  \/ program = "iap" /\ Iap!Next /\ IapOnly

\* main() runs, the wires go on, and a page is burnt in the end.
Main == \/ program = "i2c" /\ I2c!Run /\ I2cOnly
        \/ program = "spi" /\ Spi!main /\ SpiOnly
        \/ program = "iap" /\ Iap!main /\ IapOnly

Wires == \/ program = "i2c" /\ I2c!Serve /\ I2cOnly
         \/ program = "spi" /\ Spi!Hardware /\ SpiOnly

Burn == program = "i2c" /\ I2c!Burn /\ I2cOnly

Spec == Init /\ [][Next]_vars /\ WF_vars(Main) /\ WF_vars(Wires) /\ WF_vars(Burn)

-----------------------------------------------------------------------------
(* Properties.                                                             *)

\* When the reading back begins a memory holds what was written: no page wraps,
\* no write comes too early or unasked for; no block of the flash is written
\* behind one that it did not take
\* (i2c_rom.c:454-475, spi_rom.c:323-345, flash_iap.c:265-325).
Stored ==
  /\ program = "i2c" => I2c!Stored
  /\ program = "spi" => Spi!Stored
  /\ program = "iap" => Iap!Tested

\* A healthy memory never fails its test, although one function returns while
\* the bus or the device is still at work; and for flash_iap, whose commands a
\* reset may interrupt, whatever that has left behind (i2c_rom.c:228-511, spi_rom.c:237-375, flash_iap.c:218-294).
Passes ==
  /\ program = "i2c" => I2c!Passes /\ I2c!Released
  /\ program = "spi" => Spi!Passes
  /\ program = "iap" => Iap!Passes

\* The waits for a device that is burning end: reading back in pieces of every
\* size comes round, again and again; a byte that the device refuses ends the
\* test with the message that says so; and once resets stop so does the test of
\* the flash (i2c_rom.c:270-517, spi_rom.c:349-375, flash_iap.c:185-325).
GoesOn ==
  /\ \/ <>(program = "i2c" => refusals + losses > 0)
     \/ \A n \in 1 .. BufSize - 1 :
          []<>(program = "i2c" => test.phase = "seq" /\ test.n = n)
  /\ (program = "i2c" /\ refusals > 0) ~> (program = "i2c" => pc = "i2c_error" \/ losses > 0)
  /\ \A n \in 1 .. BufSize - 1 :
       []<>(program = "spi" => test.phase = "seq" /\ test.n = n)
  /\ <>[](program = "iap" => pc \in {"isp", "iap_error"})
=============================================================================
