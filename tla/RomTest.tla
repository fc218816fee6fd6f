------------------------------- MODULE RomTest -------------------------------
(***************************************************************************)
(* The test that examples/.../i2c_rom and .../spi_rom put a serial EEPROM  *)
(* through: read one byte, write the whole device with counting bytes that *)
(* start after it, the first page byte by byte and the others as pages,    *)
(* and then read it back in pieces of every size, for ever.  The two       *)
(* main()s are the same up to what a call is made of; this module says     *)
(* which call follows which, and I2cRom and SpiRom make the calls.         *)
(***************************************************************************)
EXTENDS Integers, Sequences

CONSTANTS ROM_SIZE, PAGE_SIZE,
          BufSize,  \* sizeof(buf): the pieces are shorter
          Bytes     \* how many values a char has

ASSUME SizesAssumption ==
  /\ {ROM_SIZE, PAGE_SIZE, BufSize, Bytes} \subseteq Nat \ {0}
  /\ ROM_SIZE % PAGE_SIZE = 0 /\ ROM_SIZE > PAGE_SIZE
  /\ BufSize \in (PAGE_SIZE + 1)..ROM_SIZE

Byte == 0..(Bytes - 1)
Address == 0..(ROM_SIZE - 1)

\* len bytes that count up from b.
Counting(b, len) == [j \in 1..len |-> (b + j - 1) % Bytes]

\* The variables of main(); n is the size of the pieces.
Test == [phase : {"random", "byte", "page", "seq", "rest"},
         start : Byte, data : Byte, addr : 0..ROM_SIZE, n : 1..(BufSize - 1)]

Begin == [phase |-> "random", start |-> 0, data |-> 0, addr |-> 0, n |-> 1]

\* The call main() makes: op, addr and the bytes to write, or as many bytes
\* as it wants to read.
CallOf(t) ==
  CASE t.phase = "random" -> [op |-> "read", addr |-> 0, bytes |-> <<0>>]
    [] t.phase = "byte" -> [op |-> "write", addr |-> t.addr, bytes |-> <<t.data>>]
    [] t.phase = "page" ->
         [op |-> "write", addr |-> t.addr, bytes |-> Counting(t.data, PAGE_SIZE)]
    [] t.phase = "seq" ->
         [op |-> "read", addr |-> t.addr, bytes |-> Counting(t.data, t.n)]
    [] t.phase = "rest" ->
         [op |-> "read", addr |-> t.addr,
          bytes |-> Counting(t.data, ROM_SIZE % t.n)]

\* The comparison after a read of the last part.
Mismatch(t, got) == t.phase \in {"seq", "rest"} /\ got # CallOf(t).bytes

Round(t, n) == [t EXCEPT !.phase = "seq", !.addr = 0, !.data = t.start, !.n = n]

Advanced(t, len) ==
  [t EXCEPT !.addr = @ + len, !.data = (@ + len) % Bytes]

Written(t) ==
  LET u == Advanced(t, Len(CallOf(t).bytes))
  IN IF u.addr = ROM_SIZE THEN Round(u, 1)
     ELSE [u EXCEPT !.phase = IF u.addr < PAGE_SIZE THEN "byte" ELSE "page"]

ReadBack(t) ==
  LET u == Advanced(t, t.n)
  IN IF t.phase = "seq" /\ u.addr + t.n <= ROM_SIZE THEN u
     ELSE IF t.phase = "seq" /\ ROM_SIZE % t.n # 0
          THEN [u EXCEPT !.phase = "rest"]
          ELSE Round(t, IF t.n = BufSize - 1 THEN 1 ELSE t.n + 1)

\* The variables of main() when it makes the call after this one.
Following(t, got) ==
  CASE t.phase = "random" ->
         LET first == (got[1] + 1) % Bytes
         IN [t EXCEPT !.phase = "byte", !.start = first, !.data = first]
    [] t.phase \in {"byte", "page"} -> Written(t)
    [] OTHER -> ReadBack(t)

-----------------------------------------------------------------------------
(* The device: a memory whose pages are written as a whole, at the end of  *)
(* a transfer, from a latch that the address counter wraps in.             *)

InPage(a, k) == PAGE_SIZE * (a \div PAGE_SIZE) + ((a + k) % PAGE_SIZE)

Latched(latch, ptr, b) ==
  [a \in DOMAIN latch \cup {ptr} |-> IF a = ptr THEN b ELSE latch[a]]

Burnt(rom, latch) == [a \in Address |-> IF a \in DOMAIN latch THEN latch[a] ELSE rom[a]]

\* What the device holds once the test has written all of it.
Counted(t) == [a \in Address |-> (t.start + a) % Bytes]

Filled(rom, t) == t.phase \in {"seq", "rest"} => rom = Counted(t)
=============================================================================
