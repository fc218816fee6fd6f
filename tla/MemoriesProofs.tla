--------------------------- MODULE MemoriesProofs ---------------------------
(***************************************************************************)
(* Proofs about the programs that test memories, for devices of any size,  *)
(* pages and pieces, any number of byte values and of blocks of flash, and *)
(* any number of faults and resets.  First what the test of an EEPROM      *)
(* writes and expects; then I2cRom and SpiRom, in which the device holds,  *)
(* with what it has latched, what the calls so far have written; then      *)
(* FlashIap; and what follows for the board.                               *)
(***************************************************************************)
EXTENDS MCMemories, TLAPS


-----------------------------------------------------------------------------
(* Arithmetic.                                                             *)

LEMMA Sizes ==
  /\ ROM_SIZE \in Nat \ {0} /\ PAGE_SIZE \in Nat \ {0} /\ BufSize \in Nat \ {0}
  /\ Bytes \in Nat \ {0}
  /\ ROM_SIZE % PAGE_SIZE = 0 /\ ROM_SIZE > PAGE_SIZE
  /\ PAGE_SIZE < BufSize /\ BufSize <= ROM_SIZE
BY SizesAssumption

\* What is known of a quotient and a remainder.
LEMMA Division ==
  ASSUME NEW a \in Nat, NEW b \in Nat \ {0}
  PROVE  /\ a \div b \in Nat /\ a % b \in Nat /\ a % b < b
         /\ a = b * (a \div b) + (a % b)
BY SMT

LEMMA Grows ==
  ASSUME NEW a \in Nat, NEW b \in Nat, NEW c \in Nat
  PROVE  /\ c * a \in Nat
         /\ a < b => c * a + c <= c * b
         /\ a <= b => c * a <= c * b
BY SMT

LEMMA OneMore ==
  ASSUME NEW a \in Int, NEW c \in Int
  PROVE  c * (a + 1) = c * a + c
BY SMT

\* A number is its quotient and its remainder in one way only.
LEMMA Divided ==
  ASSUME NEW b \in Nat \ {0}, NEW q \in Int, NEW l \in Nat, l < b, b * q + l \in Nat
  PROVE  (b * q + l) \div b = q /\ (b * q + l) % b = l
<1> DEFINE v == b * q + l
           p == v \div b
           m == v % b
<1>1. p \in Nat /\ m \in Nat /\ m < b /\ v = b * p + m
  BY Division
<1>2. b * p + m = b * q + l
  BY <1>1
<1>3. p = q
  <2> HIDE DEF p, m
  <2>1. p \in Int /\ q \in Int /\ b \in Nat \ {0}
    BY <1>1
  <2>2. ~(p < q)
    <3> SUFFICES ASSUME p < q PROVE FALSE
      OBVIOUS
    <3>1. b * (q - p - 1) >= 0
      <4>1. q - p - 1 \in Nat
        BY <2>1
      <4>2. \A x \in Nat : b * x >= 0
        BY SMT
      <4>3. QED
        BY <4>1, <4>2
    <3>2. b * (q - p - 1) = b * q - b * p - b
      BY <2>1, SMT
    <3>3. b * q \in Int /\ b * p \in Int
      BY <2>1, SMT
    <3>4. QED
      BY <1>1, <1>2, <3>1, <3>2, <3>3
  <2>3. ~(q < p)
    <3> SUFFICES ASSUME q < p PROVE FALSE
      OBVIOUS
    <3>1. b * (p - q - 1) >= 0
      <4>1. p - q - 1 \in Nat
        BY <2>1
      <4>2. \A x \in Nat : b * x >= 0
        BY SMT
      <4>3. QED
        BY <4>1, <4>2
    <3>2. b * (p - q - 1) = b * p - b * q - b
      BY <2>1, SMT
    <3>3. b * q \in Int /\ b * p \in Int
      BY <2>1, SMT
    <3>4. QED
      BY <1>1, <1>2, <3>1, <3>2, <3>3
  <2>4. QED
    BY <2>1, <2>2, <2>3
<1>4. m = l
  <2>1. b * q \in Int
    BY SMT
  <2> HIDE DEF m, p
  <2>2. QED
    BY <1>1, <1>2, <1>3, <2>1
<1>5. QED
  BY <1>3, <1>4

\* Counting on from a remainder.
LEMMA CountsOn ==
  ASSUME NEW a \in Nat, NEW k \in Nat
  PROVE  ((a % Bytes) + k) % Bytes = (a + k) % Bytes
<1> DEFINE m == a % Bytes
           s == m + k
<1>1. a \div Bytes \in Nat /\ m \in Nat /\ a = Bytes * (a \div Bytes) + m
  BY Sizes, Division
<1>2. s \in Nat /\ s \div Bytes \in Nat /\ s % Bytes \in Nat /\ s % Bytes < Bytes
      /\ s = Bytes * (s \div Bytes) + (s % Bytes)
  <2>1. s \in Nat
    BY <1>1
  <2> HIDE DEF s
  <2>2. QED
    BY <2>1, Sizes, Division
<1> DEFINE q == (a \div Bytes) + (s \div Bytes)
           l == s % Bytes
<1>3. Bytes * q = Bytes * (a \div Bytes) + Bytes * (s \div Bytes)
  <2>1. \A x, y \in Int : Bytes * (x + y) = Bytes * x + Bytes * y
    BY Sizes, SMT
  <2>2. QED
    BY <1>1, <1>2, <2>1
<1>4. a + k = Bytes * q + l
  <2>1. \A x \in Int : Bytes * x \in Int
    BY Sizes, SMT
  <2> DEFINE x == Bytes * (a \div Bytes)
             y == Bytes * (s \div Bytes)
  <2>2. x \in Int /\ y \in Int
    BY <1>1, <1>2, <2>1
  <2>3. a = x + m /\ m + k = y + l /\ Bytes * q = x + y
    BY <1>1, <1>2, <1>3
  <2>4. l \in Nat
    BY <1>2
  <2> HIDE DEF x, y, q, l, m
  <2>5. QED
    BY <1>1, <2>2, <2>3, <2>4
<1>5. q \in Int /\ l \in Nat /\ l < Bytes /\ a + k \in Nat
  BY <1>1, <1>2
<1>6. (a + k) % Bytes = l
  <2> HIDE DEF q, l
  <2>1. QED
    BY <1>4, <1>5, Sizes, Divided
<1>7. QED
  BY <1>6

-----------------------------------------------------------------------------
(* What main() calls.                                                      *)

\* The variables of main() before a call.  What it has read or written so far
\* begins at a multiple of the piece, and nothing reaches beyond the device.
TestOK(t) ==
  /\ t \in Test
  /\ t.phase = "random" => t.addr = 0
  /\ t.phase # "random" => t.data = (t.start + t.addr) % Bytes
  /\ t.phase = "byte" => t.addr < PAGE_SIZE
  /\ t.phase = "page" => /\ t.addr + PAGE_SIZE <= ROM_SIZE
                         /\ \E q \in Nat : t.addr = PAGE_SIZE * q
  /\ t.phase = "seq" => /\ t.addr + t.n <= ROM_SIZE
                        /\ \E q \in Nat : t.addr = t.n * q
  /\ t.phase = "rest" => ROM_SIZE % t.n # 0 /\ t.addr + (ROM_SIZE % t.n) = ROM_SIZE

\* How much has been written.
Upto(t) == IF t.phase \in {"seq", "rest"} THEN ROM_SIZE ELSE t.addr

Size(t) == Len(CallOf(t).bytes)

LEMMA TestTypes ==
  ASSUME NEW t \in Test
  PROVE  /\ t.phase \in {"random", "byte", "page", "seq", "rest"}
         /\ t.start \in Nat /\ t.data \in Nat /\ t.addr \in Nat /\ t.n \in Nat \ {0}
         /\ t.start \in Byte /\ t.data \in Byte /\ t.addr <= ROM_SIZE
         /\ t.n <= BufSize - 1 /\ t.n <= ROM_SIZE
         /\ t = [phase |-> t.phase, start |-> t.start, data |-> t.data, addr |-> t.addr, n |-> t.n]
BY Sizes DEF Test, Byte

LEMMA RestLength ==
  ASSUME NEW t \in Test
  PROVE  ROM_SIZE % t.n \in Nat /\ ROM_SIZE % t.n <= ROM_SIZE
<1>1. t.n \in Nat \ {0}
  BY TestTypes
<1>2. ROM_SIZE % t.n \in Nat /\ ROM_SIZE % t.n < t.n
  BY <1>1, Sizes, Division
<1>3. QED
  BY <1>2, TestTypes, Sizes

LEMMA Counts ==
  ASSUME NEW b \in Nat, NEW k \in Nat
  PROVE  /\ Counting(b, k) \in Seq(Byte) /\ Len(Counting(b, k)) = k
         /\ \A j \in 1 .. k : Counting(b, k)[j] = (b + (j - 1)) % Bytes
<1>1. \A j \in 1 .. k : (b + j - 1) % Bytes \in Byte /\ b + j - 1 = b + (j - 1)
  <2>1. ASSUME NEW v \in Nat
        PROVE  v % Bytes \in Byte
    BY Sizes, Division DEF Byte
  <2>2. QED
    BY <2>1
<1>2. QED
  BY <1>1 DEF Counting

\* What a call reads or writes.
LEMMA CallFacts ==
  ASSUME NEW t, TestOK(t)
  PROVE  /\ CallOf(t).op = IF t.phase \in {"byte", "page"} THEN "write" ELSE "read"
         /\ CallOf(t).addr = t.addr /\ t.addr \in Address
         /\ CallOf(t).bytes \in Seq(Byte)
         /\ Size(t) \in Nat \ {0} /\ t.addr + Size(t) <= ROM_SIZE
         /\ Size(t) = CASE t.phase \in {"random", "byte"} -> 1
                        [] t.phase = "page" -> PAGE_SIZE
                        [] t.phase = "seq" -> t.n
                        [] t.phase = "rest" -> ROM_SIZE % t.n
         /\ t.phase # "random" =>
              \A k \in 1 .. Size(t) :
                CallOf(t).bytes[k] = (t.start + (t.addr + k - 1)) % Bytes
<1>1. t \in Test
  BY DEF TestOK
<1>2. /\ t.phase \in {"random", "byte", "page", "seq", "rest"}
      /\ t.start \in Nat /\ t.data \in Nat /\ t.addr \in Nat /\ t.n \in Nat \ {0}
      /\ t.start \in Byte /\ t.data \in Byte
  BY <1>1, TestTypes
<1>3. ROM_SIZE % t.n \in Nat
  BY <1>1, RestLength
<1>4. \A k \in Nat \ {0} : t.phase # "random" =>
        (t.data + (k - 1)) % Bytes = (t.start + (t.addr + k - 1)) % Bytes
  <2> SUFFICES ASSUME NEW k \in Nat \ {0}, t.phase # "random"
               PROVE  (t.data + (k - 1)) % Bytes = (t.start + (t.addr + k - 1)) % Bytes
    OBVIOUS
  <2>1. t.data = (t.start + t.addr) % Bytes
    BY DEF TestOK
  <2>2. t.start + t.addr \in Nat /\ k - 1 \in Nat
    BY <1>2
  <2>3. (((t.start + t.addr) % Bytes) + (k - 1)) % Bytes = ((t.start + t.addr) + (k - 1)) % Bytes
    BY <2>2, CountsOn
  <2>4. (t.start + t.addr) + (k - 1) = t.start + (t.addr + k - 1)
    BY <1>2
  <2>5. QED
    BY <2>1, <2>3, <2>4
<1>5. ASSUME NEW k \in Nat \ {0}, t.phase # "random", CallOf(t).bytes = Counting(t.data, k)
      PROVE  /\ CallOf(t).bytes \in Seq(Byte) /\ Size(t) = k
             /\ \A j \in 1 .. k : CallOf(t).bytes[j] = (t.start + (t.addr + j - 1)) % Bytes
  <2>1. /\ Counting(t.data, k) \in Seq(Byte) /\ Len(Counting(t.data, k)) = k
        /\ \A j \in 1 .. k : Counting(t.data, k)[j] = (t.data + (j - 1)) % Bytes
    <3>1. t.data \in Nat /\ k \in Nat
      BY <1>2
    <3>2. QED
      BY <3>1, Counts
  <2>2. \A j \in 1 .. k : j \in Nat \ {0}
    OBVIOUS
  <2>3. QED
    BY <1>4, <1>5, <2>1, <2>2 DEF Size
<1>6. ASSUME NEW k \in Nat \ {0}, t.addr + k <= ROM_SIZE
      PROVE  t.addr \in Address
  BY <1>2, <1>6, Sizes DEF Address
<1>7. CASE t.phase = "random"
  <2>1. CallOf(t) = [op |-> "read", addr |-> 0, bytes |-> <<0>>]
    BY <1>7 DEF CallOf
  <2>2. t.addr = 0 /\ 0 \in Byte /\ 0 \in Address
    BY <1>7, Sizes DEF TestOK, Byte, Address
  <2>3. <<0>> \in Seq(Byte) /\ Len(<<0>>) = 1
    BY <2>2
  <2>4. QED
    BY <1>7, <2>1, <2>2, <2>3, Sizes DEF Size
<1>8. CASE t.phase = "byte"
  <2>1. CallOf(t) = [op |-> "write", addr |-> t.addr, bytes |-> <<t.data>>]
    BY <1>8 DEF CallOf
  <2>2. t.addr < PAGE_SIZE /\ <<t.data>> \in Seq(Byte) /\ Len(<<t.data>>) = 1
    BY <1>2, <1>8 DEF TestOK
  <2>3. t.data = (t.start + (t.addr + 1 - 1)) % Bytes
    BY <1>2, <1>8 DEF TestOK
  <2>4. QED
    BY <1>2, <1>8, <2>1, <2>2, <2>3, Sizes DEF Size, Address
<1>9. CASE t.phase = "page"
  <2>1. CallOf(t) = [op |-> "write", addr |-> t.addr, bytes |-> Counting(t.data, PAGE_SIZE)]
    BY <1>9 DEF CallOf
  <2>2. t.addr + PAGE_SIZE <= ROM_SIZE
    BY <1>9 DEF TestOK
  <2>3. t.addr \in Address
    BY <1>6, <2>2, Sizes
  <2>4. QED
    BY <1>5, <1>9, <2>1, <2>2, <2>3, Sizes
<1>10. CASE t.phase = "seq"
  <2>1. CallOf(t) = [op |-> "read", addr |-> t.addr, bytes |-> Counting(t.data, t.n)]
    BY <1>10 DEF CallOf
  <2>2. t.addr + t.n <= ROM_SIZE
    BY <1>10 DEF TestOK
  <2>3. t.addr \in Address
    BY <1>2, <1>6, <2>2
  <2>4. QED
    BY <1>2, <1>5, <1>10, <2>1, <2>2, <2>3
<1>11. CASE t.phase = "rest"
  <2> DEFINE len == ROM_SIZE % t.n
  <2>1. CallOf(t) = [op |-> "read", addr |-> t.addr, bytes |-> Counting(t.data, len)]
    BY <1>11 DEF CallOf
  <2>2. len # 0 /\ t.addr + len = ROM_SIZE
    BY <1>11 DEF TestOK
  <2>3. len \in Nat
    BY <1>3
  <2>4. len = ROM_SIZE % t.n
    OBVIOUS
  <2> HIDE DEF len
  <2>5. len \in Nat \ {0} /\ t.addr + len <= ROM_SIZE
    BY <2>2, <2>3, Sizes
  <2>6. t.addr \in Address
    BY <1>6, <2>5
  <2>7. QED
    BY <1>5, <1>11, <2>1, <2>4, <2>5, <2>6
<1>12. QED
  BY <1>2, <1>7, <1>8, <1>9, <1>10, <1>11

-----------------------------------------------------------------------------
(* Which call follows which.                                               *)

\* The device has a whole number of pages, two at least.
LEMMA Pages ==
  /\ ROM_SIZE \div PAGE_SIZE \in Nat /\ ROM_SIZE = PAGE_SIZE * (ROM_SIZE \div PAGE_SIZE)
  /\ PAGE_SIZE + PAGE_SIZE <= ROM_SIZE
<1> DEFINE k == ROM_SIZE \div PAGE_SIZE
<1>1. k \in Nat /\ ROM_SIZE = PAGE_SIZE * k
  BY Sizes, Division
<1>2. 1 < k
  <2> HIDE DEF k
  <2>1. k = 0 => PAGE_SIZE * k = 0
    BY Sizes, SMT
  <2>2. k = 1 => PAGE_SIZE * k = PAGE_SIZE
    BY Sizes, SMT
  <2>3. QED
    BY <1>1, <2>1, <2>2, Sizes
<1>3. PAGE_SIZE * 1 + PAGE_SIZE <= PAGE_SIZE * k
  <2>1. 1 \in Nat /\ PAGE_SIZE \in Nat
    BY Sizes
  <2> HIDE DEF k
  <2>2. QED
    BY <1>1, <1>2, <2>1, Grows
<1>4. PAGE_SIZE * 1 = PAGE_SIZE
  BY Sizes
<1>5. QED
  BY <1>1, <1>3, <1>4

\* An address that is a multiple of c, with room for one c more, is followed by
\* the end of the whole multiples or by one more of them.
LEMMA NextMultiple ==
  ASSUME NEW c \in Nat \ {0}, NEW q \in Nat, NEW k \in Nat, c * q + c <= c * k + (c - 1)
  PROVE  /\ c * q + c = c * (q + 1)
         /\ c * q + c # c * k => c * q + c + c <= c * k
<1>1. c * q + c = c * (q + 1)
  BY OneMore
<1>2. ~(k < q + 1)
  <2> SUFFICES ASSUME k < q + 1
               PROVE  FALSE
    OBVIOUS
  <2>1. k \in Nat /\ q + 1 \in Nat /\ c \in Nat
    OBVIOUS
  <2>2. c * k + c <= c * (q + 1)
    BY <2>1, Grows
  <2>3. c * k \in Int /\ c * q \in Int
    BY SMT
  <2>4. QED
    BY <1>1, <2>2, <2>3
<1>3. q + 1 < k => c * (q + 1) + c <= c * k
  <2>1. k \in Nat /\ q + 1 \in Nat /\ c \in Nat
    OBVIOUS
  <2>2. QED
    BY <2>1, Grows
<1>4. QED
  BY <1>1, <1>2, <1>3

\* The variables of main() after a step of addr and data.
LEMMA AdvancedTest ==
  ASSUME NEW t, TestOK(t), NEW k \in Nat, t.addr + k <= ROM_SIZE, t.phase # "random"
  PROVE  /\ Advanced(t, k) \in Test
         /\ Advanced(t, k) = [t EXCEPT !.addr = t.addr + k, !.data = (t.data + k) % Bytes]
         /\ (t.data + k) % Bytes = (t.start + (t.addr + k)) % Bytes
         /\ (t.data + k) % Bytes \in Byte
<1>1. t \in Test /\ t.data = (t.start + t.addr) % Bytes
  BY DEF TestOK
<1>2. t.start \in Nat /\ t.addr \in Nat /\ t.data \in Nat /\ t.addr + k \in 0 .. ROM_SIZE
  BY <1>1, TestTypes, Sizes
<1>3. (((t.start + t.addr) % Bytes) + k) % Bytes = ((t.start + t.addr) + k) % Bytes
  <2>1. t.start + t.addr \in Nat
    BY <1>2
  <2>2. QED
    BY <2>1, CountsOn
<1>4. (t.start + t.addr) + k = t.start + (t.addr + k)
  BY <1>2
<1>5. (t.data + k) % Bytes \in Byte
  <2>1. t.data + k \in Nat
    BY <1>2
  <2>2. QED
    BY <2>1, Sizes, Division DEF Byte
<1>6. QED
  BY <1>1, <1>2, <1>3, <1>4, <1>5 DEF Advanced, Test

\* The reading back begins again.
LEMMA RoundTest ==
  ASSUME NEW t \in Test, NEW k \in 1 .. (BufSize - 1)
  PROVE  /\ TestOK(Round(t, k)) /\ Round(t, k).start = t.start
         /\ Upto(Round(t, k)) = ROM_SIZE
<1> DEFINE v == Round(t, k)
<1>1. /\ DOMAIN v = {"phase", "start", "data", "addr", "n"}
      /\ v.phase = "seq" /\ v.start = t.start /\ v.data = t.start /\ v.addr = 0 /\ v.n = k
  BY DEF Round, Test
<1>2. t.start \in Byte /\ t.start \in Nat /\ 0 \in 0 .. ROM_SIZE /\ k \in Nat \ {0} /\ k <= ROM_SIZE
  BY TestTypes, Sizes
<1>3. t.start % Bytes = t.start
  <2>1. t.start < Bytes
    BY <1>2, Sizes DEF Byte
  <2>2. QED
    BY <1>2, <2>1, Sizes
<1>4. k * 0 = 0
  BY <1>2
<1>5. v \in Test
  BY <1>1, <1>2 DEF Round, Test
<1> HIDE DEF v
<1>6. TestOK(v) /\ v.start = t.start /\ Upto(v) = ROM_SIZE
  <2>1. v.data = (v.start + v.addr) % Bytes
    BY <1>1, <1>2, <1>3
  <2>2. v.addr + v.n <= ROM_SIZE /\ v.addr = v.n * 0
    BY <1>1, <1>2, <1>4
  <2>3. 0 \in Nat
    OBVIOUS
  <2>4. QED
    BY <1>1, <1>5, <2>1, <2>2, <2>3 DEF TestOK, Upto
<1>7. QED
  BY <1>6 DEF v

\* After a call that writes.
LEMMA WrittenTest ==
  ASSUME NEW t, TestOK(t), t.phase \in {"byte", "page"}
  PROVE  /\ TestOK(Written(t)) /\ Written(t).start = t.start
         /\ Upto(Written(t)) = t.addr + Size(t)
<1> DEFINE len == Size(t)
           u == Advanced(t, len)
<1>1. /\ len \in Nat \ {0} /\ t.addr + len <= ROM_SIZE
      /\ len = IF t.phase = "byte" THEN 1 ELSE PAGE_SIZE
  BY CallFacts
<1>2. /\ t \in Test /\ t.start \in Nat /\ t.addr \in Nat /\ t.start \in Byte /\ t.n \in Nat \ {0}
      /\ DOMAIN t = {"phase", "start", "data", "addr", "n"}
  <2>1. t \in Test
    BY DEF TestOK
  <2>2. QED
    BY <2>1, TestTypes DEF Test
<1> HIDE DEF len
<1>3. /\ u \in Test /\ u.addr = t.addr + len /\ u.start = t.start /\ u.n = t.n
      /\ u.data = (u.start + u.addr) % Bytes
      /\ DOMAIN u = {"phase", "start", "data", "addr", "n"}
  <2>1. /\ u \in Test
        /\ u = [t EXCEPT !.addr = t.addr + len, !.data = (t.data + len) % Bytes]
        /\ (t.data + len) % Bytes = (t.start + (t.addr + len)) % Bytes
    BY <1>1, AdvancedTest
  <2>2. QED
    BY <1>2, <2>1
<1>4. t.phase = "page" => /\ \E q \in Nat : u.addr = PAGE_SIZE * q
                          /\ u.addr # ROM_SIZE => u.addr + PAGE_SIZE <= ROM_SIZE
  <2> SUFFICES ASSUME t.phase = "page"
               PROVE  /\ \E q \in Nat : u.addr = PAGE_SIZE * q
                      /\ u.addr # ROM_SIZE => u.addr + PAGE_SIZE <= ROM_SIZE
    OBVIOUS
  <2>1. PICK q \in Nat : t.addr = PAGE_SIZE * q
    BY DEF TestOK
  <2> DEFINE k == ROM_SIZE \div PAGE_SIZE
  <2>2. k \in Nat /\ ROM_SIZE = PAGE_SIZE * k
    BY Pages
  <2> HIDE DEF u, k
  <2>3. u.addr = PAGE_SIZE * q + PAGE_SIZE /\ PAGE_SIZE * q + PAGE_SIZE <= PAGE_SIZE * k
    BY <1>1, <1>3, <2>1, <2>2
  <2>4. PAGE_SIZE * q + PAGE_SIZE <= PAGE_SIZE * k + (PAGE_SIZE - 1)
    <3>1. PAGE_SIZE * q \in Int /\ PAGE_SIZE * k \in Int
      BY <2>2, Sizes, SMT
    <3>2. QED
      BY <2>3, <3>1, Sizes
  <2>5. /\ PAGE_SIZE * q + PAGE_SIZE = PAGE_SIZE * (q + 1)
        /\ PAGE_SIZE * q + PAGE_SIZE # PAGE_SIZE * k =>
             PAGE_SIZE * q + PAGE_SIZE + PAGE_SIZE <= PAGE_SIZE * k
    BY <2>2, <2>4, Sizes, NextMultiple
  <2>6. q + 1 \in Nat
    OBVIOUS
  <2>7. QED
    BY <2>2, <2>3, <2>5, <2>6
<1>5. t.phase = "byte" => t.addr < PAGE_SIZE /\ len = 1
  BY <1>1 DEF TestOK
<1>6. Written(t) = IF u.addr = ROM_SIZE THEN Round(u, 1)
                   ELSE [u EXCEPT !.phase = IF u.addr < PAGE_SIZE THEN "byte" ELSE "page"]
  BY DEF Written, len, Size
<1> HIDE DEF u
<1>7. CASE u.addr = ROM_SIZE
  <2>1. 1 \in 1 .. (BufSize - 1)
    BY Sizes
  <2>2. TestOK(Round(u, 1)) /\ Round(u, 1).start = u.start /\ Upto(Round(u, 1)) = ROM_SIZE
    BY <1>3, <2>1, RoundTest
  <2>3. QED
    BY <1>3, <1>6, <1>7, <2>2 DEF len
<1>8. CASE u.addr # ROM_SIZE /\ u.addr < PAGE_SIZE
  <2> DEFINE v == [u EXCEPT !.phase = "byte"]
  <2>1. Written(t) = v
    BY <1>6, <1>8
  <2>2. /\ v \in Test /\ v.phase = "byte" /\ v.start = u.start /\ v.data = u.data
        /\ v.addr = u.addr
    BY <1>3 DEF Test
  <2> HIDE DEF v
  <2>3. QED
    BY <1>3, <1>8, <2>1, <2>2 DEF TestOK, Upto, len
<1>9. CASE u.addr # ROM_SIZE /\ ~(u.addr < PAGE_SIZE)
  <2> DEFINE v == [u EXCEPT !.phase = "page"]
  <2>1. Written(t) = v
    BY <1>6, <1>9
  <2>2. /\ v \in Test /\ v.phase = "page" /\ v.start = u.start /\ v.data = u.data
        /\ v.addr = u.addr
    BY <1>3 DEF Test
  <2>3. (\E q \in Nat : u.addr = PAGE_SIZE * q) /\ u.addr + PAGE_SIZE <= ROM_SIZE
    <3>1. CASE t.phase = "page"
      BY <1>4, <1>9, <3>1
    <3>2. CASE t.phase = "byte"
      <4>1. u.addr = PAGE_SIZE
        BY <1>2, <1>3, <1>5, <1>9, <3>2, Sizes
      <4>2. PAGE_SIZE = PAGE_SIZE * 1
        BY Sizes
      <4>3. QED
        BY <4>1, <4>2, Pages
    <3>3. QED
      BY <3>1, <3>2
  <2> HIDE DEF v
  <2>4. QED
    BY <1>3, <2>1, <2>2, <2>3 DEF TestOK, Upto, len
<1>10. QED
  BY <1>7, <1>8, <1>9

\* After a call that reads back.
LEMMA ReadBackTest ==
  ASSUME NEW t, TestOK(t), t.phase \in {"seq", "rest"}
  PROVE  /\ TestOK(ReadBack(t)) /\ ReadBack(t).start = t.start
         /\ Upto(ReadBack(t)) = ROM_SIZE
<1> DEFINE u == Advanced(t, t.n)
           m == ROM_SIZE % t.n
           d == IF t.n = BufSize - 1 THEN 1 ELSE t.n + 1
           back == ReadBack(t)
<1>1. /\ t \in Test /\ t.start \in Nat /\ t.addr \in Nat /\ t.start \in Byte
      /\ t.n \in Nat \ {0} /\ t.n \in 1 .. (BufSize - 1)
      /\ DOMAIN t = {"phase", "start", "data", "addr", "n"}
  <2>1. t \in Test
    BY DEF TestOK
  <2>2. QED
    BY <2>1, TestTypes, Sizes DEF Test
<1>2. d \in 1 .. (BufSize - 1)
  BY <1>1, Sizes
<1>3. back = IF t.phase = "seq" /\ u.addr + t.n <= ROM_SIZE THEN u
             ELSE IF t.phase = "seq" /\ m # 0 THEN [u EXCEPT !.phase = "rest"]
             ELSE Round(t, d)
  BY DEF ReadBack
<1>4. /\ TestOK(Round(t, d)) /\ Round(t, d).start = t.start
      /\ Upto(Round(t, d)) = ROM_SIZE
  <2> HIDE DEF d
  <2>1. QED
    BY <1>1, <1>2, RoundTest
<1>5. CASE t.phase = "rest"
  BY <1>3, <1>4, <1>5
<1>6. CASE t.phase = "seq"
  <2>1. t.addr + t.n <= ROM_SIZE
    BY <1>6 DEF TestOK
  <2>2. PICK q \in Nat : t.addr = t.n * q
    BY <1>6 DEF TestOK
  <2>3. /\ u \in Test /\ u.addr = t.addr + t.n /\ u.start = t.start /\ u.n = t.n
        /\ u.phase = "seq" /\ u.data = (u.start + u.addr) % Bytes
        /\ DOMAIN u = {"phase", "start", "data", "addr", "n"}
    <3>1. t.n \in Nat /\ t.phase # "random"
      BY <1>1, <1>6
    <3>2. /\ u \in Test
          /\ u = [t EXCEPT !.addr = t.addr + t.n, !.data = (t.data + t.n) % Bytes]
          /\ (t.data + t.n) % Bytes = (t.start + (t.addr + t.n)) % Bytes
      BY <2>1, <3>1, AdvancedTest
    <3>3. QED
      BY <1>1, <1>6, <3>2
  <2> DEFINE k == ROM_SIZE \div t.n
  <2>4. k \in Nat /\ m \in Nat /\ m < t.n /\ ROM_SIZE = t.n * k + m
    BY <1>1, Sizes, Division
  <2> HIDE DEF u, k, m, d, back
  <2>5. t.n * q \in Nat /\ t.n * k \in Nat
    BY <1>1, <2>2, <2>4, Grows
  <2>6. t.n * q + t.n <= t.n * k + (t.n - 1)
    BY <1>1, <2>1, <2>2, <2>4, <2>5
  <2>7. /\ t.n * q + t.n = t.n * (q + 1)
        /\ t.n * q + t.n # t.n * k => t.n * q + t.n + t.n <= t.n * k
    BY <1>1, <2>4, <2>6, NextMultiple
  <2>8. CASE u.addr + t.n <= ROM_SIZE
    <3>1. back = u
      BY <1>3, <1>6, <2>8
    <3>2. u.addr = u.n * (q + 1) /\ q + 1 \in Nat
      BY <2>2, <2>3, <2>7
    <3>3. TestOK(u) /\ u.start = t.start /\ Upto(u) = ROM_SIZE
      BY <2>3, <2>8, <3>2 DEF TestOK, Upto
    <3>4. QED
      BY <3>1, <3>3 DEF back
  <2>9. CASE ~(u.addr + t.n <= ROM_SIZE) /\ m # 0
    <3> DEFINE v == [u EXCEPT !.phase = "rest"]
    <3>1. back = v
      BY <1>3, <1>6, <2>9
    <3>2. /\ v \in Test /\ v.phase = "rest" /\ v.start = u.start /\ v.data = u.data
          /\ v.addr = u.addr /\ v.n = u.n
      BY <2>3 DEF Test
    <3>3. u.addr = t.n * k
      BY <1>1, <2>2, <2>3, <2>4, <2>5, <2>7, <2>9, Sizes
    <3>4. u.addr + m = ROM_SIZE
      BY <2>4, <3>3
    <3>5. v.addr + (ROM_SIZE % v.n) = ROM_SIZE /\ ROM_SIZE % v.n # 0
      BY <2>3, <2>9, <3>2, <3>4 DEF m
    <3> HIDE DEF v
    <3>6. TestOK(v) /\ v.start = t.start /\ Upto(v) = ROM_SIZE
      BY <2>3, <3>2, <3>5 DEF TestOK, Upto
    <3>7. QED
      BY <3>1, <3>6 DEF back
  <2>10. CASE ~(u.addr + t.n <= ROM_SIZE) /\ m = 0
    <3>1. back = Round(t, d)
      BY <1>3, <1>6, <2>10
    <3>2. QED
      BY <1>4, <3>1 DEF back
  <2>11. QED
    BY <2>8, <2>9, <2>10
<1>7. QED
  BY <1>5, <1>6

\* The test goes on in order, with the start it has read at the beginning.
LEMMA NextTest ==
  ASSUME NEW t, TestOK(t), NEW g, t.phase = "random" => g[1] \in Nat
  PROVE  /\ TestOK(Following(t, g))
         /\ t.phase = "random" => Upto(Following(t, g)) = 0
         /\ t.phase # "random" => Following(t, g).start = t.start
         /\ t.phase \in {"byte", "page"} => Upto(Following(t, g)) = t.addr + Size(t)
         /\ t.phase \in {"seq", "rest"} => Upto(Following(t, g)) = ROM_SIZE
<1>1. t \in Test /\ t.phase \in {"random", "byte", "page", "seq", "rest"}
  BY DEF TestOK, Test
<1>2. CASE t.phase = "random"
  <2> DEFINE first == (g[1] + 1) % Bytes
             u == [t EXCEPT !.phase = "byte", !.start = first, !.data = first]
  <2>1. Following(t, g) = u
    BY <1>2 DEF Following
  <2>2. first \in Byte /\ first % Bytes = first /\ first + 0 = first
    <3>1. g[1] + 1 \in Nat
      BY <1>2
    <3>2. first \in Nat /\ first < Bytes
      BY <3>1, Sizes, Division
    <3> HIDE DEF first
    <3>3. QED
      BY <3>2, Sizes DEF Byte
  <2>3. t.addr = 0
    BY <1>2 DEF TestOK
  <2> HIDE DEF first
  <2>4. /\ u \in Test /\ u.phase = "byte" /\ u.start = first /\ u.data = first /\ u.addr = 0
    BY <1>1, <2>2, <2>3 DEF Test
  <2> HIDE DEF u
  <2>5. TestOK(u) /\ Upto(u) = 0
    BY <2>2, <2>4, Sizes DEF TestOK, Upto
  <2>6. QED
    BY <1>2, <2>1, <2>5
<1>3. CASE t.phase \in {"byte", "page"}
  <2>1. Following(t, g) = Written(t)
    BY <1>3 DEF Following
  <2>2. QED
    BY <1>3, <2>1, WrittenTest
<1>4. CASE t.phase \in {"seq", "rest"}
  <2>1. Following(t, g) = ReadBack(t)
    BY <1>4 DEF Following
  <2>2. QED
    BY <1>4, <2>1, ReadBackTest
<1>5. QED
  BY <1>1, <1>2, <1>3, <1>4

-----------------------------------------------------------------------------
(* What a memory holds.                                                    *)

Memory == [Address -> Byte]

\* A memory holds what the calls before this one have written, and the first k
\* bytes that this one writes.
Holds(m, t, k) == \A a \in Address : a < Upto(t) + k => m[a] = (t.start + a) % Bytes

\* One more byte in the latch is one more that will be burnt.
LEMMA LatchedByte ==
  ASSUME NEW m, NEW l, NEW p \in Address, NEW b
  PROVE  /\ Burnt(m, Latched(l, p, b)) = [Burnt(m, l) EXCEPT ![p] = b]
         /\ Latched(l, p, b) # <<>>
<1>1. DOMAIN Latched(l, p, b) = DOMAIN l \cup {p}
  BY DEF Latched
<1>2. \A a \in DOMAIN l \cup {p} : Latched(l, p, b)[a] = IF a = p THEN b ELSE l[a]
  BY DEF Latched
<1>3. \A a \in Address :
        (IF a \in DOMAIN Latched(l, p, b) THEN Latched(l, p, b)[a] ELSE m[a])
          = IF a = p THEN b ELSE IF a \in DOMAIN l THEN l[a] ELSE m[a]
  BY <1>1, <1>2
<1>4. Burnt(m, Latched(l, p, b)) = [a \in Address |-> IF a = p THEN b ELSE Burnt(m, l)[a]]
  BY <1>3 DEF Burnt
<1>5. [Burnt(m, l) EXCEPT ![p] = b] = [a \in Address |-> IF a = p THEN b ELSE Burnt(m, l)[a]]
  BY DEF Burnt
<1>6. Latched(l, p, b) # <<>>
  BY <1>1
<1>7. QED
  BY <1>4, <1>5, <1>6

\* Nothing is in an empty latch.
LEMMA EmptyLatch ==
  ASSUME NEW m
  PROVE  /\ m \in Memory => Burnt(m, <<>>) = m
         /\ \A l : Burnt(Burnt(m, l), <<>>) = Burnt(m, l)
<1>1. DOMAIN <<>> = {}
  OBVIOUS
<1>2. Burnt(m, <<>>) = [a \in Address |-> m[a]]
  BY <1>1 DEF Burnt
<1>3. ASSUME NEW l
      PROVE  Burnt(Burnt(m, l), <<>>) = Burnt(m, l)
  BY <1>1 DEF Burnt
<1>4. QED
  BY <1>2, <1>3 DEF Memory

\* The address counter goes on inside a page.
LEMMA NextInPage ==
  ASSUME NEW t, TestOK(t), t.phase \in {"byte", "page"}, NEW k \in Nat, k + 1 < Size(t)
  PROVE  InPage(t.addr + k, 1) = t.addr + (k + 1)
<1>1. t.phase = "page" /\ k + 1 < PAGE_SIZE
  BY CallFacts
<1>2. PICK q \in Nat : t.addr = PAGE_SIZE * q
  BY <1>1 DEF TestOK
<1>3. PAGE_SIZE \in Nat \ {0} /\ PAGE_SIZE * q \in Nat
  <2>1. PAGE_SIZE \in Nat \ {0} /\ PAGE_SIZE \in Nat
    BY Sizes
  <2>2. QED
    BY <2>1, Grows
<1>4. (PAGE_SIZE * q + k) \div PAGE_SIZE = q
  <2>1. k < PAGE_SIZE /\ PAGE_SIZE * q + k \in Nat
    BY <1>1, <1>3
  <2>2. QED
    BY <1>3, <2>1, Divided
<1>5. (PAGE_SIZE * q + (k + 1)) % PAGE_SIZE = k + 1
  <2>1. k + 1 \in Nat /\ PAGE_SIZE * q + (k + 1) \in Nat
    BY <1>3
  <2>2. QED
    BY <1>1, <1>3, <2>1, Divided
<1>6. PAGE_SIZE * q + k + 1 = PAGE_SIZE * q + (k + 1)
  BY <1>3
<1>7. QED
  BY <1>2, <1>4, <1>5, <1>6 DEF InPage

\* A byte that is written.
LEMMA WritesOne ==
  ASSUME NEW t, TestOK(t), t.phase \in {"byte", "page"}, NEW k \in Nat, k < Size(t),
         NEW m \in Memory, Holds(m, t, k)
  PROVE  /\ t.addr + k \in Address /\ CallOf(t).bytes[k + 1] \in Byte
         /\ [m EXCEPT ![t.addr + k] = CallOf(t).bytes[k + 1]] \in Memory
         /\ Holds([m EXCEPT ![t.addr + k] = CallOf(t).bytes[k + 1]], t, k + 1)
<1> DEFINE b == CallOf(t).bytes[k + 1]
           w == [m EXCEPT ![t.addr + k] = b]
<1>1. t.addr \in Nat /\ t.start \in Nat /\ Upto(t) = t.addr
  <2>1. t \in Test
    BY DEF TestOK
  <2>2. QED
    BY <2>1, TestTypes DEF Upto
<1>2. /\ Size(t) \in Nat /\ t.addr + Size(t) <= ROM_SIZE /\ CallOf(t).bytes \in Seq(Byte)
      /\ Size(t) = Len(CallOf(t).bytes)
      /\ \A j \in 1 .. Size(t) : CallOf(t).bytes[j] = (t.start + (t.addr + j - 1)) % Bytes
  BY CallFacts DEF Size
<1>3. k + 1 \in 1 .. Size(t)
  BY <1>2
<1>4. b = (t.start + (t.addr + k)) % Bytes /\ b \in Byte
  <2>1. CallOf(t).bytes[k + 1] = (t.start + (t.addr + (k + 1) - 1)) % Bytes
    BY <1>2, <1>3
  <2>2. t.addr + (k + 1) - 1 = t.addr + k
    BY <1>1
  <2>3. CallOf(t).bytes[k + 1] \in Byte
    BY <1>2, <1>3
  <2>4. QED
    BY <2>1, <2>2, <2>3
<1>5. t.addr + k \in Address
  BY <1>1, <1>2, Sizes DEF Address
<1> HIDE DEF b
<1>6. w \in Memory
  BY <1>4 DEF Memory
<1>7. ASSUME NEW a \in Address, a < t.addr + (k + 1)
      PROVE  w[a] = (t.start + a) % Bytes
  <2>1. a \in Nat
    BY Sizes DEF Address
  <2>2. CASE a = t.addr + k
    <3>1. w[a] = b
      BY <1>5, <2>2 DEF Memory
    <3>2. QED
      BY <1>4, <2>2, <3>1
  <2>3. CASE a # t.addr + k
    <3>1. w[a] = m[a]
      BY <2>3 DEF Memory
    <3>2. a < t.addr + k
      BY <1>1, <1>7, <2>1, <2>3
    <3>3. QED
      BY <1>1, <3>1, <3>2 DEF Holds
  <2>4. QED
    BY <2>2, <2>3
<1>8. Holds(w, t, k + 1)
  BY <1>1, <1>7 DEF Holds
<1>9. QED
  BY <1>4, <1>5, <1>6, <1>8 DEF b

\* What a memory holds after a call.
LEMMA HoldsOn ==
  ASSUME NEW t, TestOK(t), NEW g, t.phase = "random" => g[1] \in Nat, NEW m \in Memory,
         Holds(m, t, IF t.phase \in {"byte", "page"} THEN Size(t) ELSE 0)
  PROVE  Holds(m, Following(t, g), 0)
<1>1. t \in Test /\ t.phase \in {"random", "byte", "page", "seq", "rest"} /\ t.addr \in Nat
  <2>1. t \in Test
    BY DEF TestOK
  <2>2. QED
    BY <2>1, TestTypes
<1>2. /\ t.phase = "random" => Upto(Following(t, g)) = 0
      /\ t.phase # "random" => Following(t, g).start = t.start
      /\ t.phase \in {"byte", "page"} => Upto(Following(t, g)) = t.addr + Size(t)
      /\ t.phase \in {"seq", "rest"} => Upto(Following(t, g)) = ROM_SIZE
  BY NextTest
<1>3. CASE t.phase = "random"
  <2>1. \A a \in Address : ~(a < Upto(Following(t, g)) + 0)
    BY <1>2, <1>3, Sizes DEF Address
  <2>2. QED
    BY <2>1 DEF Holds
<1>4. CASE t.phase \in {"byte", "page"}
  <2>1. Upto(t) = t.addr
    BY <1>4 DEF Upto
  <2>2. Size(t) \in Nat
    BY CallFacts
  <2>3. Upto(Following(t, g)) + 0 = Upto(t) + Size(t)
    BY <1>1, <1>2, <1>4, <2>1, <2>2
  <2>4. QED
    BY <1>2, <1>4, <2>3 DEF Holds
<1>5. CASE t.phase \in {"seq", "rest"}
  <2>1. Upto(t) = ROM_SIZE
    BY <1>5 DEF Upto
  <2>2. QED
    BY <1>2, <1>5, <2>1 DEF Holds
<1>6. QED
  BY <1>1, <1>3, <1>4, <1>5

LEMMA SameSequence ==
  ASSUME NEW S, NEW a \in Seq(S), NEW b \in Seq(S), Len(a) = Len(b),
         \A j \in 1 .. Len(a) : a[j] = b[j]
  PROVE  a = b
OBVIOUS

\* What is read back is what was written.
LEMMA ReadMatches ==
  ASSUME NEW t, TestOK(t), NEW m \in Memory, Holds(m, t, 0),
         NEW g \in Seq(Byte), Len(g) = Size(t),
         \A j \in 1 .. Size(t) : g[j] = m[t.addr + (j - 1)]
  PROVE  ~Mismatch(t, g)
<1> SUFFICES ASSUME t.phase \in {"seq", "rest"}
             PROVE  g = CallOf(t).bytes
  BY DEF Mismatch
<1>1. t.addr \in Nat /\ t.start \in Nat /\ Upto(t) = ROM_SIZE
  <2>1. t \in Test
    BY DEF TestOK
  <2>2. QED
    BY <2>1, TestTypes DEF Upto
<1>2. /\ Size(t) \in Nat /\ t.addr + Size(t) <= ROM_SIZE /\ CallOf(t).bytes \in Seq(Byte)
      /\ Size(t) = Len(CallOf(t).bytes)
      /\ \A j \in 1 .. Size(t) : CallOf(t).bytes[j] = (t.start + (t.addr + j - 1)) % Bytes
  BY CallFacts DEF Size
<1>3. ASSUME NEW j \in 1 .. Size(t)
      PROVE  g[j] = CallOf(t).bytes[j]
  <2>1. /\ t.addr + (j - 1) \in Address /\ t.addr + (j - 1) < ROM_SIZE + 0
        /\ t.addr + (j - 1) = t.addr + j - 1
    <3>1. j \in Nat \ {0} /\ j <= Size(t)
      BY <1>2
    <3>2. ROM_SIZE \in Nat /\ Size(t) \in Nat /\ t.addr + Size(t) <= ROM_SIZE
      BY <1>2, Sizes
    <3>3. QED
      BY <1>1, <3>1, <3>2 DEF Address
  <2>2. m[t.addr + (j - 1)] = (t.start + (t.addr + (j - 1))) % Bytes
    BY <1>1, <2>1 DEF Holds
  <2>3. QED
    BY <1>2, <2>1, <2>2
<1>4. CallOf(t).bytes \in Seq(Byte) /\ Len(g) = Len(CallOf(t).bytes)
  BY <1>2
<1>5. \A j \in 1 .. Len(g) : g[j] = CallOf(t).bytes[j]
  BY <1>3
<1>6. QED
  BY <1>4, <1>5, SameSequence

LEMMA HoldsAll ==
  ASSUME NEW t, NEW m \in Memory, NEW k \in Nat, Holds(m, t, k)
  PROVE  Filled(m, t)
<1> SUFFICES ASSUME t.phase \in {"seq", "rest"}
             PROVE  m = Counted(t)
  BY DEF Filled
<1>1. Upto(t) = ROM_SIZE
  BY DEF Upto
<1>2. \A a \in Address : a < ROM_SIZE + k
  BY Sizes DEF Address
<1>3. \A a \in Address : m[a] = (t.start + a) % Bytes
  BY <1>1, <1>2 DEF Holds
<1>4. QED
  BY <1>3 DEF Memory, Counted

-----------------------------------------------------------------------------
(* The program with an I2C memory.                                         *)

\* The instances of the programs mean by the names of RomTest what it does.
LEMMA I2cNames ==
  /\ I2c!Address = Address /\ I2c!Byte = Byte /\ I2c!Begin = Begin
  /\ \A t : I2c!CallOf(t) = CallOf(t)
  /\ \A t, g : I2c!Mismatch(t, g) = Mismatch(t, g)
  /\ \A t, g : I2c!Following(t, g) = Following(t, g)
  /\ \A l, p, b : I2c!Latched(l, p, b) = Latched(l, p, b)
  /\ \A m, l : I2c!Burnt(m, l) = Burnt(m, l)
  /\ \A a, k : I2c!InPage(a, k) = InPage(a, k)
  /\ \A m, t : I2c!Filled(m, t) = Filled(m, t)
<1>1. \A t : I2c!CallOf(t) = CallOf(t)
  BY DEF I2c!CallOf, CallOf, I2c!Counting, Counting
<1>2. \A t, g : I2c!Mismatch(t, g) = Mismatch(t, g)
  BY <1>1 DEF I2c!Mismatch, Mismatch
<1>3. \A t, g : I2c!Following(t, g) = Following(t, g)
  BY <1>1 DEF I2c!Following, Following, I2c!Written, Written, I2c!ReadBack, ReadBack,
              I2c!Advanced, Advanced, I2c!Round, Round
<1>4. I2c!Address = Address /\ I2c!Byte = Byte /\ I2c!Begin = Begin
  BY DEF I2c!Address, Address, I2c!Byte, Byte, I2c!Begin, Begin
<1>5. \A l, p, b : I2c!Latched(l, p, b) = Latched(l, p, b)
  BY DEF I2c!Latched, Latched
<1>6. \A m, l : I2c!Burnt(m, l) = Burnt(m, l)
  BY <1>4 DEF I2c!Burnt, Burnt
<1>7. \A a, k : I2c!InPage(a, k) = InPage(a, k)
  BY DEF I2c!InPage, InPage
<1>8. \A m, t : I2c!Filled(m, t) = Filled(m, t)
  BY <1>4 DEF I2c!Filled, Filled, I2c!Counted, Counted
<1>9. QED
  BY <1>1, <1>2, <1>3, <1>4, <1>5, <1>6, <1>7, <1>8

LEMMA SpiNames ==
  /\ Spi!Address = Address /\ Spi!Byte = Byte /\ Spi!Begin = Begin
  /\ \A t : Spi!CallOf(t) = CallOf(t)
  /\ \A t, g : Spi!Mismatch(t, g) = Mismatch(t, g)
  /\ \A t, g : Spi!Following(t, g) = Following(t, g)
  /\ \A l, p, b : Spi!Latched(l, p, b) = Latched(l, p, b)
  /\ \A m, l : Spi!Burnt(m, l) = Burnt(m, l)
  /\ \A a, k : Spi!InPage(a, k) = InPage(a, k)
  /\ \A m, t : Spi!Filled(m, t) = Filled(m, t)
<1>1. \A t : Spi!CallOf(t) = CallOf(t)
  BY DEF Spi!CallOf, CallOf, Spi!Counting, Counting
<1>2. \A t, g : Spi!Mismatch(t, g) = Mismatch(t, g)
  BY <1>1 DEF Spi!Mismatch, Mismatch
<1>3. \A t, g : Spi!Following(t, g) = Following(t, g)
  BY <1>1 DEF Spi!Following, Following, Spi!Written, Written, Spi!ReadBack, ReadBack,
              Spi!Advanced, Advanced, Spi!Round, Round
<1>4. Spi!Address = Address /\ Spi!Byte = Byte /\ Spi!Begin = Begin
  BY DEF Spi!Address, Address, Spi!Byte, Byte, Spi!Begin, Begin
<1>5. \A l, p, b : Spi!Latched(l, p, b) = Latched(l, p, b)
  BY DEF Spi!Latched, Latched
<1>6. \A m, l : Spi!Burnt(m, l) = Burnt(m, l)
  BY <1>4 DEF Spi!Burnt, Burnt
<1>7. \A a, k : Spi!InPage(a, k) = InPage(a, k)
  BY DEF Spi!InPage, InPage
<1>8. \A m, t : Spi!Filled(m, t) = Filled(m, t)
  BY <1>4 DEF Spi!Filled, Filled, Spi!Counted, Counted
<1>9. QED
  BY <1>1, <1>2, <1>3, <1>4, <1>5, <1>6, <1>7, <1>8

\* What the device will hold once it has burnt what it has latched.
Now == Burnt(rom, dev.latch)

HoldsNow(k) == Holds(Now, test, k)

\* What holds whatever is refused or lost.
I2cShape ==
  /\ DOMAIN bus = {"state", "command", "data"}
  /\ DOMAIN dev = {"at", "high", "ptr", "latch", "busy"}
  /\ refusals \in Nat /\ losses \in Nat
  /\ bus.state \in {"IDLE", "TX_RDY", "RX_RDY", "NACK_ADDR", "NACK_DATA"}
  /\ bus.state = "IDLE" => dev.at = "off"
  /\ bus.state = "TX_RDY" => dev.at \in {"high", "low", "writing"}
  /\ pc = "idle" => bus.state = "IDLE" /\ bus.command = "none"
  /\ pc = "return" /\ r = "ok" => bus.state = "IDLE" /\ bus.command = "none"

Quiet == bus.command = "none" /\ bus.state = "IDLE" /\ dev.at = "off"
Rests == ~dev.busy => dev.latch = <<>>
Free == ~dev.busy /\ dev.latch = <<>>

\* The call that main() makes, and what rom_read has read of it.
Op == CallOf(test).op
Data == CallOf(test).bytes
GotSoFar == /\ got \in Seq(Byte) /\ Len(got) = i
            /\ \A j \in 1 .. i : got[j] = rom[test.addr + (j - 1)]
GotAll == /\ got \in Seq(Byte) /\ Len(got) = Size(test)
          /\ \A j \in 1 .. Size(test) : got[j] = Now[test.addr + (j - 1)]

\* The functions wait for the device to take its address,
AtAddr ==
  /\ i = 0 /\ got = <<>> /\ HoldsNow(0)
  /\ \/ bus.command = "start write" /\ dev.at = "off" /\ Rests
     \/ bus.command = "none" /\ bus.state = "NACK_ADDR" /\ dev.at = "off" /\ Rests
     \/ bus.command = "none" /\ bus.state = "TX_RDY" /\ dev.at = "high" /\ Free

\* and the two bytes of the address in the memory.
AtHigh ==
  /\ i = 0 /\ got = <<>> /\ HoldsNow(0) /\ bus.state = "TX_RDY" /\ Free
  /\ \/ bus.command = "send" /\ dev.at = "high" /\ bus.data = test.addr \div High
     \/ bus.command = "none" /\ dev.at = "low" /\ dev.high = test.addr \div High

LowByte ==
  /\ i = 0 /\ got = <<>> /\ HoldsNow(0) /\ bus.state = "TX_RDY" /\ Free
  /\ bus.command = "send" /\ dev.at = "low"
  /\ bus.data = test.addr % High /\ dev.high = test.addr \div High

AtLow ==
  /\ Op = "read"
  /\ \/ LowByte
     \/ /\ i = 0 /\ got = <<>> /\ HoldsNow(0) /\ bus.state = "TX_RDY" /\ Free
        /\ bus.command = "none" /\ dev.at = "writing" /\ dev.ptr = test.addr

\* rom_write sends the bytes,
AtData ==
  /\ Op = "write" /\ bus.state = "TX_RDY" /\ ~dev.busy /\ i <= Size(test)
  /\ \/ LowByte
     \/ /\ bus.command = "none" /\ dev.at = "writing" /\ HoldsNow(i)
        /\ i < Size(test) => dev.ptr = test.addr + i
        /\ i > 0 => dev.latch # <<>>
     \/ /\ bus.command = "send" /\ dev.at = "writing" /\ i > 0 /\ HoldsNow(i - 1)
        /\ bus.data = Data[i] /\ dev.ptr = test.addr + (i - 1)

\* rom_read receives them,
AtRead ==
  /\ Op = "read" /\ Free /\ HoldsNow(0) /\ i < Size(test) /\ GotSoFar
  /\ \/ /\ bus.command = "start read" /\ bus.state = "TX_RDY" /\ i = 0 /\ dev.ptr = test.addr
     \/ /\ bus.command = "none" /\ bus.state = "RX_RDY" /\ dev.at = "reading"
        /\ bus.data = rom[test.addr + i]
        /\ i + 1 < Size(test) => dev.ptr = test.addr + (i + 1)
     \/ /\ bus.command = "recv" /\ bus.state = "RX_RDY" /\ dev.at = "reading"
        /\ dev.ptr = test.addr + i

\* and both stop.
Done == /\ Op = "write" => HoldsNow(Size(test))
        /\ Op = "read" => HoldsNow(0) /\ GotAll

AtStop ==
  /\ Done
  /\ \/ /\ bus.command = "stop" /\ ~dev.busy
        /\ Op = "write" => dev.at = "writing" /\ dev.latch # <<>>
        /\ Op = "read" => dev.at = "reading" /\ dev.latch = <<>>
     \/ Quiet /\ Rests

I2cHealth ==
  /\ TestOK(test) /\ rom \in Memory /\ Now \in Memory /\ i \in Nat
  /\ pc \in {"idle", "addr", "high", "low", "data", "read", "stop", "return"}
  /\ pc = "idle" => Quiet /\ Rests /\ HoldsNow(0)
  /\ pc = "addr" => AtAddr
  /\ pc = "high" => AtHigh
  /\ pc = "low" => AtLow
  /\ pc = "data" => AtData
  /\ pc = "read" => AtRead
  /\ pc = "stop" => AtStop
  /\ pc = "return" => r = "ok" /\ Quiet /\ Rests /\ Done

I2cInv == I2cShape /\ (refusals + losses = 0 => I2cHealth)

LEMMA SameNow ==
  ASSUME dev'.latch = dev.latch, rom' = rom, test' = test
  PROVE  Now' = Now /\ \A k : HoldsNow(k) => HoldsNow(k)'
BY DEF Now, HoldsNow

\* What the bus answers.
LEMMA Answered ==
  \A v, w :
    I2c!Answer(v, w) =>
      /\ DOMAIN bus' = {"state", "command", "data"}
      /\ bus'.state = v /\ bus'.command = "none" /\ bus'.data = w
BY DEF I2c!Answer

LEMMA I2cStart == I2cInv /\ I2c!Start /\ UNCHANGED I2c!program => I2cInv'
<1> SUFFICES ASSUME I2cInv, I2c!Start, UNCHANGED I2c!program
             PROVE  I2cInv'
  OBVIOUS
<1>1. /\ test' = test /\ pc' = pc /\ i' = i /\ got' = got /\ r' = r
      /\ rom' = rom /\ refusals' = refusals /\ losses' = losses
      /\ bus.command \in {"start write", "start read"}
  BY DEF I2c!Start, I2c!program
<1>2. /\ DOMAIN bus = {"state", "command", "data"}
      /\ DOMAIN dev = {"at", "high", "ptr", "latch", "busy"}
  BY DEF I2cInv, I2cShape
<1>4. CASE dev.busy
  <2>1. I2c!Answer("NACK_ADDR", bus.data) /\ dev' = [dev EXCEPT !.at = "off"]
    BY <1>4 DEF I2c!Start
  <2>2. /\ DOMAIN dev' = {"at", "high", "ptr", "latch", "busy"}
        /\ dev'.at = "off" /\ dev'.busy /\ dev'.latch = dev.latch
        /\ DOMAIN bus' = {"state", "command", "data"} /\ bus'.command = "none"
        /\ bus'.state = "NACK_ADDR"
    BY <1>2, <1>4, <2>1, Answered
  <2>3. I2cShape'
    BY <1>1, <2>2 DEF I2cInv, I2cShape
  <2>4. ASSUME refusals' + losses' = 0
        PROVE  I2cHealth'
    <3>1. I2cHealth
      BY <1>1, <2>4 DEF I2cInv
    <3>2. pc = "addr" /\ AtAddr
      BY <1>1, <1>4, <3>1 DEF I2cHealth, Quiet, Free, AtAddr, AtHigh, AtLow, LowByte, AtData,
              AtRead, AtStop
    <3>3. Now' = Now /\ HoldsNow(0)'
      BY <1>1, <2>2, <3>2, SameNow DEF AtAddr
    <3>4. AtAddr'
      BY <1>1, <2>2, <3>2, <3>3 DEF AtAddr, Rests
    <3>5. QED
      BY <1>1, <3>1, <3>2, <3>3, <3>4 DEF I2cHealth
  <2>5. QED
    BY <2>3, <2>4 DEF I2cInv
<1>5. CASE ~dev.busy /\ bus.command = "start write"
  <2>1. I2c!Answer("TX_RDY", bus.data) /\ dev' = [dev EXCEPT !.at = "high", !.latch = <<>>]
    BY <1>5 DEF I2c!Start
  <2>2. /\ DOMAIN dev' = {"at", "high", "ptr", "latch", "busy"}
        /\ dev'.at = "high" /\ ~dev'.busy /\ dev'.latch = <<>>
        /\ DOMAIN bus' = {"state", "command", "data"} /\ bus'.command = "none"
        /\ bus'.state = "TX_RDY"
    BY <1>2, <1>5, <2>1, Answered
  <2>3. I2cShape'
    BY <1>1, <2>2 DEF I2cInv, I2cShape
  <2>4. ASSUME refusals' + losses' = 0
        PROVE  I2cHealth'
    <3>1. I2cHealth
      BY <1>1, <2>4 DEF I2cInv
    <3>2. pc = "addr" /\ AtAddr /\ Rests
      BY <1>5, <3>1 DEF I2cHealth, Quiet, Free, AtAddr, AtHigh, AtLow, LowByte, AtData,
              AtRead, AtStop
    <3>3. Now' = Now /\ HoldsNow(0)'
      BY <1>1, <1>5, <2>2, <3>2, SameNow DEF AtAddr, Rests
    <3>4. AtAddr'
      BY <1>1, <2>2, <3>2, <3>3 DEF AtAddr, Free
    <3>5. QED
      BY <1>1, <3>1, <3>2, <3>3, <3>4 DEF I2cHealth
  <2>5. QED
    BY <2>3, <2>4 DEF I2cInv
<1>6. CASE ~dev.busy /\ bus.command = "start read"
  <2>1. /\ I2c!Answer("RX_RDY", rom[dev.ptr])
        /\ dev' = [dev EXCEPT !.at = "reading", !.ptr = (dev.ptr + 1) % ROM_SIZE]
    BY <1>6 DEF I2c!Start
  <2>2. /\ DOMAIN dev' = {"at", "high", "ptr", "latch", "busy"}
        /\ dev'.at = "reading" /\ ~dev'.busy /\ dev'.latch = dev.latch
        /\ dev'.ptr = (dev.ptr + 1) % ROM_SIZE
        /\ DOMAIN bus' = {"state", "command", "data"} /\ bus'.command = "none"
        /\ bus'.state = "RX_RDY" /\ bus'.data = rom[dev.ptr]
    BY <1>2, <1>6, <2>1, Answered
  <2>3. I2cShape'
    BY <1>1, <2>2 DEF I2cInv, I2cShape
  <2>4. ASSUME refusals' + losses' = 0
        PROVE  I2cHealth'
    <3>1. I2cHealth
      BY <1>1, <2>4 DEF I2cInv
    <3>2. pc = "read" /\ AtRead /\ i = 0 /\ dev.ptr = test.addr
      BY <1>6, <3>1 DEF I2cHealth, Quiet, Free, AtAddr, AtHigh, AtLow, LowByte, AtData,
              AtRead, AtStop
    <3>3. Now' = Now /\ HoldsNow(0)'
      BY <1>1, <2>2, <3>2, SameNow DEF AtRead
    <3>4. /\ test.addr \in Nat /\ test.addr + 0 = test.addr
          /\ 0 + 1 < Size(test) => dev'.ptr = test.addr + (0 + 1)
      <4>1. TestOK(test)
        BY <3>1 DEF I2cHealth
      <4>2. test.addr \in Address /\ Size(test) \in Nat /\ test.addr + Size(test) <= ROM_SIZE
        BY <4>1, CallFacts
      <4>3. QED
        BY <2>2, <3>2, <4>2, Sizes DEF Address
    <3>5. AtRead'
      BY <1>1, <2>2, <3>2, <3>3, <3>4 DEF AtRead, Free, GotSoFar, Op
    <3>6. QED
      BY <1>1, <3>1, <3>2, <3>3, <3>5 DEF I2cHealth
  <2>5. QED
    BY <2>3, <2>4 DEF I2cInv
<1>7. QED
  BY <1>1, <1>4, <1>5, <1>6

LEMMA CallNow ==
  ASSUME TestOK(test)
  PROVE  /\ test.addr \in Nat /\ test.addr \in Address /\ test.addr < ROM_SIZE
         /\ Size(test) \in Nat \ {0} /\ test.addr + Size(test) <= ROM_SIZE
         /\ Size(test) = Len(Data) /\ Data \in Seq(Byte) /\ CallOf(test).addr = test.addr
         /\ Op = IF test.phase \in {"byte", "page"} THEN "write" ELSE "read"
BY CallFacts, Sizes DEF Op, Data, Size, Address

\* Which command is under way says where the program waits.
LEMMA Commands ==
  I2cHealth =>
    /\ bus.command \in {"none", "start write", "start read", "send", "recv", "stop"}
    /\ bus.command = "send" => pc \in {"high", "low", "data"}
    /\ bus.command = "recv" => pc = "read"
    /\ bus.command = "stop" => pc = "stop"
BY DEF I2cHealth, Quiet, AtAddr, AtHigh, AtLow, LowByte, AtData, AtRead, AtStop

LEMMA I2cSend == I2cInv /\ I2c!Send /\ UNCHANGED I2c!program => I2cInv'
<1> SUFFICES ASSUME I2cInv, I2c!Send, UNCHANGED I2c!program
             PROVE  I2cInv'
  OBVIOUS
<1>1. /\ test' = test /\ pc' = pc /\ i' = i /\ got' = got /\ r' = r
      /\ rom' = rom /\ refusals' = refusals /\ losses' = losses
      /\ bus.command = "send" /\ bus.state = "TX_RDY" /\ I2c!Answer("TX_RDY", bus.data)
  BY DEF I2c!Send, I2c!program
<1>2. /\ DOMAIN bus = {"state", "command", "data"}
      /\ DOMAIN dev = {"at", "high", "ptr", "latch", "busy"}
      /\ dev.at \in {"high", "low", "writing"}
  BY <1>1 DEF I2cInv, I2cShape
<1>3. /\ DOMAIN bus' = {"state", "command", "data"} /\ bus'.command = "none"
      /\ bus'.state = "TX_RDY"
  BY <1>1, Answered
<1>4. CASE dev.at = "high"
  <2>1. dev' = [dev EXCEPT !.at = "low", !.high = bus.data]
    BY <1>4 DEF I2c!Send
  <2>2. /\ DOMAIN dev' = {"at", "high", "ptr", "latch", "busy"}
        /\ dev'.at = "low" /\ dev'.high = bus.data /\ dev'.busy = dev.busy /\ dev'.latch = dev.latch
    BY <1>2, <2>1
  <2>3. I2cShape'
    BY <1>1, <1>3, <2>2 DEF I2cInv, I2cShape
  <2>4. ASSUME refusals' + losses' = 0
        PROVE  I2cHealth'
    <3>1. I2cHealth
      BY <1>1, <2>4 DEF I2cInv
    <3>2. pc = "high" /\ AtHigh
      BY <1>1, <1>4, <3>1, Commands DEF I2cHealth, AtLow, LowByte, AtData
    <3>3. Now' = Now /\ HoldsNow(0)'
      BY <1>1, <2>2, <3>2, SameNow DEF AtHigh
    <3>4. AtHigh'
      BY <1>1, <1>3, <1>4, <2>2, <3>2, <3>3 DEF AtHigh, Free
    <3>5. QED
      BY <1>1, <3>1, <3>2, <3>3, <3>4 DEF I2cHealth
  <2>5. QED
    BY <2>3, <2>4 DEF I2cInv
<1>5. CASE dev.at = "low"
  <2>1. dev' = [dev EXCEPT !.at = "writing", !.ptr = (High * dev.high + bus.data) % ROM_SIZE]
    BY <1>5 DEF I2c!Send
  <2>2. /\ DOMAIN dev' = {"at", "high", "ptr", "latch", "busy"}
        /\ dev'.at = "writing" /\ dev'.busy = dev.busy /\ dev'.latch = dev.latch
        /\ dev'.ptr = (High * dev.high + bus.data) % ROM_SIZE
    BY <1>2, <2>1
  <2>3. I2cShape'
    BY <1>1, <1>3, <2>2 DEF I2cInv, I2cShape
  <2>4. ASSUME refusals' + losses' = 0
        PROVE  I2cHealth'
    <3>1. I2cHealth
      BY <1>1, <2>4 DEF I2cInv
    <3>2. /\ pc \in {"low", "data"} /\ LowByte
          /\ pc = "low" => AtLow
          /\ pc = "data" => AtData
      BY <1>1, <1>5, <3>1, Commands DEF I2cHealth, AtHigh, AtLow, AtData
    <3>3. Now' = Now /\ HoldsNow(0)'
      BY <1>1, <2>2, <3>2, SameNow DEF LowByte
    <3>4. /\ test.addr \in Nat /\ test.addr < ROM_SIZE /\ Size(test) \in Nat
          /\ test.addr + 0 = test.addr
      BY <3>1, CallNow DEF I2cHealth
    <3>5. dev'.ptr = test.addr
      <4>1. test.addr = High * (test.addr \div High) + (test.addr % High)
        BY <3>4, MemoriesAssumption, Division
      <4>2. test.addr % ROM_SIZE = test.addr
        BY <3>4, Sizes
      <4>3. QED
        BY <2>2, <3>2, <4>1, <4>2 DEF LowByte
    <3>6. i' = 0 /\ got' = <<>> /\ ~dev'.busy /\ dev'.latch = <<>>
      BY <1>1, <2>2, <3>2 DEF LowByte, Free
    <3>7. pc = "low" => AtLow'
      BY <1>1, <1>3, <2>2, <3>2, <3>3, <3>5, <3>6 DEF AtLow, Free, Op
    <3>8. pc = "data" => AtData'
      BY <1>1, <1>3, <2>2, <3>2, <3>3, <3>4, <3>5, <3>6 DEF AtData, Op
    <3>9. QED
      BY <1>1, <3>1, <3>2, <3>3, <3>7, <3>8 DEF I2cHealth
  <2>5. QED
    BY <2>3, <2>4 DEF I2cInv
<1>6. CASE dev.at = "writing"
  <2>1. dev' = [dev EXCEPT !.latch = Latched(dev.latch, dev.ptr, bus.data),
                           !.ptr = InPage(dev.ptr, 1)]
    BY <1>6, I2cNames DEF I2c!Send
  <2>2. /\ DOMAIN dev' = {"at", "high", "ptr", "latch", "busy"}
        /\ dev'.at = "writing" /\ dev'.busy = dev.busy
        /\ dev'.latch = Latched(dev.latch, dev.ptr, bus.data) /\ dev'.ptr = InPage(dev.ptr, 1)
    BY <1>2, <1>6, <2>1
  <2>3. I2cShape'
    BY <1>1, <1>3, <2>2 DEF I2cInv, I2cShape
  <2>4. ASSUME refusals' + losses' = 0
        PROVE  I2cHealth'
    <3>1. I2cHealth
      BY <1>1, <2>4 DEF I2cInv
    <3>2. pc = "data" /\ AtData
      BY <1>1, <1>6, <3>1, Commands DEF I2cHealth, AtHigh, AtLow, LowByte, AtData
    <3>3. /\ i > 0 /\ HoldsNow(i - 1) /\ bus.data = Data[i] /\ dev.ptr = test.addr + (i - 1)
          /\ i <= Size(test) /\ ~dev.busy /\ Op = "write"
      BY <1>1, <1>6, <3>2 DEF AtData, LowByte
    <3>4. /\ TestOK(test) /\ i \in Nat /\ rom \in Memory /\ Now \in Memory
          /\ Size(test) \in Nat /\ test.phase \in {"byte", "page"}
      BY <3>1, <3>3, CallNow DEF I2cHealth
    <3> DEFINE k == i - 1
    <3>5. k \in Nat /\ k + 1 = i /\ k < Size(test)
      BY <3>3, <3>4
    <3> HIDE DEF k
    <3>6. dev.ptr = test.addr + k /\ bus.data = CallOf(test).bytes[k + 1] /\ Holds(Now, test, k)
      BY <3>3, <3>5 DEF k, HoldsNow, Data
    <3>7. /\ test.addr + k \in Address
          /\ [Now EXCEPT ![test.addr + k] = CallOf(test).bytes[k + 1]] \in Memory
          /\ Holds([Now EXCEPT ![test.addr + k] = CallOf(test).bytes[k + 1]], test, k + 1)
      BY <3>4, <3>5, <3>6, WritesOne
    <3>8. Now' = [Now EXCEPT ![test.addr + k] = CallOf(test).bytes[k + 1]] /\ dev'.latch # <<>>
      BY <1>1, <2>2, <3>6, <3>7, LatchedByte DEF Now
    <3>9. Now' \in Memory /\ HoldsNow(i)'
      BY <1>1, <3>5, <3>7, <3>8 DEF HoldsNow
    <3>10. i < Size(test) => dev'.ptr = test.addr + i
      BY <2>2, <3>4, <3>5, <3>6, NextInPage
    <3>11. AtData'
      BY <1>1, <1>3, <2>2, <3>3, <3>8, <3>9, <3>10 DEF AtData, Op
    <3>12. QED
      BY <1>1, <3>1, <3>2, <3>9, <3>11 DEF I2cHealth
  <2>5. QED
    BY <2>3, <2>4 DEF I2cInv
<1>7. QED
  BY <1>2, <1>4, <1>5, <1>6

LEMMA I2cReceive == I2cInv /\ I2c!Receive /\ UNCHANGED I2c!program => I2cInv'
<1> SUFFICES ASSUME I2cInv, I2c!Receive, UNCHANGED I2c!program
             PROVE  I2cInv'
  OBVIOUS
<1>1. /\ test' = test /\ pc' = pc /\ i' = i /\ got' = got /\ r' = r
      /\ rom' = rom /\ refusals' = refusals /\ losses' = losses
      /\ bus.command = "recv" /\ I2c!Answer("RX_RDY", rom[dev.ptr])
      /\ dev' = [dev EXCEPT !.ptr = (dev.ptr + 1) % ROM_SIZE]
  BY DEF I2c!Receive, I2c!program
<1>2. /\ DOMAIN bus = {"state", "command", "data"}
      /\ DOMAIN dev = {"at", "high", "ptr", "latch", "busy"}
  BY DEF I2cInv, I2cShape
<1>3. /\ DOMAIN bus' = {"state", "command", "data"} /\ bus'.command = "none"
      /\ bus'.state = "RX_RDY" /\ bus'.data = rom[dev.ptr]
  BY <1>1, Answered
<1>4. /\ DOMAIN dev' = {"at", "high", "ptr", "latch", "busy"}
      /\ dev'.at = dev.at /\ dev'.busy = dev.busy /\ dev'.latch = dev.latch
      /\ dev'.ptr = (dev.ptr + 1) % ROM_SIZE
  BY <1>1, <1>2
<1>5. I2cShape'
  BY <1>1, <1>3, <1>4 DEF I2cInv, I2cShape
<1>6. ASSUME refusals' + losses' = 0
      PROVE  I2cHealth'
  <2>1. I2cHealth
    BY <1>1, <1>6 DEF I2cInv
  <2>2. pc = "read" /\ AtRead
    BY <1>1, <2>1, Commands DEF I2cHealth
  <2>3. dev.at = "reading" /\ dev.ptr = test.addr + i /\ i < Size(test)
    BY <1>1, <2>2 DEF AtRead
  <2>4. Now' = Now /\ HoldsNow(0)'
    BY <1>1, <1>4, <2>2, SameNow DEF AtRead
  <2>5. i + 1 < Size(test) => dev'.ptr = test.addr + (i + 1)
    <3>1. /\ test.addr \in Nat /\ Size(test) \in Nat /\ test.addr + Size(test) <= ROM_SIZE
          /\ i \in Nat
      BY <2>1, CallNow DEF I2cHealth
    <3>2. QED
      BY <1>4, <2>3, <3>1, Sizes
  <2>6. AtRead'
    BY <1>1, <1>3, <1>4, <2>2, <2>3, <2>4, <2>5 DEF AtRead, Free, GotSoFar, Op
  <2>7. QED
    BY <1>1, <2>1, <2>2, <2>4, <2>6 DEF I2cHealth
<1>7. QED
  BY <1>5, <1>6 DEF I2cInv

LEMMA I2cStop == I2cInv /\ I2c!Stop /\ UNCHANGED I2c!program => I2cInv'
<1> SUFFICES ASSUME I2cInv, I2c!Stop, UNCHANGED I2c!program
             PROVE  I2cInv'
  OBVIOUS
<1>1. /\ test' = test /\ pc' = pc /\ i' = i /\ got' = got /\ r' = r
      /\ rom' = rom /\ refusals' = refusals /\ losses' = losses
      /\ bus.command = "stop" /\ I2c!Answer("IDLE", bus.data)
      /\ dev' = [dev EXCEPT !.at = "off", !.busy = dev.at = "writing" /\ dev.latch # <<>>]
  BY DEF I2c!Stop, I2c!program
<1>2. /\ DOMAIN bus = {"state", "command", "data"}
      /\ DOMAIN dev = {"at", "high", "ptr", "latch", "busy"}
  BY DEF I2cInv, I2cShape
<1>3. /\ DOMAIN bus' = {"state", "command", "data"} /\ bus'.command = "none"
      /\ bus'.state = "IDLE"
  BY <1>1, Answered
<1>4. /\ DOMAIN dev' = {"at", "high", "ptr", "latch", "busy"}
      /\ dev'.at = "off" /\ dev'.latch = dev.latch
      /\ dev'.busy <=> dev.at = "writing" /\ dev.latch # <<>>
  BY <1>1, <1>2
<1>5. I2cShape'
  BY <1>1, <1>3, <1>4 DEF I2cInv, I2cShape
<1>6. ASSUME refusals' + losses' = 0
      PROVE  I2cHealth'
  <2>1. I2cHealth
    BY <1>1, <1>6 DEF I2cInv
  <2>2. pc = "stop" /\ AtStop
    BY <1>1, <2>1, Commands DEF I2cHealth
  <2>3. /\ Op = "write" => dev.at = "writing" /\ dev.latch # <<>>
        /\ Op = "read" => dev.latch = <<>>
        /\ Op \in {"read", "write"} /\ Done
    BY <1>1, <2>1, <2>2, CallNow DEF AtStop, Quiet, I2cHealth
  <2>4. Rests'
    BY <1>4, <2>3 DEF Rests
  <2>5. Now' = Now /\ (\A k : HoldsNow(k) => HoldsNow(k)')
    BY <1>1, <1>4, SameNow
  <2>6. Done'
    BY <1>1, <2>3, <2>5 DEF Done, GotAll, Op
  <2>7. AtStop'
    BY <1>3, <1>4, <2>4, <2>6 DEF AtStop, Quiet
  <2>8. QED
    BY <1>1, <2>1, <2>2, <2>5, <2>7 DEF I2cHealth
<1>7. QED
  BY <1>5, <1>6 DEF I2cInv

LEMMA I2cNobody == I2cInv /\ I2c!Nobody /\ UNCHANGED I2c!program => I2cInv'
<1> SUFFICES ASSUME I2cInv, I2c!Nobody, UNCHANGED I2c!program
             PROVE  I2cInv'
  OBVIOUS
<1>1. /\ test' = test /\ pc' = pc /\ i' = i /\ got' = got /\ r' = r
      /\ dev' = dev /\ rom' = rom /\ refusals' = refusals /\ losses' = losses
      /\ bus.command \in {"send", "recv"} /\ bus.state = "IDLE"
      /\ I2c!Answer("IDLE", bus.data)
  BY DEF I2c!Nobody, I2c!program
<1>2. /\ DOMAIN bus' = {"state", "command", "data"} /\ bus'.command = "none"
      /\ bus'.state = "IDLE"
  BY <1>1, Answered
<1>3. I2cShape'
  BY <1>1, <1>2 DEF I2cInv, I2cShape
<1>4. ASSUME refusals' + losses' = 0
      PROVE  I2cHealth'
  <2>1. I2cHealth
    BY <1>1, <1>4 DEF I2cInv
  <2>2. FALSE
    BY <1>1, <2>1, Commands DEF I2cHealth, AtHigh, AtLow, LowByte, AtData, AtRead
  <2>3. QED
    BY <2>2
<1>5. QED
  BY <1>3, <1>4 DEF I2cInv

LEMMA I2cBurn == I2cInv /\ I2c!Burn => I2cInv'
<1> SUFFICES ASSUME I2cInv, I2c!Burn
             PROVE  I2cInv'
  OBVIOUS
<1>1. /\ test' = test /\ pc' = pc /\ i' = i /\ got' = got /\ r' = r
      /\ bus' = bus /\ refusals' = refusals /\ losses' = losses
      /\ dev.busy /\ rom' = Now /\ dev' = [dev EXCEPT !.busy = FALSE, !.latch = <<>>]
  BY I2cNames DEF I2c!Burn, I2c!program, Now
<1>2. DOMAIN dev = {"at", "high", "ptr", "latch", "busy"}
  BY DEF I2cInv, I2cShape
<1>3. /\ DOMAIN dev' = {"at", "high", "ptr", "latch", "busy"}
      /\ dev'.at = dev.at /\ ~dev'.busy /\ dev'.latch = <<>>
  BY <1>1, <1>2
<1>4. I2cShape'
  BY <1>1, <1>3 DEF I2cInv, I2cShape
<1>5. ASSUME refusals' + losses' = 0
      PROVE  I2cHealth'
  <2>1. I2cHealth
    BY <1>1, <1>5 DEF I2cInv
  <2>2. Now' = Now
    BY <1>1, <1>3, EmptyLatch DEF Now
  <2>3. \A k : HoldsNow(k) => HoldsNow(k)'
    BY <1>1, <2>2 DEF HoldsNow
  <2>4. Rests'
    BY <1>3 DEF Rests
  <2>5. Quiet => Quiet'
    BY <1>1, <1>3 DEF Quiet
  <2>6. Done => Done'
    BY <1>1, <2>2, <2>3 DEF Done, GotAll, Op
  <2>7. pc \in {"idle", "addr", "stop", "return"}
    BY <1>1, <2>1 DEF I2cHealth, AtHigh, AtLow, LowByte, AtData, AtRead, Free
  <2>8. pc = "addr" => AtAddr'
    BY <1>1, <1>3, <2>1, <2>3, <2>4 DEF I2cHealth, AtAddr, Free
  <2>9. pc = "stop" => AtStop'
    BY <1>1, <2>1, <2>4, <2>5, <2>6 DEF I2cHealth, AtStop
  <2>10. QED
    BY <1>1, <2>1, <2>2, <2>3, <2>4, <2>5, <2>6, <2>7, <2>8, <2>9 DEF I2cHealth
<1>6. QED
  BY <1>4, <1>5 DEF I2cInv

\* A fault leaves nothing but the shape.
LEMMA I2cFault == I2cInv /\ I2c!Fault => I2cInv'
<1> SUFFICES ASSUME I2cInv, I2c!Fault
             PROVE  I2cInv'
  OBVIOUS
<1>1. /\ test' = test /\ pc' = pc /\ i' = i /\ got' = got /\ r' = r
      /\ bus.command \notin {"none", "stop"}
      /\ \/ /\ refusals' = refusals + 1 /\ losses' = losses /\ I2c!Answer("NACK_DATA", bus.data)
            /\ dev' = [dev EXCEPT !.at = "off", !.latch = <<>>]
         \/ /\ losses' = losses + 1 /\ refusals' = refusals /\ I2c!Answer("IDLE", bus.data)
            /\ dev' = [dev EXCEPT !.at = "off"]
  BY DEF I2c!Fault, I2c!Refuse, I2c!Lose, I2c!program
<1>2. /\ DOMAIN dev = {"at", "high", "ptr", "latch", "busy"}
      /\ refusals \in Nat /\ losses \in Nat
  BY DEF I2cInv, I2cShape
<1>3. /\ DOMAIN bus' = {"state", "command", "data"} /\ bus'.command = "none"
      /\ bus'.state \in {"NACK_DATA", "IDLE"}
  BY <1>1, Answered
<1>4. DOMAIN dev' = {"at", "high", "ptr", "latch", "busy"} /\ dev'.at = "off"
  BY <1>1, <1>2
<1>5. refusals' \in Nat /\ losses' \in Nat /\ refusals' + losses' # 0
  BY <1>1, <1>2
<1>6. I2cShape'
  BY <1>1, <1>3, <1>4, <1>5 DEF I2cInv, I2cShape
<1>7. QED
  BY <1>5, <1>6 DEF I2cInv

-----------------------------------------------------------------------------
\* What a step of the program that waits has found.
LEMMA Waits ==
  \A at, state :
    I2cInv /\ I2c!Wait(at, state) =>
      pc = at /\ bus.command = "none" /\ bus.state \in {state, "IDLE"}
BY DEF I2c!Wait, I2c!Waited, I2cInv, I2cShape

\* What a step of the program leaves as it is.
LEMMA Steady ==
  ASSUME I2cInv, UNCHANGED <<dev, rom, refusals, losses>>
  PROVE  /\ dev' = dev /\ rom' = rom /\ refusals' = refusals /\ losses' = losses
         /\ refusals' + losses' = 0 => I2cHealth
         /\ DOMAIN bus = {"state", "command", "data"}
         /\ Now' = Now
         /\ test' = test => \A k : HoldsNow(k) => HoldsNow(k)'
<1>1. dev' = dev /\ rom' = rom /\ refusals' = refusals /\ losses' = losses
  OBVIOUS
<1>2. Now' = Now
  BY <1>1 DEF Now
<1>3. test' = test => \A k : HoldsNow(k) => HoldsNow(k)'
  BY <1>2 DEF HoldsNow
<1>4. /\ refusals' + losses' = 0 => I2cHealth
      /\ DOMAIN bus = {"state", "command", "data"}
  BY <1>1 DEF I2cInv, I2cShape
<1>5. QED
  BY <1>1, <1>2, <1>3, <1>4

LEMMA I2cSendAddr ==
  I2cInv /\ I2c!SendAddr /\ UNCHANGED <<dev, rom, refusals, losses>> => I2cInv'
<1> SUFFICES ASSUME I2cInv, I2c!SendAddr, UNCHANGED <<dev, rom, refusals, losses>>
             PROVE  I2cInv'
  OBVIOUS
<1>1. /\ test' = test /\ pc' = "addr" /\ i' = 0 /\ got' = <<>> /\ r' = r
      /\ bus' = [bus EXCEPT !.command = "start write"]
      /\ \/ pc = "idle" /\ bus.command = "none"
         \/ pc = "addr" /\ bus.command = "none" /\ bus.state = "NACK_ADDR"
  BY Waits DEF I2c!SendAddr, I2c!Goes, I2c!i2c_master_send_addr
<1>2. /\ DOMAIN bus' = {"state", "command", "data"} /\ bus'.command = "start write"
      /\ bus'.state = bus.state
  BY <1>1, Steady
<1>3. I2cShape'
  BY <1>1, <1>2 DEF I2cInv, I2cShape
<1>4. ASSUME refusals' + losses' = 0
      PROVE  I2cHealth'
  <2>1. I2cHealth
    BY <1>4, Steady
  <2>2. dev.at = "off" /\ Rests /\ HoldsNow(0)
    BY <1>1, <2>1 DEF I2cHealth, Quiet, AtAddr
  <2>3. Now' = Now /\ HoldsNow(0)'
    BY <1>1, <2>2, Steady
  <2>4. AtAddr'
    BY <1>1, <1>2, <2>2, <2>3, Steady DEF AtAddr, Rests
  <2>5. QED
    BY <1>1, <2>1, <2>3, <2>4, Steady DEF I2cHealth
<1>5. QED
  BY <1>3, <1>4 DEF I2cInv

LEMMA I2cSendHigh ==
  I2cInv /\ I2c!SendHigh /\ UNCHANGED <<dev, rom, refusals, losses>> => I2cInv'
<1> SUFFICES ASSUME I2cInv, I2c!SendHigh, UNCHANGED <<dev, rom, refusals, losses>>
             PROVE  I2cInv'
  OBVIOUS
<1>1. /\ test' = test /\ pc' = "high" /\ i' = i /\ got' = got /\ r' = r
      /\ bus' = [bus EXCEPT !.command = "send", !.data = CallOf(test).addr \div High]
      /\ pc = "addr" /\ bus.command = "none" /\ bus.state \in {"TX_RDY", "IDLE"}
  BY Waits, I2cNames DEF I2c!SendHigh, I2c!Goes, I2c!i2c_master_send, I2c!Call
<1>2. /\ DOMAIN bus' = {"state", "command", "data"} /\ bus'.command = "send"
      /\ bus'.state = bus.state /\ bus'.data = CallOf(test).addr \div High
  BY <1>1, Steady
<1>3. I2cShape'
  BY <1>1, <1>2 DEF I2cInv, I2cShape
<1>4. ASSUME refusals' + losses' = 0
      PROVE  I2cHealth'
  <2>1. I2cHealth
    BY <1>4, Steady
  <2>2. /\ i = 0 /\ got = <<>> /\ HoldsNow(0)
        /\ bus.state = "TX_RDY" /\ dev.at = "high" /\ Free
    BY <1>1, <2>1 DEF I2cHealth, AtAddr
  <2>3. Now' = Now /\ HoldsNow(0)' /\ CallOf(test).addr = test.addr
    BY <1>1, <2>1, <2>2, Steady, CallNow DEF I2cHealth
  <2>4. AtHigh'
    BY <1>1, <1>2, <2>2, <2>3, Steady DEF AtHigh, Free
  <2>5. QED
    BY <1>1, <2>1, <2>3, <2>4, Steady DEF I2cHealth
<1>5. QED
  BY <1>3, <1>4 DEF I2cInv

LEMMA I2cSendLow ==
  I2cInv /\ I2c!SendLow /\ UNCHANGED <<dev, rom, refusals, losses>> => I2cInv'
<1> SUFFICES ASSUME I2cInv, I2c!SendLow, UNCHANGED <<dev, rom, refusals, losses>>
             PROVE  I2cInv'
  OBVIOUS
<1>1. /\ test' = test /\ pc' = (IF Op = "read" THEN "low" ELSE "data")
      /\ i' = i /\ got' = got /\ r' = r
      /\ bus' = [bus EXCEPT !.command = "send", !.data = CallOf(test).addr % High]
      /\ pc = "high" /\ bus.command = "none" /\ bus.state \in {"TX_RDY", "IDLE"}
  BY Waits, I2cNames DEF I2c!SendLow, I2c!Goes, I2c!i2c_master_send, I2c!Call, Op
<1>2. /\ DOMAIN bus' = {"state", "command", "data"} /\ bus'.command = "send"
      /\ bus'.state = bus.state /\ bus'.data = CallOf(test).addr % High
  BY <1>1, Steady
<1>3. I2cShape'
  BY <1>1, <1>2 DEF I2cInv, I2cShape
<1>4. ASSUME refusals' + losses' = 0
      PROVE  I2cHealth'
  <2>1. I2cHealth
    BY <1>4, Steady
  <2>2. /\ i = 0 /\ got = <<>> /\ HoldsNow(0) /\ bus.state = "TX_RDY"
        /\ dev.at = "low" /\ dev.high = test.addr \div High /\ Free
    BY <1>1, <2>1 DEF I2cHealth, AtHigh
  <2>3. /\ Now' = Now /\ HoldsNow(0)' /\ CallOf(test).addr = test.addr
        /\ Op \in {"read", "write"} /\ Size(test) \in Nat
    BY <1>1, <2>1, <2>2, Steady, CallNow DEF I2cHealth
  <2>4. LowByte'
    BY <1>1, <1>2, <2>2, <2>3, Steady DEF LowByte, Free
  <2>5. Op = "read" => AtLow'
    BY <1>1, <2>4 DEF AtLow, Op
  <2>6. Op = "write" => AtData'
    BY <1>1, <1>2, <2>2, <2>3, <2>4, Steady DEF AtData, Op, Free
  <2>7. QED
    BY <1>1, <2>1, <2>3, <2>5, <2>6, Steady DEF I2cHealth
<1>5. QED
  BY <1>3, <1>4 DEF I2cInv

LEMMA I2cWrite ==
  I2cInv /\ I2c!Write /\ UNCHANGED <<dev, rom, refusals, losses>> => I2cInv'
<1> SUFFICES ASSUME I2cInv, I2c!Write, UNCHANGED <<dev, rom, refusals, losses>>
             PROVE  I2cInv'
  OBVIOUS
<1>1. /\ test' = test /\ got' = got /\ r' = r
      /\ pc = "data" /\ bus.command = "none" /\ bus.state \in {"TX_RDY", "IDLE"}
      /\ \/ /\ i < Len(Data) /\ bus' = [bus EXCEPT !.command = "send", !.data = Data[i + 1]]
            /\ i' = i + 1 /\ pc' = "data"
         \/ /\ ~(i < Len(Data)) /\ bus' = [bus EXCEPT !.command = "stop"]
            /\ i' = i /\ pc' = "stop"
  BY Waits, I2cNames DEF I2c!Write, I2c!Goes, I2c!i2c_master_send, I2c!i2c_stop, I2c!Call, Data
<1>2. /\ DOMAIN bus' = {"state", "command", "data"} /\ bus'.state = bus.state
      /\ pc' = "data" => bus'.command = "send" /\ bus'.data = Data[i + 1]
      /\ pc' = "stop" => bus'.command = "stop"
  BY <1>1, Steady
<1>3. I2cShape'
  BY <1>1, <1>2, Steady DEF I2cInv, I2cShape
<1>4. ASSUME refusals' + losses' = 0
      PROVE  I2cHealth'
  <2>1. I2cHealth
    BY <1>4, Steady
  <2>2. /\ Op = "write" /\ bus.state = "TX_RDY" /\ ~dev.busy /\ i <= Size(test) /\ i \in Nat
        /\ dev.at = "writing" /\ HoldsNow(i)
        /\ i < Size(test) => dev.ptr = test.addr + i
        /\ i > 0 => dev.latch # <<>>
    BY <1>1, <2>1 DEF I2cHealth, AtData, LowByte
  <2>3. Now' = Now /\ Size(test) \in Nat \ {0} /\ Size(test) = Len(Data)
    BY <1>1, <2>1, <2>2, Steady, CallNow DEF I2cHealth
  <2>4. CASE pc' = "data"
    <3>1. i' = i + 1 /\ i < Size(test) /\ bus'.command = "send" /\ bus'.data = Data[i + 1]
      BY <1>1, <1>2, <2>3, <2>4
    <3>2. i' \in Nat /\ i' > 0 /\ i' <= Size(test) /\ i' - 1 = i
      BY <2>2, <2>3, <3>1
    <3>3. (HoldsNow(i - 1))'
      <4>1. \A k : HoldsNow(k) => HoldsNow(k)'
        BY <1>1, Steady
      <4>2. Holds(Now', test', i' - 1)
        BY <1>1, <2>2, <2>3, <3>2 DEF HoldsNow
      <4>3. QED
        BY <4>2 DEF HoldsNow
    <3>4. AtData'
      BY <1>1, <1>2, <2>2, <3>1, <3>2, <3>3, Steady DEF AtData, Op, Data
    <3>5. QED
      BY <1>1, <2>1, <2>3, <2>4, <3>2, <3>4, Steady DEF I2cHealth
  <2>5. CASE pc' = "stop"
    <3>1. i' = i /\ i = Size(test) /\ bus'.command = "stop"
      BY <1>1, <1>2, <2>2, <2>3, <2>5
    <3>2. Holds(Now', test', Size(test'))
      BY <1>1, <2>2, <2>3, <3>1 DEF HoldsNow
    <3>3. Done'
      BY <1>1, <2>2, <3>2 DEF Done, HoldsNow, Op
    <3>4. AtStop'
      BY <1>1, <2>2, <2>3, <3>1, <3>3, Steady DEF AtStop, Op
    <3>5. QED
      BY <1>1, <2>1, <2>2, <2>3, <2>5, <3>1, <3>4, Steady DEF I2cHealth
  <2>6. QED
    BY <1>1, <2>4, <2>5
<1>5. QED
  BY <1>3, <1>4 DEF I2cInv

LEMMA I2cTurn ==
  I2cInv /\ I2c!Turn /\ UNCHANGED <<dev, rom, refusals, losses>> => I2cInv'
<1> SUFFICES ASSUME I2cInv, I2c!Turn, UNCHANGED <<dev, rom, refusals, losses>>
             PROVE  I2cInv'
  OBVIOUS
<1>1. /\ test' = test /\ pc' = "read" /\ i' = i /\ got' = got /\ r' = r
      /\ bus' = [bus EXCEPT !.command = "start read"]
      /\ pc = "low" /\ bus.command = "none"
  BY Waits DEF I2c!Turn, I2c!Goes, I2c!i2c_master_send_addr
<1>2. /\ DOMAIN bus' = {"state", "command", "data"} /\ bus'.command = "start read"
      /\ bus'.state = bus.state
  BY <1>1, Steady
<1>3. I2cShape'
  BY <1>1, <1>2, Steady DEF I2cInv, I2cShape
<1>4. ASSUME refusals' + losses' = 0
      PROVE  I2cHealth'
  <2>1. I2cHealth
    BY <1>4, Steady
  <2>2. /\ Op = "read" /\ i = 0 /\ got = <<>> /\ HoldsNow(0) /\ bus.state = "TX_RDY" /\ Free
        /\ dev.ptr = test.addr
    BY <1>1, <2>1 DEF I2cHealth, AtLow, LowByte
  <2>3. Now' = Now /\ HoldsNow(0)' /\ Size(test) \in Nat \ {0}
    BY <1>1, <2>1, <2>2, Steady, CallNow DEF I2cHealth
  <2>4. GotSoFar'
    <3>1. <<>> \in Seq(Byte) /\ Len(<<>>) = 0
      OBVIOUS
    <3>2. got' = <<>> /\ i' = 0
      BY <1>1, <2>2
    <3>3. \A j \in 1 .. i' : FALSE
      BY <3>2
    <3>4. QED
      BY <3>1, <3>2, <3>3 DEF GotSoFar
  <2>5. i' < Size(test') /\ i' = 0 /\ dev'.ptr = test'.addr /\ Op' = "read" /\ Free'
    <3>1. i' = 0 /\ i' < Size(test')
      <4>1. 0 < Size(test)
        BY <2>3
      <4>2. i' = 0 /\ test' = test
        BY <1>1, <2>2
      <4>3. QED
        BY <4>1, <4>2
    <3>2. dev'.ptr = test'.addr /\ Free'
      BY <1>1, <2>2, Steady DEF Free
    <3>3. Op' = "read"
      BY <1>1, <2>2 DEF Op
    <3>4. QED
      BY <3>1, <3>2, <3>3
  <2>6. AtRead'
    BY <1>2, <2>2, <2>3, <2>4, <2>5 DEF AtRead
  <2>7. QED
    BY <1>1, <2>1, <2>3, <2>6, Steady DEF I2cHealth
<1>5. QED
  BY <1>3, <1>4 DEF I2cInv

LEMMA I2cRead ==
  I2cInv /\ I2c!Read /\ UNCHANGED <<dev, rom, refusals, losses>> => I2cInv'
<1> SUFFICES ASSUME I2cInv, I2c!Read, UNCHANGED <<dev, rom, refusals, losses>>
             PROVE  I2cInv'
  OBVIOUS
<1>1. /\ test' = test /\ i' = i + 1 /\ got' = Append(got, bus.data) /\ r' = r
      /\ pc = "read" /\ bus.command = "none"
      /\ \/ /\ i + 1 < Len(Data) /\ bus' = [bus EXCEPT !.command = "recv"] /\ pc' = "read"
         \/ /\ ~(i + 1 < Len(Data)) /\ bus' = [bus EXCEPT !.command = "stop"] /\ pc' = "stop"
  BY Waits, I2cNames DEF I2c!Read, I2c!Goes, I2c!i2c_master_recv, I2c!i2c_stop, I2c!Call, Data
<1>2. /\ DOMAIN bus' = {"state", "command", "data"} /\ bus'.state = bus.state
      /\ pc' = "read" => bus'.command = "recv"
      /\ pc' = "stop" => bus'.command = "stop"
  BY <1>1, Steady
<1>3. I2cShape'
  BY <1>1, <1>2, Steady DEF I2cInv, I2cShape
<1>4. ASSUME refusals' + losses' = 0
      PROVE  I2cHealth'
  <2>1. I2cHealth
    BY <1>4, Steady
  <2>2. /\ Op = "read" /\ Free /\ HoldsNow(0) /\ i < Size(test) /\ GotSoFar
        /\ bus.state = "RX_RDY" /\ dev.at = "reading" /\ bus.data = rom[test.addr + i]
        /\ i + 1 < Size(test) => dev.ptr = test.addr + (i + 1)
    BY <1>1, <2>1 DEF I2cHealth, AtRead
  <2>3. /\ Now' = Now /\ HoldsNow(0)' /\ Size(test) \in Nat \ {0} /\ Size(test) = Len(Data)
        /\ test.addr \in Nat /\ test.addr + Size(test) <= ROM_SIZE /\ i \in Nat
    BY <1>1, <2>1, <2>2, Steady, CallNow DEF I2cHealth
  <2>4. test.addr + i \in Address
    BY <2>2, <2>3, Sizes DEF Address
  <2>5. rom[test.addr + i] \in Byte
    BY <2>1, <2>4 DEF I2cHealth, Memory
  <2>6. /\ got' \in Seq(Byte) /\ Len(got') = i + 1
        /\ \A j \in 1 .. i + 1 : got'[j] = rom[test.addr + (j - 1)]
    <3>1. /\ got \in Seq(Byte) /\ Len(got) = i
          /\ \A j \in 1 .. i : got[j] = rom[test.addr + (j - 1)]
      BY <2>2 DEF GotSoFar
    <3>2. got' = Append(got, rom[test.addr + i])
      BY <1>1, <2>2
    <3>3. got' \in Seq(Byte) /\ Len(got') = i + 1 /\ got'[i + 1] = rom[test.addr + i]
      BY <2>5, <3>1, <3>2
    <3>4. \A j \in 1 .. i : got'[j] = got[j]
      BY <2>5, <3>1, <3>2
    <3>5. ASSUME NEW j \in 1 .. i + 1
          PROVE  got'[j] = rom[test.addr + (j - 1)]
      <4>1. CASE j = i + 1
        <5>1. j - 1 = i
          BY <2>3, <4>1
        <5>2. QED
          BY <3>3, <4>1, <5>1
      <4>2. CASE j # i + 1
        <5>1. j \in 1 .. i
          BY <2>3, <4>2
        <5>2. QED
          BY <3>1, <3>4, <5>1
      <4>3. QED
        BY <4>1, <4>2
    <3>6. QED
      BY <3>3, <3>5
  <2>7. CASE pc' = "read"
    <3>1. i' = i + 1 /\ i + 1 < Size(test) /\ bus'.command = "recv"
      BY <1>1, <1>2, <2>3, <2>7
    <3>2. GotSoFar'
      BY <1>1, <2>6, Steady DEF GotSoFar
    <3>3. AtRead'
      BY <1>1, <1>2, <2>2, <2>3, <3>1, <3>2, Steady DEF AtRead, Free, Op
    <3>4. QED
      BY <1>1, <2>1, <2>3, <2>7, <3>3, Steady DEF I2cHealth
  <2>8. CASE pc' = "stop"
    <3>1. i' = i + 1 /\ i + 1 = Size(test) /\ bus'.command = "stop"
      BY <1>1, <1>2, <2>2, <2>3, <2>8
    <3>2. Now = rom
      BY <2>1, <2>2, EmptyLatch DEF Now, Free, I2cHealth
    <3>3. GotAll'
      BY <1>1, <2>3, <2>6, <3>1, <3>2 DEF GotAll
    <3>4. Done'
      BY <1>1, <2>2, <2>3, <3>3 DEF Done, Op
    <3>5. AtStop'
      BY <1>1, <2>2, <3>1, <3>4, Steady DEF AtStop, Free, Op
    <3>6. QED
      BY <1>1, <2>1, <2>3, <2>8, <3>5, Steady DEF I2cHealth
  <2>9. QED
    BY <1>1, <2>7, <2>8
<1>5. QED
  BY <1>3, <1>4 DEF I2cInv

LEMMA I2cStopped ==
  I2cInv /\ I2c!Stopped /\ UNCHANGED <<dev, rom, refusals, losses>> => I2cInv'
<1> SUFFICES ASSUME I2cInv, I2c!Stopped, UNCHANGED <<dev, rom, refusals, losses>>
             PROVE  I2cInv'
  OBVIOUS
<1>1. /\ test' = test /\ pc' = "return" /\ i' = i /\ got' = got /\ r' = "ok" /\ bus' = bus
      /\ pc = "stop" /\ bus.command = "none" /\ bus.state = "IDLE"
  BY Waits DEF I2c!Stopped, I2c!Return
<1>2. I2cShape'
  BY <1>1, Steady DEF I2cInv, I2cShape
<1>3. ASSUME refusals' + losses' = 0
      PROVE  I2cHealth'
  <2>1. I2cHealth
    BY <1>3, Steady
  <2>2. Quiet /\ Rests /\ Done
    BY <1>1, <2>1 DEF I2cHealth, AtStop
  <2>3. Now' = Now /\ \A k : HoldsNow(k) => HoldsNow(k)'
    BY <1>1, Steady
  <2>4. Quiet' /\ Rests' /\ Done'
    BY <1>1, <2>2, <2>3, Steady DEF Quiet, Rests, Done, GotAll, Op
  <2>5. QED
    BY <1>1, <2>1, <2>3, <2>4, Steady DEF I2cHealth
<1>4. QED
  BY <1>2, <1>3 DEF I2cInv

\* The error is always one of a fault.
LEMMA I2cError ==
  I2cInv /\ I2c!Error /\ UNCHANGED <<dev, rom, refusals, losses>> => I2cInv'
<1> SUFFICES ASSUME I2cInv, I2c!Error, UNCHANGED <<dev, rom, refusals, losses>>
             PROVE  I2cInv'
  OBVIOUS
<1>1. /\ test' = test /\ pc' = "return" /\ i' = i /\ got' = got /\ r' = bus.state /\ bus' = bus
      /\ pc \in {"idle", "addr", "high", "low", "data", "read", "stop"} /\ bus.command = "none"
      /\ ~(pc = "addr" /\ bus.state = "NACK_ADDR")
      /\ bus.state # "IDLE"
      /\ pc \in {"addr", "high", "low", "data"} => bus.state # "TX_RDY"
      /\ pc = "read" => bus.state # "RX_RDY"
  BY DEF I2c!Error, I2c!Return, I2c!Waited, I2c!Expected
<1>2. I2cShape'
  BY <1>1, Steady DEF I2cInv, I2cShape
<1>3. ASSUME refusals' + losses' = 0
      PROVE  I2cHealth'
  <2>1. I2cHealth
    BY <1>3, Steady
  <2>2. FALSE
    BY <1>1, <2>1 DEF I2cHealth, Quiet, AtAddr, AtHigh, AtLow, LowByte, AtData, AtRead, AtStop
  <2>3. QED
    BY <2>2
<1>4. QED
  BY <1>2, <1>3 DEF I2cInv

\* What has been read first is a byte.
LEMMA FirstRead ==
  ASSUME TestOK(test), Op = "read" => GotAll, test.phase = "random"
  PROVE  got[1] \in Nat
<1>1. got \in Seq(Byte) /\ Len(got) = Size(test) /\ Size(test) \in Nat \ {0}
  BY CallNow DEF GotAll
<1>2. got[1] \in Byte
  BY <1>1
<1>3. QED
  BY <1>2, Sizes DEF Byte

LEMMA I2cMain ==
  I2cInv /\ I2c!main /\ UNCHANGED <<dev, rom, refusals, losses>> => I2cInv'
<1> SUFFICES ASSUME I2cInv, I2c!main, UNCHANGED <<dev, rom, refusals, losses>>
             PROVE  I2cInv'
  OBVIOUS
<1>1. /\ i' = i /\ got' = got /\ r' = r /\ bus' = bus /\ pc = "return"
      /\ \/ r # "ok" /\ pc' = "i2c_error"
         \/ r = "ok" /\ Mismatch(test, got) /\ pc' = "data_error"
         \/ r = "ok" /\ ~Mismatch(test, got) /\ pc' = "idle" /\ test' = Following(test, got)
  BY I2cNames DEF I2c!main
<1>2. I2cShape'
  BY <1>1, Steady DEF I2cInv, I2cShape
<1>3. ASSUME refusals' + losses' = 0
      PROVE  I2cHealth'
  <2>1. I2cHealth
    BY <1>3, Steady
  <2>2. /\ r = "ok" /\ Quiet /\ Rests /\ Done /\ TestOK(test) /\ rom \in Memory /\ Now \in Memory
        /\ i \in Nat
    BY <1>1, <2>1 DEF I2cHealth
  <2>3. Op = IF test.phase \in {"byte", "page"} THEN "write" ELSE "read"
    BY <2>2, CallNow
  <2>4. ~Mismatch(test, got)
    <3>1. CASE Op = "write"
      BY <2>3, <3>1 DEF Mismatch
    <3>2. CASE Op = "read"
      <4>1. Holds(Now, test, 0) /\ GotAll
        BY <2>2, <3>2 DEF Done, HoldsNow
      <4>2. QED
        BY <2>2, <4>1, ReadMatches DEF GotAll
    <3>3. QED
      BY <2>3, <3>1, <3>2
  <2>5. pc' = "idle" /\ test' = Following(test, got)
    BY <1>1, <2>2, <2>4
  <2>6. test.phase = "random" => got[1] \in Nat
    BY <2>2, FirstRead DEF Done
  <2>7. TestOK(Following(test, got))
    BY <2>2, <2>6, NextTest
  <2>8. Holds(Now, test, IF test.phase \in {"byte", "page"} THEN Size(test) ELSE 0)
    BY <2>2, <2>3 DEF Done, HoldsNow
  <2>9. Holds(Now, Following(test, got), 0)
    BY <2>2, <2>6, <2>8, HoldsOn
  <2>10. HoldsNow(0)' /\ TestOK(test)' /\ Now' = Now
    BY <2>5, <2>7, <2>9, Steady DEF HoldsNow
  <2>11. Quiet' /\ Rests'
    BY <1>1, <2>2, Steady DEF Quiet, Rests
  <2>12. QED
    BY <1>1, <2>2, <2>5, <2>10, <2>11, Steady DEF I2cHealth
<1>4. QED
  BY <1>2, <1>3 DEF I2cInv

\* The test begins with a read of one byte, of a memory that may hold anything.
LEMMA Beginning ==
  /\ TestOK(Begin) /\ Upto(Begin) = 0
  /\ \A m : Holds(m, Begin, 0)
<1>1. /\ Begin.phase = "random" /\ Begin.start = 0 /\ Begin.data = 0 /\ Begin.addr = 0
      /\ Begin.n = 1
  BY DEF Begin
<1>2. Begin \in Test
  <2>1. 0 \in Byte /\ 0 \in 0 .. ROM_SIZE /\ 1 \in 1 .. (BufSize - 1)
    BY Sizes DEF Byte
  <2>2. QED
    BY <2>1 DEF Begin, Test
<1>3. TestOK(Begin) /\ Upto(Begin) = 0
  BY <1>1, <1>2 DEF TestOK, Upto
<1>4. ASSUME NEW m, NEW a \in Address
      PROVE  ~(a < Upto(Begin) + 0)
  BY <1>3, Sizes DEF Address
<1>5. QED
  BY <1>3, <1>4 DEF Holds

LEMMA I2cBegins == I2c!Init => I2cInv
<1> SUFFICES ASSUME I2c!Init
             PROVE  I2cInv
  OBVIOUS
<1>1. /\ test = Begin /\ pc = "idle" /\ i = 0
      /\ bus = [state |-> "IDLE", command |-> "none", data |-> 0]
      /\ dev = [at |-> "off", high |-> 0, ptr |-> 0, latch |-> <<>>, busy |-> FALSE]
      /\ refusals = 0 /\ losses = 0
      /\ \E b \in Byte : rom = [a \in Address |-> b]
  BY I2cNames DEF I2c!Init
<1>2. rom \in Memory
  BY <1>1 DEF Memory
<1>3. /\ DOMAIN bus = {"state", "command", "data"} /\ bus.state = "IDLE" /\ bus.command = "none"
      /\ DOMAIN dev = {"at", "high", "ptr", "latch", "busy"} /\ dev.at = "off"
      /\ dev.latch = <<>>
  BY <1>1
<1>4. Now = rom
  BY <1>2, <1>3, EmptyLatch DEF Now
<1>5. HoldsNow(0) /\ TestOK(test)
  BY <1>1, Beginning DEF HoldsNow
<1>6. I2cShape
  BY <1>1, <1>3 DEF I2cShape
<1>7. I2cHealth
  BY <1>1, <1>2, <1>3, <1>4, <1>5 DEF I2cHealth, Quiet, Rests
<1>8. QED
  BY <1>6, <1>7 DEF I2cInv

LEMMA I2cStep == I2cInv /\ I2c!Next => I2cInv'
<1> SUFFICES ASSUME I2cInv, I2c!Next
             PROVE  I2cInv'
  OBVIOUS
<1>1. CASE I2c!Run
  <2>1. UNCHANGED <<dev, rom, refusals, losses>>
    BY <1>1 DEF I2c!Run
  <2>2. QED
    BY <1>1, <2>1, I2cSendAddr, I2cSendHigh, I2cSendLow, I2cWrite, I2cTurn, I2cRead,
       I2cStopped, I2cError, I2cMain DEF I2c!Run
<1>2. CASE I2c!Serve
  <2>1. UNCHANGED I2c!program
    BY <1>2 DEF I2c!Serve
  <2>2. QED
    BY <1>2, <2>1, I2cStart, I2cSend, I2cReceive, I2cStop, I2cNobody DEF I2c!Serve
<1>3. CASE I2c!Burn
  BY <1>3, I2cBurn
<1>4. CASE I2c!Fault
  BY <1>4, I2cFault
<1>5. CASE I2c!Ended
  <2>1. /\ test' = test /\ pc' = pc /\ i' = i /\ got' = got /\ r' = r /\ bus' = bus /\ dev' = dev
        /\ rom' = rom /\ refusals' = refusals /\ losses' = losses
        /\ pc \in {"i2c_error", "data_error"}
    BY <1>5 DEF I2c!Ended, I2c!vars, I2c!program
  <2>2. I2cShape' /\ refusals + losses # 0
    BY <2>1 DEF I2cInv, I2cShape, I2cHealth
  <2>3. QED
    BY <2>1, <2>2 DEF I2cInv
<1>6. QED
  BY <1>1, <1>2, <1>3, <1>4, <1>5 DEF I2c!Next

LEMMA I2cGood == I2cInv => I2c!Stored /\ I2c!Passes /\ I2c!Released
<1> SUFFICES ASSUME I2cInv
             PROVE  I2c!Stored /\ I2c!Passes /\ I2c!Released
  OBVIOUS
<1>1. I2c!Released
  BY DEF I2cInv, I2cShape, I2c!Released
<1>2. I2c!Passes
  BY DEF I2cInv, I2cHealth, I2c!Passes
<1>3. ASSUME refusals + losses = 0, dev.at = "off"
      PROVE  Filled(Now, test)
  <2>1. I2cHealth
    BY <1>3 DEF I2cInv
  <2>2. TestOK(test) /\ Now \in Memory /\ Size(test) \in Nat /\ Op \in {"read", "write"}
    BY <2>1, CallNow DEF I2cHealth
  <2>3. HoldsNow(0) \/ HoldsNow(Size(test))
    BY <1>3, <2>1, <2>2 DEF I2cHealth, AtAddr, AtHigh, AtLow, LowByte, AtData, AtRead, AtStop, Done
  <2>4. QED
    BY <2>2, <2>3, HoldsAll DEF HoldsNow
<1>4. I2c!Stored
  BY <1>3, I2cNames DEF I2c!Stored, Now
<1>5. QED
  BY <1>1, <1>2, <1>4

-----------------------------------------------------------------------------
(* The program with an SPI memory.                                         *)

\* What the functions send.
WordsOf(t) == IF CallOf(t).op = "read" THEN Spi!rom_read(CallOf(t)) ELSE Spi!rom_write(CallOf(t))

Last == Size(test) + (IF Op = "read" THEN 2 ELSE 3)

\* How many words of a call the device has taken.
Taken == i - ((IF tx = None THEN 0 ELSE 1) + (IF shift = None THEN 0 ELSE 1))

\* The device while it is written to: WREN, and WRITE, the address and data in a
\* transfer of their own,
Selects(n, command) == dev.n = n /\ dev.command = command

DevWrites ==
  /\ Taken = 0 => Selects(0, 0) /\ ~dev.enabled /\ Free /\ HoldsNow(0)
  /\ Taken = 1 => Selects(0, 0) /\ dev.enabled /\ Free /\ HoldsNow(0)
  /\ Taken = 2 => Selects(1, 2) /\ dev.enabled /\ Free /\ HoldsNow(0)
  /\ Taken >= 3 /\ Taken < Last =>
       /\ Selects(2, 2) /\ dev.enabled /\ ~dev.busy
       /\ HoldsNow(Taken - 3) /\ dev.ptr = test.addr + (Taken - 3)
       /\ Taken > 3 => dev.latch # <<>>
  /\ Taken = Last => Selects(0, 0) /\ ~dev.enabled /\ Rests /\ HoldsNow(Size(test))

\* and while it is read.
DevReads ==
  /\ ~dev.enabled /\ Free /\ HoldsNow(0)
  /\ Taken = 0 => Selects(0, 0)
  /\ Taken = 1 => Selects(1, 3)
  /\ Taken >= 2 /\ Taken < Last => Selects(2, 3) /\ dev.ptr = test.addr + (Taken - 2)
  /\ Taken = Last => Selects(0, 0)

\* The functions that write do not wait for the device,
Writes ==
  /\ pc \in {"send", "delay"} /\ rx = None
  /\ pc = "send" => i < Last
  /\ pc = "delay" => i = Last

\* and rom_read waits for each byte.
Reads ==
  /\ pc \in {"send", "recv", "return"}
  /\ got \in Seq(Byte) /\ \A j \in 1 .. Len(got) : got[j] = rom[test.addr + (j - 1)]
  /\ pc = "send" => /\ i < Last /\ rx = None
                    /\ i <= 2 => Len(got) = 0
                    /\ i > 2 => Taken = i /\ Len(got) = i - 2
  /\ pc = "recv" => /\ i >= 3 /\ Len(got) = i - 3
                    /\ i > 3 => Taken >= i - 1
                    /\ rx # None => Taken = i /\ rx = rom[test.addr + (i - 3)]
  /\ pc = "return" => i = Last /\ Taken = Last /\ rx = None /\ Len(got) = Last - 2

SpiInv ==
  /\ TestOK(test) /\ rom \in Memory /\ Now \in Memory
  /\ DOMAIN dev = {"n", "command", "ptr", "latch", "enabled", "busy"}
  /\ i \in Nat /\ i <= Last /\ Taken >= 0
  /\ tx # None => i > 0 /\ tx = WordsOf(test)[i]
  /\ shift # None => shift = WordsOf(test)[Taken + 1]
  /\ Op = "write" => DevWrites /\ Writes
  /\ Op = "read" => DevReads /\ Reads

AWord == [data : Nat, ignore : BOOLEAN, eot : BOOLEAN]

\* A word for the wire.
LEMMA OneWord ==
  /\ \A b : Spi!Word(b, {"RXIGNORE"}) = [data |-> b, ignore |-> TRUE, eot |-> FALSE]
  /\ \A b : Spi!Word(b, {"RXIGNORE", "EOT"}) = [data |-> b, ignore |-> TRUE, eot |-> TRUE]
  /\ \A b : Spi!Word(b, {"EOT"}) = [data |-> b, ignore |-> FALSE, eot |-> TRUE]
  /\ \A b : Spi!Word(b, {}) = [data |-> b, ignore |-> FALSE, eot |-> FALSE]
<1>1. /\ ("RXIGNORE" \in {"RXIGNORE"}) = TRUE /\ ("EOT" \in {"RXIGNORE"}) = FALSE
      /\ ("RXIGNORE" \in {"RXIGNORE", "EOT"}) = TRUE /\ ("EOT" \in {"RXIGNORE", "EOT"}) = TRUE
      /\ ("RXIGNORE" \in {"EOT"}) = FALSE /\ ("EOT" \in {"EOT"}) = TRUE
      /\ ("RXIGNORE" \in {}) = FALSE /\ ("EOT" \in {}) = FALSE
  OBVIOUS
<1>2. \A b : Spi!Word(b, {"RXIGNORE"}) = [data |-> b, ignore |-> TRUE, eot |-> FALSE]
  BY <1>1, Zenon DEF Spi!Word
<1>3. \A b : Spi!Word(b, {"RXIGNORE", "EOT"}) = [data |-> b, ignore |-> TRUE, eot |-> TRUE]
  BY <1>1, Zenon DEF Spi!Word
<1>4. \A b : Spi!Word(b, {"EOT"}) = [data |-> b, ignore |-> FALSE, eot |-> TRUE]
  BY <1>1, Zenon DEF Spi!Word
<1>5. \A b : Spi!Word(b, {}) = [data |-> b, ignore |-> FALSE, eot |-> FALSE]
  BY <1>1, Zenon DEF Spi!Word
<1>6. QED
  BY <1>2, <1>3, <1>4, <1>5

\* What follows a head of a sequence.
LEMMA Joined ==
  ASSUME NEW S, NEW a \in Seq(S), NEW b \in Seq(S)
  PROVE  /\ a \o b \in Seq(S) /\ Len(a \o b) = Len(a) + Len(b)
         /\ \A j \in 1 .. Len(a) : (a \o b)[j] = a[j]
         /\ \A j \in 1 .. Len(b) : (a \o b)[Len(a) + j] = b[j]
OBVIOUS

LEMMA ReadWords ==
  ASSUME NEW t, TestOK(t), CallOf(t).op = "read"
  PROVE  /\ WordsOf(t) \in Seq(AWord) /\ Len(WordsOf(t)) = Size(t) + 2
         /\ WordsOf(t)[1] = [data |-> 3, ignore |-> TRUE, eot |-> FALSE]
         /\ WordsOf(t)[2] = [data |-> t.addr, ignore |-> TRUE, eot |-> FALSE]
         /\ \A k \in 1 .. Size(t) :
              WordsOf(t)[k + 2] = [data |-> 0, ignore |-> FALSE, eot |-> k = Size(t)]
<1> DEFINE n == Size(t)
           head == <<[data |-> 3, ignore |-> TRUE, eot |-> FALSE],
                     [data |-> t.addr, ignore |-> TRUE, eot |-> FALSE]>>
           tail == [k \in 1 .. n |-> [data |-> 0, ignore |-> FALSE, eot |-> k = n]]
<1>1. n \in Nat \ {0} /\ t.addr \in Nat
  BY CallFacts, Sizes DEF Address
<1>2. DOMAIN CallOf(t).bytes = 1 .. n /\ Len(CallOf(t).bytes) = n
  BY CallFacts DEF Size
<1>3. CallOf(t).addr = t.addr
  BY CallFacts
<1>4. \A k \in 1 .. n : Spi!Word(0, IF k = n THEN {"EOT"} ELSE {})
                         = [data |-> 0, ignore |-> FALSE, eot |-> k = n]
  BY OneWord
<1>5. WordsOf(t) = head \o tail
  BY <1>2, <1>3, <1>4, OneWord DEF WordsOf, Spi!rom_read, Spi!READ
<1>6. head \in Seq(AWord) /\ Len(head) = 2
  BY <1>1 DEF AWord
<1>7. tail \in Seq(AWord) /\ Len(tail) = n
  <2>1. \A k \in 1 .. n : (k = n) \in BOOLEAN
    OBVIOUS
  <2>2. \A k \in 1 .. n : [data |-> 0, ignore |-> FALSE, eot |-> k = n] \in AWord
    BY <2>1 DEF AWord
  <2> HIDE DEF n
  <2>3. QED
    BY <1>1, <2>2
<1>8. /\ head[1] = [data |-> 3, ignore |-> TRUE, eot |-> FALSE]
      /\ head[2] = [data |-> t.addr, ignore |-> TRUE, eot |-> FALSE]
      /\ \A k \in 1 .. n : tail[k] = [data |-> 0, ignore |-> FALSE, eot |-> k = n]
  OBVIOUS
<1> HIDE DEF head, tail, n
<1>9. /\ WordsOf(t) \in Seq(AWord) /\ Len(WordsOf(t)) = 2 + n
      /\ \A j \in 1 .. 2 : WordsOf(t)[j] = head[j]
      /\ \A j \in 1 .. n : WordsOf(t)[2 + j] = tail[j]
  <2>1. /\ head \o tail \in Seq(AWord) /\ Len(head \o tail) = Len(head) + Len(tail)
        /\ \A j \in 1 .. Len(head) : (head \o tail)[j] = head[j]
        /\ \A j \in 1 .. Len(tail) : (head \o tail)[Len(head) + j] = tail[j]
    <3>1. head \in Seq(AWord) /\ tail \in Seq(AWord)
      BY <1>6, <1>7
    <3>2. QED
      BY <3>1, Joined
  <2>2. QED
    BY <1>5, <1>6, <1>7, <2>1
<1>10. \A k \in 1 .. n : k + 2 = 2 + k
  BY <1>1
<1>11. QED
  BY <1>1, <1>8, <1>9, <1>10 DEF n

LEMMA WriteWords ==
  ASSUME NEW t, TestOK(t), CallOf(t).op = "write"
  PROVE  /\ WordsOf(t) \in Seq(AWord) /\ Len(WordsOf(t)) = Size(t) + 3
         /\ WordsOf(t)[1] = [data |-> 6, ignore |-> TRUE, eot |-> TRUE]
         /\ WordsOf(t)[2] = [data |-> 2, ignore |-> TRUE, eot |-> FALSE]
         /\ WordsOf(t)[3] = [data |-> t.addr, ignore |-> TRUE, eot |-> FALSE]
         /\ \A k \in 1 .. Size(t) :
              WordsOf(t)[k + 3] = [data |-> CallOf(t).bytes[k], ignore |-> TRUE,
                                   eot |-> k = Size(t)]
<1> DEFINE n == Size(t)
           c == CallOf(t)
           head == <<[data |-> 6, ignore |-> TRUE, eot |-> TRUE],
                     [data |-> 2, ignore |-> TRUE, eot |-> FALSE],
                     [data |-> t.addr, ignore |-> TRUE, eot |-> FALSE]>>
           tail == [k \in 1 .. n |-> [data |-> c.bytes[k], ignore |-> TRUE, eot |-> k = n]]
<1>1. n \in Nat \ {0} /\ t.addr \in Nat
  BY CallFacts, Sizes DEF Address
<1>2. DOMAIN c.bytes = 1 .. n /\ Len(c.bytes) = n /\ \A k \in 1 .. n : c.bytes[k] \in Nat
  BY CallFacts, Sizes DEF Size, Byte
<1>3. c.addr = t.addr
  BY CallFacts
<1>4. \A k \in 1 .. n : Spi!Word(c.bytes[k], {"RXIGNORE"} \cup IF k = n THEN {"EOT"} ELSE {})
                         = [data |-> c.bytes[k], ignore |-> TRUE, eot |-> k = n]
  <2>1. /\ {"RXIGNORE"} \cup {"EOT"} = {"RXIGNORE", "EOT"}
        /\ {"RXIGNORE"} \cup {} = {"RXIGNORE"}
    OBVIOUS
  <2>2. QED
    BY <2>1, OneWord
<1>5. WordsOf(t) = head \o tail
  BY <1>2, <1>3, <1>4, OneWord DEF WordsOf, Spi!rom_write, Spi!WREN, Spi!WRITE
<1>6. head \in Seq(AWord) /\ Len(head) = 3
  BY <1>1 DEF AWord
<1>7. tail \in Seq(AWord) /\ Len(tail) = n
  <2>1. \A k \in 1 .. n : (k = n) \in BOOLEAN
    OBVIOUS
  <2>2. \A k \in 1 .. n : [data |-> c.bytes[k], ignore |-> TRUE, eot |-> k = n] \in AWord
    BY <1>2, <2>1 DEF AWord
  <2> HIDE DEF n, c
  <2>3. QED
    BY <1>1, <2>2
<1>8. /\ head[1] = [data |-> 6, ignore |-> TRUE, eot |-> TRUE]
      /\ head[2] = [data |-> 2, ignore |-> TRUE, eot |-> FALSE]
      /\ head[3] = [data |-> t.addr, ignore |-> TRUE, eot |-> FALSE]
      /\ \A k \in 1 .. n : tail[k] = [data |-> c.bytes[k], ignore |-> TRUE, eot |-> k = n]
  OBVIOUS
<1> HIDE DEF head, tail, n, c
<1>9. /\ WordsOf(t) \in Seq(AWord) /\ Len(WordsOf(t)) = 3 + n
      /\ \A j \in 1 .. 3 : WordsOf(t)[j] = head[j]
      /\ \A j \in 1 .. n : WordsOf(t)[3 + j] = tail[j]
  <2>1. /\ head \o tail \in Seq(AWord) /\ Len(head \o tail) = Len(head) + Len(tail)
        /\ \A j \in 1 .. Len(head) : (head \o tail)[j] = head[j]
        /\ \A j \in 1 .. Len(tail) : (head \o tail)[Len(head) + j] = tail[j]
    <3>1. head \in Seq(AWord) /\ tail \in Seq(AWord)
      BY <1>6, <1>7
    <3>2. QED
      BY <3>1, Joined
  <2>2. QED
    BY <1>5, <1>6, <1>7, <2>1
<1>10. \A k \in 1 .. n : k + 3 = 3 + k
  BY <1>1
<1>11. QED
  BY <1>1, <1>8, <1>9, <1>10 DEF n, c

LEMMA NotNone == (\A w \in AWord : w # None) /\ (\A b \in Nat : b # None)
BY MemoriesAssumption DEF AWord

LEMMA SpiCall ==
  ASSUME TestOK(test)
  PROVE  /\ Spi!Words = WordsOf(test) /\ Spi!Call = CallOf(test)
         /\ Op \in {"read", "write"} /\ Last \in Nat /\ Last >= 3 /\ Len(WordsOf(test)) = Last
         /\ Size(test) \in Nat \ {0}
         /\ Op = "read" => Last = Size(test) + 2
         /\ Op = "write" => Last = Size(test) + 3
         /\ \A j \in 1 .. Last : WordsOf(test)[j] \in AWord /\ WordsOf(test)[j] # None
<1>1. Spi!Words = WordsOf(test) /\ Spi!Call = CallOf(test)
  BY SpiNames DEF Spi!Words, Spi!Call, WordsOf
<1>2. /\ Size(test) \in Nat \ {0} /\ Op \in {"read", "write"}
      /\ Op = CallOf(test).op
  BY CallNow DEF Op
<1>3. /\ Op = "read" => Last = Size(test) + 2
      /\ Op = "write" => Last = Size(test) + 3
  BY <1>2 DEF Last
<1>4. WordsOf(test) \in Seq(AWord) /\ Len(WordsOf(test)) = Last
  BY <1>2, <1>3, ReadWords, WriteWords
<1>5. Last \in Nat /\ Last >= 3
  BY <1>2, <1>3
<1>6. \A j \in 1 .. Last : WordsOf(test)[j] \in AWord
  BY <1>4
<1>7. QED
  BY <1>1, <1>2, <1>3, <1>4, <1>5, <1>6, NotNone

-----------------------------------------------------------------------------
Pins == {"n", "command", "ptr", "latch", "enabled", "busy"}

LEMMA TookFirst ==
  ASSUME NEW d, DOMAIN d = Pins, d.n = 0, ~d.busy, NEW b
  PROVE  /\ DOMAIN Spi!Took(d, b) = Pins
         /\ Spi!Took(d, b).n = 1 /\ Spi!Took(d, b).command = b /\ Spi!Took(d, b).latch = <<>>
         /\ Spi!Took(d, b).enabled = d.enabled /\ Spi!Took(d, b).busy = d.busy
<1>1. Spi!Took(d, b) = [d EXCEPT !.n = 1, !.command = b, !.latch = <<>>]
  BY DEF Spi!Took
<1>2. QED
  BY <1>1 DEF Pins

LEMMA TookSecond ==
  ASSUME NEW d, DOMAIN d = Pins, d.n = 1, ~d.busy, NEW b
  PROVE  /\ DOMAIN Spi!Took(d, b) = Pins
         /\ Spi!Took(d, b).n = 2 /\ Spi!Took(d, b).command = d.command
         /\ Spi!Took(d, b).latch = d.latch /\ Spi!Took(d, b).ptr = b % ROM_SIZE
         /\ Spi!Took(d, b).enabled = d.enabled /\ Spi!Took(d, b).busy = d.busy
<1>1. Spi!Took(d, b) = [d EXCEPT !.n = 2, !.ptr = b % ROM_SIZE]
  BY DEF Spi!Took
<1>2. QED
  BY <1>1 DEF Pins

LEMMA TookRead ==
  ASSUME NEW d, DOMAIN d = Pins, d.n = 2, d.command = 3, NEW b
  PROVE  /\ DOMAIN Spi!Took(d, b) = Pins
         /\ Spi!Took(d, b).n = 2 /\ Spi!Took(d, b).command = 3
         /\ Spi!Took(d, b).latch = d.latch /\ Spi!Took(d, b).ptr = (d.ptr + 1) % ROM_SIZE
         /\ Spi!Took(d, b).enabled = d.enabled /\ Spi!Took(d, b).busy = d.busy
<1>1. Spi!Took(d, b) = [d EXCEPT !.ptr = (d.ptr + 1) % ROM_SIZE]
  <2>1. d.n # 0 /\ d.n # 1 /\ d.command # Spi!WRITE /\ d.n = 2 /\ d.command = Spi!READ
    BY DEF Spi!READ, Spi!WRITE
  <2>2. QED
    BY <2>1, Zenon DEF Spi!Took
<1>2. QED
  BY <1>1 DEF Pins

LEMMA TookWrite ==
  ASSUME NEW d, DOMAIN d = Pins, d.n = 2, d.command = 2, d.enabled, NEW b
  PROVE  /\ DOMAIN Spi!Took(d, b) = Pins
         /\ Spi!Took(d, b).n = 2 /\ Spi!Took(d, b).command = 2
         /\ Spi!Took(d, b).latch = Latched(d.latch, d.ptr, b)
         /\ Spi!Took(d, b).ptr = InPage(d.ptr, 1)
         /\ Spi!Took(d, b).enabled = d.enabled /\ Spi!Took(d, b).busy = d.busy
<1>1. Spi!Took(d, b) = [d EXCEPT !.latch = Latched(d.latch, d.ptr, b), !.ptr = InPage(d.ptr, 1)]
  <2>1. d.n # 0 /\ d.n # 1 /\ d.command # Spi!READ /\ d.n = 2 /\ d.command = Spi!WRITE
    BY DEF Spi!READ, Spi!WRITE
  <2>2. Spi!Took(d, b) = [d EXCEPT !.latch = Spi!Latched(d.latch, d.ptr, b),
                                   !.ptr = Spi!InPage(d.ptr, 1)]
    BY <2>1, Zenon DEF Spi!Took
  <2>3. QED
    BY <2>2, SpiNames
<1>2. QED
  BY <1>1 DEF Pins

LEMMA EndedDevice ==
  ASSUME NEW d, DOMAIN d = Pins
  PROVE  /\ DOMAIN Spi!Ended(d) = Pins
         /\ Spi!Ended(d).n = 0 /\ Spi!Ended(d).command = 0 /\ Spi!Ended(d).latch = d.latch
         /\ Spi!Ended(d).busy <=> d.busy \/ (d.command = 2 /\ d.latch # <<>>)
         /\ Spi!Ended(d).enabled <=>
              d.command = 6 \/ (d.enabled /\ ~(d.command = 2 /\ d.latch # <<>>))
<1> DEFINE B == d.busy \/ (d.command = 2 /\ d.latch # <<>>)
           A == d.command = 6 \/ (d.enabled /\ ~(d.command = 2 /\ d.latch # <<>>))
<1>1. Spi!Ended(d) = [d EXCEPT !.n = 0, !.command = 0, !.busy = B, !.enabled = A]
  BY DEF Spi!Ended, Spi!WRITE, Spi!WREN
<1> HIDE DEF A, B
<1>2. /\ DOMAIN Spi!Ended(d) = Pins
      /\ Spi!Ended(d).n = 0 /\ Spi!Ended(d).command = 0 /\ Spi!Ended(d).latch = d.latch
      /\ Spi!Ended(d).busy = B /\ Spi!Ended(d).enabled = A
  BY <1>1 DEF Pins
<1>3. QED
  BY <1>2 DEF A, B

-----------------------------------------------------------------------------
LEMMA SpiLoad == SpiInv /\ Spi!Load /\ UNCHANGED Spi!program => SpiInv'
<1> SUFFICES ASSUME SpiInv, Spi!Load, UNCHANGED Spi!program
             PROVE  SpiInv'
  OBVIOUS
<1>1. /\ test' = test /\ pc' = pc /\ i' = i /\ got' = got /\ rx' = rx /\ dev' = dev /\ rom' = rom
      /\ tx # None /\ shift = None /\ shift' = tx /\ tx' = None
  BY DEF Spi!Load, Spi!program
<1>2. i \in Nat /\ tx = WordsOf(test)[i]
  BY <1>1 DEF SpiInv
<1>3. Taken = i - 1 /\ Taken' = i - 1
  BY <1>1, <1>2 DEF Taken
<1>4. shift' = WordsOf(test')[Taken' + 1]
  BY <1>1, <1>2, <1>3
<1>5. Now' = Now /\ \A k : HoldsNow(k)' <=> HoldsNow(k)
  BY <1>1 DEF Now, HoldsNow
<1>6. Taken' = Taken /\ Last' = Last /\ Op' = Op
  BY <1>1, <1>3 DEF Last, Op
<1>7. Op = "write" => DevWrites' /\ Writes'
  <2>1. DevWrites => DevWrites'
    BY <1>1, <1>5, <1>6 DEF DevWrites, Selects, Free, Rests, HoldsNow
  <2>2. Writes => Writes'
    BY <1>1, <1>6 DEF Writes
  <2>3. QED
    BY <2>1, <2>2 DEF SpiInv
<1>8. Op = "read" => DevReads' /\ Reads'
  <2>1. DevReads => DevReads'
    BY <1>1, <1>5, <1>6 DEF DevReads, Selects, Free, HoldsNow
  <2>2. Reads => Reads'
    BY <1>1, <1>6 DEF Reads
  <2>3. QED
    BY <2>1, <2>2 DEF SpiInv
<1>9. QED
  BY <1>1, <1>3, <1>4, <1>5, <1>6, <1>7, <1>8 DEF SpiInv

\* The word that goes over the wire is the next one that the device takes.
LEMMA Exchanged ==
  ASSUME SpiInv, Spi!Exchange, UNCHANGED Spi!program
  PROVE  /\ test' = test /\ pc' = pc /\ i' = i /\ got' = got /\ rom' = rom /\ tx' = tx
         /\ shift' = None /\ Taken' = Taken + 1 /\ Taken \in Nat /\ Taken + 1 <= i /\ i <= Last
         /\ Taken = i - 1 => tx = None
         /\ i \in Nat /\ Last \in Nat /\ Last' = Last /\ Op' = Op
         /\ shift = WordsOf(test)[Taken + 1] /\ shift \in AWord
         /\ shift.eot => dev' = Spi!Ended(Spi!Took(dev, shift.data))
         /\ ~shift.eot => dev' = Spi!Took(dev, shift.data)
         /\ shift.ignore \/ rx = None
         /\ shift.ignore => rx' = rx
         /\ ~shift.ignore /\ dev.command = 3 /\ dev.n = 2 => rx' = rom[dev.ptr]
         /\ DOMAIN dev = Pins
<1>1. /\ test' = test /\ pc' = pc /\ i' = i /\ got' = got /\ rom' = rom /\ tx' = tx
      /\ shift' = None /\ shift # None
      /\ shift.eot => dev' = Spi!Ended(Spi!Took(dev, shift.data))
      /\ ~shift.eot => dev' = Spi!Took(dev, shift.data)
      /\ shift.ignore \/ rx = None
      /\ shift.ignore => rx' = rx
      /\ ~shift.ignore /\ dev.command = 3 /\ dev.n = 2 => rx' = rom[dev.ptr]
  BY DEF Spi!Exchange, Spi!program, Spi!READ
<1>2. /\ i \in Nat /\ i <= Last /\ Taken >= 0 /\ TestOK(test)
      /\ shift = WordsOf(test)[Taken + 1]
      /\ DOMAIN dev = Pins
  BY <1>1 DEF SpiInv, Pins
<1>3. /\ Taken' = Taken + 1 /\ Taken \in Nat /\ Taken + 1 <= i
      /\ Taken = i - 1 => tx = None
  BY <1>1, <1>2 DEF Taken
<1>4. Last \in Nat /\ shift \in AWord
  <2>1. Last \in Nat /\ \A j \in 1 .. Last : WordsOf(test)[j] \in AWord
    BY <1>2, SpiCall
  <2>2. Taken + 1 \in 1 .. Last
    BY <1>2, <1>3, <2>1
  <2>3. QED
    BY <1>2, <2>1, <2>2
<1>5. Last' = Last /\ Op' = Op
  BY <1>1 DEF Last, Op
<1>6. QED
  BY <1>1, <1>2, <1>3, <1>4, <1>5

LEMMA ExchangeWrite ==
  ASSUME SpiInv, Spi!Exchange, UNCHANGED Spi!program, Op = "write"
  PROVE  DOMAIN dev' = Pins /\ Now' \in Memory /\ DevWrites'
<1> DEFINE q == Taken
           w == WordsOf(test)
           d == Spi!Took(dev, shift.data)
<1>1. /\ test' = test /\ rom' = rom /\ Taken' = q + 1 /\ q \in Nat /\ q + 1 <= i /\ i <= Last
      /\ i \in Nat /\ Last \in Nat /\ Last' = Last
      /\ shift = w[q + 1]
      /\ shift.eot => dev' = Spi!Ended(d)
      /\ ~shift.eot => dev' = d
      /\ DOMAIN dev = Pins
  BY Exchanged
<1>2. /\ TestOK(test) /\ rom \in Memory /\ Now \in Memory /\ DevWrites
      /\ CallOf(test).op = "write" /\ test.phase \in {"byte", "page"}
  BY CallNow DEF SpiInv, Op
<1>3. /\ Size(test) \in Nat \ {0} /\ Last = Size(test) + 3
      /\ test.addr \in Nat /\ test.addr < ROM_SIZE
  BY <1>2, SpiCall, CallNow DEF Op
<1>4. /\ w[1] = [data |-> 6, ignore |-> TRUE, eot |-> TRUE]
      /\ w[2] = [data |-> 2, ignore |-> TRUE, eot |-> FALSE]
      /\ w[3] = [data |-> test.addr, ignore |-> TRUE, eot |-> FALSE]
      /\ \A k \in 1 .. Size(test) :
           w[k + 3] = [data |-> CallOf(test).bytes[k], ignore |-> TRUE, eot |-> k = Size(test)]
  BY <1>2, WriteWords
<1> HIDE DEF q, w, d
<1>5. CASE q = 0
  <2>1. dev.n = 0 /\ ~dev.enabled /\ ~dev.busy /\ dev.latch = <<>> /\ HoldsNow(0)
    BY <1>2, <1>5 DEF DevWrites, Selects, Free, q
  <2>2. shift.data = 6 /\ shift.eot
    BY <1>1, <1>4, <1>5
  <2>3. /\ DOMAIN d = Pins /\ d.n = 1 /\ d.command = 6 /\ d.latch = <<>>
        /\ d.busy = dev.busy
    BY <1>1, <2>1, <2>2, TookFirst DEF d
  <2>4. /\ DOMAIN dev' = Pins /\ dev'.n = 0 /\ dev'.command = 0 /\ dev'.latch = <<>>
        /\ ~dev'.busy /\ dev'.enabled
    BY <1>1, <2>1, <2>2, <2>3, EndedDevice
  <2>5. Now' = Now /\ HoldsNow(0)'
    BY <1>1, <2>1, <2>4, SameNow
  <2>6. Taken' = 1 /\ Last' >= 4
    BY <1>1, <1>3, <1>5
  <2>7. DevWrites'
    BY <2>4, <2>5, <2>6 DEF DevWrites, Selects, Free
  <2>8. QED
    BY <1>2, <2>4, <2>5, <2>7
<1>6. CASE q = 1
  <2>1. dev.n = 0 /\ dev.enabled /\ ~dev.busy /\ dev.latch = <<>> /\ HoldsNow(0)
    BY <1>2, <1>6 DEF DevWrites, Selects, Free, q
  <2>2. shift.data = 2 /\ ~shift.eot
    BY <1>1, <1>4, <1>6
  <2>3. /\ DOMAIN dev' = Pins /\ dev'.n = 1 /\ dev'.command = 2 /\ dev'.latch = <<>>
        /\ ~dev'.busy /\ dev'.enabled
    BY <1>1, <2>1, <2>2, TookFirst DEF d
  <2>4. Now' = Now /\ HoldsNow(0)'
    BY <1>1, <2>1, <2>3, SameNow
  <2>5. Taken' = 2 /\ Last' >= 4
    BY <1>1, <1>3, <1>6
  <2>6. DevWrites'
    BY <2>3, <2>4, <2>5 DEF DevWrites, Selects, Free
  <2>7. QED
    BY <1>2, <2>3, <2>4, <2>6
<1>7. CASE q = 2
  <2>1. /\ dev.n = 1 /\ dev.command = 2 /\ dev.enabled /\ ~dev.busy /\ dev.latch = <<>>
        /\ HoldsNow(0)
    BY <1>2, <1>7 DEF DevWrites, Selects, Free, q
  <2>2. shift.data = test.addr /\ ~shift.eot
    BY <1>1, <1>4, <1>7
  <2>3. /\ DOMAIN dev' = Pins /\ dev'.n = 2 /\ dev'.command = 2 /\ dev'.latch = <<>>
        /\ ~dev'.busy /\ dev'.enabled /\ dev'.ptr = test.addr % ROM_SIZE
    BY <1>1, <2>1, <2>2, TookSecond DEF d
  <2>4. dev'.ptr = test.addr + 0
    <3>1. test.addr \in Nat /\ test.addr < ROM_SIZE /\ ROM_SIZE \in Nat \ {0}
      BY <1>3, Sizes
    <3>2. test.addr % ROM_SIZE = test.addr + 0
      BY <3>1
    <3>3. QED
      BY <2>3, <3>2
  <2>5. Now' = Now /\ HoldsNow(0)'
    BY <1>1, <2>1, <2>3, SameNow
  <2>6. Taken' = 3 /\ Last' >= 4 /\ Taken' - 3 = 0
    BY <1>1, <1>3, <1>7
  <2>7. (HoldsNow(Taken - 3))' /\ dev'.ptr = test'.addr + (Taken' - 3)
    BY <1>1, <2>4, <2>5, <2>6 DEF HoldsNow
  <2>8. DevWrites'
    BY <2>3, <2>6, <2>7 DEF DevWrites, Selects
  <2>9. QED
    BY <1>2, <2>3, <2>5, <2>8
<1>8. CASE q >= 3
  <2> DEFINE k == q - 3
  <2>1. k \in Nat /\ q = k + 3 /\ k < Size(test) /\ k + 1 \in 1 .. Size(test)
    BY <1>1, <1>3, <1>8
  <2>2. q < Last
    BY <1>1
  <2>3. /\ dev.n = 2 /\ dev.command = 2 /\ dev.enabled /\ ~dev.busy
        /\ HoldsNow(k) /\ dev.ptr = test.addr + k
    BY <1>2, <1>8, <2>2 DEF DevWrites, Selects, q
  <2> HIDE DEF k
  <2>4. shift = w[(k + 1) + 3]
    BY <1>1, <2>1
  <2>5. shift.data = CallOf(test).bytes[k + 1] /\ (shift.eot <=> k + 1 = Size(test))
    <3>1. w[(k + 1) + 3] = [data |-> CallOf(test).bytes[k + 1], ignore |-> TRUE,
                            eot |-> k + 1 = Size(test)]
      BY <1>4, <2>1
    <3>2. /\ shift.data = CallOf(test).bytes[k + 1]
          /\ shift.eot = (k + 1 = Size(test))
      BY <2>4, <3>1
    <3>3. QED
      BY <3>2
  <2>6. /\ DOMAIN d = Pins /\ d.n = 2 /\ d.command = 2
        /\ d.latch = Latched(dev.latch, dev.ptr, shift.data)
        /\ d.ptr = InPage(dev.ptr, 1) /\ d.enabled = dev.enabled /\ d.busy = dev.busy
    BY <1>1, <2>3, TookWrite DEF d
  <2>7. Holds(Now, test, k)
    BY <2>3 DEF HoldsNow
  <2>8. /\ test.addr + k \in Address
        /\ [Now EXCEPT ![test.addr + k] = CallOf(test).bytes[k + 1]] \in Memory
        /\ Holds([Now EXCEPT ![test.addr + k] = CallOf(test).bytes[k + 1]], test, k + 1)
    BY <1>2, <2>1, <2>7, WritesOne
  <2>9. /\ Burnt(rom, d.latch) = [Now EXCEPT ![test.addr + k] = CallOf(test).bytes[k + 1]]
        /\ d.latch # <<>>
    BY <2>3, <2>5, <2>6, <2>8, LatchedByte DEF Now
  <2>10. CASE k + 1 = Size(test)
    <3>1. /\ DOMAIN dev' = Pins /\ dev'.n = 0 /\ dev'.command = 0 /\ dev'.latch = d.latch
          /\ dev'.busy /\ ~dev'.enabled
      BY <1>1, <2>5, <2>6, <2>9, <2>10, EndedDevice
    <3>2. Now' \in Memory /\ Holds(Now', test', Size(test'))
      BY <1>1, <2>8, <2>9, <2>10, <3>1 DEF Now
    <3>3. HoldsNow(Size(test))' /\ Rests'
      BY <3>1, <3>2 DEF HoldsNow, Rests
    <3>4. Taken' = Last' /\ Last' # 0 /\ Last' # 1 /\ Last' # 2 /\ ~(Taken' < Last')
      BY <1>1, <1>3, <2>1, <2>10
    <3>5. DevWrites'
      BY <3>1, <3>3, <3>4 DEF DevWrites, Selects
    <3>6. QED
      BY <3>1, <3>2, <3>5
  <2>11. CASE k + 1 # Size(test)
    <3>1. dev' = d
      BY <1>1, <2>5, <2>11
    <3>2. Taken' = k + 4 /\ Taken' < Last' /\ Taken' > 3 /\ Taken' - 3 = k + 1 /\ k + 1 < Size(test)
      BY <1>1, <1>3, <2>1, <2>11
    <3>3. Now' \in Memory /\ Holds(Now', test', Taken' - 3)
      BY <1>1, <2>8, <2>9, <3>1, <3>2 DEF Now
    <3>4. InPage(test.addr + k, 1) = test.addr + (k + 1)
      BY <1>2, <2>1, <3>2, NextInPage
    <3>5. (HoldsNow(Taken - 3))' /\ dev'.ptr = test'.addr + (Taken' - 3)
      BY <1>1, <2>3, <2>6, <3>1, <3>2, <3>3, <3>4 DEF HoldsNow
    <3>6. DOMAIN dev' = Pins /\ dev'.n = 2 /\ dev'.command = 2 /\ dev'.enabled /\ ~dev'.busy
          /\ dev'.latch # <<>>
      BY <2>3, <2>6, <2>9, <3>1
    <3>7. Taken' # 0 /\ Taken' # 1 /\ Taken' # 2 /\ Taken' # Last'
      BY <1>1, <2>1, <3>2
    <3>8. DevWrites'
      <4>1. /\ Selects(2, 2)' /\ dev'.enabled /\ ~dev'.busy
            /\ (HoldsNow(Taken - 3))' /\ dev'.ptr = test'.addr + (Taken' - 3)
            /\ dev'.latch # <<>>
        BY <3>5, <3>6 DEF Selects
      <4>2. QED
        BY <3>7, <4>1, Zenon DEF DevWrites
    <3>9. QED
      BY <3>3, <3>6, <3>8
  <2>12. QED
    BY <2>10, <2>11
<1>9. QED
  BY <1>1, <1>5, <1>6, <1>7, <1>8

LEMMA ExchangeRead ==
  ASSUME SpiInv, Spi!Exchange, UNCHANGED Spi!program, Op = "read"
  PROVE  DOMAIN dev' = Pins /\ Now' \in Memory /\ DevReads' /\ Reads'
<1> DEFINE q == Taken
           w == WordsOf(test)
           d == Spi!Took(dev, shift.data)
<1>1. /\ test' = test /\ pc' = pc /\ got' = got /\ rom' = rom /\ i' = i
      /\ Taken' = q + 1 /\ q \in Nat /\ q + 1 <= i /\ i <= Last
      /\ i \in Nat /\ Last \in Nat /\ Last' = Last
      /\ shift = w[q + 1]
      /\ shift.eot => dev' = Spi!Ended(d)
      /\ ~shift.eot => dev' = d
      /\ shift.ignore \/ rx = None
      /\ shift.ignore => rx' = rx
      /\ ~shift.ignore /\ dev.command = 3 /\ dev.n = 2 => rx' = rom[dev.ptr]
      /\ DOMAIN dev = Pins
  BY Exchanged
<1>2. /\ TestOK(test) /\ rom \in Memory /\ Now \in Memory /\ DevReads /\ Reads
      /\ CallOf(test).op = "read"
  BY DEF SpiInv, Op
<1>3. /\ Size(test) \in Nat \ {0} /\ Last = Size(test) + 2
      /\ test.addr \in Nat /\ test.addr + Size(test) <= ROM_SIZE /\ test.addr < ROM_SIZE
  BY <1>2, SpiCall, CallNow DEF Op
<1>4. /\ w[1] = [data |-> 3, ignore |-> TRUE, eot |-> FALSE]
      /\ w[2] = [data |-> test.addr, ignore |-> TRUE, eot |-> FALSE]
      /\ \A k \in 1 .. Size(test) :
           w[k + 2] = [data |-> 0, ignore |-> FALSE, eot |-> k = Size(test)]
  BY <1>2, ReadWords
<1>5. ~dev.enabled /\ ~dev.busy /\ dev.latch = <<>> /\ HoldsNow(0)
  BY <1>2 DEF DevReads, Free
<1>6. q < Last
  BY <1>1
\* A byte is received where one is waited for.
<1>7. pc = "send" /\ i > 2 => FALSE
  BY <1>1, <1>2 DEF Reads, q
<1>8. pc # "return"
  BY <1>1, <1>2 DEF Reads, q
<1>9. pc = "recv" => rx = None /\ (i > 3 => q = i - 1) /\ i >= 3
  BY <1>1, <1>2 DEF Reads, q
<1> HIDE DEF q, w, d
<1>10. ASSUME dev'.latch = <<>>
       PROVE  Now' \in Memory /\ HoldsNow(0)'
  BY <1>1, <1>2, <1>5, <1>10, SameNow
<1>11. CASE q = 0
  <2>1. dev.n = 0
    BY <1>2, <1>11 DEF DevReads, Selects, q
  <2>2. shift.data = 3 /\ ~shift.eot /\ shift.ignore
    BY <1>1, <1>4, <1>11
  <2>3. /\ DOMAIN dev' = Pins /\ dev'.n = 1 /\ dev'.command = 3 /\ dev'.latch = <<>>
        /\ ~dev'.busy /\ ~dev'.enabled
    BY <1>1, <1>5, <2>1, <2>2, TookFirst DEF d
  <2>4. Taken' = 1 /\ Last' >= 3
    BY <1>1, <1>3, <1>11
  <2>5. DevReads'
    BY <1>10, <2>3, <2>4 DEF DevReads, Selects, Free
  <2>6. Reads'
    BY <1>1, <1>2, <1>7, <1>8, <1>9, <1>11, <2>2 DEF Reads
  <2>7. QED
    BY <1>10, <2>3, <2>5, <2>6
<1>12. CASE q = 1
  <2>1. dev.n = 1 /\ dev.command = 3
    BY <1>2, <1>12 DEF DevReads, Selects, q
  <2>2. shift.data = test.addr /\ ~shift.eot /\ shift.ignore
    BY <1>1, <1>4, <1>12
  <2>3. /\ DOMAIN dev' = Pins /\ dev'.n = 2 /\ dev'.command = 3 /\ dev'.latch = <<>>
        /\ ~dev'.busy /\ ~dev'.enabled /\ dev'.ptr = test.addr % ROM_SIZE
    BY <1>1, <1>5, <2>1, <2>2, TookSecond DEF d
  <2>4. dev'.ptr = test.addr + 0
    <3>1. test.addr \in Nat /\ test.addr < ROM_SIZE /\ ROM_SIZE \in Nat \ {0}
      BY <1>3, Sizes
    <3>2. test.addr % ROM_SIZE = test.addr + 0
      BY <3>1
    <3>3. QED
      BY <2>3, <3>2
  <2>5. Taken' = 2 /\ Last' >= 3 /\ Taken' - 2 = 0
    BY <1>1, <1>3, <1>12
  <2>6. DevReads'
    BY <1>1, <1>10, <2>3, <2>4, <2>5 DEF DevReads, Selects, Free
  <2>7. Reads'
    BY <1>1, <1>2, <1>7, <1>8, <1>9, <1>12, <2>2 DEF Reads
  <2>8. QED
    BY <1>10, <2>3, <2>6, <2>7
<1>13. CASE q >= 2
  <2> DEFINE k == q - 2
  <2>1. k \in Nat /\ q = k + 2 /\ k < Size(test) /\ k + 1 \in 1 .. Size(test)
    BY <1>1, <1>3, <1>13
  <2>2. dev.n = 2 /\ dev.command = 3 /\ dev.ptr = test.addr + k
    BY <1>2, <1>6, <1>13 DEF DevReads, Selects, q
  <2> HIDE DEF k
  <2>3. shift = w[(k + 1) + 2]
    BY <1>1, <2>1
  <2>4. ~shift.ignore /\ (shift.eot <=> k + 1 = Size(test))
    <3>1. w[(k + 1) + 2] = [data |-> 0, ignore |-> FALSE, eot |-> k + 1 = Size(test)]
      BY <1>4, <2>1
    <3>2. /\ ~shift.ignore
          /\ shift.eot = (k + 1 = Size(test))
      BY <2>3, <3>1
    <3>3. QED
      BY <3>2
  <2>5. /\ DOMAIN d = Pins /\ d.n = 2 /\ d.command = 3 /\ d.latch = dev.latch
        /\ d.ptr = (dev.ptr + 1) % ROM_SIZE /\ d.enabled = dev.enabled /\ d.busy = dev.busy
    BY <1>1, <2>2, TookRead DEF d
  <2>6. rx' = rom[test.addr + k]
    BY <1>1, <2>2, <2>4
  <2>7. pc = "recv" /\ i = k + 3
    BY <1>1, <1>2, <1>7, <1>8, <1>9, <1>13, <2>1 DEF Reads
  <2>8. Reads'
    <3>1. Taken' = i' /\ rx' = rom'[test'.addr + (i' - 3)]
      <4>1. i' - 3 = k /\ Taken' = i'
        BY <1>1, <2>1, <2>7
      <4>2. QED
        BY <1>1, <2>6, <4>1
    <3>2. QED
      BY <1>1, <1>2, <2>7, <3>1 DEF Reads
  <2>9. CASE k + 1 = Size(test)
    <3>1. /\ DOMAIN dev' = Pins /\ dev'.n = 0 /\ dev'.command = 0 /\ dev'.latch = <<>>
          /\ ~dev'.busy /\ ~dev'.enabled
      BY <1>1, <1>5, <2>4, <2>5, <2>9, EndedDevice
    <3>2. Taken' = Last' /\ Last' # 0 /\ Last' # 1 /\ ~(Taken' < Last')
      BY <1>1, <1>3, <2>1, <2>9
    <3>3. DevReads'
      BY <1>10, <3>1, <3>2 DEF DevReads, Selects, Free
    <3>4. QED
      BY <1>10, <2>8, <3>1, <3>3
  <2>10. CASE k + 1 # Size(test)
    <3>1. dev' = d
      BY <1>1, <2>4, <2>10
    <3>2. /\ Taken' # 0 /\ Taken' # 1 /\ Taken' # Last' /\ Taken' - 2 = k + 1
          /\ k + 1 < Size(test)
      BY <1>1, <1>3, <2>1, <2>10
    <3>3. (test.addr + k + 1) % ROM_SIZE = test.addr + (k + 1)
      BY <1>3, <2>1, <3>2, Sizes
    <3>4. /\ DOMAIN dev' = Pins /\ Selects(2, 3)' /\ dev'.latch = <<>> /\ Free' /\ ~dev'.enabled
          /\ dev'.ptr = test'.addr + (Taken' - 2)
      BY <1>1, <1>5, <2>2, <2>5, <3>1, <3>2, <3>3 DEF Selects, Free
    <3>5. DevReads'
      BY <1>10, <3>2, <3>4, Zenon DEF DevReads
    <3>6. QED
      BY <1>10, <2>8, <3>4, <3>5
  <2>11. QED
    BY <2>9, <2>10
<1>14. QED
  BY <1>1, <1>11, <1>12, <1>13

LEMMA SpiExchange == SpiInv /\ Spi!Exchange /\ UNCHANGED Spi!program => SpiInv'
<1> SUFFICES ASSUME SpiInv, Spi!Exchange, UNCHANGED Spi!program
             PROVE  SpiInv'
  OBVIOUS
<1>1. /\ test' = test /\ pc' = pc /\ i' = i /\ got' = got /\ rom' = rom /\ tx' = tx
      /\ shift' = None /\ Taken' = Taken + 1 /\ Taken \in Nat /\ i \in Nat
      /\ Last' = Last /\ Op' = Op /\ (shift.ignore => rx' = rx)
      /\ shift = WordsOf(test)[Taken + 1] /\ Taken + 1 <= i /\ i <= Last /\ Last \in Nat
  BY Exchanged
<1>2. TestOK(test) /\ rom \in Memory /\ Op \in {"read", "write"}
  BY SpiCall DEF SpiInv
<1>3. Taken' >= 0
  BY <1>1
<1>4. CASE Op = "read"
  BY <1>1, <1>2, <1>3, <1>4, ExchangeRead DEF SpiInv, Pins
<1>5. CASE Op = "write"
  <2>1. shift.ignore
    <3>1. /\ Size(test) \in Nat /\ Last = Size(test) + 3 /\ CallOf(test).op = "write"
      BY <1>2, <1>5, SpiCall DEF Op
    <3>2. /\ WordsOf(test)[1].ignore /\ WordsOf(test)[2].ignore /\ WordsOf(test)[3].ignore
          /\ \A k \in 1 .. Size(test) : WordsOf(test)[k + 3].ignore
      <4>1. /\ WordsOf(test)[1] = [data |-> 6, ignore |-> TRUE, eot |-> TRUE]
            /\ WordsOf(test)[2] = [data |-> 2, ignore |-> TRUE, eot |-> FALSE]
            /\ WordsOf(test)[3] = [data |-> test.addr, ignore |-> TRUE, eot |-> FALSE]
            /\ \A k \in 1 .. Size(test) :
                 WordsOf(test)[k + 3] = [data |-> CallOf(test).bytes[k], ignore |-> TRUE,
                                         eot |-> k = Size(test)]
        BY <1>2, <3>1, WriteWords
      <4>2. ASSUME NEW k \in 1 .. Size(test)
            PROVE  WordsOf(test)[k + 3].ignore
        <5>1. WordsOf(test)[k + 3] = [data |-> CallOf(test).bytes[k], ignore |-> TRUE,
                                      eot |-> k = Size(test)]
          BY <4>1
        <5>2. WordsOf(test)[k + 3].ignore = TRUE
          BY <5>1
        <5>3. QED
          BY <5>2
      <4>3. WordsOf(test)[1].ignore /\ WordsOf(test)[2].ignore /\ WordsOf(test)[3].ignore
        BY <4>1
      <4>4. QED
        BY <4>2, <4>3
    <3>3. CASE Taken >= 3
      <4>1. Taken - 2 \in 1 .. Size(test) /\ Taken + 1 = (Taken - 2) + 3
        BY <1>1, <3>1, <3>3
      <4>2. QED
        BY <1>1, <3>2, <4>1
    <3>4. CASE Taken \in {0, 1, 2}
      BY <1>1, <3>2, <3>4
    <3>5. QED
      BY <1>1, <3>3, <3>4
  <2>2. Writes'
    BY <1>1, <1>5, <2>1 DEF SpiInv, Writes
  <2>3. QED
    BY <1>1, <1>2, <1>3, <1>5, <2>2, ExchangeWrite DEF SpiInv, Pins
<1>6. QED
  BY <1>2, <1>4, <1>5

LEMMA SpiBurn == SpiInv /\ Spi!Burn /\ UNCHANGED Spi!program => SpiInv'
<1> SUFFICES ASSUME SpiInv, Spi!Burn, UNCHANGED Spi!program
             PROVE  SpiInv'
  OBVIOUS
<1>1. /\ test' = test /\ pc' = pc /\ i' = i /\ got' = got
      /\ tx' = tx /\ shift' = shift /\ rx' = rx
      /\ dev.busy /\ rom' = Now /\ dev' = [dev EXCEPT !.busy = FALSE, !.latch = <<>>]
  BY SpiNames DEF Spi!Burn, Spi!program, Spi!wire, Now
<1>2. /\ TestOK(test) /\ DOMAIN dev = Pins /\ Now \in Memory
      /\ i \in Nat /\ i <= Last /\ Taken >= 0
  BY DEF SpiInv, Pins
<1>3. /\ DOMAIN dev' = Pins /\ dev'.n = dev.n /\ dev'.command = dev.command
      /\ dev'.enabled = dev.enabled /\ ~dev'.busy /\ dev'.latch = <<>>
  BY <1>1, <1>2 DEF Pins
<1>4. Op = "write"
  BY <1>1, <1>2, SpiCall DEF SpiInv, DevReads, Free
<1>5. Taken \in Nat /\ Taken <= Last /\ Last \in Nat
  BY <1>2, SpiCall DEF Taken
<1>6. DevWrites /\ Writes
  BY <1>4 DEF SpiInv
<1>7. Taken = Last /\ Selects(0, 0) /\ ~dev.enabled /\ HoldsNow(Size(test))
  <2>1. Taken # 0 /\ Taken # 1 /\ Taken # 2 /\ ~(Taken >= 3 /\ Taken < Last)
    BY <1>1, <1>6 DEF DevWrites, Free
  <2>2. Taken = Last
    BY <1>5, <2>1
  <2>3. QED
    BY <1>6, <2>2 DEF DevWrites
<1>8. Now' = Now
  BY <1>1, <1>3, EmptyLatch DEF Now
<1>9. Taken' = Taken /\ Last' = Last /\ Op' = Op
  BY <1>1 DEF Taken, Last, Op
<1>10. /\ Last \in Nat /\ Last >= 4
  BY <1>2, <1>4, SpiCall
<1>11. DevWrites'
  <2>1. Selects(0, 0)' /\ ~dev'.enabled /\ Rests' /\ HoldsNow(Size(test))'
    BY <1>1, <1>3, <1>7, <1>8 DEF Selects, Rests, HoldsNow
  <2>2. /\ Taken' = Last' /\ Taken' # 0 /\ Taken' # 1 /\ Taken' # 2
        /\ ~(Taken' < Last')
    BY <1>7, <1>9, <1>10
  <2>3. QED
    BY <2>1, <2>2 DEF DevWrites
<1>12. Writes'
  BY <1>1, <1>6, <1>9 DEF Writes
<1>13. rom' \in Memory
  BY <1>1, <1>2
<1>14. Op' # "read"
  BY <1>4, <1>9
<1>15. QED
  BY <1>1, <1>2, <1>3, <1>8, <1>9, <1>11, <1>12, <1>13, <1>14 DEF SpiInv, Pins

\* A step of the program that makes the device take nothing.
LEMMA SameDevice ==
  ASSUME SpiInv, UNCHANGED <<shift, dev, rom>>, test' = test, Taken' = Taken
  PROVE  /\ Last' = Last /\ Op' = Op /\ Now' = Now
         /\ DevWrites => DevWrites'
         /\ DevReads => DevReads'
<1>1. Now' = Now /\ \A k : HoldsNow(k)' <=> HoldsNow(k)
  BY DEF Now, HoldsNow
<1>2. Last' = Last /\ Op' = Op
  BY DEF Last, Op
<1>3. DevWrites => DevWrites'
  BY <1>1, <1>2 DEF DevWrites, Selects, Free, Rests, HoldsNow
<1>4. DevReads => DevReads'
  BY <1>1, <1>2 DEF DevReads, Selects, Free, HoldsNow
<1>5. QED
  BY <1>1, <1>2, <1>3, <1>4

LEMMA SpiSend == SpiInv /\ Spi!Send /\ UNCHANGED <<shift, dev, rom>> => SpiInv'
<1> SUFFICES ASSUME SpiInv, Spi!Send, UNCHANGED <<shift, dev, rom>>
             PROVE  SpiInv'
  OBVIOUS
<1>1. /\ TestOK(test) /\ DOMAIN dev = Pins /\ Now \in Memory /\ rom \in Memory
      /\ i \in Nat /\ i <= Last /\ Taken >= 0
      /\ Op = "write" => DevWrites /\ Writes
      /\ Op = "read" => DevReads /\ Reads
      /\ shift # None => shift = WordsOf(test)[Taken + 1]
  BY DEF SpiInv, Pins
<1>2. /\ Spi!Words = WordsOf(test) /\ Spi!Call.op = Op /\ Len(WordsOf(test)) = Last
      /\ Last \in Nat /\ Last >= 3 /\ Op \in {"read", "write"}
      /\ \A j \in 1 .. Last : WordsOf(test)[j] # None
  BY <1>1, SpiCall DEF Op
<1>3. /\ pc = "send" /\ tx = None /\ tx' = WordsOf(test)[i + 1] /\ i' = i + 1
      /\ test' = test /\ got' = got /\ rx' = rx /\ shift' = shift /\ dev' = dev /\ rom' = rom
      /\ pc' = IF Op = "read" /\ i > 1 THEN "recv"
               ELSE IF i + 1 < Last THEN "send" ELSE "delay"
  BY <1>2 DEF Spi!Send
<1>4. i < Last /\ rx = None
  BY <1>1, <1>2, <1>3 DEF Writes, Reads
<1>5. tx' # None
  <2>1. i + 1 \in 1 .. Last
    BY <1>1, <1>2, <1>4
  <2>2. QED
    BY <1>2, <1>3, <2>1
<1>6. Taken' = Taken
  BY <1>1, <1>3, <1>5 DEF Taken
<1>7. /\ Last' = Last /\ Op' = Op /\ Now' = Now
      /\ DevWrites => DevWrites'
      /\ DevReads => DevReads'
  BY <1>3, <1>6, SameDevice
<1>8. i' \in Nat /\ i' <= Last' /\ i' > 0 /\ tx' = WordsOf(test')[i']
  BY <1>1, <1>2, <1>3, <1>4, <1>7
<1>9. Op = "write" => Writes'
  BY <1>1, <1>2, <1>3, <1>4, <1>7 DEF Writes
<1>10. Op = "read" => Reads'
  <2> SUFFICES ASSUME Op = "read"
               PROVE  Reads'
    OBVIOUS
  <2>1. /\ Reads /\ Len(got) \in Nat
        /\ i <= 2 => Len(got) = 0
        /\ i > 2 => Taken = i /\ Len(got) = i - 2
    BY <1>1, <1>3 DEF Reads
  <2>2. /\ got' \in Seq(Byte) /\ rx' = None
        /\ \A j \in 1 .. Len(got') : got'[j] = rom'[test'.addr + (j - 1)]
    BY <1>3, <1>4, <2>1 DEF Reads
  <2>3. CASE i > 1
    <3>1. pc' = "recv" /\ i' >= 3
      BY <1>1, <1>3, <2>3
    <3>2. Len(got') = i' - 3
      BY <1>1, <1>3, <2>1, <2>3
    <3>3. i' > 3 => Taken' >= i' - 1
      BY <1>1, <1>3, <1>6, <2>1
    <3>4. QED
      BY <2>2, <3>1, <3>2, <3>3 DEF Reads
  <2>4. CASE ~(i > 1)
    <3>1. pc' = "send" /\ i' <= 2 /\ ~(i' > 2) /\ Len(got') = 0 /\ i' < Last'
      BY <1>1, <1>2, <1>3, <1>7, <2>1, <2>4
    <3>2. QED
      BY <2>2, <3>1 DEF Reads
  <2>5. QED
    BY <2>3, <2>4
<1>11. QED
  BY <1>1, <1>3, <1>6, <1>7, <1>8, <1>9, <1>10 DEF SpiInv, Pins

LEMMA SpiRecv == SpiInv /\ Spi!Recv /\ UNCHANGED <<shift, dev, rom>> => SpiInv'
<1> SUFFICES ASSUME SpiInv, Spi!Recv, UNCHANGED <<shift, dev, rom>>
             PROVE  SpiInv'
  OBVIOUS
<1>1. /\ TestOK(test) /\ DOMAIN dev = Pins /\ Now \in Memory /\ rom \in Memory
      /\ i \in Nat /\ i <= Last /\ Taken >= 0
      /\ Op = "write" => DevWrites /\ Writes
      /\ Op = "read" => DevReads /\ Reads
      /\ shift # None => shift = WordsOf(test)[Taken + 1]
      /\ tx # None => i > 0 /\ tx = WordsOf(test)[i]
  BY DEF SpiInv, Pins
<1>2. /\ Spi!Words = WordsOf(test) /\ Len(WordsOf(test)) = Last
      /\ Last \in Nat /\ Op \in {"read", "write"} /\ Size(test) \in Nat \ {0}
      /\ Op = "read" => Last = Size(test) + 2
  BY <1>1, SpiCall
<1>3. /\ pc = "recv" /\ rx # None /\ got' = Append(got, rx) /\ rx' = None /\ tx' = tx /\ i' = i
      /\ test' = test /\ shift' = shift /\ dev' = dev /\ rom' = rom
      /\ pc' = IF i < Last THEN "send" ELSE "return"
  BY <1>2 DEF Spi!Recv
<1>4. Op = "read"
  BY <1>1, <1>2, <1>3 DEF Writes
<1>5. /\ i >= 3 /\ got \in Seq(Byte) /\ Len(got) = i - 3 /\ Taken = i
      /\ rx = rom[test.addr + (i - 3)]
      /\ \A j \in 1 .. Len(got) : got[j] = rom[test.addr + (j - 1)]
  BY <1>1, <1>3, <1>4 DEF Reads
<1>6. Taken' = Taken
  BY <1>3 DEF Taken
<1>7. /\ Last' = Last /\ Op' = Op /\ Now' = Now
      /\ DevReads => DevReads'
  BY <1>3, <1>6, SameDevice
<1>8. rx \in Byte
  <2>1. test.addr + (i - 3) \in Address
    <3>1. test.addr \in Nat /\ test.addr + Size(test) <= ROM_SIZE
      BY <1>1, CallNow
    <3>2. i - 3 \in Nat /\ i - 3 < Size(test) /\ Size(test) \in Nat
      BY <1>1, <1>2, <1>4, <1>5
    <3>3. /\ test.addr + (i - 3) \in Nat
          /\ test.addr + (i - 3) < ROM_SIZE
          /\ ROM_SIZE \in Nat
      BY <3>1, <3>2, Sizes
    <3>4. QED
      BY <3>3 DEF Address
  <2>2. QED
    BY <1>1, <1>5, <2>1 DEF Memory
<1>9. /\ got' \in Seq(Byte) /\ Len(got') = i - 2
      /\ \A j \in 1 .. i - 2 : got'[j] = rom[test.addr + (j - 1)]
  <2>1. /\ got' \in Seq(Byte) /\ Len(got') = Len(got) + 1 /\ got'[Len(got) + 1] = rx
        /\ \A j \in 1 .. Len(got) : got'[j] = got[j]
    BY <1>3, <1>5, <1>8
  <2>2. Len(got) + 1 = i - 2 /\ Len(got) \in Nat
    BY <1>1, <1>5
  <2>3. ASSUME NEW j \in 1 .. i - 2
        PROVE  got'[j] = rom[test.addr + (j - 1)]
    <3>1. CASE j = i - 2
      <4>1. j - 1 = i - 3
        BY <1>1, <3>1
      <4>2. QED
        BY <1>5, <2>1, <2>2, <3>1, <4>1
    <3>2. CASE j # i - 2
      <4>1. j \in 1 .. Len(got)
        BY <1>1, <2>2, <3>2
      <4>2. QED
        BY <1>5, <2>1, <4>1
    <3>3. QED
      BY <3>1, <3>2
  <2>4. QED
    BY <2>1, <2>2, <2>3
<1>10. Reads'
  <2>1. /\ got' \in Seq(Byte)
        /\ \A j \in 1 .. Len(got') : got'[j] = rom'[test'.addr + (j - 1)]
    BY <1>3, <1>9
  <2>2. CASE i < Last
    <3>1. /\ pc' = "send" /\ i' < Last' /\ rx' = None /\ ~(i' <= 2) /\ Taken' = i'
          /\ Len(got') = i' - 2
      BY <1>1, <1>2, <1>3, <1>5, <1>6, <1>7, <1>9, <2>2
    <3>2. QED
      BY <2>1, <3>1 DEF Reads
  <2>3. CASE ~(i < Last)
    <3>1. i = Last
      BY <1>1, <1>2, <2>3
    <3>2. pc' = "return" /\ i' = Last' /\ Taken' = Last' /\ rx' = None /\ Len(got') = Last' - 2
      BY <1>3, <1>5, <1>6, <1>7, <1>9, <2>3, <3>1
    <3>3. QED
      BY <2>1, <3>2 DEF Reads
  <2>4. QED
    BY <2>2, <2>3
<1>11. i' \in Nat /\ i' <= Last' /\ Op' # "write"
  BY <1>1, <1>3, <1>4, <1>7
<1>12. QED
  BY <1>1, <1>3, <1>4, <1>6, <1>7, <1>10, <1>11 DEF SpiInv, Pins

\* A call begins when nothing is left of the one before it.
LEMMA NewCall ==
  ASSUME SpiInv, test' = Following(test, got), pc' = "send", i' = 0, got' = <<>>,
         tx = None, shift = None, rx = None, UNCHANGED <<tx, rx, shift, dev, rom>>,
         Selects(0, 0), ~dev.enabled, Free,
         test.phase = "random" => got[1] \in Nat,
         HoldsNow(IF test.phase \in {"byte", "page"} THEN Size(test) ELSE 0)
  PROVE  SpiInv'
<1>1. TestOK(test) /\ DOMAIN dev = Pins /\ Now \in Memory /\ rom \in Memory
  BY DEF SpiInv, Pins
<1>2. TestOK(test')
  BY <1>1, NextTest
<1>3. Last' \in Nat /\ Last' >= 3 /\ Op' \in {"read", "write"}
  <2>1. Size(test') \in Nat \ {0} /\ CallOf(test').op \in {"read", "write"}
    BY <1>2, CallFacts
  <2>2. QED
    BY <2>1 DEF Last, Op
<1>4. Holds(Now, test', 0)
  BY <1>1, HoldsOn DEF HoldsNow
<1>5. Now' = Now /\ HoldsNow(0)'
  BY <1>4 DEF Now, HoldsNow
<1>6. Taken' = 0
  BY DEF Taken
<1>7. Selects(0, 0)' /\ ~dev'.enabled /\ Free'
  BY DEF Selects, Free
<1>8. Taken' # Last' /\ 0 < Last'
  BY <1>3, <1>6
<1>9. DevWrites'
  BY <1>5, <1>6, <1>7, <1>8 DEF DevWrites
<1>10. DevReads'
  BY <1>5, <1>6, <1>7, <1>8 DEF DevReads
<1>11. Writes'
  BY <1>8 DEF Writes
<1>12. Reads'
  <2>1. <<>> \in Seq(Byte) /\ Len(<<>>) = 0
    OBVIOUS
  <2>2. \A j \in 1 .. Len(got') : FALSE
    BY <2>1
  <2>3. QED
    BY <1>8, <2>1, <2>2 DEF Reads
<1>13. i' \in Nat /\ i' <= Last' /\ Taken' >= 0
  BY <1>3, <1>6
<1>14. QED
  BY <1>1, <1>2, <1>5, <1>9, <1>10, <1>11, <1>12, <1>13 DEF SpiInv, Pins

LEMMA SpiDelay == SpiInv /\ Spi!Delay /\ UNCHANGED <<shift, dev, rom>> => SpiInv'
<1> SUFFICES ASSUME SpiInv, Spi!Delay, UNCHANGED <<shift, dev, rom>>
             PROVE  SpiInv'
  OBVIOUS
<1>1. /\ TestOK(test) /\ i \in Nat
      /\ Op = "write" => DevWrites /\ Writes
      /\ Op = "read" => DevReads /\ Reads
  BY DEF SpiInv
<1>2. /\ pc = "delay" /\ tx = None /\ shift = None /\ ~dev.busy
      /\ test' = Following(test, got) /\ pc' = "send" /\ i' = 0 /\ got' = <<>>
      /\ tx' = tx /\ rx' = rx
  BY SpiNames DEF Spi!Delay, Spi!Then
<1>3. /\ Op \in {"read", "write"} /\ Last \in Nat
      /\ Op = IF test.phase \in {"byte", "page"} THEN "write" ELSE "read"
  BY <1>1, SpiCall, CallNow
<1>4. Op = "write" /\ test.phase \in {"byte", "page"} /\ test.phase # "random"
  BY <1>1, <1>2, <1>3 DEF Reads
<1>5. rx = None /\ i = Last
  BY <1>1, <1>2, <1>4 DEF Writes
<1>6. Taken = Last
  BY <1>1, <1>2, <1>5 DEF Taken
<1>7. Selects(0, 0) /\ ~dev.enabled /\ Rests /\ HoldsNow(Size(test))
  BY <1>1, <1>4, <1>6 DEF DevWrites
<1>8. Free
  BY <1>2, <1>7 DEF Rests, Free
<1>9. HoldsNow(IF test.phase \in {"byte", "page"} THEN Size(test) ELSE 0)
  BY <1>4, <1>7
<1>10. QED
  BY <1>2, <1>4, <1>5, <1>7, <1>8, <1>9, NewCall

LEMMA SpiCheck == SpiInv /\ Spi!Check /\ UNCHANGED <<shift, dev, rom>> => SpiInv'
<1> SUFFICES ASSUME SpiInv, Spi!Check, UNCHANGED <<shift, dev, rom>>
             PROVE  SpiInv'
  OBVIOUS
<1>1. /\ TestOK(test) /\ i \in Nat /\ Now \in Memory /\ rom \in Memory
      /\ Op = "write" => DevWrites /\ Writes
      /\ Op = "read" => DevReads /\ Reads
  BY DEF SpiInv
<1>2. /\ pc = "return" /\ tx' = tx /\ rx' = rx
      /\ ~Mismatch(test, got) =>
           test' = Following(test, got) /\ pc' = "send" /\ i' = 0 /\ got' = <<>>
  BY SpiNames DEF Spi!Check, Spi!Then
<1>3. /\ Op \in {"read", "write"} /\ Last \in Nat /\ Size(test) \in Nat \ {0}
      /\ Op = IF test.phase \in {"byte", "page"} THEN "write" ELSE "read"
      /\ Op = "read" => Last = Size(test) + 2
  BY <1>1, SpiCall, CallNow
<1>4. Op = "read" /\ test.phase \notin {"byte", "page"}
  BY <1>1, <1>2, <1>3 DEF Writes
<1>5. /\ i = Last /\ Taken = Last /\ rx = None /\ got \in Seq(Byte) /\ Len(got) = Last - 2
      /\ \A j \in 1 .. Len(got) : got[j] = rom[test.addr + (j - 1)]
  BY <1>1, <1>2, <1>4 DEF Reads
<1>6. tx = None /\ shift = None
  BY <1>1, <1>5 DEF Taken
<1>7. Selects(0, 0) /\ ~dev.enabled /\ Free /\ HoldsNow(0)
  BY <1>1, <1>4, <1>5 DEF DevReads
<1>8. Len(got) = Size(test)
  BY <1>3, <1>4, <1>5
<1>9. Now = rom
  BY <1>1, <1>7, EmptyLatch DEF Now, Free
<1>10. ~Mismatch(test, got)
  <2>1. Holds(rom, test, 0)
    BY <1>7, <1>9 DEF HoldsNow
  <2>2. QED
    BY <1>1, <1>5, <1>8, <2>1, ReadMatches
<1>11. test.phase = "random" => got[1] \in Nat
  <2>1. got[1] \in Byte
    BY <1>3, <1>5, <1>8
  <2>2. QED
    BY <2>1, Sizes DEF Byte
<1>12. HoldsNow(IF test.phase \in {"byte", "page"} THEN Size(test) ELSE 0)
  BY <1>4, <1>7
<1>13. QED
  BY <1>2, <1>5, <1>6, <1>7, <1>10, <1>11, <1>12, NewCall

LEMMA SpiBegins == Spi!Init => SpiInv
<1> SUFFICES ASSUME Spi!Init
             PROVE  SpiInv
  OBVIOUS
<1>1. /\ test = Begin /\ pc = "send" /\ i = 0 /\ got = <<>>
      /\ tx = None /\ shift = None /\ rx = None
      /\ dev = [n |-> 0, command |-> 0, ptr |-> 0, latch |-> <<>>,
                enabled |-> FALSE, busy |-> FALSE]
      /\ \E b \in Byte : rom = [a \in Address |-> b]
  BY SpiNames DEF Spi!Init
<1>2. rom \in Memory
  BY <1>1 DEF Memory
<1>3. /\ DOMAIN dev = {"n", "command", "ptr", "latch", "enabled", "busy"} /\ dev.latch = <<>>
      /\ Selects(0, 0) /\ ~dev.enabled /\ Free
  BY <1>1 DEF Selects, Free
<1>4. Now = rom
  BY <1>2, <1>3, EmptyLatch DEF Now
<1>5. HoldsNow(0) /\ TestOK(test)
  BY <1>1, Beginning DEF HoldsNow
<1>6. Taken = 0
  BY <1>1 DEF Taken
<1>7. Last \in Nat /\ Last >= 3
  BY <1>5, SpiCall
<1>8. Taken # Last /\ 0 < Last
  BY <1>6, <1>7
<1>9. DevWrites
  BY <1>3, <1>5, <1>6, <1>8 DEF DevWrites
<1>10. DevReads
  BY <1>3, <1>5, <1>6, <1>8 DEF DevReads
<1>11. Writes
  BY <1>1, <1>8 DEF Writes
<1>12. Reads
  <2>1. <<>> \in Seq(Byte) /\ Len(<<>>) = 0
    OBVIOUS
  <2>2. \A j \in 1 .. Len(got) : FALSE
    BY <1>1, <2>1
  <2>3. QED
    BY <1>1, <1>8, <2>1, <2>2 DEF Reads
<1>13. i \in Nat /\ i <= Last /\ Taken >= 0
  BY <1>1, <1>6, <1>7
<1>14. QED
  BY <1>1, <1>2, <1>3, <1>4, <1>5, <1>9, <1>10, <1>11, <1>12, <1>13 DEF SpiInv

LEMMA SpiStep == SpiInv /\ Spi!Next => SpiInv'
<1> SUFFICES ASSUME SpiInv, Spi!Next
             PROVE  SpiInv'
  OBVIOUS
<1>1. CASE Spi!main
  <2>1. UNCHANGED <<shift, dev, rom>>
    BY <1>1 DEF Spi!main
  <2>2. QED
    BY <1>1, <2>1, SpiSend, SpiRecv, SpiDelay, SpiCheck DEF Spi!main
<1>2. CASE Spi!Hardware
  BY <1>2, SpiLoad, SpiExchange, SpiBurn DEF Spi!Hardware
<1>3. QED
  BY <1>1, <1>2 DEF Spi!Next

LEMMA SpiGood == SpiInv => Spi!Stored /\ Spi!Passes
<1> SUFFICES ASSUME SpiInv
             PROVE  Spi!Stored /\ Spi!Passes
  OBVIOUS
<1>1. TestOK(test) /\ rom \in Memory /\ Op \in {"read", "write"}
  BY SpiCall DEF SpiInv
<1>2. Spi!Passes
  BY <1>1 DEF SpiInv, Writes, Reads, Spi!Passes
<1>3. Filled(rom, test)
  <2>1. CASE test.phase \in {"seq", "rest"}
    <3>1. Op = "read"
      BY <1>1, <2>1, CallNow
    <3>2. Free /\ HoldsNow(0)
      BY <3>1 DEF SpiInv, DevReads
    <3>3. Now = rom
      BY <1>1, <3>2, EmptyLatch DEF Now, Free
    <3>4. QED
      BY <1>1, <3>2, <3>3, HoldsAll DEF HoldsNow
  <2>2. QED
    BY <2>1 DEF Filled
<1>4. Spi!Stored
  BY <1>3, SpiNames DEF Spi!Stored
<1>5. QED
  BY <1>2, <1>4

-----------------------------------------------------------------------------
(* The program that writes its own flash.                                  *)

BlankFrom(k) == \A b \in 0 .. Blocks - 1 : b >= k => sector[b] = -1
SameBelow(k) == \A b \in 0 .. Blocks - 1 : b < k => sector[b] = data

\* The blocks before i hold the test data.  As long as the flash has taken
\* every copy those that follow are blank; a copy that it has not taken is
\* found out at once.
IapInv ==
  /\ DOMAIN sector = 0 .. Blocks - 1
  /\ i \in Nat /\ i <= Blocks /\ wear \in Nat /\ data = start_data
  /\ pc \in {"boot", "check", "prepare erase", "erase", "check again", "fill",
             "prepare copy", "copy", "compare", "verify", "isp", "iap_error"}
  /\ pc \in {"boot", "check", "prepare erase", "erase", "check again"} => i = 0
  /\ pc \in {"erase", "copy"} => prepared
  /\ pc \in {"prepare copy", "copy", "compare"} => i < Blocks
  /\ pc \in {"fill", "prepare copy", "copy", "compare", "verify"} => SameBelow(i)
  /\ pc = "verify" => i = Blocks
  /\ pc = "isp" => SameBelow(Blocks)
  /\ wear = 0 =>
       /\ pc # "iap_error"
       /\ pc = "check again" => BlankFrom(0)
       /\ pc \in {"fill", "prepare copy", "copy"} => BlankFrom(i)
       /\ pc = "compare" => BlankFrom(i + 1) /\ SameBelow(i + 1)

LEMMA IapDefs ==
  /\ Iap!Block = 0 .. Blocks - 1
  /\ Iap!Blank = -1 /\ Iap!Partial = -2
  /\ Blocks \in Nat \ {0}
BY MemoriesAssumption DEF Iap!Block, Iap!Blank, Iap!Partial

LEMMA IapBegins == Iap!Init => IapInv
<1> SUFFICES ASSUME Iap!Init
             PROVE  IapInv
  OBVIOUS
<1>1. /\ DOMAIN sector = 0 .. Blocks - 1 /\ pc = "boot" /\ i = 0
      /\ start_data = 0 /\ data = 0 /\ wear = 0
  BY IapDefs DEF Iap!Init
<1>2. Blocks \in Nat \ {0}
  BY MemoriesAssumption
<1>3. QED
  BY <1>1, <1>2 DEF IapInv

LEMMA IapStep == IapInv /\ Iap!Next => IapInv'
<1> SUFFICES ASSUME IapInv, Iap!Next
             PROVE  IapInv'
  OBVIOUS
<1> USE IapDefs
<1>1. CASE Iap!Boot
  <2>1. /\ pc = "boot" /\ pc' = "check" /\ data' = start_data' /\ i' = i /\ sector' = sector
        /\ wear' = wear
    BY <1>1 DEF Iap!Boot
  <2>2. QED
    BY <2>1 DEF IapInv
<1>2. CASE Iap!Check
  <2>1. /\ pc = "check" /\ sector' = sector /\ i' = i /\ wear' = wear /\ data' = data
        /\ start_data' = start_data
        /\ \/ pc' = "prepare erase"
           \/ pc' = "fill" /\ \A b \in 0 .. Blocks - 1 : sector[b] = -1
    BY <1>2 DEF Iap!Check, Iap!BlankCheck, Iap!At
  <2>2. CASE pc' = "prepare erase"
    BY <2>1, <2>2 DEF IapInv
  <2>3. CASE pc' = "fill" /\ \A b \in 0 .. Blocks - 1 : sector[b] = -1
    BY <2>1, <2>3 DEF IapInv, SameBelow, BlankFrom
  <2>4. QED
    BY <2>1, <2>2, <2>3
<1>3. CASE Iap!PrepareErase
  <2>1. /\ pc = "prepare erase" /\ pc' = "erase" /\ prepared' /\ i' = i /\ sector' = sector
        /\ wear' = wear /\ data' = data /\ start_data' = start_data
    BY <1>3 DEF Iap!PrepareErase, Iap!At, Iap!Prepare, Iap!Unless
  <2>2. QED
    BY <2>1 DEF IapInv
<1>4. CASE Iap!EraseSector
  <2>1. /\ pc = "erase" /\ pc' = "check again" /\ i' = i /\ wear' = wear
        /\ data' = data /\ start_data' = start_data
        /\ sector' = [b \in 0 .. Blocks - 1 |-> -1]
    BY <1>4 DEF IapInv, Iap!EraseSector, Iap!At, Iap!Erase, Iap!NotPrepared, Iap!Unless
  <2>2. QED
    BY <2>1 DEF IapInv, BlankFrom
<1>5. CASE Iap!CheckAgain
  <2>1. /\ pc = "check again" /\ i' = i /\ wear' = wear /\ sector' = sector
        /\ data' = data /\ start_data' = start_data
        /\ pc' = IF \A b \in 0 .. Blocks - 1 : sector[b] = -1 THEN "fill" ELSE "iap_error"
    BY <1>5 DEF Iap!CheckAgain, Iap!At, Iap!BlankCheck, Iap!Unless
  <2>2. BlankFrom(0) <=> \A b \in 0 .. Blocks - 1 : sector[b] = -1
    BY DEF BlankFrom
  <2>3. wear = 0 => BlankFrom(0) /\ pc' = "fill"
    BY <2>1, <2>2 DEF IapInv
  <2>4. SameBelow(0)' /\ (BlankFrom(0) => BlankFrom(0)')
    <3>1. SameBelow(0)'
      BY DEF SameBelow
    <3>2. BlankFrom(0) => BlankFrom(0)'
      BY <2>1 DEF BlankFrom
    <3>3. QED
      BY <3>1, <3>2
  <2>5. i = 0 /\ pc' \in {"fill", "iap_error"}
    BY <2>1 DEF IapInv
  <2>6. QED
    BY <2>1, <2>3, <2>4, <2>5 DEF IapInv
<1>6. CASE Iap!Fill
  <2>1. /\ pc = "fill" /\ i' = i /\ wear' = wear /\ sector' = sector
        /\ data' = data /\ start_data' = start_data
        /\ pc' = IF i < Blocks THEN "prepare copy" ELSE "verify"
    BY <1>6 DEF Iap!Fill
  <2>2. SameBelow(i) /\ i \in Nat /\ i <= Blocks
    BY <2>1 DEF IapInv
  <2>3. SameBelow(i)' /\ (BlankFrom(i) => BlankFrom(i)')
    BY <2>1, <2>2 DEF BlankFrom, SameBelow
  <2>4. CASE i < Blocks
    BY <2>1, <2>2, <2>3, <2>4 DEF IapInv
  <2>5. CASE ~(i < Blocks)
    BY <2>1, <2>2, <2>3, <2>5 DEF IapInv
  <2>6. QED
    BY <2>4, <2>5
<1>7. CASE Iap!PrepareCopy
  <2>1. /\ pc = "prepare copy" /\ pc' = "copy" /\ prepared' /\ i' = i /\ sector' = sector
        /\ wear' = wear /\ data' = data /\ start_data' = start_data
    BY <1>7 DEF Iap!PrepareCopy, Iap!At, Iap!Prepare, Iap!Unless
  <2>2. SameBelow(i)' = SameBelow(i) /\ BlankFrom(i)' = BlankFrom(i)
    BY <2>1 DEF BlankFrom, SameBelow
  <2>3. QED
    BY <2>1, <2>2 DEF IapInv
<1>8. CASE Iap!CopyBlock
  <2>1. /\ pc = "copy" /\ pc' = "compare" /\ i' = i /\ data' = data /\ start_data' = start_data
        /\ \/ /\ sector' = [sector EXCEPT ![i] = IF sector[i] \in {-1, data} THEN data ELSE -2]
              /\ wear' = wear
           \/ sector' = [sector EXCEPT ![i] = -2] /\ wear' = wear + 1
    BY <1>8 DEF IapInv, Iap!CopyBlock, Iap!At, Iap!Copy, Iap!NotPrepared, Iap!Unless
  <2>2. /\ DOMAIN sector' = 0 .. Blocks - 1
        /\ \A b \in 0 .. Blocks - 1 : b # i => sector'[b] = sector[b]
    BY <2>1 DEF IapInv
  <2>3. wear' \in Nat /\ (wear' = 0 => wear = 0 /\ sector'[i] = data)
    BY <2>1 DEF IapInv, BlankFrom
  <2>4. i \in Nat /\ i < Blocks /\ SameBelow(i)
    BY <2>1 DEF IapInv
  <2>5. SameBelow(i)'
    BY <2>1, <2>2, <2>4 DEF SameBelow
  <2>6. wear' = 0 => BlankFrom(i + 1)' /\ SameBelow(i + 1)'
    <3> SUFFICES ASSUME wear' = 0
                 PROVE  BlankFrom(i + 1)' /\ SameBelow(i + 1)'
      OBVIOUS
    <3>1. BlankFrom(i) /\ sector'[i] = data
      BY <2>1, <2>3 DEF IapInv
    <3>2. QED
      BY <2>1, <2>2, <2>4, <3>1 DEF BlankFrom, SameBelow
  <2>7. QED
    BY <2>1, <2>2, <2>3, <2>4, <2>5, <2>6 DEF IapInv
<1>9. CASE Iap!CompareBlock
  <2>1. /\ pc = "compare" /\ data' = data /\ start_data' = start_data /\ sector' = sector
        /\ wear' = wear
        /\ i' = IF sector[i] = data THEN i + 1 ELSE i
        /\ pc' = IF sector[i] = data THEN "fill" ELSE "iap_error"
    BY <1>9 DEF Iap!CompareBlock, Iap!Compare, Iap!Unless
  <2>2. i \in Nat /\ i < Blocks /\ SameBelow(i)
    BY <2>1 DEF IapInv
  <2>3. wear = 0 => sector[i] = data
    BY <2>1, <2>2 DEF IapInv, SameBelow
  <2>4. sector[i] = data => SameBelow(i + 1)
    BY <2>2 DEF SameBelow
  <2>5. QED
    BY <2>1, <2>2, <2>3, <2>4 DEF IapInv, SameBelow, BlankFrom
<1>10. CASE Iap!Verify
  <2>1. /\ pc = "verify" /\ i' = i /\ data' = data /\ start_data' = start_data /\ sector' = sector
        /\ wear' = wear
        /\ pc' = IF \A b \in 0 .. Blocks - 1 : sector[b] = start_data THEN "isp" ELSE "iap_error"
    BY <1>10 DEF Iap!Verify
  <2>2. \A b \in 0 .. Blocks - 1 : sector[b] = start_data
    BY <2>1 DEF IapInv, SameBelow
  <2>3. QED
    BY <2>1, <2>2 DEF IapInv, SameBelow
<1>11. CASE Iap!Reset
  <2>1. /\ pc' = "boot" /\ i' = 0 /\ data' = 0 /\ start_data' = 0 /\ wear' = wear
        /\ DOMAIN sector' = 0 .. Blocks - 1
    BY <1>11 DEF Iap!Reset
  <2>2. i' \in Nat /\ i' <= Blocks /\ wear' \in Nat
    <3>1. wear \in Nat
      BY DEF IapInv
    <3>2. QED
      BY <2>1, <3>1
  <2>3. QED
    BY <2>1, <2>2 DEF IapInv
<1>12. CASE Iap!Ended
  <2>1. /\ pc \in {"isp", "iap_error"}
        /\ pc' = pc /\ i' = i /\ data' = data /\ start_data' = start_data /\ wear' = wear
        /\ sector' = sector /\ prepared' = prepared
    BY <1>12 DEF Iap!Ended, Iap!vars, Iap!program
  <2>2. SameBelow(Blocks)' = SameBelow(Blocks)
    BY <2>1 DEF SameBelow
  <2>3. QED
    BY <2>1, <2>2 DEF IapInv
<1>13. QED
  BY <1>1, <1>2, <1>3, <1>4, <1>5, <1>6, <1>7, <1>8, <1>9, <1>10, <1>11, <1>12
     DEF Iap!Next, Iap!main

LEMMA IapGood == IapInv => Iap!Tested /\ Iap!Passes
<1> USE IapDefs
<1> SUFFICES ASSUME IapInv
             PROVE  Iap!Tested /\ Iap!Passes
  OBVIOUS
<1>1. pc = "copy" => \A b \in 0 .. (i - 1) : sector[b] = data
  BY DEF IapInv, SameBelow
<1>2. pc = "isp" => \A b \in 0 .. Blocks - 1 : sector[b] = start_data
  BY DEF IapInv, SameBelow
<1>3. QED
  BY <1>1, <1>2, IapDefs DEF IapInv, Iap!Tested, Iap!Passes

-----------------------------------------------------------------------------
(* The board.                                                              *)

Inv ==
  /\ program = "i2c" => I2cInv
  /\ program = "spi" => SpiInv
  /\ program = "iap" => IapInv

LEMMA Stutter == Inv /\ UNCHANGED vars => Inv'
<1> SUFFICES ASSUME Inv, UNCHANGED vars
             PROVE  Inv'
  OBVIOUS
<1>1. /\ program' = program /\ pc' = pc /\ i' = i /\ test' = test /\ got' = got /\ dev' = dev
      /\ rom' = rom /\ r' = r /\ bus' = bus /\ refusals' = refusals /\ losses' = losses
      /\ tx' = tx /\ shift' = shift /\ rx' = rx /\ sector' = sector /\ prepared' = prepared
      /\ start_data' = start_data /\ data' = data /\ wear' = wear
  BY DEF vars, roms, i2c, spi, flash
<1>2. I2cInv => I2cInv'
  <2>1. I2cShape => I2cShape'
    BY <1>1 DEF I2cShape
  <2>2. Now' = Now /\ \A k : HoldsNow(k)' <=> HoldsNow(k)
    BY <1>1 DEF Now, HoldsNow
  <2>3. GotAll' <=> GotAll
    BY <1>1, <2>2 DEF GotAll
  <2>4. GotSoFar' <=> GotSoFar
    BY <1>1 DEF GotSoFar
  <2>5. I2cHealth => I2cHealth'
    BY <1>1, <2>2, <2>3, <2>4
       DEF I2cHealth, Quiet, Rests, Free, Op, Data, AtAddr, AtHigh, LowByte, AtLow, AtData, AtRead,
           Done, AtStop
  <2>6. QED
    BY <1>1, <2>1, <2>5 DEF I2cInv
<1>3. SpiInv => SpiInv'
  BY <1>1 DEF SpiInv, Last, Taken, Selects, DevWrites, DevReads, Writes, Reads, Rests, Free, Op,
              HoldsNow, Now
<1>4. IapInv => IapInv'
  BY <1>1 DEF IapInv, BlankFrom, SameBelow
<1>5. QED
  BY <1>1, <1>2, <1>3, <1>4 DEF Inv

\* Each program keeps its invariant, however its steps and those of the
\* hardware, the faults and the resets interleave.
THEOREM Inductive == Spec => []Inv
<1>1. Init => Inv
  BY I2cBegins, SpiBegins, IapBegins DEF Init, Inv
<1>2. Inv /\ [Next]_vars => Inv'
  <2> SUFFICES ASSUME Inv, [Next]_vars
               PROVE  Inv'
    OBVIOUS
  <2>1. CASE program = "i2c" /\ I2c!Next /\ I2cOnly
    BY <2>1, I2cStep DEF Inv, I2cOnly
  <2>2. CASE program = "spi" /\ Spi!Next /\ SpiOnly
    BY <2>2, SpiStep DEF Inv, SpiOnly
  <2>3. CASE program = "iap" /\ Iap!Next /\ IapOnly
    BY <2>3, IapStep DEF Inv, IapOnly
  <2>4. CASE UNCHANGED vars
    BY <2>4, Stutter
  <2>5. QED
    BY <2>1, <2>2, <2>3, <2>4 DEF Next
<1>3. QED
  BY <1>1, <1>2, PTL DEF Spec

\* When the reading back begins a memory holds what was written, whatever its
\* size and that of its pages, and no block of the flash is written behind one
\* that it did not take (i2c_rom.c:454-475, spi_rom.c:323-345, flash_iap.c:265-325).
THEOREM StoredAlways == Spec => []Stored
<1>1. Inv => Stored
  BY I2cGood, SpiGood, IapGood DEF Inv, Stored
<1>2. QED
  BY <1>1, Inductive, PTL

\* A healthy memory never fails its test, whatever it held before; and that of
\* flash_iap wherever a reset has stopped the run before, within a command, too
\* (i2c_rom.c:228-511, spi_rom.c:237-375, flash_iap.c:218-294).
THEOREM PassesAlways == Spec => []Passes
<1>1. Inv => Passes
  BY I2cGood, SpiGood, IapGood DEF Inv, Passes
<1>2. QED
  BY <1>1, Inductive, PTL
=============================================================================
