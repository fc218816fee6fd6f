---------------------------- MODULE IspDownload -----------------------------
(***************************************************************************)
(* download() of tools/nxp_lpc/lpc81x/usart-util/transfer.c together with  *)
(* the flash In-System-Programming (ISP) loader of the LPC81x it talks to. *)
(*                                                                         *)
(* One action is one ISP command: the host sends it, the loader executes   *)
(* it and answers, the host reads the answer (command.c).  The unit of     *)
(* data is the 64-byte page.  Echo is off (main.c:196), so neither a       *)
(* request nor the data of a W command is checked on its way.              *)
(*                                                                         *)
(* A run (image, sector, i, pc) ends in "ok" or "failed"; somebody may     *)
(* reset the target and run the program again on the flash it left.        *)
(* Faults: Abort, PoorErase, InterruptedErase, InterruptedCopy,            *)
(* BlankCheckMisread, an answer lost (Hear), a bad page (WriteToRam).      *)
(* At most MaxFaults of them happen.  A request arrives as it was sent, or *)
(* it is refused.  Definitions under "Mistake" are not part of the model:  *)
(* each stands for a plausible error in the definition after it.           *)
(***************************************************************************)
EXTENDS Integers, Sequences

CONSTANTS
  Pages,         \* contents of a page of an image, and of old firmware
  Blank,         \* an erased page: all bytes 0xff
  Garbage,       \* a page that holds none of the above
  FlashSectors,  \* sectors of the target: 4, 8 or 16
  RamPages,      \* pages of the RAM buffer: 4 (1 KB devices) or 16
  Images,        \* image files, as sequences of pages, the last one padded
  OldFlash,      \* flash contents before the first run
  MaxFaults,     \* bound on the faults of a behaviour
  MaxRuns        \* bound on the times the program is run

SectorPages == 16                       \* SECTOR_SIZE / PAGE_SIZE
Sector == 0 .. FlashSectors - 1
Page == 0 .. SectorPages - 1

\* Page d with the checksum of the vector table stored in its word 7.
Sealed(d) == <<"sealed", d>>

Content == Pages \cup {Blank, Garbage} \cup {Sealed(d) : d \in Pages \cup {Blank}}

ASSUME ConstantsAssumption ==
  /\ FlashSectors \in Nat \ {0}
  /\ RamPages \in {4, 16}
  /\ Images \subseteq Seq(Pages \cup {Blank})
  /\ OldFlash \subseteq [Sector -> [Page -> Content]]
  /\ MaxFaults \in Nat
  /\ MaxRuns \in Nat \ {0}

VARIABLES
  pc,        \* what the host does next
  image,     \* the file being installed
  sector,    \* the sector being installed
  i,         \* pages of the sector copied so far
  flash,     \* target: flash[s][p]
  ram,       \* target: the pages from SRAM_ADDRESS + RESERVE_SIZE on
  prepared,  \* target: sectors prepared for a write operation
  rx,        \* lines sent by the target that the host has not read
  faults,    \* faults so far
  runs       \* runs so far

host   == <<image, sector, i>>
target == <<flash, ram, prepared>>
vars   == <<pc, host, target, rx, faults, runs>>

-----------------------------------------------------------------------------
(* The sector in buf[]: r bytes of the file, rounded up to n bytes.        *)

Expected(f, s, p) ==
  IF s = 0 /\ p = 0 THEN Sealed(f[1]) ELSE f[s * SectorPages + p + 1]

More == sector * SectorPages < Len(image)

\* n, in pages
PagesInBuffer == IF Len(image) - sector * SectorPages < SectorPages
                 THEN Len(image) - sector * SectorPages
                 ELSE SectorPages

Buffer(p) == IF p < PagesInBuffer THEN Expected(image, sector, p) ELSE Blank

\* Mistake: the RAM of the 1 KB devices is not taken into account.
ChunkForLargeRam(left) == IF left <= 4 THEN 4 ELSE 16

\* m, in pages, when `left' pages remain to be written
Chunk(left) == CASE left <= 1 -> 1
                 [] left = 2 -> 2
                 [] left > 2 /\ RamPages <= 4 -> 2
                 [] left \in 3 .. 4 /\ RamPages > 4 -> 4
                 [] left \in 5 .. 8 /\ RamPages > 4 -> 8
                 [] OTHER -> 16

m == Chunk(PagesInBuffer - i)

\* NOR flash: programming only clears bits of an erased page.
Program(old, new) == CASE old = Blank -> new
                       [] old # Blank /\ new \in {Blank, old} -> old
                       [] OTHER -> Garbage

-----------------------------------------------------------------------------
Ended == pc \in {"ok", "failed"}

Fault == /\ faults < MaxFaults
         /\ faults' = faults + 1

\* The loader answers with `lines'.  The host reads one line as the return
\* code and goes on to `to' when it is zero; if the line got lost, com_gets
\* times out.  Anything but zero makes download() return -1.
Hear(lines, to) ==
  \/ /\ pc' = IF Head(rx \o lines) = "zero" THEN to ELSE "failed"
     /\ rx' = Tail(rx \o lines)
     /\ UNCHANGED faults
  \/ /\ pc' = "failed"
     /\ Fault
     /\ UNCHANGED rx

Code(accepted) == IF accepted THEN <<"zero">> ELSE <<"other">>

Unlock ==
  /\ pc = "unlock"
  /\ Hear(<<"zero">>, "fread")
  /\ UNCHANGED <<host, target, runs>>

\* Mistake: a short read is taken for the end of the file.
ReadWholeSectors ==
  /\ pc = "fread"
  /\ pc' = IF PagesInBuffer = SectorPages THEN "blank_check" ELSE "read_crp"
  /\ UNCHANGED <<host, target, rx, faults, runs>>

\* fread() fills the buffer, or finds the end of the file.
ReadFile ==
  /\ pc = "fread"
  /\ pc' = IF More THEN "blank_check" ELSE "read_crp"
  /\ UNCHANGED <<host, target, rx, faults, runs>>

SectorBlank == \A p \in Page : flash[sector][p] = Blank

\* Answer to the blank check of a sector: a second and a third line give
\* the offset and the contents of the first word that is not blank.
BlankAnswers ==
  CASE sector \notin Sector -> {<<"other">>}
    [] sector \in Sector /\ SectorBlank -> {<<"zero">>}
    [] OTHER -> {"notblank"} \X {"zero", "other"} \X {"zero", "other"}

\* Mistake: the two lines that follow "not blank" are not read.
BlankCheckUnread ==
  /\ pc = "blank_check"
  /\ \E lines \in BlankAnswers :
       IF Head(lines) = "notblank"
       THEN pc' = "prepare_erase" /\ rx' = Tail(lines) /\ UNCHANGED faults
       ELSE Hear(lines, "write_ram")
  /\ UNCHANGED <<host, target, runs>>

\* Mistake: a sector that is not blank is not erased.
BlankCheckOnly ==
  /\ pc = "blank_check"
  /\ \E lines \in BlankAnswers :
       IF Head(lines) = "notblank"
       THEN pc' = "write_ram" /\ UNCHANGED <<rx, faults>>
       ELSE Hear(lines, "write_ram")
  /\ UNCHANGED <<host, target, runs>>

BlankCheck ==
  /\ pc = "blank_check"
  /\ \E lines \in BlankAnswers :
       \/ /\ Head(lines) = "notblank"
          /\ pc' = "prepare_erase"
          /\ UNCHANGED <<rx, faults>>
       \/ /\ Head(lines) # "notblank"
          /\ Hear(lines, "write_ram")
  /\ UNCHANGED <<host, target, runs>>

\* One flipped bit turns the return code '8' (0x38) into '0' (0x30): the
\* host takes the sector for blank and leaves two lines of the answer unread.
BlankCheckMisread ==
  /\ pc \in {"blank_check", "erase_check"}
  /\ Fault
  /\ \E lines \in BlankAnswers :
       /\ Head(lines) = "notblank"
       /\ rx' = Tail(lines)
  /\ pc' = "write_ram"
  /\ UNCHANGED <<host, target, runs>>

Prepare ==
  /\ pc \in {"prepare_erase", "prepare_copy"}
  /\ prepared' = IF sector \in Sector THEN prepared \cup {sector} ELSE prepared
  /\ Hear(Code(sector \in Sector),
          IF pc = "prepare_erase" THEN "erase" ELSE "copy")
  /\ UNCHANGED <<host, flash, ram, runs>>

Erased(left) == [flash EXCEPT ![sector] =
                   [p \in Page |-> IF p \in left THEN Garbage ELSE Blank]]

\* The loader erases prepared sectors only, and protects them again.
Erase ==
  /\ pc = "erase"
  /\ LET accepted == sector \in prepared IN
       /\ flash' = IF accepted THEN Erased({}) ELSE flash
       /\ prepared' = IF accepted THEN {} ELSE prepared
       /\ Hear(Code(accepted), "erase_check")
  /\ UNCHANGED <<host, ram, runs>>

\* A worn page stays programmed although the loader reports success.
PoorErase ==
  /\ pc = "erase" /\ sector \in prepared
  /\ Fault
  /\ \E p \in Page : flash' = Erased({p})
  /\ prepared' = {}
  /\ pc' = "erase_check"
  /\ UNCHANGED <<host, ram, rx, runs>>

\* Mistake: the loader's word for a successful erase is trusted.
EraseUnchecked ==
  /\ pc = "erase_check"
  /\ pc' = "write_ram"
  /\ UNCHANGED <<host, target, rx, faults, runs>>

\* Not blank again: the host reads the other two lines and gives up.
EraseCheck ==
  /\ pc = "erase_check"
  /\ \E lines \in BlankAnswers : Hear(lines, "write_ram")
  /\ UNCHANGED <<host, target, runs>>

\* Write the next chunk to RAM; with echo off nobody notices a bad page.
WriteToRam ==
  /\ pc = "write_ram"
  /\ \/ /\ ram' = [q \in 0 .. RamPages - 1 |->
                     IF q < m THEN Buffer(i + q) ELSE ram[q]]
        /\ Hear(<<"zero">>, "prepare_copy")
     \/ /\ \E bad \in 0 .. m - 1 :
             ram' = [q \in 0 .. RamPages - 1 |->
                       IF q = bad THEN Garbage
                       ELSE IF q < m THEN Buffer(i + q) ELSE ram[q]]
        /\ Head(rx \o <<"zero">>) = "zero"
        /\ pc' = "prepare_copy"
        /\ rx' = Tail(rx \o <<"zero">>)
        /\ Fault
  /\ UNCHANGED <<host, flash, prepared, runs>>

\* The current sector after the first k pages of a chunk were programmed.
Programmed(k) ==
  [flash EXCEPT ![sector] =
     [p \in Page |-> IF p \in i .. i + k - 1
                     THEN Program(flash[sector][p], ram[p - i])
                     ELSE flash[sector][p]]]

CopyRamToFlash ==
  /\ pc = "copy"
  /\ LET accepted == sector \in prepared IN
       /\ flash' = IF accepted THEN Programmed(m) ELSE flash
       /\ prepared' = IF accepted THEN {} ELSE prepared
       /\ Hear(Code(accepted),
               IF i + m < PagesInBuffer THEN "write_ram" ELSE "verify")
  /\ i' = IF pc' = "failed" THEN i ELSE i + m
  /\ UNCHANGED <<image, sector, ram, runs>>

\* Mistake: what has been read back is not compared.
VerifyNothing ==
  /\ pc = "verify"
  /\ pc' = "fread" /\ sector' = sector + 1 /\ i' = 0
  /\ UNCHANGED <<image, target, rx, faults, runs>>

\* Mistake: the place in the file does not advance.
VerifySameSector ==
  /\ pc = "verify"
  /\ LET same == /\ rx = <<>>
                 /\ \A p \in Page : p < PagesInBuffer =>
                                      flash[sector][p] = Buffer(p)
     IN pc' = IF same THEN "fread" ELSE "failed"
  /\ i' = 0
  /\ UNCHANGED <<image, sector, target, rx, faults, runs>>

\* Read the sector back and compare its first n bytes.  Unread lines would
\* be taken for the return code and the first bytes of the data.
Verify ==
  /\ pc = "verify"
  /\ LET same == /\ rx = <<>>
                 /\ \A p \in Page : p < PagesInBuffer =>
                                      flash[sector][p] = Buffer(p)
     IN IF same
        THEN /\ pc' = "fread"
             /\ sector' = sector + 1
             /\ i' = 0
        ELSE /\ pc' = "failed"
             /\ UNCHANGED <<sector, i>>
  /\ UNCHANGED <<image, target, rx, faults, runs>>

\* Read the code read protection word; its value is only printed.
ReadCrp ==
  /\ pc = "read_crp"
  /\ Hear(<<"zero">>, "ok")
  /\ UNCHANGED <<host, target, runs>>

-----------------------------------------------------------------------------
\* Any failure that changes nothing on the target, such as those of
\* read_memory (command.c:390-433): a refused command, a request or an answer
\* that never arrives, a bad byte read back, a file read error, a signal.
Abort ==
  /\ ~Ended
  /\ Fault
  /\ pc' = "failed"
  /\ UNCHANGED <<host, target, rx, runs>>

\* The target loses power while it erases: no page can be relied on.
InterruptedErase ==
  /\ pc = "erase" /\ sector \in prepared
  /\ Fault
  /\ flash' = Erased(Page)
  /\ pc' = "failed"
  /\ UNCHANGED <<host, ram, prepared, rx, runs>>

\* The target loses power while it programs, after k of the m pages.
InterruptedCopy ==
  /\ pc = "copy" /\ sector \in prepared
  /\ Fault
  /\ \E k \in 0 .. m - 1 : flash' = Programmed(k)
  /\ pc' = "failed"
  /\ UNCHANGED <<host, ram, prepared, rx, runs>>

\* The target is reset into its loader and main() runs once more: tcflush()
\* drops what is unread; RAM holds anything but the new image.
Rerun ==
  /\ Ended
  /\ runs < MaxRuns
  /\ runs' = runs + 1
  /\ image' \in Images
  /\ sector' = 0 /\ i' = 0
  /\ ram' = [q \in 0 .. RamPages - 1 |-> Garbage]
  /\ prepared' = {}
  /\ rx' = <<>>
  /\ pc' = "unlock"
  /\ UNCHANGED <<flash, faults>>

-----------------------------------------------------------------------------
Init ==
  /\ pc = "unlock"
  /\ image \in Images
  /\ sector = 0 /\ i = 0
  /\ flash \in OldFlash
  /\ ram = [q \in 0 .. RamPages - 1 |-> Garbage]
  /\ prepared = {}
  /\ rx = <<>>
  /\ faults = 0
  /\ runs = 1

Host == \/ Unlock \/ ReadFile \/ BlankCheck \/ BlankCheckMisread \/ Prepare
        \/ Erase \/ EraseCheck \/ WriteToRam \/ CopyRamToFlash \/ Verify
        \/ ReadCrp

Environment == Abort \/ PoorErase \/ InterruptedErase \/ InterruptedCopy \/ Rerun

Next == Host \/ Environment

Spec == Init /\ [][Next]_vars

\* No call blocks for ever: a read() returns after 0.5 s at the latest.
FairSpec == Spec /\ WF_vars(Host)

-----------------------------------------------------------------------------
Running == {"unlock", "fread", "blank_check", "prepare_erase", "erase",
            "erase_check", "write_ram", "prepare_copy", "copy", "verify",
            "read_crp"}

\* The ranges of the variables; i stays within the sector (transfer.c:150).
TypeOK ==
  /\ pc \in Running \cup {"ok", "failed"}
  /\ image \in Images
  /\ sector \in Nat
  /\ i \in 0 .. SectorPages
  /\ flash \in [Sector -> [Page -> Content]]
  /\ ram \in [0 .. RamPages - 1 -> Content]
  /\ prepared \subseteq Sector
  /\ rx \in Seq({"zero", "notblank", "other"})
  /\ faults \in 0 .. MaxFaults
  /\ runs \in 1 .. MaxRuns

Installed(s) ==
  \A p \in Page : s * SectorPages + p < Len(image) =>
                    flash[s][p] = Expected(image, s, p)

Fits == Len(image) <= FlashSectors * SectorPages

\* main() exits with 0 after -D (transfer.c:219-220) only if the whole image,
\* with the checksum in its vector table, is in flash, whatever was lost,
\* corrupted or left over from earlier runs.
SuccessMeansInstalled ==
  pc = "ok" => Fits /\ \A s \in Sector : Installed(s)

\* A copy is accepted and harmless (transfer.c:150-171): the sector has been
\* prepared since the last erase or copy, the chunk fits the RAM behind the
\* loader's own and does not run past buf[] or the sector.
CopyIsLegal ==
  /\ pc \in {"write_ram", "prepare_copy", "copy"} =>
       m <= RamPages /\ i + m <= SectorPages
  /\ pc = "copy" => sector \in prepared

\* Flash is programmed only where it is erased (transfer.c:129-145), over all
\* the chunks of a sector, unless a misread answer has left lines unread.
ErasedBeforeCopy ==
  pc \in {"write_ram", "prepare_copy", "copy"} /\ rx = <<>> =>
    \A p \in Page : p >= i => flash[sector][p] = Blank

Writing == {"write_ram", "prepare_copy", "copy"}

\* Unread lines exist only between a misread blank check and the
\* verification of the same sector, which they make fail.
InSync == pc \notin Writing \cup {"verify", "failed"} => rx = <<>>

\* Where the host is in the file and in the buffer.  A buffer of 16 pages
\* takes whatever is left of a sector in one chunk.
Position ==
  /\ pc \in Writing \cup {"prepare_erase", "erase", "erase_check", "verify"} =>
       sector \in Sector /\ More
  /\ pc = "blank_check" => More
  /\ pc \in {"read_crp", "ok"} => ~More
  /\ pc \notin Writing \cup {"verify", "failed"} => i = 0
  /\ pc \in Writing => i < PagesInBuffer /\ (RamPages = 16 => i = 0)

\* The sectors done in this run hold their part of the image.
Confirmed == sector <= FlashSectors /\ \A s \in Sector : s < sector => Installed(s)

\* The inductive invariant: every property above follows from it, and every
\* iteration of the loop over the sectors keeps it (transfer.c:92-188).
IInv == /\ TypeOK
        /\ InSync
        /\ Position
        /\ Confirmed
        /\ ErasedBeforeCopy
        /\ pc = "copy" => sector \in prepared

\* Every run comes to an end: no lost answer blocks the host (main.c:175).
RunEnds == ~Ended ~> Ended

\* Whatever earlier runs left in flash, a run during which nothing goes
\* wrong installs an image that fits (transfer.c:129-145).
Recovers == (pc = "unlock" /\ faults = MaxFaults /\ Fits) ~> (pc = "ok")

\* download() keeps the promise of Installer: confirmed sectors and sectors
\* beyond the image stay as they are, success needs every sector confirmed.
Promise == INSTANCE Installer WITH
  done <- sector,
  status <- IF Ended THEN pc ELSE "running"

KeepsPromise == Promise!Spec
=============================================================================
