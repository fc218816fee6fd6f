------------------------- MODULE IspDownloadProofs --------------------------
(***************************************************************************)
(* Theorems about IspDownload for every target, every set of images, every *)
(* flash contents, and any number of faults and runs.                      *)
(***************************************************************************)
EXTENDS IspDownload, TLAPS

Line == {"zero", "notblank", "other"}

-----------------------------------------------------------------------------
(* The line queue.                                                         *)

\* One answer of one line: the queue is as long after reading as before.
LEMMA OneLine ==
  ASSUME NEW q \in Seq(Line), NEW c \in Line
  PROVE  /\ Tail(q \o <<c>>) \in Seq(Line)
         /\ q = <<>> => Head(q \o <<c>>) = c /\ Tail(q \o <<c>>) = <<>>
         /\ q # <<>> => Tail(q \o <<c>>) # <<>>
<1>1. q \o <<c>> \in Seq(Line) /\ Len(q \o <<c>>) = Len(q) + 1
  OBVIOUS
<1>2. Tail(q \o <<c>>) \in Seq(Line) /\ Len(Tail(q \o <<c>>)) = Len(q)
  BY <1>1
<1>3. ASSUME q = <<>>
      PROVE  Head(q \o <<c>>) = c /\ Tail(q \o <<c>>) = <<>>
  BY <1>3
<1>4. ASSUME q # <<>>
      PROVE  Tail(q \o <<c>>) # <<>>
  BY <1>2, <1>4
<1>5. QED
  BY <1>2, <1>3, <1>4

\* What com_gets leaves behind after an answer of one line.
LEMMA HearOneLine ==
  ASSUME NEW c \in Line, NEW to, rx \in Seq(Line), faults \in 0 .. MaxFaults,
         Hear(<<c>>, to)
  PROVE  /\ pc' \in {to, "failed"}
         /\ rx' \in Seq(Line)
         /\ faults' \in 0 .. MaxFaults
         /\ rx = <<>> /\ pc' # "failed" => rx' = <<>> /\ c = "zero"
         /\ rx # <<>> => rx' # <<>>
<1>1. CASE /\ pc' = IF Head(rx \o <<c>>) = "zero" THEN to ELSE "failed"
           /\ rx' = Tail(rx \o <<c>>)
           /\ UNCHANGED faults
  BY <1>1, OneLine
<1>2. CASE pc' = "failed" /\ Fault /\ UNCHANGED rx
  BY <1>2, ConstantsAssumption DEF Fault, ConstantsAssumption
<1>3. QED
  BY <1>1, <1>2 DEF Hear

-----------------------------------------------------------------------------
(* Contents and chunks.                                                    *)

\* Programming a page yields a page content again.
LEMMA Contents ==
  /\ Blank \in Content /\ Garbage \in Content
  /\ \A old, new \in Content : Program(old, new) \in Content
BY DEF Content, Program

\* buf[] holds page contents throughout.
LEMMA BufferContent ==
  ASSUME TypeOK, More, NEW p \in Page
  PROVE  Buffer(p) \in Content
<1>1. image \in Seq(Pages \cup {Blank})
  BY ConstantsAssumption DEF ConstantsAssumption, TypeOK
<1>2. CASE p < PagesInBuffer
  <2>1. sector * SectorPages + p + 1 \in 1 .. Len(image) /\ 1 \in 1 .. Len(image)
    BY <1>1, <1>2 DEF PagesInBuffer, SectorPages, Page, TypeOK, More
  <2>2. /\ image[sector * SectorPages + p + 1] \in Pages \cup {Blank}
        /\ image[1] \in Pages \cup {Blank}
    BY <1>1, <2>1
  <2>3. Expected(image, sector, p) \in Content
    BY <2>2 DEF Expected, Content
  <2>4. QED
    BY <1>2, <2>3 DEF Buffer
<1>3. CASE ~(p < PagesInBuffer)
  BY <1>3 DEF Buffer, Content
<1>4. QED
  BY <1>2, <1>3

\* A chunk fits the RAM buffer, and the rest of buf[] and of the sector.
LEMMA ChunkFits ==
  ASSUME TypeOK, More, i < PagesInBuffer, RamPages = 16 => i = 0
  PROVE  /\ m \in Nat /\ 1 <= m /\ m <= RamPages /\ i + m <= SectorPages
         /\ RamPages = 16 => i + m >= PagesInBuffer
<1>1. /\ Len(image) \in Nat /\ sector \in Nat /\ i \in Nat
      /\ RamPages \in {4, 16}
  BY ConstantsAssumption DEF ConstantsAssumption, TypeOK
<1>2. PagesInBuffer \in 1 .. 16
  BY <1>1, SMTT(30) DEF PagesInBuffer, More, SectorPages
<1> DEFINE left == PagesInBuffer - i
<1>3. left \in 1 .. 16 /\ i + left <= 16
  BY <1>1, <1>2
<1>4. \/ left = 1 /\ Chunk(left) = 1
      \/ left = 2 /\ Chunk(left) = 2
      \/ left > 2 /\ RamPages = 4 /\ Chunk(left) = 2
      \/ RamPages = 16 /\ Chunk(left) >= left /\ Chunk(left) \in {4, 8, 16}
  <2>1. CASE left <= 2
    BY <1>3, <2>1 DEF Chunk
  <2>2. CASE left > 2 /\ RamPages = 4
    BY <1>3, <2>2 DEF Chunk
  <2>3. CASE left > 2 /\ RamPages = 16
    BY <1>3, <2>3 DEF Chunk
  <2>4. QED
    BY <1>1, <1>3, <2>1, <2>2, <2>3
<1>5. QED
  BY <1>1, <1>2, <1>3, <1>4 DEF m, SectorPages

\* Programming a legal chunk leaves a flash, and other sectors alone.
LEMMA ProgrammedFlash ==
  ASSUME TypeOK, sector \in Sector, NEW k \in 0 .. RamPages
  PROVE  /\ Programmed(k) \in [Sector -> [Page -> Content]]
         /\ \A s \in Sector : s # sector => Programmed(k)[s] = flash[s]
         /\ \A p \in Page : p >= i + k => Programmed(k)[sector][p] = flash[sector][p]
<1> DEFINE page(p) == IF p \in i .. i + k - 1
                      THEN Program(flash[sector][p], ram[p - i])
                      ELSE flash[sector][p]
<1>1. /\ flash \in [Sector -> [Page -> Content]] /\ i \in Nat
      /\ ram \in [0 .. RamPages - 1 -> Content] /\ RamPages \in Nat
  BY ConstantsAssumption DEF TypeOK, ConstantsAssumption
<1>2. ASSUME NEW p \in Page
      PROVE  page(p) \in Content
  <2>1. flash[sector][p] \in Content
    BY <1>1
  <2>2. CASE p \in i .. i + k - 1
    <3>1. p - i \in 0 .. RamPages - 1
      BY <1>1, <2>2 DEF Page, SectorPages
    <3>2. QED
      BY <1>1, <2>1, <2>2, <3>1, Contents
  <2>3. CASE p \notin i .. i + k - 1
    BY <2>1, <2>3
  <2>4. QED
    BY <2>2, <2>3
<1>3. Programmed(k) = [flash EXCEPT ![sector] = [p \in Page |-> page(p)]]
  BY DEF Programmed
<1>4. [p \in Page |-> page(p)] \in [Page -> Content]
  BY <1>2
<1> HIDE DEF page
<1>5. Programmed(k)[sector] = [p \in Page |-> page(p)]
  BY <1>1, <1>3
<1>6. \A p \in Page : p >= i + k => page(p) = flash[sector][p]
  BY <1>1 DEF page, Page, SectorPages
<1>7. QED
  BY <1>1, <1>3, <1>4, <1>5, <1>6

\* Erasing, even partly, leaves other sectors alone.
LEMMA ErasedFlash ==
  ASSUME TypeOK, sector \in Sector, NEW left
  PROVE  /\ Erased(left) \in [Sector -> [Page -> Content]]
         /\ \A s \in Sector : s # sector => Erased(left)[s] = flash[s]
BY Contents DEF Erased, TypeOK

-----------------------------------------------------------------------------
(* The inductive invariant.                                                *)

\* Confirmed sectors stay installed while only the current one changes.
LEMMA ConfirmedStays ==
  ASSUME Confirmed, UNCHANGED <<image, sector>>, sector \in Nat,
         \A s \in Sector : s # sector => flash'[s] = flash[s]
  PROVE  Confirmed'
<1>1. ASSUME NEW s \in Sector, s < sector
      PROVE  Installed(s)'
  <2>1. flash'[s] = flash[s] /\ Installed(s)
    BY <1>1 DEF Confirmed, Sector
  <2>2. QED
    BY <2>1 DEF Installed
<1>2. QED
  BY <1>1 DEF Confirmed

\* Every first run starts in a state of the invariant.
LEMMA InitIInv == Init => IInv
<1> SUFFICES ASSUME Init
             PROVE  IInv
  OBVIOUS
<1>1. TypeOK
  BY ConstantsAssumption, Contents DEF Init, TypeOK, ConstantsAssumption, Running, SectorPages
<1>2. Confirmed
  BY ConstantsAssumption DEF Init, Confirmed, ConstantsAssumption, Sector
<1>3. QED
  BY <1>1, <1>2 DEF Init, IInv, InSync, Position, ErasedBeforeCopy, Writing

\* Steps that change neither the position in the file nor the target.
LEMMA QuietSteps ==
  ASSUME IInv, Unlock \/ ReadFile \/ ReadCrp \/ Abort
  PROVE  IInv'
<1> USE DEF IInv
<1>1. /\ UNCHANGED <<host, target, runs>>
      /\ rx' \in Seq(Line) /\ faults' \in 0 .. MaxFaults
      /\ pc' \in {"fread", "blank_check", "read_crp", "ok", "failed"}
      /\ pc' \in {"fread", "blank_check", "read_crp", "ok"} => rx' = <<>> /\ i = 0
      /\ pc' = "blank_check" => More
      /\ pc' \in {"read_crp", "ok"} => ~More
  <2>1. CASE Unlock
    BY <2>1, HearOneLine DEF Unlock, TypeOK, Line, InSync, Position, Writing
  <2>2. CASE ReadFile
    BY <2>2 DEF ReadFile, TypeOK, Line, InSync, Position, Writing
  <2>3. CASE ReadCrp
    BY <2>3, HearOneLine DEF ReadCrp, TypeOK, Line, InSync, Position, Writing
  <2>4. CASE Abort
    BY <2>4, ConstantsAssumption DEF Abort, Fault, TypeOK, Line, ConstantsAssumption
  <2>5. QED
    BY <2>1, <2>2, <2>3, <2>4
<1>2. TypeOK'
  BY <1>1 DEF TypeOK, host, target, Running, Line
<1>3. Confirmed'
  BY <1>1, ConfirmedStays DEF host, target, TypeOK
<1>4. InSync' /\ Position'
  BY <1>1 DEF InSync, Position, Writing, host, More
<1>5. ErasedBeforeCopy' /\ (pc' = "copy" => sector' \in prepared')
  BY <1>1 DEF ErasedBeforeCopy
<1>6. QED
  BY <1>2, <1>3, <1>4, <1>5

\* The sector is known to exist once its blank check has been answered.
LEMMA AnswersOfBlankCheck ==
  ASSUME IInv, More, NEW lines \in BlankAnswers
  PROVE  /\ lines \in Seq(Line) /\ lines # <<>>
         /\ Head(lines) # "notblank" => \E c \in Line : lines = <<c>>
         /\ Head(lines) \in {"zero", "notblank"} => sector \in Sector
         /\ Head(lines) = "zero" => SectorBlank
         /\ Head(lines) = "notblank" =>
              Tail(lines) \in Seq(Line) /\ Tail(lines) # <<>>
<1>1. CASE sector \notin Sector
  <2>1. lines = <<"other">>
    BY <1>1 DEF BlankAnswers
  <2>2. Head(lines) = "other" /\ lines \in Seq(Line) /\ lines # <<>>
    BY <2>1 DEF Line
  <2>3. QED
    BY <2>1, <2>2 DEF Line
<1>2. CASE sector \in Sector /\ SectorBlank
  <2>1. lines = <<"zero">>
    BY <1>2 DEF BlankAnswers
  <2>2. Head(lines) = "zero" /\ lines \in Seq(Line) /\ lines # <<>>
    BY <2>1 DEF Line
  <2>3. QED
    BY <1>2, <2>1, <2>2 DEF Line
<1>3. CASE sector \in Sector /\ ~SectorBlank
  <2>1. lines \in {"notblank"} \X {"zero", "other"} \X {"zero", "other"}
    BY <1>3 DEF BlankAnswers
  <2>2. PICK a \in {"zero", "other"}, b \in {"zero", "other"} :
          lines = <<"notblank", a, b>>
    BY <2>1
  <2>3. Head(lines) = "notblank" /\ Tail(lines) = <<a, b>>
    BY <2>2
  <2>4. QED
    BY <1>3, <2>2, <2>3 DEF Line
<1>4. QED
  BY <1>1, <1>2, <1>3

\* A blank check (transfer.c:126-134).
LEMMA BlankCheckStep ==
  ASSUME IInv, BlankCheck
  PROVE  IInv'
<1> USE DEF IInv
<1>1. /\ pc = "blank_check" /\ More /\ rx = <<>> /\ i = 0
      /\ UNCHANGED <<host, target, runs>>
      /\ rx \in Seq(Line) /\ faults \in 0 .. MaxFaults
  BY DEF BlankCheck, InSync, Position, Writing, TypeOK, Line
<1>2. /\ pc' \in {"prepare_erase", "write_ram", "failed"}
      /\ rx' \in Seq(Line) /\ faults' \in 0 .. MaxFaults
      /\ pc' # "failed" => rx' = <<>> /\ sector \in Sector
      /\ pc' = "write_ram" => SectorBlank
  <2>1. PICK lines \in BlankAnswers :
          \/ /\ Head(lines) = "notblank" /\ pc' = "prepare_erase"
             /\ UNCHANGED <<rx, faults>>
          \/ Head(lines) # "notblank" /\ Hear(lines, "write_ram")
    BY DEF BlankCheck
  <2>2. CASE Head(lines) = "notblank" /\ pc' = "prepare_erase" /\ UNCHANGED <<rx, faults>>
    BY <1>1, <2>2, AnswersOfBlankCheck
  <2>3. CASE Head(lines) # "notblank" /\ Hear(lines, "write_ram")
    <3>1. PICK c \in Line : lines = <<c>>
      BY <1>1, <2>3, AnswersOfBlankCheck
    <3>2. Head(lines) = c
      BY <3>1
    <3>3. /\ pc' \in {"write_ram", "failed"}
          /\ rx' \in Seq(Line) /\ faults' \in 0 .. MaxFaults
          /\ pc' # "failed" => rx' = <<>> /\ c = "zero"
      BY <1>1, <2>3, <3>1, HearOneLine
    <3>4. QED
      BY <1>1, <3>2, <3>3, AnswersOfBlankCheck
  <2>4. QED
    BY <2>1, <2>2, <2>3
<1>3. TypeOK'
  BY <1>1, <1>2 DEF TypeOK, host, target, Running, Line
<1>4. Confirmed'
  BY <1>1, ConfirmedStays DEF host, target, TypeOK
<1>5. 0 < PagesInBuffer
  BY <1>1, ConstantsAssumption DEF PagesInBuffer, More, SectorPages, TypeOK, ConstantsAssumption
<1>6. InSync' /\ Position'
  BY <1>1, <1>2, <1>5 DEF InSync, Position, Writing, host, More, PagesInBuffer
<1>7. ErasedBeforeCopy' /\ (pc' = "copy" => sector' \in prepared')
  BY <1>1, <1>2 DEF ErasedBeforeCopy, SectorBlank, host, target
<1>8. QED
  BY <1>3, <1>4, <1>6, <1>7

\* A blank check whose answer is misread as "blank".
LEMMA MisreadStep ==
  ASSUME IInv, BlankCheckMisread
  PROVE  IInv'
<1> USE DEF IInv
<1>1. /\ pc \in {"blank_check", "erase_check"} /\ More /\ i = 0
      /\ UNCHANGED <<host, target, runs>>
      /\ pc' = "write_ram"
      /\ faults' \in 0 .. MaxFaults
  BY ConstantsAssumption DEF BlankCheckMisread, Position, Writing, TypeOK, Fault, ConstantsAssumption
<1>2. rx' \in Seq(Line) /\ rx' # <<>> /\ sector \in Sector
  <2>1. PICK lines \in BlankAnswers : Head(lines) = "notblank" /\ rx' = Tail(lines)
    BY DEF BlankCheckMisread
  <2>2. QED
    BY <1>1, <2>1, AnswersOfBlankCheck
<1>3. TypeOK'
  BY <1>1, <1>2 DEF TypeOK, host, target, Running, Line
<1>4. Confirmed'
  BY <1>1, ConfirmedStays DEF host, target, TypeOK
<1>5. 0 < PagesInBuffer
  BY <1>1, ConstantsAssumption DEF PagesInBuffer, More, SectorPages, TypeOK, ConstantsAssumption
<1>6. InSync' /\ Position'
  BY <1>1, <1>2, <1>5 DEF InSync, Position, Writing, host, More, PagesInBuffer
<1>7. ErasedBeforeCopy' /\ (pc' = "copy" => sector' \in prepared')
  BY <1>1, <1>2 DEF ErasedBeforeCopy
<1>8. QED
  BY <1>3, <1>4, <1>6, <1>7

\* A sector is prepared (transfer.c:135-137, 164-166).
LEMMA PrepareStep ==
  ASSUME IInv, Prepare
  PROVE  IInv'
<1> USE DEF IInv
<1>1. /\ pc \in {"prepare_erase", "prepare_copy"} /\ sector \in Sector /\ More
      /\ prepared' = prepared \cup {sector}
      /\ Hear(<<"zero">>, IF pc = "prepare_erase" THEN "erase" ELSE "copy")
      /\ UNCHANGED <<host, flash, ram, runs>>
  BY DEF Prepare, Position, Writing, Code
<1>2. /\ pc' \in {IF pc = "prepare_erase" THEN "erase" ELSE "copy", "failed"}
      /\ rx' \in Seq(Line) /\ faults' \in 0 .. MaxFaults
      /\ rx = <<>> /\ pc' # "failed" => rx' = <<>>
      /\ rx # <<>> => rx' # <<>>
  BY <1>1, HearOneLine DEF TypeOK, Line
<1>3. TypeOK'
  BY <1>1, <1>2 DEF TypeOK, host, Running, Line
<1>4. Confirmed'
  BY <1>1, ConfirmedStays DEF host, TypeOK
<1>5. InSync' /\ Position'
  BY <1>1, <1>2 DEF InSync, Position, Writing, host, More, PagesInBuffer
<1>6. ErasedBeforeCopy' /\ (pc' = "copy" => sector' \in prepared')
  BY <1>1, <1>2 DEF ErasedBeforeCopy, host
<1>7. QED
  BY <1>3, <1>4, <1>5, <1>6

\* Erase, whether it is complete, poor or interrupted.
LEMMA EraseStep ==
  ASSUME IInv, Erase \/ PoorErase \/ InterruptedErase
  PROVE  IInv'
<1> USE DEF IInv
<1>1. pc = "erase" /\ sector \in Sector /\ More /\ i = 0 /\ rx = <<>>
  BY DEF Erase, PoorErase, InterruptedErase, Position, Writing, InSync
<1>2. /\ UNCHANGED <<host, ram, runs>>
      /\ flash' = flash \/ \E left \in SUBSET Page : flash' = Erased(left)
      /\ prepared' \subseteq Sector
      /\ rx' \in Seq(Line) /\ faults' \in 0 .. MaxFaults
      /\ pc' = "failed" \/ (pc' = "erase_check" /\ rx' = <<>>)
  <2>1. CASE Erase
    <3>1. \E c \in Line : Hear(<<c>>, "erase_check")
      BY <2>1 DEF Erase, Code, Line
    <3>2. /\ pc' \in {"erase_check", "failed"}
          /\ rx' \in Seq(Line) /\ faults' \in 0 .. MaxFaults
          /\ pc' # "failed" => rx' = <<>>
      BY <1>1, <3>1, HearOneLine DEF TypeOK, Line
    <3>3. QED
      BY <2>1, <3>2 DEF Erase, TypeOK
  <2>2. CASE PoorErase
    BY <1>1, <2>2, ConstantsAssumption DEF PoorErase, Fault, TypeOK, Line, ConstantsAssumption
  <2>3. CASE InterruptedErase
    BY <1>1, <2>3, ConstantsAssumption DEF InterruptedErase, Fault, TypeOK, Line, ConstantsAssumption
  <2>4. QED
    BY <2>1, <2>2, <2>3
<1>3. /\ flash' \in [Sector -> [Page -> Content]]
      /\ \A s \in Sector : s # sector => flash'[s] = flash[s]
  BY <1>1, <1>2, ErasedFlash DEF TypeOK
<1>4. TypeOK'
  BY <1>2, <1>3 DEF TypeOK, host, Running, Line
<1>5. Confirmed'
  BY <1>2, <1>3, ConfirmedStays DEF host, TypeOK
<1>6. InSync' /\ Position'
  BY <1>1, <1>2 DEF InSync, Position, Writing, host, More, PagesInBuffer
<1>7. ErasedBeforeCopy' /\ (pc' = "copy" => sector' \in prepared')
  BY <1>2 DEF ErasedBeforeCopy
<1>8. QED
  BY <1>4, <1>5, <1>6, <1>7

\* The second blank check (transfer.c:141-144).
LEMMA EraseCheckStep ==
  ASSUME IInv, EraseCheck
  PROVE  IInv'
<1> USE DEF IInv
<1>1. /\ pc = "erase_check" /\ sector \in Sector /\ More /\ i = 0 /\ rx = <<>>
      /\ UNCHANGED <<host, target, runs>>
      /\ rx \in Seq(Line) /\ faults \in 0 .. MaxFaults
  BY DEF EraseCheck, Position, Writing, InSync, TypeOK, Line
<1>2. /\ pc' \in {"write_ram", "failed"}
      /\ rx' \in Seq(Line) /\ faults' \in 0 .. MaxFaults
      /\ pc' = "write_ram" => rx' = <<>> /\ SectorBlank
  <2>1. PICK lines \in BlankAnswers : Hear(lines, "write_ram")
    BY DEF EraseCheck
  <2>2. CASE Head(lines) = "notblank"
    <3>1. Tail(lines) \in Seq(Line) /\ lines \in Seq(Line) /\ lines # <<>>
      BY <1>1, <2>2, AnswersOfBlankCheck
    <3>2. rx \o lines = lines
      BY <1>1, <3>1
    <3>3. CASE pc' = "failed" /\ rx' = Tail(lines) /\ UNCHANGED faults
      BY <1>1, <3>1, <3>3
    <3>4. CASE pc' = "failed" /\ Fault /\ UNCHANGED rx
      BY <1>1, <3>4, ConstantsAssumption DEF Fault, ConstantsAssumption
    <3>5. QED
      BY <2>1, <2>2, <3>2, <3>3, <3>4 DEF Hear
  <2>3. CASE Head(lines) # "notblank"
    <3>1. PICK c \in Line : lines = <<c>>
      BY <1>1, <2>3, AnswersOfBlankCheck
    <3>2. Head(lines) = c
      BY <3>1
    <3>3. /\ pc' \in {"write_ram", "failed"}
          /\ rx' \in Seq(Line) /\ faults' \in 0 .. MaxFaults
          /\ pc' # "failed" => rx' = <<>> /\ c = "zero"
      BY <1>1, <2>1, <3>1, HearOneLine
    <3>4. QED
      BY <1>1, <3>2, <3>3, AnswersOfBlankCheck
  <2>4. QED
    BY <2>2, <2>3
<1>3. TypeOK'
  BY <1>1, <1>2 DEF TypeOK, host, target, Running, Line
<1>4. Confirmed'
  BY <1>1, ConfirmedStays DEF host, target, TypeOK
<1>5. 0 < PagesInBuffer
  BY <1>1, ConstantsAssumption DEF PagesInBuffer, More, SectorPages, TypeOK, ConstantsAssumption
<1>6. InSync' /\ Position'
  BY <1>1, <1>2, <1>5 DEF InSync, Position, Writing, host, More, PagesInBuffer
<1>7. ErasedBeforeCopy' /\ (pc' = "copy" => sector' \in prepared')
  BY <1>1, <1>2 DEF ErasedBeforeCopy, SectorBlank, host, target
<1>8. QED
  BY <1>3, <1>4, <1>6, <1>7

\* A chunk goes to RAM, intact or not (transfer.c:159-163).
LEMMA WriteToRamStep ==
  ASSUME IInv, WriteToRam
  PROVE  IInv'
<1> USE DEF IInv
<1>1. /\ pc = "write_ram" /\ sector \in Sector /\ More
      /\ i < PagesInBuffer /\ (RamPages = 16 => i = 0)
      /\ UNCHANGED <<host, flash, prepared, runs>>
      /\ rx \in Seq(Line)
  BY DEF WriteToRam, Position, Writing, TypeOK, Line
<1>2. m \in Nat /\ m <= RamPages /\ i + m <= SectorPages /\ i \in Nat
  BY <1>1, ChunkFits DEF TypeOK
<1>3. ASSUME NEW q \in 0 .. RamPages - 1
      PROVE  q < m => Buffer(i + q) \in Content
  <2>1. q < m => i + q \in Page
    BY <1>2, ConstantsAssumption DEF Page, SectorPages, ConstantsAssumption
  <2>2. QED
    BY <1>1, <2>1, BufferContent
<1>4. /\ pc' \in {"prepare_copy", "failed"}
      /\ rx' \in Seq(Line) /\ faults' \in 0 .. MaxFaults
      /\ rx = <<>> /\ pc' # "failed" => rx' = <<>>
      /\ rx # <<>> => rx' # <<>>
      /\ ram' \in [0 .. RamPages - 1 -> Content]
  <2>1. CASE /\ ram' = [q \in 0 .. RamPages - 1 |->
                          IF q < m THEN Buffer(i + q) ELSE ram[q]]
             /\ Hear(<<"zero">>, "prepare_copy")
    <3>1. ram' \in [0 .. RamPages - 1 -> Content]
      BY <1>3, <2>1 DEF TypeOK
    <3>2. QED
      BY <2>1, <3>1, HearOneLine DEF TypeOK, Line
  <2>2. CASE /\ \E bad \in 0 .. m - 1 :
                  ram' = [q \in 0 .. RamPages - 1 |->
                            IF q = bad THEN Garbage
                            ELSE IF q < m THEN Buffer(i + q) ELSE ram[q]]
             /\ pc' = "prepare_copy"
             /\ rx' = Tail(rx \o <<"zero">>)
             /\ Fault
    <3>1. ram' \in [0 .. RamPages - 1 -> Content]
      BY <1>3, <2>2, Contents DEF TypeOK
    <3>2. /\ rx' \in Seq(Line)
          /\ rx = <<>> => rx' = <<>>
          /\ rx # <<>> => rx' # <<>>
      BY <1>1, <2>2, OneLine DEF Line
    <3>3. faults' \in 0 .. MaxFaults
      BY <2>2, ConstantsAssumption DEF Fault, TypeOK, ConstantsAssumption
    <3>4. QED
      BY <2>2, <3>1, <3>2, <3>3
  <2>3. QED
    BY <2>1, <2>2 DEF WriteToRam
<1>5. TypeOK'
  BY <1>1, <1>4 DEF TypeOK, host, Running, Line
<1>6. Confirmed'
  BY <1>1, ConfirmedStays DEF host, TypeOK
<1>7. InSync' /\ Position'
  BY <1>1, <1>4 DEF InSync, Position, Writing, host, More, PagesInBuffer
<1>8. ErasedBeforeCopy' /\ (pc' = "copy" => sector' \in prepared')
  BY <1>1, <1>4 DEF ErasedBeforeCopy, host
<1>9. QED
  BY <1>5, <1>6, <1>7, <1>8

\* A copy, complete or interrupted.
LEMMA CopyStep ==
  ASSUME IInv, CopyRamToFlash \/ InterruptedCopy
  PROVE  IInv'
<1> USE DEF IInv
<1>1. /\ pc = "copy" /\ sector \in Sector /\ sector \in prepared /\ More
      /\ i < PagesInBuffer /\ (RamPages = 16 => i = 0)
      /\ i \in 0 .. SectorPages
      /\ rx \in Seq(Line) /\ faults \in 0 .. MaxFaults
  BY DEF CopyRamToFlash, InterruptedCopy, Position, Writing, TypeOK, Line
<1>2. /\ m \in Nat /\ 1 <= m /\ m <= RamPages /\ i + m <= SectorPages
      /\ RamPages = 16 => i + m >= PagesInBuffer
  BY <1>1, ChunkFits
<1>3. /\ UNCHANGED <<image, sector, ram, runs>>
      /\ \E k \in 0 .. m : flash' = Programmed(k)
      /\ prepared' \subseteq Sector
      /\ rx' \in Seq(Line) /\ faults' \in 0 .. MaxFaults
      /\ i' \in 0 .. SectorPages
      /\ \/ pc' = "failed"
         \/ /\ pc' = IF i + m < PagesInBuffer THEN "write_ram" ELSE "verify"
            /\ i' = i + m /\ flash' = Programmed(m)
            /\ rx # <<>> => rx' # <<>>
  <2>1. CASE CopyRamToFlash
    <3>1. Hear(<<"zero">>, IF i + m < PagesInBuffer THEN "write_ram" ELSE "verify")
      BY <1>1, <2>1 DEF CopyRamToFlash, Code
    <3>2. /\ pc' \in {IF i + m < PagesInBuffer THEN "write_ram" ELSE "verify", "failed"}
          /\ rx' \in Seq(Line) /\ faults' \in 0 .. MaxFaults
          /\ rx # <<>> => rx' # <<>>
      BY <1>1, <3>1, HearOneLine DEF Line
    <3>3. /\ flash' = Programmed(m) /\ prepared' = {}
          /\ i' = IF pc' = "failed" THEN i ELSE i + m
          /\ UNCHANGED <<image, sector, ram, runs>>
      BY <1>1, <2>1 DEF CopyRamToFlash
    <3>4. m \in 0 .. m
      BY <1>2
    <3>5. QED
      BY <1>1, <1>2, <3>2, <3>3, <3>4
  <2>2. CASE InterruptedCopy
    <3>1. PICK k \in 0 .. m - 1 : flash' = Programmed(k)
      BY <2>2 DEF InterruptedCopy
    <3>2. k \in 0 .. m
      BY <1>2
    <3>3. QED
      BY <1>1, <2>2, <3>1, <3>2, ConstantsAssumption
         DEF InterruptedCopy, Fault, TypeOK, Line, host, ConstantsAssumption
  <2>3. QED
    BY <2>1, <2>2
<1>4. \A k \in 0 .. m : k \in 0 .. RamPages
  BY <1>2, ConstantsAssumption DEF ConstantsAssumption
<1>5. /\ flash' \in [Sector -> [Page -> Content]]
      /\ \A s \in Sector : s # sector => flash'[s] = flash[s]
  BY <1>1, <1>3, <1>4, ProgrammedFlash
<1>6. TypeOK'
  BY <1>3, <1>5 DEF TypeOK, Running, Line
<1>7. Confirmed'
  BY <1>3, <1>5, ConfirmedStays DEF TypeOK
<1>8. InSync' /\ Position'
  <2>1. More' /\ PagesInBuffer' = PagesInBuffer /\ sector' \in Sector
    BY <1>1, <1>3 DEF More, PagesInBuffer
  <2>2. pc' \in {"failed", "write_ram", "verify"}
    BY <1>3
  <2>3. pc' = "write_ram" => i' < PagesInBuffer /\ (RamPages = 16 => i' = 0)
    <3>1. SUFFICES ASSUME pc' = "write_ram"
                   PROVE  i' < PagesInBuffer /\ RamPages # 16
      OBVIOUS
    <3>2. i + m < PagesInBuffer /\ i' = i + m
      BY <1>3, <3>1
    <3>3. PagesInBuffer \in Int
      BY ConstantsAssumption DEF PagesInBuffer, SectorPages, TypeOK, ConstantsAssumption
    <3>4. QED
      BY <1>1, <1>2, <3>2, <3>3
  <2>4. QED
    BY <2>1, <2>2, <2>3 DEF InSync, Position, Writing
<1>9. ErasedBeforeCopy'
  <2>1. SUFFICES ASSUME pc' \in Writing, rx' = <<>>, NEW p \in Page, p >= i'
                 PROVE  flash'[sector'][p] = Blank
    BY DEF ErasedBeforeCopy, Writing
  <2>2. /\ rx = <<>> /\ flash' = Programmed(m) /\ i' = i + m /\ sector' = sector
    BY <1>3, <2>1 DEF Writing
  <2>3. flash[sector][p] = Blank
    <3>1. p >= i
      BY <1>1, <1>2, <2>1, <2>2 DEF Page, SectorPages
    <3>2. QED
      BY <1>1, <2>1, <2>2, <3>1 DEF ErasedBeforeCopy
  <2>4. m \in 0 .. RamPages
    BY <1>2, <1>4
  <2>5. Programmed(m)[sector][p] = flash[sector][p]
    BY <1>1, <2>1, <2>2, <2>4, ProgrammedFlash
  <2>6. QED
    BY <2>2, <2>3, <2>5
<1>10. pc' # "copy"
  BY <1>3
<1>11. QED
  BY <1>6, <1>7, <1>8, <1>9, <1>10

\* What Verify compares is what Installed demands of the current sector.
LEMMA VerifiedSector ==
  ASSUME TypeOK, More, sector \in Sector,
         \A p \in Page : p < PagesInBuffer => flash[sector][p] = Buffer(p)
  PROVE  Installed(sector)
<1> SUFFICES ASSUME NEW p \in Page, sector * SectorPages + p < Len(image)
             PROVE  flash[sector][p] = Expected(image, sector, p)
  BY DEF Installed
<1>1. Len(image) \in Nat /\ sector \in Nat
  BY ConstantsAssumption DEF ConstantsAssumption, TypeOK
<1>2. p < PagesInBuffer
  BY <1>1 DEF PagesInBuffer, Page, SectorPages
<1>3. QED
  BY <1>2 DEF Buffer

\* A sector is compared with what was written (transfer.c:176-187).
LEMMA VerifyStep ==
  ASSUME IInv, Verify
  PROVE  IInv'
<1> USE DEF IInv
<1>1. pc = "verify" /\ sector \in Sector /\ More
      /\ UNCHANGED <<image, target, rx, faults, runs>>
  BY DEF Verify, Position, Writing
<1>2. CASE /\ pc' = "failed" /\ UNCHANGED <<sector, i>>
  <2>1. TypeOK'
    BY <1>1, <1>2 DEF TypeOK, target
  <2>2. Confirmed'
    BY <1>1, <1>2, ConfirmedStays DEF target, TypeOK
  <2>3. QED
    BY <1>2, <2>1, <2>2 DEF InSync, Position, Writing, ErasedBeforeCopy
<1>3. CASE /\ pc' = "fread" /\ sector' = sector + 1 /\ i' = 0
           /\ rx = <<>>
           /\ \A p \in Page : p < PagesInBuffer => flash[sector][p] = Buffer(p)
  <2>1. TypeOK'
    BY <1>1, <1>3 DEF TypeOK, target, Running, SectorPages
  <2>2. Installed(sector)
    BY <1>1, <1>3, VerifiedSector
  <2>3. sector' <= FlashSectors
    BY <1>1, <1>3, ConstantsAssumption DEF Sector, ConstantsAssumption
  <2>4. ASSUME NEW s \in Sector, s < sector'
        PROVE  Installed(s)'
    <3>1. s = sector \/ s < sector
      BY <1>1, <1>3, <2>4 DEF Sector
    <3>2. Installed(s)
      BY <2>2, <3>1 DEF Confirmed
    <3>3. QED
      BY <1>1, <3>2 DEF Installed, target
  <2>5. Confirmed'
    BY <2>3, <2>4 DEF Confirmed
  <2>6. QED
    BY <1>1, <1>3, <2>1, <2>5 DEF InSync, Position, Writing, ErasedBeforeCopy
<1>4. QED
  BY <1>2, <1>3 DEF Verify

\* The next run starts all over, whatever is in flash.
LEMMA RerunStep ==
  ASSUME IInv, Rerun
  PROVE  IInv'
<1> USE DEF IInv
<1>1. TypeOK'
  BY Contents, ConstantsAssumption DEF Rerun, TypeOK, Running, ConstantsAssumption, SectorPages
<1>2. Confirmed'
  BY ConstantsAssumption DEF Rerun, Confirmed, Sector, ConstantsAssumption
<1>3. QED
  BY <1>1, <1>2 DEF Rerun, InSync, Position, Writing, ErasedBeforeCopy

\* Nothing happens.
LEMMA StutterStep ==
  ASSUME IInv, UNCHANGED vars
  PROVE  IInv'
BY DEF IInv, vars, host, target, TypeOK, InSync, Position, Confirmed, Installed,
       ErasedBeforeCopy, More, PagesInBuffer

\* The invariant holds for ever, whatever goes wrong and however often.
THEOREM Inductive == Spec => []IInv
<1>1. IInv /\ [Next]_vars => IInv'
  <2> SUFFICES ASSUME IInv, [Next]_vars
               PROVE  IInv'
    OBVIOUS
  <2>1. CASE Unlock \/ ReadFile \/ ReadCrp \/ Abort
    BY <2>1, QuietSteps
  <2>2. CASE BlankCheck
    BY <2>2, BlankCheckStep
  <2>3. CASE BlankCheckMisread
    BY <2>3, MisreadStep
  <2>4. CASE Prepare
    BY <2>4, PrepareStep
  <2>5. CASE Erase \/ PoorErase \/ InterruptedErase
    BY <2>5, EraseStep
  <2>6. CASE EraseCheck
    BY <2>6, EraseCheckStep
  <2>7. CASE WriteToRam
    BY <2>7, WriteToRamStep
  <2>8. CASE CopyRamToFlash \/ InterruptedCopy
    BY <2>8, CopyStep
  <2>9. CASE Verify
    BY <2>9, VerifyStep
  <2>10. CASE Rerun
    BY <2>10, RerunStep
  <2>11. CASE UNCHANGED vars
    BY <2>11, StutterStep
  <2>12. QED
    BY <2>1, <2>2, <2>3, <2>4, <2>5, <2>6, <2>7, <2>8, <2>9, <2>10, <2>11
       DEF Next, Host, Environment
<1>2. QED
  BY <1>1, InitIInv, PTL DEF Spec

\* The state has the declared types for every target and every image.
THEOREM TypeCorrect == Spec => []TypeOK
<1>1. IInv => TypeOK
  BY DEF IInv
<1>2. QED
  BY <1>1, Inductive, PTL

\* If main() reports success the image is in flash (transfer.c:219-220).
THEOREM SuccessIsHonest == Spec => []SuccessMeansInstalled
<1>1. IInv => SuccessMeansInstalled
  <2> SUFFICES ASSUME IInv, pc = "ok"
               PROVE  Fits /\ \A s \in Sector : Installed(s)
    BY DEF SuccessMeansInstalled
  <2>1. /\ ~More /\ sector <= FlashSectors
        /\ \A s \in Sector : s < sector => Installed(s)
        /\ Len(image) \in Nat /\ sector \in Nat /\ FlashSectors \in Nat
    BY ConstantsAssumption DEF IInv, Position, Confirmed, TypeOK, ConstantsAssumption
  <2>2. Len(image) <= sector * 16
    BY <2>1 DEF More, SectorPages
  <2>3. Fits
    BY <2>1, <2>2 DEF Fits, SectorPages
  <2>4. ASSUME NEW s \in Sector, ~(s < sector)
        PROVE  Installed(s)
    <3>1. ASSUME NEW p \in Page
          PROVE  ~(s * SectorPages + p < Len(image))
      BY <2>1, <2>2, <2>4 DEF Sector, Page, SectorPages
    <3>2. QED
      BY <3>1 DEF Installed
  <2>5. QED
    BY <2>1, <2>3, <2>4
<1>2. QED
  BY <1>1, Inductive, PTL

\* No chunk overruns a buffer and no copy is refused (transfer.c:150-171).
THEOREM CopiesAreLegal == Spec => []CopyIsLegal
<1>1. IInv => CopyIsLegal
  BY ChunkFits DEF IInv, CopyIsLegal, Position, Writing
<1>2. QED
  BY <1>1, Inductive, PTL

\* No page is programmed twice without an erase in between, as long as no
\* answer was misread (transfer.c:129-145).
THEOREM CopiesGoToErasedPages == Spec => []ErasedBeforeCopy
<1>1. IInv => ErasedBeforeCopy
  BY DEF IInv
<1>2. QED
  BY <1>1, Inductive, PTL

-----------------------------------------------------------------------------
(* Refinement.                                                             *)

status == IF Ended THEN pc ELSE "running"

\* Every host step that goes on with the same sector, or gives up, is a
\* step of Installer that works on that sector.
LEMMA WorkOnSector ==
  ASSUME IInv, ~Ended, sector \in Sector, More,
         UNCHANGED <<image, sector>>,
         \A s \in Sector : s # sector => flash'[s] = flash[s],
         pc' \in Running \cup {"failed"}
  PROVE  Promise!Work
<1>1. sector < FlashSectors /\ \A s \in 0 .. FlashSectors - 1 : s \in Sector
  BY ConstantsAssumption DEF Sector, ConstantsAssumption
<1>2. status = "running" /\ status' \in {"running", "failed"}
  BY DEF status, Ended, Running
<1>3. QED
  BY <1>1, <1>2 DEF Promise!Work, Promise!More, More, status

\* Host steps that do not touch the flash.
LEMMA NoFlash ==
  ASSUME ~Ended, UNCHANGED <<image, sector, flash>>,
         pc' \in Running \cup {"failed"}
  PROVE  Promise!GiveUp \/ UNCHANGED Promise!vars
<1>1. status = "running" /\ (status' = "failed" \/ status' = "running")
  BY DEF status, Ended, Running
<1>2. QED
  BY <1>1 DEF Promise!GiveUp, Promise!vars, status

\* A command goes on to the next one or ends the run.
LEMMA HearEnds ==
  ASSUME NEW lines, NEW to, Hear(lines, to)
  PROVE  pc' \in {to, "failed"}
BY DEF Hear

\* download() implements Installer: no step touches a confirmed sector or
\* one beyond the image, and "ok" is reached only past the last sector.
THEOREM Refinement == Spec => KeepsPromise
<1>1. Init => Promise!Init
  BY DEF Init, Promise!Init, Ended
<1>2. IInv /\ [Next]_vars => [Promise!Next]_(Promise!vars)
  <2> SUFFICES ASSUME IInv, [Next]_vars
               PROVE  Promise!Next \/ UNCHANGED Promise!vars
    OBVIOUS
  <2>1. CASE Unlock \/ BlankCheck \/ BlankCheckMisread \/ Prepare
             \/ EraseCheck \/ WriteToRam \/ ReadFile \/ Abort
    <3>1. ~Ended /\ UNCHANGED <<image, sector, flash>>
      BY <2>1 DEF Unlock, BlankCheck, BlankCheckMisread, Prepare, EraseCheck,
                  WriteToRam, ReadFile, Abort, Ended, host, target
    <3>2. pc' \in Running \cup {"failed"}
      <4>1. CASE Unlock \/ Prepare \/ EraseCheck \/ WriteToRam
        BY <4>1, HearEnds DEF Unlock, Prepare, EraseCheck, WriteToRam, Running
      <4>2. CASE BlankCheck
        BY <4>2, HearEnds DEF BlankCheck, Running
      <4>3. CASE BlankCheckMisread \/ ReadFile \/ Abort
        BY <4>3 DEF BlankCheckMisread, ReadFile, Abort, Running
      <4>4. QED
        BY <2>1, <4>1, <4>2, <4>3
    <3>3. QED
      BY <3>1, <3>2, NoFlash DEF Promise!Next
  <2>2. CASE Erase \/ PoorErase \/ InterruptedErase
    <3>1. /\ ~Ended /\ sector \in Sector /\ More
          /\ UNCHANGED <<image, sector>>
          /\ flash' = flash \/ \E left : flash' = Erased(left)
      BY <2>2 DEF Erase, PoorErase, InterruptedErase, IInv, Position, Writing,
                  Ended, host
    <3>2. \A s \in Sector : s # sector => flash'[s] = flash[s]
      BY <3>1, ErasedFlash DEF IInv
    <3>3. pc' \in Running \cup {"failed"}
      BY <2>2, HearEnds DEF Erase, PoorErase, InterruptedErase, Running
    <3>4. QED
      BY <3>1, <3>2, <3>3, WorkOnSector DEF Promise!Next
  <2>3. CASE CopyRamToFlash \/ InterruptedCopy
    <3>1. /\ ~Ended /\ sector \in Sector /\ More
          /\ UNCHANGED <<image, sector>>
          /\ flash' = flash \/ \E k \in 0 .. m : flash' = Programmed(k)
          /\ m <= RamPages /\ m \in Nat
      <4>1. pc = "copy" /\ sector \in Sector /\ More
        BY <2>3 DEF CopyRamToFlash, InterruptedCopy, IInv, Position, Writing
      <4>2. m \in Nat /\ m <= RamPages
        BY <4>1, ChunkFits DEF IInv, Position, Writing
      <4>3. m \in 0 .. m /\ 0 .. m - 1 \subseteq 0 .. m
        BY <4>2
      <4>4. QED
        BY <2>3, <4>1, <4>2, <4>3
           DEF CopyRamToFlash, InterruptedCopy, Ended, host
    <3>2. \A s \in Sector : s # sector => flash'[s] = flash[s]
      <4>1. \A k \in 0 .. m : k \in 0 .. RamPages
        BY <3>1, ConstantsAssumption DEF ConstantsAssumption
      <4>2. QED
        BY <3>1, <4>1, ProgrammedFlash DEF IInv
    <3>3. pc' \in Running \cup {"failed"}
      BY <2>3, HearEnds DEF CopyRamToFlash, InterruptedCopy, Running
    <3>4. QED
      BY <3>1, <3>2, <3>3, WorkOnSector DEF Promise!Next
  <2>4. CASE Verify
    <3>1. /\ ~Ended /\ sector \in Sector /\ More
          /\ UNCHANGED <<image, flash>>
      BY <2>4 DEF Verify, IInv, Position, Writing, Ended, target
    <3>2. CASE pc' = "failed" /\ UNCHANGED <<sector, i>>
      BY <3>1, <3>2, NoFlash DEF Promise!Next
    <3>3. CASE /\ pc' = "fread" /\ sector' = sector + 1
               /\ \A p \in Page : p < PagesInBuffer =>
                                    flash[sector][p] = Buffer(p)
      <4>1. Installed(sector)
        BY <3>1, <3>3, VerifiedSector DEF IInv
      <4>2. Promise!Installed(sector)
        BY <4>1 DEF Promise!Installed, Installed, Page
      <4>3. sector < FlashSectors
        BY <3>1, ConstantsAssumption DEF Sector, ConstantsAssumption
      <4>4. Promise!Confirm
        BY <3>1, <3>3, <4>2, <4>3
           DEF Promise!Confirm, Promise!More, More, Ended
      <4>5. QED
        BY <4>4 DEF Promise!Next
    <3>4. QED
      BY <2>4, <3>2, <3>3 DEF Verify
  <2>5. CASE ReadCrp
    <3>1. /\ ~Ended /\ ~More /\ UNCHANGED <<image, sector, flash>>
          /\ pc' \in {"ok", "failed"}
      BY <2>5, HearEnds DEF ReadCrp, IInv, Position, Ended, host, target
    <3>2. CASE pc' = "failed"
      BY <3>1, <3>2, NoFlash DEF Promise!Next
    <3>3. CASE pc' = "ok"
      <4>1. Promise!Succeed
        BY <3>1, <3>3 DEF Promise!Succeed, Promise!More, More, Ended
      <4>2. QED
        BY <4>1 DEF Promise!Next
    <3>4. QED
      BY <3>1, <3>2, <3>3
  <2>6. CASE Rerun
    BY <2>6 DEF Rerun, Ended, Promise!Again, Promise!Next
  <2>7. CASE UNCHANGED vars
    BY <2>7 DEF vars, host, target, Promise!vars, Ended
  <2>8. QED
    BY <2>1, <2>2, <2>3, <2>4, <2>5, <2>6, <2>7 DEF Next, Host, Environment
<1>3. QED
  BY <1>1, <1>2, Inductive, PTL DEF Spec, KeepsPromise, Promise!Spec
=============================================================================
