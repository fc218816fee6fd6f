------------------------------- MODULE FlashIap -------------------------------
(***************************************************************************)
(* examples/.../flash_iap/flash_iap.c: the program erases a sector of the  *)
(* flash it runs from, writes it block by block through the boot ROM's     *)
(* IAP, compares, verifies and starts the ISP.  A sector must be prepared  *)
(* before each erase and each copy, and a reset may come between any two   *)
(* commands and in the middle of one.                                      *)
(* Definitions under "Mistake" are not part of the model.                  *)
(***************************************************************************)
EXTENDS Integers

CONSTANTS Blocks,   \* SECTOR_SIZE / TEST_DATA_SIZE
          Bytes,    \* how many values a char has: a block has them all
          MaxResets,
          MaxWear   \* how many copies the flash may not take

Byte == 0..(Bytes - 1)

\* A block counts up from a byte, is erased, or is something else.
Blank == -1
Partial == -2

VARIABLES sector,   \* what the blocks hold
          prepared, \* the ROM: the sector may be erased or written once
          pc, i, start_data, data, status, \* main()
          resets, wear

program == <<pc, i, start_data, data, status>>
vars == <<sector, prepared, program, resets, wear>>

Block == 0..(Blocks - 1)

Init ==
  /\ sector \in {[b \in Block |-> c] : c \in Byte \cup {Blank, Partial}}
  /\ prepared = FALSE /\ pc = "boot"
  /\ i = 0 /\ start_data = 0 /\ data = 0 /\ status = "CMD_SUCCESS"
  /\ resets = 0 /\ wear = 0

-----------------------------------------------------------------------------
(* The boot ROM.                                                           *)

Prepare == prepared' = TRUE /\ status' = "CMD_SUCCESS" /\ UNCHANGED <<sector, wear>>

BlankCheck ==
  /\ status' = IF \A b \in Block : sector[b] = Blank
               THEN "CMD_SUCCESS" ELSE "SECTOR_NOT_BLANK"
  /\ UNCHANGED <<sector, prepared, wear>>

NotPrepared ==
  /\ ~prepared
  /\ status' = "SECTOR_NOT_PREPARED" /\ UNCHANGED <<sector, prepared, wear>>

Erase ==
  \/ NotPrepared
  \/ /\ prepared
     /\ sector' = [b \in Block |-> Blank]
     /\ prepared' = FALSE /\ status' = "CMD_SUCCESS" /\ UNCHANGED wear

\* What is copied over something is neither.
Copy(b, d) ==
  \/ NotPrepared
  \/ /\ prepared
     /\ prepared' = FALSE /\ status' = "CMD_SUCCESS"
     /\ \/ sector' = [sector EXCEPT ![b] = IF @ \in {Blank, d} THEN d ELSE Partial]
           /\ UNCHANGED wear
        \/ wear < MaxWear /\ wear' = wear + 1
           /\ sector' = [sector EXCEPT ![b] = Partial]

Compare(b, d) ==
  /\ status' = IF sector[b] = d THEN "CMD_SUCCESS" ELSE "COMPARE_ERROR"
  /\ UNCHANGED <<sector, prepared, wear>>

-----------------------------------------------------------------------------
(* main(): each step is a command and the check of its status.             *)

\* The first byte in flash, which the test data begin after.
FirstByte ==
  CASE sector[0] = Blank -> {Bytes - 1}
    [] sector[0] = Partial -> Byte
    [] OTHER -> {sector[0]}

At(here) == pc = here /\ UNCHANGED <<i, start_data, data, resets>>

\* On success to the next command; any other status ends the test.
Unless(next) == pc' = IF status' = "CMD_SUCCESS" THEN next ELSE "iap_error"

Boot ==
  /\ pc = "boot"
  /\ \E c \in FirstByte : start_data' = (c + 1) % Bytes
  /\ data' = start_data' /\ pc' = "check"
  /\ UNCHANGED <<sector, prepared, i, status, resets, wear>>

Check ==
  /\ At("check") /\ BlankCheck
  /\ pc' = CASE status' = "SECTOR_NOT_BLANK" -> "prepare erase"
             [] status' = "CMD_SUCCESS" -> "fill"

PrepareErase == At("prepare erase") /\ Prepare /\ Unless("erase")

EraseSector == At("erase") /\ Erase /\ Unless("check again")

CheckAgain == At("check again") /\ BlankCheck /\ Unless("fill")

\* The loop, and the test data of one block.
Fill ==
  /\ pc = "fill"
  /\ pc' = IF i < Blocks THEN "prepare copy" ELSE "verify"
  /\ UNCHANGED <<sector, prepared, i, start_data, data, status, resets, wear>>

\* Mistake: the sector is prepared once, before the loop.
PrepareCopyOnce ==
  /\ At("prepare copy")
  /\ IF i = 0 THEN Prepare
     ELSE UNCHANGED <<sector, prepared, wear>> /\ status' = "CMD_SUCCESS"
  /\ Unless("copy")

PrepareCopy == At("prepare copy") /\ Prepare /\ Unless("copy")

CopyBlock == At("copy") /\ Copy(i, data) /\ Unless("compare")

\* A block is as long as a char has values: data is what it was.
CompareBlock ==
  /\ pc = "compare" /\ Compare(i, data) /\ Unless("fill")
  /\ i' = IF status' = "CMD_SUCCESS" THEN i + 1 ELSE i
  /\ UNCHANGED <<start_data, data, resets>>

Verify ==
  /\ pc = "verify"
  /\ pc' = IF \A b \in Block : sector[b] = start_data THEN "isp" ELSE "iap_error"
  /\ UNCHANGED <<sector, prepared, i, start_data, data, status, resets, wear>>

main ==
  \/ Boot \/ Check \/ PrepareErase \/ EraseSector \/ CheckAgain \/ Fill
  \/ PrepareCopy \/ CopyBlock \/ CompareBlock \/ Verify

-----------------------------------------------------------------------------

\* A reset, which leaves what was being erased or written undefined.
Reset ==
  /\ resets < MaxResets /\ resets' = resets + 1
  /\ \E broken \in {b \in SUBSET Block :
                      \/ b = {} \/ pc = "erase"
                      \/ pc = "copy" /\ b = {i}} :
       sector' = [b \in Block |-> IF b \in broken THEN Partial ELSE sector[b]]
  /\ prepared' = FALSE /\ pc' = "boot"
  /\ i' = 0 /\ start_data' = 0 /\ data' = 0 /\ status' = "CMD_SUCCESS"
  /\ UNCHANGED wear

\* The ISP runs, or the LED blinks.
Ended == pc \in {"isp", "iap_error"} /\ UNCHANGED vars

Next == main \/ Reset \/ Ended

Spec == Init /\ [][Next]_vars /\ WF_vars(main)

-----------------------------------------------------------------------------
(* Properties.                                                             *)

(* flash_iap.c:218-294.  A flash that takes what is copied passes the      *)
(* test, whatever an earlier run that was reset has left in the sector,    *)
(* and in whichever command: no command finds the sector unprepared or a   *)
(* block that is not blank.                                                *)
Passes == wear = 0 => pc # "iap_error"

(* flash_iap.c:265-325.  A copy that the flash does not take is found out  *)
(* before anything else is written, and the ISP is started over a sector   *)
(* that holds the test data in every block.                                *)
Tested ==
  /\ pc = "copy" => \A b \in 0..(i - 1) : sector[b] = data
  /\ pc = "isp" => \A b \in Block : sector[b] = start_data
=============================================================================
