----------------------------- MODULE Installer ------------------------------
(***************************************************************************)
(* What `usart-util -D <file>` promises, without saying how: the image is  *)
(* put into flash one sector after the other, a sector that has been       *)
(* confirmed is never touched again by that run, no sector beyond the      *)
(* image is touched at all, and the run is a success only when every       *)
(* sector of the image has been confirmed.  A run may fail at any point.   *)
(***************************************************************************)
EXTENDS Integers, Sequences

CONSTANTS FlashSectors,  \* number of flash sectors of the target
          SectorPages,   \* pages in a sector
          Images,        \* the images a run may be asked to install
          Expected(_, _, _) \* page p of sector s that an image stands for

VARIABLES flash,    \* flash[s][p]: contents of page p of sector s
          image,    \* the image of the current run
          done,     \* number of sectors confirmed in this run
          status    \* "running", "ok" or "failed"

vars == <<flash, image, done, status>>

More == done * SectorPages < Len(image)

Installed(s) ==
  \A p \in 0 .. SectorPages - 1 :
     s * SectorPages + p < Len(image) => flash[s][p] = Expected(image, s, p)

Init == /\ image \in Images
        /\ done = 0
        /\ status = "running"

\* Work on the first unconfirmed sector, in whatever way; it may go wrong.
Work == /\ status = "running" /\ More
        /\ done < FlashSectors
        /\ \A s \in 0 .. FlashSectors - 1 : s # done => flash'[s] = flash[s]
        /\ status' \in {"running", "failed"}
        /\ UNCHANGED <<image, done>>

\* The sector holds its part of the image: go on to the next one.
Confirm == /\ status = "running" /\ More
           /\ done < FlashSectors /\ Installed(done)
           /\ done' = done + 1
           /\ UNCHANGED <<flash, image, status>>

Succeed == /\ status = "running" /\ ~More
           /\ status' = "ok"
           /\ UNCHANGED <<flash, image, done>>

GiveUp == /\ status = "running"
          /\ status' = "failed"
          /\ UNCHANGED <<flash, image, done>>

\* Somebody runs the program again, perhaps with another image.
Again == /\ status # "running"
         /\ image' \in Images
         /\ done' = 0
         /\ status' = "running"
         /\ UNCHANGED flash

Next == Work \/ Confirm \/ Succeed \/ GiveUp \/ Again

Spec == Init /\ [][Next]_vars
=============================================================================
