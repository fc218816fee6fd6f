--------------------------- MODULE MCIspDownload ----------------------------
(***************************************************************************)
(* Small instances of IspDownload: a target of two sectors, images of      *)
(* every shape that the loop over sectors and chunks tells apart.          *)
(***************************************************************************)
EXTENDS IspDownload

CONSTANTS Lengths,   \* lengths of the images, in pages
          Old        \* a page of old firmware

Number(k) == <<"page", k>>

MCPages == {Number(k) : k \in 1 .. 40} \cup {Old}

\* Images with all pages different, and one whose pages 2 and 3 are blank.
MCImages ==
  {[k \in 1 .. len |-> Number(k)] : len \in Lengths} \cup
  {[k \in 1 .. 5 |-> IF k \in {2, 3} THEN Blank ELSE Number(k)]}

\* Every sector is erased or holds old firmware.
MCOldFlash ==
  {[s \in Sector |-> [p \in Page |-> IF s \in used THEN Old ELSE Blank]] :
     used \in SUBSET Sector}
=============================================================================
