---------------------------- MODULE MCIspUpload ----------------------------
(* An instance of IspUpload: a flash of six bytes, read in pieces of four,  *)
(* with ends of lines and return codes among the bytes and, at the end of   *)
(* the first piece, a byte that a torn answer leaves for the next code.     *)
EXTENDS IspUpload

MCFlash == <<"x", "nl", "cr", "0", "nl", "x">>
MCSizes == {-1, 0, 1, 2, 5, 6, 8}
MCRooms == {3, 8}
=============================================================================
