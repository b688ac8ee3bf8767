------------------------------ MODULE MCSebstoC ------------------------------
(***************************************************************************)
(* Lists of objects around a window of 6 bytes and three downloads.        *)
(***************************************************************************)
EXTENDS SebstoC

(* More objects than downloads, some that do not fit together; one larger than *)
(* the window; one as large as it; nothing.                                  *)
MCLists == {<<2, 1, 0, 5>>, <<1, 7, 2>>, <<6, 1, 3>>, <<>>}
=============================================================================
