----------------------------- MODULE MCSebstoTs -----------------------------
(***************************************************************************)
(* Files around a budget of 4 bytes: one above it, one that is empty, two  *)
(* that fit together.                                                      *)
(***************************************************************************)
EXTENDS SebstoTs

MCSize == <<2, 6, 0, 2>>
=============================================================================
