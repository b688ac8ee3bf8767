----------------------------- MODULE MCJrodonV1 -----------------------------
(***************************************************************************)
(* Instances of JrodonV1 for TLC: three files that do not all fit the      *)
(* download memory at once, an archive of five parts through two slabs.    *)
(***************************************************************************)
EXTENDS JrodonV1

MCSize == <<1, 2, 1>>
=============================================================================
