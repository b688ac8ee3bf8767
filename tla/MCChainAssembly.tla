--------------------------- MODULE MCChainAssembly ---------------------------
(***************************************************************************)
(* Lists of files around a floor of 3 bytes, objects around a limit of 9.  *)
(***************************************************************************)
EXTENDS ChainAssembly

F(size, header) == [size |-> size, header |-> header]

(* Two bigs and three smalls, in the order of S3; three bigs, two of them of *)
(* the same size, with fewer smalls than bigs and an entry at the limit; a   *)
(* big above the limit; bigs alone; no big.                                  *)
MCLists ==
  {<<F(1, 1), F(3, 2), F(2, 2), F(4, 1), F(0, 1)>>,
   <<F(3, 1), F(3, 2), F(2, 1), F(5, 1)>>,
   <<F(10, 2), F(2, 1)>>,
   <<F(3, 2)>>,
   <<F(2, 1)>>}
=============================================================================
