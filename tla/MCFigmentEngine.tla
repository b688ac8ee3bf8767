--------------------------- MODULE MCFigmentEngine ---------------------------
(***************************************************************************)
(* Lists of files around a floor of 4 bytes, archives around a limit of 13. *)
(***************************************************************************)
EXTENDS FigmentEngine

F(size, header) == [size |-> size, header |-> header]

MCLists ==
  {(* whole copies, one of a big as long as the floor, and a small left over *)
   <<F(3, 2), F(9, 2), F(2, 1), F(4, 1), F(1, 1)>>,
   (* no smalls: two bigs of one size lend prefixes, the third is folded    *)
   <<F(8, 1), F(4, 1), F(8, 3)>>,
   (* a small and a prefix share a part; the last big takes the rest; the    *)
   (* size of a file is above the limit                                     *)
   <<F(3, 1), F(0, 1), F(14, 1), F(4, 1)>>,
   (* the smalls run out: the floor-hugging big is folded behind the last    *)
   <<F(12, 1), F(0, 1), F(4, 1), F(0, 1)>>,
   (* too little in all, with a directory at the limit; smalls only, with an *)
   (* entry at the limit; one small; nothing                                *)
   <<F(2, 1), F(9, 1)>>,
   <<F(3, 1), F(3, 1), F(3, 2), F(3, 1)>>,
   <<F(0, 1)>>,
   <<>>}
=============================================================================
