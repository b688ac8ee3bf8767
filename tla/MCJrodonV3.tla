----------------------------- MODULE MCJrodonV3 -----------------------------
(***************************************************************************)
(* Jobs as the builder makes them: uploads of entries, each followed by a  *)
(* copy, then the upload that holds the directory.                         *)
(***************************************************************************)
EXTENDS JrodonV3

Upload(entries, cost) == [kind |-> "upload", entries |-> entries, cost |-> cost]
Copy == [kind |-> "copy", entries |-> {}, cost |-> 1]

MCJobs == <<Upload({1}, 2), Copy, Upload({2}, 2), Upload({3}, 2), Copy, Upload({4}, 2)>>
=============================================================================
