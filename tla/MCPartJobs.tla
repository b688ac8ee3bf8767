----------------------------- MODULE MCPartJobs -----------------------------
(***************************************************************************)
(* The plan and the jobs of every list of up to six files, of sizes around *)
(* MinPart and Target, with local headers of different lengths.            *)
(***************************************************************************)
EXTENDS PartJobs

MCNameLen == <<1, 31, 1, 1, 31, 1>>
=============================================================================
