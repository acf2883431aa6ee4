----------------------------- MODULE MCDownloads -----------------------------
(* Two downloads, three repositories of which two share a directory, files of  *)
(* two chunks.                                                                 *)
EXTENDS Downloads, TLC

CONSTANTS t1, f1, f2, r1, r2, r3, d1, d2

MCWanted == {<<f1>>, <<f1, f2>>}
MCSafeRepo == (r1 :> d1) @@ (r2 :> d1) @@ (r3 :> d2)

(* The tasks are alike, and so are r1 and r2: with t1 asking for r1 the two    *)
(* still ask for one repository, for two of one directory, or for two apart.   *)
MCNext == Next /\ (job'[t1].at # "none" => job'[t1].repo = r1)

MCSpec == Init /\ [][MCNext]_vars /\ Fairness
=============================================================================
