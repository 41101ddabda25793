---------------------------- MODULE MCImportTask ----------------------------
(* Instances of ImportTask for TLC.                                        *)
EXTENDS ImportTaskProps, TLC

(* A file with an invalid line, and one that shares a title with it, has   *)
(* it twice, and on which the CSV reader then fails.                       *)
MixedFiles == {<<"a", "bad", "b">>, <<"b", "b", "broken">>}
=============================================================================
