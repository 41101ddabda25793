--------------------------- MODULE ImportTaskProps ---------------------------
(***************************************************************************)
(* What the import queue promises, over the worker of ImportTask.          *)
(***************************************************************************)
EXTENDS ImportTask

ValidTitles(f) == {f[i] : i \in DOMAIN f} \cap Titles

(* The counters a finished task shows add up, and a task that ran to its   *)
(* end accounts for every line of its file ("Total = Success + Failed +    *)
(* Skipped always holds", import plan), restarts or not.                   *)
CountersBalance ==
    \A t \in Tasks : status[t] \in Finished =>
        LET c == stored[t] IN
        /\ c.total = c.success + c.failed + c.skipped
        /\ IF status[t] = "succeeded" THEN c.total = Len(file[t])
                                      ELSE c.total < Len(file[t])

(* No line gets lost: a title of a succeeded task that is not in the       *)
(* knowledge base is one of the failures the task reports, next to its     *)
(* invalid lines; also when the task was processed by several workers.     *)
NoLineLost ==
    \A t \in Tasks : status[t] = "succeeded" =>
        Cardinality({i \in DOMAIN file[t] : file[t][i] \notin docs})
            <= stored[t].failed

(* What a task reports as imported can be found by meaning: it reports no  *)
(* more successes than titles of its file that have a vector.              *)
SuccessIsSearchable ==
    \A t \in Tasks :
        stored[t].success <= Cardinality(ValidTitles(file[t]) \cap vecs)

(* Every upload is finished in the end, whatever crashes on the way; only  *)
(* a failing call can leave it behind, or a worker that dies beside a      *)
(* running one, whose task waits for the next start.                       *)
UploadsFinish ==
    \A t \in Tasks :
        status[t] = "pending" ~> status[t] \in Finished \/ faults + overlaps > 0
=============================================================================
