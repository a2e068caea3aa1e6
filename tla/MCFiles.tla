------------------------------ MODULE MCFiles -------------------------------
(***************************************************************************)
(* Small instances of FileProcessing and of EmbeddingIndex in one run: a   *)
(* behaviour is about one of them, and the other does nothing.  Two        *)
(* workers are at one file of a durable queue, or at two files of a queue  *)
(* in memory; two embedding jobs are at a file and its copy while the      *)
(* settings change.                                                        *)
(***************************************************************************)
EXTENDS FileProcessing, EmbeddingIndex

CONSTANTS f1, f2, w1, w2, m1, m2, host, nohost, j1, j2, admin

VARIABLE about

FilesInit ==
  /\ about \in {"queue", "index", "legacy"} /\ Init /\ IndexInit
  /\ about # "queue" => durable
  /\ about = "legacy" <=> stored.sig = <<FirstModel, Legacy>>

FilesNext ==
  /\ UNCHANGED about
  /\ \/ about = "queue" /\ Next /\ UNCHANGED indexVars
     \/ about # "queue" /\ IndexNext /\ UNCHANGED vars

FilesSpec ==
  /\ FilesInit /\ [][FilesNext]_<<about, vars, indexVars>>
  /\ Fairness /\ IndexFairness

\* Bounds: one file beside a durable queue; what may go wrong, all together, a third time
\* in the index when no job is left; one job at a time beside a clone or under a signature
\* of the first start, and not all three.
OneJob == \E j \in Jobs : job[j] = AtRest
FewFiles == durable => upload[f2] = "new"
FewDisturbances ==
  /\ faults + crashes + lapses <= IF durable THEN 4 ELSE 1
  /\ failures + restarts + patches + deletions <=
       IF clone # AtRest THEN 1 ELSE IF \A j \in Jobs : job[j] = AtRest THEN 3 ELSE 2
FewJobs ==
  /\ clone = AtRest \/ OneJob
  /\ about = "legacy" => clone = AtRest /\ OneJob

\* No file stays in processing, in the queue or in the index.
NoFileIsStuck == FilesEnd /\ FilesSettle
=============================================================================
