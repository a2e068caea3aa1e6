--------------------------- MODULE EmbeddingIndex ---------------------------
(***************************************************************************)
(* Files are embedded into a vector space that the settings name by a      *)
(* signature. Jobs embed files while administrators change the settings: a *)
(* job writes only under its own signature, a change marks the files of    *)
(* other spaces stale. Deleting a setting restores its default and does    *)
(* neither. A shared file is copied together with its vectors.             *)
(***************************************************************************)
EXTENDS Integers

CONSTANTS
  Models, Hosts, FirstModel, FirstHost,
  DefaultModel, NoHost, \* the deployed defaults: a model, and no embedding service
  Legacy,               \* in the place of the host in a signature made without one
  Unsigned, NoChunks,
  Jobs,         \* embedding jobs at work at the same time
  Patches,      \* administrators changing settings at the same time
  MaxPatches,   \* bound: changes of the settings
  MaxDeletions, \* bound: settings deleted
  MaxFailures,  \* bound: calls that fail
  MaxRestarts   \* bound: restarts of the process

\* What the constants must satisfy.
ASSUME EmbeddingIndexAssumption ==
  /\ {FirstModel, DefaultModel} \subseteq Models /\ {FirstHost, NoHost} \subseteq Hosts
  /\ Legacy \notin Hosts /\ Unsigned \notin Models \X (Hosts \cup {Legacy})
  /\ NoChunks \notin [sig : Models \X (Hosts \cup {Legacy}), space : Models \X Hosts]
  /\ {MaxPatches, MaxDeletions, MaxFailures, MaxRestarts} \subseteq Nat

VARIABLES
  stored,   \* the settings in the database
  runtime,  \* the settings the process works with
  row,      \* the rows of the files and their chunks
  job, patch, clone,
  patches, deletions, failures, restarts,
  overtaken, \* history: the settings changed between a job's reading them and its claim
  mixed      \* history: a change was put on top of another one that had failed

indexCore == <<stored, runtime, row, job, patch, clone, patches, deletions, failures, restarts>>
indexVars == <<indexCore, overtaken, mixed>>

Copies == {"source", "copy"}
Spaces == Models \X Hosts
SpaceOf(s) == <<s.model, s.host>>
Signatures == Models \X (Hosts \cup {Legacy})
Settings == [model : Models, host : Hosts, sig : Signatures \cup {Unsigned}]
Baseline == [model |-> DefaultModel, host |-> NoHost, sig |-> Unsigned]
Chunks == [sig : Signatures, space : Spaces]
AtRest == [pc |-> "idle"]

\* A missing signature is derived from the model alone.
SignatureOf(s) == IF s.sig = Unsigned THEN <<s.model, Legacy>> ELSE s.sig
Active == SignatureOf(runtime)

\* The settings once the keys of a change have its values.
Applied(change, s) ==
  [k \in DOMAIN s |-> IF k \in change.keys THEN change.values[k] ELSE s[k]]

Row == [status : {"absent", "none", "processing", "ready", "failed", "stale"},
        sig : Signatures \cup {Unsigned}, chunks : Chunks \cup {NoChunks}]

IndexTypeOK ==
  /\ stored \in Settings /\ runtime \in Settings
  /\ row \in [Copies -> Row]
  /\ \A j \in Jobs : job[j] = AtRest \/
       /\ job[j].pc \in {"claim", "embed", "count", "check", "ready", "recheck", "stale"}
       /\ job[j].file \in Copies /\ job[j].cfg \in Settings /\ job[j].cfg.sig # Unsigned
  /\ \A p \in Patches : patch[p] = AtRest \/
       patch[p].pc \in {"write", "list", "publish", "aim", "mark"}
  /\ clone.pc \in {"idle", "create", "copy", "trigger", "done"}
  /\ overtaken \in BOOLEAN /\ mixed \in BOOLEAN
  /\ patches \in 0..MaxPatches /\ deletions \in 0..MaxDeletions
  /\ failures \in 0..MaxFailures /\ restarts \in 0..MaxRestarts

\* The signature is the one of a change, or of the first start.
IndexInit ==
  /\ stored \in {[model |-> FirstModel, host |-> FirstHost, sig |-> <<FirstModel, FirstHost>>],
                 [model |-> FirstModel, host |-> FirstHost, sig |-> <<FirstModel, Legacy>>]}
  /\ runtime = stored
  /\ row = [x \in Copies |-> [status |-> IF x = "source" THEN "none" ELSE "absent",
                               sig |-> Unsigned, chunks |-> NoChunks]]
  /\ job = [j \in Jobs |-> AtRest] /\ patch = [p \in Patches |-> AtRest] /\ clone = AtRest
  /\ patches = 0 /\ deletions = 0 /\ failures = 0 /\ restarts = 0
  /\ overtaken = FALSE /\ mixed = FALSE

Failure == failures < MaxFailures /\ failures' = failures + 1
NoFailure == UNCHANGED failures

-----------------------------------------------------------------------------
(* Jobs: ProcessFile. *)

Go(j, pc) == job' = [job EXCEPT ![j].pc = pc]
End(j) == job' = [job EXCEPT ![j] = AtRest]
Signed(j) == row[job[j].file].sig = job[j].cfg.sig
SetStatus(j, s) == row' = [row EXCEPT ![job[j].file].status = s]

\* After an upload, for a reindexation, or for a copy whose vectors were not copied.
Start(j, x) ==
  /\ job[j] = AtRest /\ row[x].status # "absent" /\ runtime.host # NoHost
  /\ job' = [job EXCEPT ![j] = [pc |-> "claim", file |-> x, cfg |-> [runtime EXCEPT !.sig = Active]]]

StartJob(j, x) ==
  /\ Start(j, x)
  /\ UNCHANGED <<stored, runtime, row, patch, clone, patches, deletions, failures, restarts>>

Claim(j) ==
  /\ job[j].pc = "claim"
  /\ IF Signed(j) /\ row[job[j].file].status \in {"processing", "ready"}
     THEN End(j) /\ UNCHANGED row
     ELSE /\ row' = [row EXCEPT ![job[j].file].status = "processing",
                                  ![job[j].file].sig = job[j].cfg.sig]
          /\ Go(j, "embed")
  /\ NoFailure

\* The text cannot be extracted, or the service or the database fails.
Fail(j) ==
  /\ job[j].pc = "embed" /\ End(j)
  /\ IF Signed(j) THEN SetStatus(j, "failed") ELSE UNCHANGED row
  /\ NoFailure

Replace(j) ==
  /\ job[j].pc = "embed"
  /\ IF Signed(j) /\ row[job[j].file].status = "processing"
     THEN /\ row' = [row EXCEPT ![job[j].file].chunks =
                        [sig |-> job[j].cfg.sig, space |-> SpaceOf(job[j].cfg)]]
          /\ Go(j, "count")
     ELSE End(j) /\ UNCHANGED row
  /\ NoFailure

Count(j) ==
  /\ job[j].pc = "count" /\ UNCHANGED row
  /\ \/ NoFailure /\ IF Signed(j) THEN Go(j, "check") ELSE End(j)
     \/ Failure /\ End(j)

Current(j) == Active = job[j].cfg.sig /\ runtime.host = job[j].cfg.host

Check(j) ==
  /\ job[j].pc = "check" /\ UNCHANGED row /\ NoFailure
  /\ Go(j, IF Current(j) THEN "ready" ELSE "stale")

SetReady(j) ==
  /\ job[j].pc = "ready"
  /\ \/ /\ NoFailure
        /\ IF Signed(j) THEN SetStatus(j, "ready") /\ Go(j, "recheck") ELSE End(j) /\ UNCHANGED row
     \/ Failure /\ End(j) /\ UNCHANGED row

\* Mutant of Recheck: the settings are not compared once more.
RecheckNothing(j) == job[j].pc = "recheck" /\ End(j) /\ UNCHANGED row /\ NoFailure

Recheck(j) ==
  /\ job[j].pc = "recheck" /\ UNCHANGED row /\ NoFailure
  /\ IF Current(j) THEN End(j) ELSE Go(j, "stale")

SetStale(j) ==
  /\ job[j].pc = "stale" /\ End(j)
  /\ \/ NoFailure /\ IF Signed(j) THEN SetStatus(j, "stale") ELSE UNCHANGED row
     \/ Failure /\ UNCHANGED row

JobStep(j) ==
  /\ \/ Claim(j) \/ Fail(j) \/ Replace(j) \/ Count(j) \/ Check(j)
     \/ SetReady(j) \/ Recheck(j) \/ SetStale(j)
  /\ UNCHANGED <<stored, runtime, patch, clone, patches, deletions, restarts>>

\* The user looks at the files six minutes after a job wrote the row last; jobs end
\* within five.
Timeout(x) ==
  /\ row[x].status = "processing"
  /\ \A j \in Jobs : job[j].pc \notin {"idle", "claim"} => job[j].file # x
  /\ row' = [row EXCEPT ![x].status = "failed"]
  /\ UNCHANGED <<stored, runtime, job, patch, clone, patches, deletions, failures, restarts>>

-----------------------------------------------------------------------------
(* Administrators: Patch and Delete of the settings handler. *)

Marked(sig) ==
  [x \in Copies |-> IF /\ row[x].status \in {"ready", "processing"}
                       /\ row[x].chunks # NoChunks => row[x].chunks.sig # sig
                    THEN [row[x] EXCEPT !.status = "stale"] ELSE row[x]]

\* A request names some of the keys, or other settings only. The signature is written
\* when the space differs from the one of the process, when none is stored, and when the
\* request names it; the index is reconciled but for the last.
BeginPatch(p, keys, m, h) ==
  /\ patch[p] = AtRest /\ patches < MaxPatches /\ patches' = patches + 1
  /\ LET next == [model |-> IF "model" \in keys THEN m ELSE runtime.model,
                  host |-> IF "host" \in keys THEN h ELSE runtime.host]
         moves == SpaceOf(next) # SpaceOf(runtime)
         signs == moves \/ runtime.sig = Unsigned
     IN  patch' = [patch EXCEPT ![p] =
           [pc |-> "write", keys |-> keys \cup (IF signs THEN {"sig"} ELSE {}),
            values |-> [model |-> next.model, host |-> next.host,
                        sig |-> IF moves THEN SpaceOf(next) ELSE Active],
            then |-> IF keys \subseteq {"sig"} /\ ~signs THEN "idle" ELSE "aim"]]
  /\ UNCHANGED <<stored, runtime, row, deletions, failures>>

\* A setting is deleted: the signature stays, and the index is not reconciled.
BeginDelete(p, k) ==
  /\ patch[p] = AtRest /\ deletions < MaxDeletions /\ deletions' = deletions + 1
  /\ patch' = [patch EXCEPT ![p] =
       [pc |-> "write", keys |-> {k}, values |-> Baseline, then |-> "idle"]]
  /\ UNCHANGED <<stored, runtime, row, patches, failures>>

WritePatch(p) ==
  /\ patch[p].pc = "write" /\ stored' = Applied(patch[p], stored)
  /\ patch' = [patch EXCEPT ![p] = [pc |-> "list", then |-> patch[p].then]]
  /\ UNCHANGED <<runtime, row, patches, deletions, failures>>

\* The settings are written, and are not listed or not understood: the request fails.
FailPatch(p) ==
  /\ patch[p].pc \in {"list", "publish"} /\ patch' = [patch EXCEPT ![p] = AtRest] /\ Failure
  /\ UNCHANGED <<stored, runtime, row, patches, deletions>>

List(p) ==
  /\ patch[p].pc = "list"
  /\ patch' = [patch EXCEPT ![p] = [pc |-> "publish", next |-> stored, then |-> patch[p].then]]
  /\ UNCHANGED <<stored, runtime, row, patches, deletions, failures>>

Publish(p) ==
  /\ patch[p].pc = "publish" /\ runtime' = patch[p].next
  /\ patch' = [patch EXCEPT ![p] = [pc |-> patch[p].then]]
  /\ UNCHANGED <<stored, row, patches, deletions, failures>>

Aim(p) ==
  /\ patch[p].pc = "aim" /\ patch' = [patch EXCEPT ![p] = [pc |-> "mark", sig |-> Active]]
  /\ UNCHANGED <<stored, runtime, row, patches, deletions, failures>>

Mark(p) ==
  /\ patch[p].pc = "mark" /\ patch' = [patch EXCEPT ![p] = AtRest]
  /\ (NoFailure /\ row' = Marked(patch[p].sig)) \/ (Failure /\ UNCHANGED row)
  /\ UNCHANGED <<stored, runtime, patches, deletions>>

PatchStep(p) ==
  /\ \/ \E keys \in SUBSET {"model", "host", "sig"}, m \in Models, h \in Hosts :
          BeginPatch(p, keys, m, h)
     \/ \E k \in {"model", "host", "sig"} : BeginDelete(p, k)
     \/ WritePatch(p) \/ FailPatch(p) \/ List(p) \/ Publish(p) \/ Aim(p) \/ Mark(p)
  /\ UNCHANGED <<job, clone, restarts>>

-----------------------------------------------------------------------------
(* A shared conversation is cloned: cloneSharedFiles. *)

CloneBegin ==
  /\ clone = AtRest
  /\ clone' = [pc |-> "create", source |-> [row["source"] EXCEPT !.chunks = NoChunks]]
  /\ UNCHANGED <<row, job, failures>>

\* The new row is a copy of the row that was read, its status included.
CloneCreate ==
  /\ clone.pc = "create" /\ row' = [row EXCEPT !["copy"] = clone.source]
  /\ clone' = [clone EXCEPT !.pc = IF clone.source.status = "ready" THEN "copy" ELSE "trigger"]
  /\ UNCHANGED <<job, failures>>

\* One transaction: the status and signature that were read, the chunks of now.
CloneCopy ==
  /\ clone.pc = "copy" /\ UNCHANGED job
  /\ \/ /\ NoFailure /\ clone' = [pc |-> "done"]
        /\ row' = [row EXCEPT !["copy"] = [status |-> "ready", sig |-> clone.source.sig,
                                             chunks |-> row["source"].chunks]]
     \/ Failure /\ clone' = [clone EXCEPT !.pc = "trigger"] /\ UNCHANGED row

CloneTrigger ==
  /\ clone.pc = "trigger" /\ clone' = [pc |-> "done"] /\ UNCHANGED <<row, failures>>
  /\ (\E j \in Jobs : Start(j, "copy")) \/ (runtime.host = NoHost /\ UNCHANGED job)

CloneStep ==
  /\ CloneBegin \/ CloneCreate \/ CloneCopy \/ CloneTrigger
  /\ UNCHANGED <<stored, runtime, patch, patches, deletions, restarts>>

-----------------------------------------------------------------------------
\* The process restarts with the settings of the database, stores a signature when there
\* is none, and reconciles the index.
Restart ==
  /\ restarts < MaxRestarts /\ restarts' = restarts + 1
  /\ stored' = [stored EXCEPT !.sig = SignatureOf(stored)] /\ runtime' = stored'
  /\ (NoFailure /\ row' = Marked(stored'.sig)) \/ (Failure /\ UNCHANGED row)
  /\ job' = [j \in Jobs |-> AtRest] /\ patch' = [p \in Patches |-> AtRest]
  /\ clone' = IF clone = AtRest THEN AtRest ELSE [pc |-> "done"]
  /\ UNCHANGED <<patches, deletions>>

IndexStep ==
  \/ \E j \in Jobs : JobStep(j) \/ \E x \in Copies : StartJob(j, x)
  \/ \E x \in Copies : Timeout(x)
  \/ \E p \in Patches : PatchStep(p)
  \/ CloneStep \/ Restart

\* A change starts while another one is stored and not published, and is not the same.
Mixes(p) ==
  /\ stored # runtime /\ patch[p] = AtRest /\ patch'[p].pc = "write"
  /\ \E k \in patch'[p].keys : patch'[p].values[k] # stored[k]

IndexNext ==
  /\ IndexStep
  /\ overtaken' = (overtaken \/ (runtime' # runtime /\ \E j \in Jobs : job'[j].pc = "claim"))
  /\ mixed' = (mixed \/ \E p \in Patches : Mixes(p))

IndexSpec == IndexInit /\ [][IndexNext]_indexVars

\* Jobs go on, and the user looks at the files now and then.
IndexFairness == \A j \in Jobs : WF_indexCore(JobStep(j)) /\ \A x \in Copies : WF_indexCore(Timeout(x))
IndexFairSpec == IndexSpec /\ IndexFairness

-----------------------------------------------------------------------------
\* A file that is ready has vectors, whatever jobs, changes and clones ran across it,
\* unless a call failed or the process stopped (the row of a copy is created ready
\* before its vectors are copied).
ReadyHasChunks ==
  \A x \in Copies :
    row[x].status = "ready" /\ failures = 0 /\ restarts = 0 =>
      row[x].chunks # NoChunks \/ (x = "copy" /\ clone.pc \in {"copy", "trigger"})
                                \/ \E j \in Jobs : job[j].pc = "claim" /\ job[j].file = x

\* No setting was deleted, and none changed on top of a change that had failed.
Orderly == deletions = 0 /\ ~mixed

\* Retrieval takes the chunks with the signature of the settings: they must lie in the
\* space its query is embedded into (no deletions, and no change on top of a failed one).
RetrievesOwnSpace ==
  Orderly => \A x \in Copies : LET c == row[x].chunks IN
    c # NoChunks /\ c.sig = Active => c.space = SpaceOf(runtime)

Quiet ==
  /\ \A p \in Patches : patch[p] = AtRest
  /\ \A j \in Jobs : job[j].pc \notin {"recheck", "stale"}
Undisturbed == Orderly /\ ~overtaken /\ patches <= 1 /\ failures = 0 /\ clone = AtRest

\* When no change is under way and no job is about to withdraw its result, a file that
\* is ready is found by retrieval (one change; no deletions or clones; no call failed, and
\* no job read the settings before the change and claimed its file after it).
ReadyIsSearchable ==
  Quiet /\ Undisturbed =>
    \A x \in Copies : row[x].status = "ready" /\ row[x].chunks # NoChunks
                        => row[x].chunks.sig = Active

\* The safety of the index.
IndexSafety == IndexTypeOK /\ ReadyHasChunks /\ RetrievesOwnSpace /\ ReadyIsSearchable

-----------------------------------------------------------------------------
(* What the safety of the index rests on. *)

Late == {"count", "check", "ready", "recheck", "stale"}

\* A signature stands for one space, the one of the first start for the first.
Names(sig, space) ==
  sig = space \/ (sig = <<FirstModel, Legacy>> /\ space = <<FirstModel, FirstHost>>)
Coherent(s) == Names(s.sig, SpaceOf(s))

\* A job whose vectors are written, a source that is ready and a clone that copies have
\* vectors to rely on; the copy has a row when the clone has written it, and jobs then.
ChunksSound ==
  /\ \A j \in Jobs : /\ job[j] # AtRest => row[job[j].file].status # "absent"
                     /\ job[j].pc \in Late => row[job[j].file].chunks # NoChunks
  /\ row["source"].status # "absent"
  /\ row["source"].status = "ready" => row["source"].chunks # NoChunks
  /\ clone.pc \in {"idle", "create"} => row["copy"].status = "absent"
  /\ clone.pc \in {"create", "copy"} =>
       /\ clone.source.status # "absent"
       /\ clone.source.status = "ready" => row["source"].chunks # NoChunks
  /\ clone.pc = "copy" => clone.source.status = "ready"
  /\ row["copy"].status = "ready" /\ row["copy"].chunks = NoChunks =>
       clone.pc = "copy" \/ failures > 0 \/ restarts > 0

\* One administrator: signatures name the space they stand for, and the process works
\* with the stored settings but between the write and the publication of a change, and
\* after a change that failed; a change of other settings changes none of these.
SettingsSound ==
  /\ Coherent(stored) /\ Coherent(runtime)
  /\ failures = 0 /\ (\A p \in Patches : patch[p].pc \notin {"list", "publish"}) => runtime = stored
  /\ \A p \in Patches :
       /\ patch[p] # AtRest => patches >= 1
       /\ patch[p].pc = "write" =>
            /\ Coherent(Applied(patch[p], stored))
            /\ failures = 0 /\ patch[p].then = "idle" => Applied(patch[p], stored) = runtime
       /\ patch[p].pc \in {"list", "publish"} /\ failures = 0 /\ patch[p].then = "idle" =>
            stored = runtime
       /\ patch[p].pc = "publish" => patch[p].next = stored
       /\ patch[p].pc = "mark" => patch[p].sig = runtime.sig
  /\ \A j \in Jobs : job[j] # AtRest => Coherent(job[j].cfg)
  /\ \A x \in Copies : row[x].chunks # NoChunks => Names(row[x].chunks.sig, row[x].chunks.space)

Outdated(j) == job[j].cfg.sig # Active
Unpublished == patches = 0 \/ \E p \in Patches : patch[p].pc \in {"write", "list", "publish"}

\* Before the change is published every job works for the settings of the process, and
\* a job that does owns its row; the owner's vectors lie under the owner's signature.
JobSound(j) ==
  /\ job[j].pc = "claim" => ~Outdated(j)
  /\ job[j].pc \in {"embed"} \cup Late /\ ~Outdated(j) => Signed(j)
  /\ job[j].pc \in Late /\ Signed(j) => row[job[j].file].chunks.sig = job[j].cfg.sig
  /\ job[j] # AtRest /\ Unpublished => ~Outdated(j)

\* A ready file with vectors of other settings is about to be marked, by the change or
\* by the job that made it ready.
Attended(x) ==
  \/ \E p \in Patches : patch[p].pc \in {"aim", "mark"}
  \/ \E j \in Jobs : /\ job[j].pc \in {"recheck", "stale"} /\ job[j].file = x
                     /\ Signed(j) /\ Outdated(j)

JobsSound ==
  /\ \A j \in Jobs : JobSound(j)
  /\ \A x \in Copies :
       row[x].status = "ready" /\ row[x].chunks.sig # Active => Attended(x)

IndexInvariant == ChunksSound /\ (Orderly => SettingsSound) /\ (Undisturbed => JobsSound)

\* A file does not stay in processing, whatever becomes of its job.
FilesSettle == \A x \in Copies : (row[x].status = "processing") ~> (row[x].status # "processing")
=============================================================================
