----------------------------- MODULE Bootstrap -----------------------------
(***************************************************************************)
(* The bootstrap checkpoint (indexing/bootstrap_checkpoint.py), the state  *)
(* derived from it (bootstrap_snapshot.py, runtime_readiness.py) and the   *)
(* reconciliation with the files on disk (reconciler.py).  Every update of *)
(* the checkpoint loads the file, changes it and replaces it, with no lock *)
(* in between.  The application that calls these functions is outside the  *)
(* repository: here a starting process reconciles and prepares, and        *)
(* workers index files and mark them, one worker at a time per file, as    *)
(* the queue's "already pending" answer (submission.py) provides for.      *)
(***************************************************************************)
EXTENDS Naturals, FiniteSets, Functions

CONSTANTS
  Targets,        \* relative paths
  DocOf,          \* path -> doc id: the path without its suffix
  Jobs,           \* the sets of paths of a worker's task
  BootWorkers,
  Encoders,       \* encoder namespaces
  Exclusions,     \* sets of paths the configuration may exclude
  MaxFileVersion,
  BootBudgets     \* bounds: [edits, jobs, boots, crashes]

\* "none" stands for no path and no encoder.
ASSUME BootstrapAssumption ==
  /\ IsFiniteSet(Targets)
  /\ Jobs \subseteq SUBSET Targets
  /\ "none" \notin Targets \union Encoders

VARIABLES
  files,       \* path -> [present, version]; a file put back keeps its stamp
  documents,   \* the durable index: doc id -> <<path, version>>, or Nothing
  indexedFiles,  \* IndexManifest.indexed_files: doc id -> path
  checkpoint,  \* the checkpoint file, or NoCheckpoint
  boot,        \* the starting process
  worker,      \* worker -> its job
  embedded,    \* history: <<encoder, path>> whose semantic work was done
  overtaken,   \* history: files that changed between being read and marked
  left         \* what remains of the bounds

bootVars == <<files, documents, indexedFiles, checkpoint, boot, worker,
              embedded, overtaken, left>>

DocsOf(paths) == {DocOf[path] : path \in paths}
Docs == DocsOf(Targets)
Nothing == <<"none", 0>>
NoCheckpoint == [generation |-> {}, saved |-> FALSE]
Free0 == [step |-> "idle"]

\* build_file_stamps: mtime and size stand for the version.
Stamps(paths) == [path \in {x \in paths : files[x].present} |-> files[path].version]
Merged(f, g) == [x \in DOMAIN f \union DOMAIN g |-> IF x \in DOMAIN g THEN g[x] ELSE f[x]]
Spent(what) == left' = [left EXCEPT ![what] = @ - 1]

BootstrapInit ==
  /\ files \in [Targets -> {[present |-> TRUE, version |-> 1]}]
  /\ documents = [doc \in Docs |-> Nothing]
  /\ indexedFiles = << >>
  /\ checkpoint = NoCheckpoint
  /\ boot = Free0
  /\ worker = [w \in BootWorkers |-> Free0]
  /\ embedded = {} /\ overtaken = {}
  /\ left \in BootBudgets

-----------------------------------------------------------------------------
(* Files change at any time.                                               *)

EditFile(path) ==
  /\ left.edits > 0 /\ files[path].present /\ files[path].version < MaxFileVersion
  /\ files' = [files EXCEPT ![path].version = @ + 1]
  /\ Spent("edits")
  /\ UNCHANGED <<documents, indexedFiles, checkpoint, boot, worker, embedded, overtaken>>

MoveFile(path) ==
  /\ left.edits > 0
  /\ files' = [files EXCEPT ![path].present = ~@]
  /\ Spent("edits")
  /\ UNCHANGED <<documents, indexedFiles, checkpoint, boot, worker, embedded, overtaken>>

-----------------------------------------------------------------------------
(* A starting process: discovery, reconciliation, the checkpoint.          *)

Discover(excluded) ==
  /\ boot.step = "idle" /\ left.boots > 0
  /\ boot' = [step |-> "discovered", excluded |-> excluded,
              stamps |-> Stamps(Targets \ excluded)]
  /\ Spent("boots")
  /\ UNCHANGED <<files, documents, indexedFiles, checkpoint, worker, embedded, overtaken>>

\* reconcile_indices: entries whose path is excluded now, or whose doc id no
\* discovered file has.
ToRemove(stamps, excluded) ==
  {doc \in DOMAIN indexedFiles : indexedFiles[doc] \in excluded
                                 \/ doc \notin DocsOf(DOMAIN stamps)}

\* The caller removes them from the index and saves the manifest.
Reconcile ==
  /\ boot.step = "discovered"
  /\ LET gone == ToRemove(boot.stamps, boot.excluded) IN
     /\ documents' = [doc \in Docs |-> IF doc \in gone THEN Nothing ELSE documents[doc]]
     /\ indexedFiles' = Restrict(indexedFiles, DOMAIN indexedFiles \ gone)
  /\ boot' = [boot EXCEPT !.step = "reconciled"]
  /\ UNCHANGED <<files, checkpoint, worker, embedded, overtaken, left>>

\* The generation hashes the target paths and the manifest's settings, which
\* stay the same here.
Fresh(stamps) ==
  [saved |-> TRUE, generation |-> DOMAIN stamps, complete |-> DOMAIN stamps = {},
   targets |-> stamps, completed |-> << >>, encoder |-> "none", semantic |-> {},
   availability |-> "none"]

\* Mutant of ValidCompleted: the stamps are not compared.
ValidCompletedByPath(c, stamps) ==
  Restrict(c.completed, DOMAIN c.completed \intersect DOMAIN stamps)

ValidCompleted(c, stamps) ==
  Restrict(c.completed, {path \in DOMAIN c.completed \intersect DOMAIN stamps :
                            c.completed[path] = stamps[path]})

Prepared(c, stamps) ==
  IF ~c.saved \/ c.generation # DOMAIN stamps THEN Fresh(stamps)
  ELSE LET valid == ValidCompleted(c, stamps) IN
       [c EXCEPT !.complete = (Cardinality(DOMAIN valid) = Cardinality(DOMAIN stamps)),
                 !.targets = stamps, !.completed = valid]

LoadToPrepare ==
  /\ boot.step = "reconciled"
  /\ boot' = [step |-> "loaded", stamps |-> boot.stamps, loaded |-> checkpoint]
  /\ UNCHANGED <<files, documents, indexedFiles, checkpoint, worker, embedded,
                 overtaken, left>>

SavePrepared ==
  /\ boot.step = "loaded"
  /\ LET new == Prepared(boot.loaded, boot.stamps) IN
     checkpoint' = IF new = boot.loaded THEN checkpoint ELSE new
  /\ boot' = Free0
  /\ UNCHANGED <<files, documents, indexedFiles, worker, embedded, overtaken, left>>

-----------------------------------------------------------------------------
(* Workers.                                                                *)

Taken == UNION {worker[w].paths : w \in {x \in BootWorkers : worker[x].step # "idle"}}

\* A worker reads the files of its task.
StartJob(w, paths) ==
  /\ worker[w].step = "idle" /\ left.jobs > 0
  /\ paths \intersect Taken = {} /\ \A path \in paths : files[path].present
  /\ worker' = [worker EXCEPT ![w] = [step |-> "read", paths |-> paths,
                                      read |-> Stamps(paths)]]
  /\ Spent("jobs")
  /\ UNCHANGED <<files, documents, indexedFiles, checkpoint, boot, embedded, overtaken>>

\* It makes them durable, in the index and in the manifest.  Two paths with
\* one doc id take each other's place.
IndexFiles(w) ==
  /\ worker[w].step = "read"
  /\ LET paths == worker[w].paths
         docs == DocsOf(paths) IN
     \E owner \in [docs -> paths] :
       /\ \A doc \in docs : DocOf[owner[doc]] = doc
       /\ documents' = [doc \in Docs |-> IF doc \in docs
                          THEN <<owner[doc], worker[w].read[owner[doc]]>>
                          ELSE documents[doc]]
       /\ indexedFiles' = Merged(indexedFiles, owner)
  /\ worker' = [worker EXCEPT ![w].step = "indexed"]
  /\ UNCHANGED <<files, checkpoint, boot, embedded, overtaken, left>>

\* Each update of the checkpoint begins by loading it.
LoadToMark(w) ==
  /\ worker[w].step = "indexed"
  /\ worker' = [worker EXCEPT ![w] = [step |-> "marking", paths |-> @.paths,
                                      read |-> @.read, loaded |-> checkpoint]]
  /\ UNCHANGED <<files, documents, indexedFiles, checkpoint, boot, embedded,
                 overtaken, left>>

\* Mutant of Marked: the files of this call replace those of earlier ones.
MarkedAlone(c, stamps) ==
  LET known == Restrict(stamps, DOMAIN stamps \intersect DOMAIN c.targets)
  IN [c EXCEPT !.targets = Merged(@, known), !.completed = known,
        !.complete = (Cardinality(DOMAIN known) = Cardinality(DOMAIN c.targets))]

Marked(c, stamps) ==
  LET known == Restrict(stamps, DOMAIN stamps \intersect DOMAIN c.targets)
      targets == Merged(c.targets, known)
      completed == Merged(c.completed, known)
  IN [c EXCEPT !.targets = targets, !.completed = completed,
        !.complete = (Cardinality(DOMAIN completed) = Cardinality(DOMAIN targets))]

\* mark_bootstrap_file_completed, mark_bootstrap_files_completed: the stamp is
\* taken now, not when the file was read.
SaveMark(w) ==
  /\ worker[w].step = "marking"
  /\ LET stamps == Stamps(worker[w].paths)
         c == worker[w].loaded
         marks == c.saved /\ Marked(c, stamps) # c
         known == DOMAIN stamps \intersect DOMAIN c.targets IN
     /\ checkpoint' = IF marks THEN Marked(c, stamps) ELSE checkpoint
     /\ overtaken' = IF ~c.saved THEN overtaken
                     ELSE (overtaken \ known)
                          \union {path \in known : stamps[path] # worker[w].read[path]}
  /\ worker' = [worker EXCEPT ![w] = [step |-> "marked", paths |-> @.paths]]
  /\ UNCHANGED <<files, documents, indexedFiles, boot, embedded, left>>

Release(w) ==
  /\ worker[w].step = "marked"
  /\ worker' = [worker EXCEPT ![w] = Free0]
  /\ UNCHANGED <<files, documents, indexedFiles, checkpoint, boot, embedded,
                 overtaken, left>>

\* A worker with its files indexed embeds one of them, and marks that.
Embed(w, encoder, path) ==
  /\ worker[w].step = "marked" /\ path \in worker[w].paths
  /\ embedded' = embedded \union {<<encoder, path>>}
  /\ worker' = [worker EXCEPT ![w] = [step |-> "semantic", paths |-> {path},
                                      encoder |-> encoder, loaded |-> checkpoint]]
  /\ UNCHANGED <<files, documents, indexedFiles, checkpoint, boot, overtaken, left>>

SemanticMarked(c, encoder, path) ==
  IF c.encoder \notin {"none", encoder}
  THEN [c EXCEPT !.encoder = encoder, !.semantic = {path}]
  ELSE IF path \notin DOMAIN c.targets THEN c
  ELSE [c EXCEPT !.encoder = encoder, !.semantic = @ \union {path}]

\* mark_semantic_work_completed.
SaveSemantic(w) ==
  /\ worker[w].step = "semantic"
  /\ LET c == worker[w].loaded
         path == CHOOSE x \in worker[w].paths : TRUE
         new == IF c.saved THEN SemanticMarked(c, worker[w].encoder, path) ELSE c IN
     checkpoint' = IF new = c THEN checkpoint ELSE new
  /\ worker' = [worker EXCEPT ![w] = Free0]
  /\ UNCHANGED <<files, documents, indexedFiles, boot, embedded, overtaken, left>>

-----------------------------------------------------------------------------
(* What a reader derives.                                                  *)

\* compute_bootstrap_completed_paths
CompletedPaths(c, stamps) ==
  IF ~c.saved THEN {}
  ELSE {path \in DOMAIN c.completed \intersect DOMAIN stamps :
          /\ c.completed[path] = stamps[path]
          /\ DocOf[path] \in DOMAIN indexedFiles
          /\ indexedFiles[DocOf[path]] = path}

\* semantic_tier_from_progress
Tier(count, total) == IF total = 0 THEN "available"
                      ELSE IF count >= total THEN "complete" ELSE "backfilling"

\* derive_bootstrap_readiness_snapshot, without a rebuild pending.
Status(c, stamps, loaded) ==
  LET total == Cardinality(DOMAIN stamps)
      durable == Cardinality(CompletedPaths(c, stamps))
      most == IF loaded > durable THEN loaded ELSE durable
      count == IF total > 0 /\ most > total THEN total ELSE most
  IN IF total = 0 THEN "ready"
     ELSE IF count = 0 THEN "none"
     ELSE IF count < total THEN "partial" ELSE "ready"

\* publish_bootstrap_availability, of the tier an indexing worker computes.
LoadToPublish(w) ==
  /\ worker[w].step = "marked"
  /\ worker' = [worker EXCEPT ![w] = [step |-> "publishing", paths |-> {},
        loaded |-> checkpoint,
        tier |-> Tier(Cardinality(CompletedPaths(checkpoint, Stamps(Targets))),
                      Cardinality(DOMAIN Stamps(Targets)))]]
  /\ UNCHANGED <<files, documents, indexedFiles, checkpoint, boot, embedded,
                 overtaken, left>>

SavePublished(w) ==
  /\ worker[w].step = "publishing"
  /\ checkpoint' = IF worker[w].loaded.saved
                      /\ worker[w].loaded.availability # worker[w].tier
                   THEN [worker[w].loaded EXCEPT !.availability = worker[w].tier]
                   ELSE checkpoint
  /\ worker' = [worker EXCEPT ![w] = Free0]
  /\ UNCHANGED <<files, documents, indexedFiles, boot, embedded, overtaken, left>>

-----------------------------------------------------------------------------
CrashWorker(w) ==
  /\ worker[w].step # "idle" /\ left.crashes > 0
  /\ worker' = [worker EXCEPT ![w] = Free0]
  /\ Spent("crashes")
  /\ UNCHANGED <<files, documents, indexedFiles, checkpoint, boot, embedded, overtaken>>

CrashBoot ==
  /\ boot.step # "idle" /\ left.crashes > 0
  /\ boot' = Free0
  /\ Spent("crashes")
  /\ UNCHANGED <<files, documents, indexedFiles, checkpoint, worker, embedded, overtaken>>

WorkerStep(w) ==
  \/ IndexFiles(w) \/ LoadToMark(w) \/ SaveMark(w) \/ Release(w)
  \/ \E encoder \in Encoders, path \in Targets : Embed(w, encoder, path)
  \/ SaveSemantic(w) \/ LoadToPublish(w) \/ SavePublished(w)
  \/ CrashWorker(w)

BootstrapNext ==
  \/ \E path \in Targets : EditFile(path) \/ MoveFile(path)
  \/ \E excluded \in Exclusions : Discover(excluded)
  \/ Reconcile \/ LoadToPrepare \/ SavePrepared \/ CrashBoot
  \/ \E w \in BootWorkers, paths \in Jobs : StartJob(w, paths)
  \/ \E w \in BootWorkers : WorkerStep(w)

BootstrapSpec == BootstrapInit /\ [][BootstrapNext]_bootVars

-----------------------------------------------------------------------------
Now == Stamps(Targets)

(* A file the readiness snapshot counts as durably completed is indexed at   *)
(* the version that is on disk, unless it changed between being read and     *)
(* being marked.  Lost updates, crashes, a checkpoint written over a newer   *)
(* one and files moved away and back only make files count less.             *)
CountedIsIndexed ==
  \A path \in CompletedPaths(checkpoint, Now) \ overtaken :
    documents[DocOf[path]] = <<path, files[path].version>>

(* A saved checkpoint agrees with itself: what is completed is a target, at  *)
(* the target's stamp, and it is complete when no target is missing.         *)
CheckpointAgrees ==
  checkpoint.saved =>
    /\ \A path \in DOMAIN checkpoint.completed :
         path \in DOMAIN checkpoint.targets
         /\ checkpoint.completed[path] = checkpoint.targets[path]
    /\ checkpoint.complete <=> DOMAIN checkpoint.completed = DOMAIN checkpoint.targets

(* Semantic work is reported complete only for files embedded with the       *)
(* encoder the checkpoint names.                                             *)
SemanticMarksHonest ==
  checkpoint.saved =>
    \A path \in checkpoint.semantic : <<checkpoint.encoder, path>> \in embedded

(* A status of "ready" means that every file on disk has a document, as long *)
(* as the loaded count holds no document of a file that is gone.             *)
ReadyIsIndexed ==
  LET loaded == Cardinality({doc \in Docs : documents[doc][1] \in DOMAIN Now})
  IN Status(checkpoint, Now, loaded) = "ready" =>
       \A path \in DOMAIN Now : path \in overtaken \/ documents[DocOf[path]][1] = path

(* The four together: what bootstrap reports, the index bears out.           *)
BootstrapHonest ==
  CountedIsIndexed /\ CheckpointAgrees /\ SemanticMarksHonest /\ ReadyIsIndexed

\* A worker or the starting process saves what it made of an older checkpoint.
Overwrites ==
  \/ boot.step = "loaded" /\ boot'.step = "idle" /\ boot.loaded # checkpoint
  \/ \E w \in BootWorkers : /\ worker[w].step \in {"marking", "semantic", "publishing"}
                            /\ worker'[w] # worker[w] /\ worker[w].loaded # checkpoint

(* A completion that was recorded stays recorded while the file keeps its    *)
(* stamp and the targets stay, unless somebody saves a checkpoint over one   *)
(* it has not read.                                                          *)
CompletionsStay ==
  [][(checkpoint.saved /\ ~Overwrites) =>
        \A path \in DOMAIN checkpoint.completed :
          \/ path \in DOMAIN checkpoint'.completed
          \/ checkpoint'.generation # checkpoint.generation
          \/ checkpoint'.targets[path] # checkpoint.completed[path]]_bootVars
=============================================================================
