-------------------------- MODULE BootstrapProofs --------------------------
(***************************************************************************)
(* What the bootstrap checkpoint reports is borne out by the index, and    *)
(* completions stay; and embedding work that ends well is whole: proved    *)
(* for any files, workers, encoders and tasks, texts and batches.          *)
(***************************************************************************)
EXTENDS Bootstrap, SemanticWork, FiniteSetTheorems, TLAPS

USE BootstrapAssumption DEF BootstrapAssumption

-----------------------------------------------------------------------------
(* The inductive invariant                                                 *)

Stamped == UNION {[S -> Nat] : S \in SUBSET Targets}
Tiers == {"none", "available", "complete", "backfilling"}

\* The checkpoint, and the images of it that workers have loaded.
SavedImages ==
  [saved : {TRUE}, generation : SUBSET Targets, complete : BOOLEAN, targets : Stamped,
   completed : Stamped, encoder : Encoders \cup {"none"}, semantic : SUBSET Targets,
   availability : Tiers]
Images == SavedImages \cup {NoCheckpoint}

JobStates ==
  {Free0}
  \cup [step : {"read", "indexed"}, paths : SUBSET Targets, read : Stamped]
  \cup [step : {"marking"}, paths : SUBSET Targets, read : Stamped, loaded : Images]
  \cup [step : {"marked"}, paths : SUBSET Targets]
  \cup [step : {"semantic"}, paths : SUBSET Targets, encoder : Encoders, loaded : Images]
  \cup [step : {"publishing"}, paths : {{}}, loaded : Images, tier : Tiers]

BootStates ==
  {Free0}
  \cup [step : {"discovered", "reconciled"}, excluded : Exclusions, stamps : Stamped]
  \cup [step : {"loaded"}, stamps : Stamped, loaded : Images]

BootTypes ==
  /\ files \in [Targets -> [present : BOOLEAN, version : Nat]]
  /\ checkpoint \in Images
  /\ boot \in BootStates
  /\ worker \in [BootWorkers -> JobStates]

\* A document is of a path with its doc id.
DocumentOwned(doc) ==
  documents[doc] = Nothing
  \/ \E path \in Targets : documents[doc][1] = path /\ DocOf[path] = doc

Owns(path) == DocOf[path] \in DOMAIN indexedFiles /\ indexedFiles[DocOf[path]] = path

\* A worker that has read files and not marked them yet.
Holding == {"read", "indexed", "marking"}
Holds(w, path) == worker[w].step \in Holding /\ path \in worker[w].paths

JobSound(w) ==
  /\ worker[w].step \in Holding =>
       /\ worker[w].read \in [worker[w].paths -> Nat]
       /\ \A path \in worker[w].paths : worker[w].read[path] <= files[path].version
  /\ worker[w].step \in {"indexed", "marking"} =>
       \A path \in worker[w].paths :
         Owns(path) => documents[DocOf[path]] = <<path, worker[w].read[path]>>
  /\ worker[w].step = "semantic" =>
       /\ worker[w].paths # {}
       /\ \A path \in worker[w].paths : <<worker[w].encoder, path>> \in embedded

\* No two workers have one file.
Apart ==
  \A w, x \in BootWorkers :
    (w # x /\ worker[w].step # "idle" /\ worker[x].step # "idle") =>
      worker[w].paths \cap worker[x].paths = {}

\* An image agrees with itself.
Agrees(c) ==
  /\ DOMAIN c.targets = c.generation
  /\ DOMAIN c.completed \subseteq DOMAIN c.targets
  /\ \A path \in DOMAIN c.completed : c.completed[path] = c.targets[path]
  /\ c.complete <=> DOMAIN c.completed = DOMAIN c.targets

\* What an image counts as completed is no newer than the file, and no newer
\* than what a worker that is still to mark the file has read; if it is the
\* file as it stands, the index has it.
Explained(c) ==
  \A path \in DOMAIN c.completed :
    /\ c.completed[path] <= files[path].version
    /\ (c.completed[path] = files[path].version /\ path \notin overtaken /\ Owns(path)) =>
         documents[DocOf[path]] = <<path, files[path].version>>
    /\ \A w \in BootWorkers : Holds(w, path) => c.completed[path] <= worker[w].read[path]

SemanticDone(c) ==
  /\ \A path \in c.semantic : <<c.encoder, path>> \in embedded
  /\ c.encoder = "none" => c.semantic = {}

Good(c) == c.saved => Agrees(c) /\ Explained(c) /\ SemanticDone(c)

Loading == {"marking", "semantic", "publishing"}

InPlay(c) ==
  \/ c = checkpoint
  \/ boot.step = "loaded" /\ c = boot.loaded
  \/ \E w \in BootWorkers : worker[w].step \in Loading /\ c = worker[w].loaded

IInv ==
  /\ BootTypes
  /\ \A doc \in Docs : DocumentOwned(doc)
  /\ \A w \in BootWorkers : JobSound(w)
  /\ Apart
  /\ \A c \in Images : InPlay(c) => Good(c)

-----------------------------------------------------------------------------
(* Stamps and images                                                       *)

LEMMA StampedIs ==
  ASSUME NEW s
  PROVE  s \in Stamped <=> /\ s \in [DOMAIN s -> Nat]
                           /\ DOMAIN s \in SUBSET Targets
  BY DEF Stamped

LEMMA StampsTyped ==
  ASSUME BootTypes, NEW paths \in SUBSET Targets
  PROVE  /\ Stamps(paths) \in Stamped
         /\ DOMAIN Stamps(paths) = {path \in paths : files[path].present}
         /\ \A path \in DOMAIN Stamps(paths) : Stamps(paths)[path] = files[path].version
<1>1. DOMAIN Stamps(paths) = {path \in paths : files[path].present}
      /\ \A path \in DOMAIN Stamps(paths) : Stamps(paths)[path] = files[path].version
  BY DEF Stamps
<1>2. Stamps(paths) \in [DOMAIN Stamps(paths) -> Nat]
  BY <1>1 DEF Stamps, BootTypes
<1> QED BY <1>1, <1>2, StampedIs

\* Two finite sets, one in the other, are equal when they are of one size.
LEMMA SameSize ==
  ASSUME NEW S \in SUBSET Targets, NEW T \in SUBSET S
  PROVE  Cardinality(T) = Cardinality(S) <=> T = S
<1>1. IsFiniteSet(S)
  BY FS_Subset
<1> QED BY <1>1, FS_Subset

LEMMA RestrictedStamps ==
  ASSUME NEW s \in Stamped, NEW D \in SUBSET DOMAIN s
  PROVE  Restrict(s, D) \in Stamped /\ DOMAIN Restrict(s, D) = D
         /\ \A path \in D : Restrict(s, D)[path] = s[path]
<1>1. s \in [DOMAIN s -> Nat] /\ DOMAIN s \in SUBSET Targets
  BY StampedIs
<1>2. Restrict(s, D) \in [D -> Nat] /\ DOMAIN Restrict(s, D) = D
      /\ \A path \in D : Restrict(s, D)[path] = s[path]
  BY <1>1 DEF Restrict
<1> QED BY <1>1, <1>2, StampedIs

LEMMA MergedStamps ==
  ASSUME NEW f \in Stamped, NEW g \in Stamped
  PROVE  /\ Merged(f, g) \in Stamped
         /\ DOMAIN Merged(f, g) = DOMAIN f \cup DOMAIN g
         /\ \A path \in DOMAIN f \cup DOMAIN g :
              Merged(f, g)[path] = IF path \in DOMAIN g THEN g[path] ELSE f[path]
<1>1. f \in [DOMAIN f -> Nat] /\ DOMAIN f \in SUBSET Targets
      /\ g \in [DOMAIN g -> Nat] /\ DOMAIN g \in SUBSET Targets
  BY StampedIs
<1>2. /\ DOMAIN Merged(f, g) = DOMAIN f \cup DOMAIN g
      /\ \A path \in DOMAIN f \cup DOMAIN g :
           Merged(f, g)[path] = IF path \in DOMAIN g THEN g[path] ELSE f[path]
  BY DEF Merged
<1>3. Merged(f, g) \in [DOMAIN f \cup DOMAIN g -> Nat]
  BY <1>1 DEF Merged
<1> QED BY <1>1, <1>2, <1>3, StampedIs

\* An image with another progress.
Changed(c, targets, completed, complete) ==
  [c EXCEPT !.targets = targets, !.completed = completed, !.complete = complete]

LEMMA ChangedIs ==
  ASSUME NEW c \in SavedImages, NEW t \in Stamped, NEW d \in Stamped, NEW b \in BOOLEAN
  PROVE  /\ Changed(c, t, d, b) \in SavedImages
         /\ Changed(c, t, d, b).targets = t /\ Changed(c, t, d, b).completed = d
         /\ Changed(c, t, d, b).complete = b
         /\ Changed(c, t, d, b).generation = c.generation
         /\ Changed(c, t, d, b).encoder = c.encoder
         /\ Changed(c, t, d, b).semantic = c.semantic
  BY DEF SavedImages, Changed

\* Marking files in an image.
LEMMA MarkedIs ==
  ASSUME NEW c \in SavedImages, Agrees(c), NEW s \in Stamped
  PROVE  /\ Marked(c, s) \in SavedImages /\ Agrees(Marked(c, s))
         /\ Marked(c, s).encoder = c.encoder /\ Marked(c, s).semantic = c.semantic
         /\ Marked(c, s).generation = c.generation
         /\ DOMAIN Marked(c, s).completed = DOMAIN c.completed \cup (DOMAIN s \cap DOMAIN c.targets)
         /\ \A path \in DOMAIN Marked(c, s).completed :
              Marked(c, s).completed[path] =
                IF path \in DOMAIN s \cap DOMAIN c.targets THEN s[path] ELSE c.completed[path]
<1> DEFINE known == Restrict(s, DOMAIN s \cap DOMAIN c.targets)
           targets == Merged(c.targets, known)
           completed == Merged(c.completed, known)
           complete == (Cardinality(DOMAIN completed) = Cardinality(DOMAIN targets))
<1>1. c.targets \in Stamped /\ c.completed \in Stamped /\ c.generation \in SUBSET Targets
  BY DEF SavedImages
<1>2. known \in Stamped /\ DOMAIN known = DOMAIN s \cap DOMAIN c.targets
      /\ \A path \in DOMAIN known : known[path] = s[path]
  BY RestrictedStamps
<1> HIDE DEF known
<1>3. /\ targets \in Stamped /\ DOMAIN targets = DOMAIN c.targets
      /\ \A path \in DOMAIN targets :
           targets[path] = IF path \in DOMAIN known THEN known[path] ELSE c.targets[path]
  BY <1>1, <1>2, MergedStamps, ZenonT(60)
<1>4. /\ completed \in Stamped /\ DOMAIN completed = DOMAIN c.completed \cup DOMAIN known
      /\ \A path \in DOMAIN completed :
           completed[path] = IF path \in DOMAIN known THEN known[path] ELSE c.completed[path]
  <2> DEFINE old == c.completed
  <2>1. old \in Stamped
    BY <1>1
  <2> HIDE DEF old
  <2>2. /\ Merged(old, known) \in Stamped
        /\ DOMAIN Merged(old, known) = DOMAIN old \cup DOMAIN known
        /\ \A path \in DOMAIN old \cup DOMAIN known :
             Merged(old, known)[path] = IF path \in DOMAIN known THEN known[path] ELSE old[path]
    BY <2>1, <1>2, MergedStamps
  <2> QED BY <2>2 DEF old
<1>5. Marked(c, s) = [c EXCEPT !.targets = targets, !.completed = completed,
                               !.complete = complete]
  BY DEF Marked, known
<1> HIDE DEF targets, completed
<1>6. complete <=> DOMAIN completed = DOMAIN targets
  <2>1. DOMAIN completed \in SUBSET DOMAIN targets /\ DOMAIN targets \in SUBSET Targets
    BY <1>2, <1>3, <1>4, StampedIs DEF Agrees
  <2> QED BY <2>1, SameSize
<1>7. PICK b \in BOOLEAN : b = complete
  OBVIOUS
<1>8. Marked(c, s) = Changed(c, targets, completed, b)
  BY <1>5, <1>7 DEF Changed
<1>9. b <=> DOMAIN completed = DOMAIN targets
  BY <1>6, <1>7
<1> HIDE DEF complete
<1>10. /\ Marked(c, s) \in SavedImages
       /\ Marked(c, s).targets = targets /\ Marked(c, s).completed = completed
       /\ Marked(c, s).complete = b /\ Marked(c, s).generation = c.generation
       /\ Marked(c, s).encoder = c.encoder /\ Marked(c, s).semantic = c.semantic
  <2>1. targets \in Stamped /\ completed \in Stamped
    BY <1>3, <1>4
  <2> QED BY <2>1, <1>8, ChangedIs
<1>11. Agrees(Marked(c, s))
  BY <1>2, <1>3, <1>4, <1>9, <1>10 DEF Agrees
<1> QED BY <1>2, <1>4, <1>10, <1>11

\* Preparing an image for what was discovered.
LEMMA PreparedIs ==
  ASSUME NEW c \in Images, c.saved => Agrees(c), NEW s \in Stamped
  PROVE  /\ Prepared(c, s) \in SavedImages /\ Agrees(Prepared(c, s))
         /\ \A path \in DOMAIN Prepared(c, s).completed :
              /\ c.saved /\ path \in DOMAIN c.completed
              /\ Prepared(c, s).completed[path] = c.completed[path]
         /\ Prepared(c, s).semantic # {} =>
              /\ c.saved /\ Prepared(c, s).semantic = c.semantic
              /\ Prepared(c, s).encoder = c.encoder
         /\ Prepared(c, s).targets = s /\ Prepared(c, s).generation = DOMAIN s
         /\ (c.saved /\ c.generation = DOMAIN s) =>
              \A path \in DOMAIN c.completed :
                c.completed[path] = s[path] => path \in DOMAIN Prepared(c, s).completed
<1>0. s \in [DOMAIN s -> Nat] /\ DOMAIN s \in SUBSET Targets
  BY StampedIs
<1>1. CASE ~c.saved \/ c.generation # DOMAIN s
  <2>1. Prepared(c, s) = Fresh(s)
    BY <1>1 DEF Prepared
  <2>2. << >> \in Stamped /\ DOMAIN << >> = {}
    <3>1. DOMAIN << >> = {} /\ << >> \in [{} -> Nat]
      OBVIOUS
    <3> QED BY <3>1, StampedIs
  <2> DEFINE none == << >>
  <2>3. none \in Stamped /\ DOMAIN none = {}
    BY <2>2
  <2>4. Fresh(s) = [saved |-> TRUE, generation |-> DOMAIN s, complete |-> DOMAIN s = {},
                    targets |-> s, completed |-> none, encoder |-> "none", semantic |-> {},
                    availability |-> "none"]
    BY DEF Fresh
  <2> HIDE DEF none
  <2>5. (DOMAIN s = {}) \in BOOLEAN
    OBVIOUS
  <2>6. Fresh(s) \in SavedImages
    BY <1>0, <2>3, <2>4, <2>5 DEF SavedImages, Tiers
  <2>7. /\ Fresh(s).targets = s /\ Fresh(s).generation = DOMAIN s
        /\ DOMAIN Fresh(s).completed = {} /\ Fresh(s).semantic = {}
    BY <2>3, <2>4
  <2>8. Fresh(s).complete = (DOMAIN s = {})
    BY <2>4
  <2> QED BY <1>1, <2>1, <2>6, <2>7, <2>8 DEF Agrees
<1>2. CASE c.saved /\ c.generation = DOMAIN s
  <2> DEFINE valid == ValidCompleted(c, s)
             complete == (Cardinality(DOMAIN valid) = Cardinality(DOMAIN s))
  <2>1. c \in SavedImages /\ c.completed \in Stamped
    <3>1. NoCheckpoint.saved = FALSE
      BY DEF NoCheckpoint
    <3>2. c # NoCheckpoint
      BY <1>2, <3>1
    <3>3. c \in SavedImages
      BY <3>2 DEF Images
    <3> QED BY <3>3 DEF SavedImages
  <2>2. /\ valid \in Stamped
        /\ DOMAIN valid = {path \in DOMAIN c.completed \cap DOMAIN s : c.completed[path] = s[path]}
        /\ \A path \in DOMAIN valid : valid[path] = c.completed[path]
    BY <2>1, RestrictedStamps DEF ValidCompleted
  <2>3. Prepared(c, s) = [c EXCEPT !.complete = complete, !.targets = s, !.completed = valid]
    BY <1>2 DEF Prepared
  <2> HIDE DEF valid
  <2>4. PICK b \in BOOLEAN : b = complete /\ (b <=> DOMAIN valid = DOMAIN s)
    BY <1>0, <2>2, SameSize
  <2> HIDE DEF complete
  <2>5. /\ Prepared(c, s) \in SavedImages
        /\ Prepared(c, s).targets = s /\ Prepared(c, s).completed = valid
        /\ Prepared(c, s).complete = b /\ Prepared(c, s).generation = c.generation
        /\ Prepared(c, s).encoder = c.encoder /\ Prepared(c, s).semantic = c.semantic
    <3>1. Prepared(c, s) = Changed(c, s, valid, b)
      BY <2>1, <2>3, <2>4 DEF complete, Changed, SavedImages
    <3>2. c \in SavedImages /\ valid \in Stamped
      BY <2>1, <2>2
    <3> QED BY <3>1, <3>2, ChangedIs
  <2>6. Agrees(Prepared(c, s))
    BY <1>2, <2>2, <2>4, <2>5 DEF Agrees
  <2>7. DOMAIN c.completed \subseteq DOMAIN s
    BY <1>2 DEF Agrees
  <2> QED BY <1>2, <2>2, <2>5, <2>6, <2>7
<1> QED BY <1>1, <1>2

-----------------------------------------------------------------------------
(* Lemmas about the states                                                 *)

\* What the fields of a job are.
LEMMA JobIs ==
  ASSUME BootTypes, NEW w \in BootWorkers
  PROVE  /\ worker[w].step \in {"idle", "read", "indexed", "marking", "marked", "semantic",
                                "publishing"}
         /\ worker[w].step # "idle" => worker[w].paths \in SUBSET Targets
         /\ worker[w].step \in Holding => worker[w].read \in Stamped
         /\ worker[w].step \in Loading => worker[w].loaded \in Images
         /\ worker[w].step = "semantic" => worker[w].encoder \in Encoders
         /\ worker[w].step = "publishing" => worker[w].tier \in Tiers
<1>1. worker[w] \in JobStates
  BY DEF BootTypes
<1> QED BY <1>1 DEF JobStates, Free0, Holding, Loading

\* What the fields of the starting process are.
LEMMA BootIs ==
  ASSUME BootTypes
  PROVE  /\ boot.step \in {"idle", "discovered", "reconciled", "loaded"}
         /\ boot.step # "idle" => boot.stamps \in Stamped
         /\ boot.step \in {"discovered", "reconciled"} => boot.excluded \in Exclusions
         /\ boot.step = "loaded" => boot.loaded \in Images
  BY DEF BootTypes, BootStates, Free0

\* A saved image has the fields of one.
LEMMA SavedIs ==
  ASSUME NEW c \in Images, c.saved
  PROVE  c \in SavedImages
<1>1. NoCheckpoint.saved = FALSE
  BY DEF NoCheckpoint
<1>2. c # NoCheckpoint
  BY <1>1
<1> QED BY <1>2 DEF Images

\* An image stays good while files and documents stay and nobody reads files.
LEMMA GoodKept ==
  ASSUME NEW c, Good(c), UNCHANGED <<files, documents, indexedFiles, overtaken>>,
         embedded \subseteq embedded',
         \A x \in BootWorkers : \A path :
           Holds(x, path)' => /\ Holds(x, path)
                              /\ worker'[x].read[path] = worker[x].read[path]
  PROVE  Good(c)'
<1> SUFFICES ASSUME c.saved
             PROVE  Explained(c)' /\ SemanticDone(c)'
  BY DEF Good, Agrees
<1>1. Explained(c) /\ SemanticDone(c)
  BY DEF Good
<1>2. Explained(c)'
  <2> SUFFICES ASSUME NEW path \in DOMAIN c.completed
               PROVE  /\ c.completed[path] <= files[path].version
                      /\ (c.completed[path] = files[path].version /\ path \notin overtaken
                          /\ Owns(path)') =>
                            documents[DocOf[path]] = <<path, files[path].version>>
                      /\ \A w \in BootWorkers :
                           Holds(w, path)' => c.completed[path] <= worker'[w].read[path]
    BY DEF Explained
  <2>1. Owns(path)' <=> Owns(path)
    BY DEF Owns
  <2> QED BY <1>1, <2>1 DEF Explained
<1>3. SemanticDone(c)'
  BY <1>1 DEF SemanticDone
<1> QED BY <1>2, <1>3

\* A worker goes on, and may save an image and load the one that is there.
LEMMA WorkerMoves ==
  ASSUME IInv, NEW w \in BootWorkers, NEW job \in JobStates,
         worker' = [worker EXCEPT ![w] = job],
         UNCHANGED <<files, documents, indexedFiles, boot>>,
         embedded \subseteq embedded',
         NEW new \in Images, checkpoint' = new, Good(new)',
         \A c \in Images : Good(c) => Good(c)',
         job.step # "idle" => worker[w].step # "idle" /\ job.paths \subseteq worker[w].paths,
         job.step \in Holding => /\ worker[w].step \in {"indexed", "marking"}
                                 /\ job.step \in {"indexed", "marking"}
                                 /\ job.paths = worker[w].paths /\ job.read = worker[w].read,
         job.step = "semantic" => /\ job.paths # {}
                                  /\ \A path \in job.paths : <<job.encoder, path>> \in embedded',
         job.step \in Loading => job.loaded = checkpoint
  PROVE  IInv'
<1>1. worker'[w] = job /\ \A x \in BootWorkers : x # w => worker'[x] = worker[x]
  BY DEF IInv, BootTypes
<1>2. BootTypes'
  BY DEF IInv, BootTypes
<1>3. \A doc \in Docs : DocumentOwned(doc)'
  BY DEF IInv, DocumentOwned
<1>4. \A x \in BootWorkers : JobSound(x)'
  <2> SUFFICES ASSUME NEW x \in BootWorkers
               PROVE  JobSound(x)'
    OBVIOUS
  <2>1. \A path : Owns(path)' <=> Owns(path)
    BY DEF Owns
  <2>2. CASE x # w
    BY <2>1, <2>2, <1>1 DEF IInv, JobSound
  <2>3. CASE x = w
    <3>1. job.step \in Holding => (JobSound(w) /\ worker[w].step \in Holding)
      BY DEF IInv, Holding
    <3> QED BY <2>1, <2>3, <3>1, <1>1 DEF JobSound, Holding
  <2> QED BY <2>2, <2>3
<1>5. Apart'
  BY <1>1 DEF IInv, Apart
<1>6. ASSUME NEW c \in Images, InPlay(c)'
      PROVE  Good(c)'
  <2>1. CASE c = new
    BY <2>1
  <2>2. CASE c # new
    <3>1. InPlay(c)
      BY <1>6, <2>2, <1>1 DEF InPlay
    <3> QED BY <3>1 DEF IInv
  <2> QED BY <2>1, <2>2
<1> QED BY <1>2, <1>3, <1>4, <1>5, <1>6 DEF IInv

\* The starting process goes on, and may save an image or load it.
LEMMA BootMoves ==
  ASSUME IInv, UNCHANGED <<files, worker, embedded, overtaken>>,
         boot' \in BootStates, boot'.step = "loaded" => boot'.loaded = checkpoint,
         \A doc \in Docs : DocumentOwned(doc)',
         \A w \in BootWorkers : JobSound(w)',
         NEW new \in Images, checkpoint' = new, Good(new)',
         \A c \in Images : Good(c) => Good(c)'
  PROVE  IInv'
<1>1. BootTypes' /\ Apart'
  BY DEF IInv, BootTypes, Apart
<1>2. ASSUME NEW c \in Images, InPlay(c)'
      PROVE  Good(c)'
  <2>1. CASE c = new
    BY <2>1
  <2>2. CASE c # new
    <3>1. InPlay(c)
      BY <1>2, <2>2 DEF InPlay
    <3> QED BY <3>1 DEF IInv
  <2> QED BY <2>1, <2>2
<1> QED BY <1>1, <1>2 DEF IInv

-----------------------------------------------------------------------------
(* Initial states and steps                                                *)

LEMMA InitIInv ==
  BootstrapInit => IInv
<1> SUFFICES ASSUME BootstrapInit
             PROVE  IInv
  OBVIOUS
<1> USE DEF BootstrapInit
<1>1. BootTypes
  <2>1. files \in [Targets -> [present : BOOLEAN, version : Nat]]
    <3>1. [present |-> TRUE, version |-> 1] \in [present : BOOLEAN, version : Nat]
      OBVIOUS
    <3>2. PICK file \in [present : BOOLEAN, version : Nat] :
            file = [present |-> TRUE, version |-> 1]
      BY <3>1
    <3>3. files \in [Targets -> {file}]
      BY <3>2
    <3> QED BY <3>3
  <2>2. checkpoint \in Images /\ boot \in BootStates
    BY DEF BootStates, Images
  <2>3. worker \in [BootWorkers -> JobStates]
    <3>1. Free0 \in JobStates
      BY DEF JobStates
    <3> QED BY <3>1
  <2> QED BY <2>1, <2>2, <2>3 DEF BootTypes
<1>2. \A doc \in Docs : DocumentOwned(doc)
  BY DEF DocumentOwned
<1>3. \A w \in BootWorkers : worker[w].step = "idle"
  BY DEF Free0
<1>4. boot.step = "idle"
  BY DEF Free0
<1>5. (\A w \in BootWorkers : JobSound(w)) /\ Apart
  BY <1>3 DEF JobSound, Apart, Holding
<1>6. \A c \in Images : InPlay(c) => Good(c)
  <2>1. ~checkpoint.saved
    BY DEF NoCheckpoint
  <2> QED BY <2>1, <1>3, <1>4 DEF InPlay, Good, Loading
<1> QED BY <1>1, <1>2, <1>5, <1>6 DEF IInv

\* A file is edited, moved away or put back.
LEMMA FilesKeep ==
  ASSUME IInv, NEW path \in Targets, EditFile(path) \/ MoveFile(path)
  PROVE  IInv'
<1>1. UNCHANGED <<documents, indexedFiles, checkpoint, boot, worker, embedded, overtaken>>
  BY DEF EditFile, MoveFile
<1>2. /\ files' \in [Targets -> [present : BOOLEAN, version : Nat]]
      /\ \A other \in Targets : files'[other].version >= files[other].version
  <2>1. files \in [Targets -> [present : BOOLEAN, version : Nat]]
    BY DEF IInv, BootTypes
  <2>2. PICK file \in [present : BOOLEAN, version : Nat] :
          files' = [files EXCEPT ![path] = file] /\ file.version >= files[path].version
    <3>1. CASE EditFile(path)
      <4> DEFINE file == [files[path] EXCEPT !.version = @ + 1]
      <4>1. file \in [present : BOOLEAN, version : Nat] /\ file.version >= files[path].version
        BY <2>1
      <4>2. files' = [files EXCEPT ![path] = file]
        BY <3>1, <2>1 DEF EditFile
      <4> QED BY <4>1, <4>2
    <3>2. CASE MoveFile(path)
      <4>1. files[path].version \in Nat /\ files[path] \in [present : BOOLEAN, version : Nat]
        BY <2>1
      <4> DEFINE file == [files[path] EXCEPT !.present = ~@]
      <4>3. file \in [present : BOOLEAN, version : Nat]
        BY <4>1
      <4>4. file.version = files[path].version
        BY <4>1
      <4>2. files' = [files EXCEPT ![path] = file]
        BY <3>2, <2>1 DEF MoveFile
      <4> HIDE DEF file
      <4>5. file.version >= files[path].version
        BY <4>1, <4>4
      <4> QED BY <4>2, <4>3, <4>5
    <3> QED BY <3>1, <3>2
  <2> QED BY <2>1, <2>2
<1>3. \A other \in Targets : /\ files'[other].version >= files[other].version
                             /\ files[other].version \in Nat /\ files'[other].version \in Nat
  BY <1>2 DEF IInv, BootTypes
<1>4. BootTypes'
  BY <1>1, <1>2 DEF IInv, BootTypes
<1>5. \A w \in BootWorkers : JobSound(w)'
  <2> SUFFICES ASSUME NEW w \in BootWorkers
               PROVE  JobSound(w)'
    OBVIOUS
  <2>1. JobSound(w) /\ (worker[w].step # "idle" => worker[w].paths \in SUBSET Targets)
    BY JobIs DEF IInv
  <2>2. worker[w].step \in Holding =>
          \A other \in worker[w].paths : worker[w].read[other] <= files'[other].version
    <3> SUFFICES ASSUME worker[w].step \in Holding, NEW other \in worker[w].paths
                 PROVE  worker[w].read[other] <= files'[other].version
      OBVIOUS
    <3>1. other \in Targets /\ worker[w].read[other] \in Nat
          /\ worker[w].read[other] <= files[other].version
      BY <2>1 DEF JobSound, Holding
    <3> QED BY <3>1, <1>3
  <2> QED BY <1>1, <2>1, <2>2 DEF JobSound, Owns
<1>6. ASSUME NEW c \in Images, Good(c)
      PROVE  Good(c)'
  <2> SUFFICES ASSUME c.saved
               PROVE  Explained(c)' /\ SemanticDone(c)'
    BY <1>6 DEF Good, Agrees
  <2>1. Explained(c) /\ SemanticDone(c) /\ c.completed \in Stamped
    BY <1>6, SavedIs DEF Good, SavedImages
  <2>2. Explained(c)'
    <3> SUFFICES ASSUME NEW other \in DOMAIN c.completed
                 PROVE  /\ c.completed[other] <= files'[other].version
                        /\ c.completed[other] = files'[other].version =>
                             c.completed[other] = files[other].version
      BY <1>1, <2>1 DEF Explained, Owns, Holds
    <3>1. other \in Targets /\ c.completed[other] \in Nat
          /\ c.completed[other] <= files[other].version
      BY <2>1, StampedIs DEF Explained
    <3> QED BY <3>1, <1>3
  <2>3. SemanticDone(c)'
    BY <1>1, <2>1 DEF SemanticDone
  <2> QED BY <2>2, <2>3
<1>7. (\A doc \in Docs : DocumentOwned(doc)') /\ Apart'
  BY <1>1 DEF IInv, DocumentOwned, Apart
<1>8. \A c \in Images : InPlay(c)' => InPlay(c)
  BY <1>1 DEF InPlay
<1> QED BY <1>4, <1>5, <1>6, <1>7, <1>8 DEF IInv

\* Nothing but the starting process changes.
LEMMA BootOnlyKeeps ==
  ASSUME IInv, UNCHANGED <<files, documents, indexedFiles, checkpoint, worker, embedded, overtaken>>,
         boot' \in BootStates, boot'.step = "loaded" => boot'.loaded = checkpoint
  PROVE  IInv'
<1>1. \A c \in Images : Good(c) => Good(c)'
  BY GoodKept DEF Holds
<1>2. checkpoint \in Images /\ Good(checkpoint)
  BY DEF IInv, BootTypes, InPlay
<1>3. (\A doc \in Docs : DocumentOwned(doc)') /\ \A w \in BootWorkers : JobSound(w)'
  BY DEF IInv, DocumentOwned, JobSound, Owns
<1>4. PICK new \in Images : new = checkpoint /\ Good(new)
  BY <1>2
<1>5. checkpoint' = new /\ Good(new)'
  BY <1>1, <1>4
<1> QED BY <1>1, <1>3, <1>5, BootMoves

LEMMA BootStepsKeep ==
  ASSUME IInv, (\E excluded \in Exclusions : Discover(excluded)) \/ LoadToPrepare \/ CrashBoot
  PROVE  IInv'
<1>1. CASE \E excluded \in Exclusions : Discover(excluded)
  <2>1. PICK excluded \in Exclusions : Discover(excluded)
    BY <1>1
  <2>2. Stamps(Targets \ excluded) \in Stamped
    BY StampsTyped DEF IInv
  <2>3. boot' \in BootStates /\ boot'.step # "loaded"
    BY <2>1, <2>2 DEF Discover, BootStates
  <2> QED BY <2>1, <2>3, BootOnlyKeeps DEF Discover
<1>2. CASE LoadToPrepare
  <2>1. boot.stamps \in Stamped /\ checkpoint \in Images
    BY <1>2, BootIs DEF IInv, BootTypes, LoadToPrepare
  <2>2. boot' \in BootStates /\ boot'.loaded = checkpoint
    BY <1>2, <2>1 DEF LoadToPrepare, BootStates
  <2> QED BY <1>2, <2>2, BootOnlyKeeps DEF LoadToPrepare
<1>3. CASE CrashBoot
  <2>1. boot' \in BootStates /\ boot'.step # "loaded"
    BY <1>3 DEF CrashBoot, BootStates, Free0
  <2> QED BY <1>3, <2>1, BootOnlyKeeps DEF CrashBoot
<1> QED BY <1>1, <1>2, <1>3

\* Removed documents leave the index and the manifest together.
LEMMA ReconcileKeeps ==
  ASSUME IInv, Reconcile
  PROVE  IInv'
<1> DEFINE gone == ToRemove(boot.stamps, boot.excluded)
<1>1. /\ \A doc \in Docs : documents'[doc] = IF doc \in gone THEN Nothing ELSE documents[doc]
      /\ \A doc : doc \in DOMAIN indexedFiles' <=> doc \in DOMAIN indexedFiles \ gone
      /\ \A doc \in DOMAIN indexedFiles' : indexedFiles'[doc] = indexedFiles[doc]
  BY DEF Reconcile, Restrict
<1> HIDE DEF gone
<1>2. \A path \in Targets :
        Owns(path)' => Owns(path) /\ documents'[DocOf[path]] = documents[DocOf[path]]
  BY <1>1 DEF Owns, Docs, DocsOf
<1>3. \A doc \in Docs : DocumentOwned(doc)'
  BY <1>1 DEF IInv, DocumentOwned
<1>4. \A w \in BootWorkers : JobSound(w)'
  <2> SUFFICES ASSUME NEW w \in BootWorkers
               PROVE  JobSound(w)'
    OBVIOUS
  <2>1. JobSound(w) /\ (worker[w].step # "idle" => worker[w].paths \in SUBSET Targets)
    BY JobIs DEF IInv
  <2>2. UNCHANGED <<files, worker, embedded>>
    BY DEF Reconcile
  <2> QED BY <1>2, <2>1, <2>2 DEF JobSound
<1>5. ASSUME NEW c \in Images, Good(c)
      PROVE  Good(c)'
  <2> SUFFICES ASSUME c.saved
               PROVE  Explained(c)' /\ SemanticDone(c)'
    BY <1>5 DEF Good, Agrees
  <2>1. /\ Explained(c) /\ SemanticDone(c)
        /\ \A path \in DOMAIN c.completed : path \in Targets
    BY <1>5, SavedIs, StampedIs DEF Good, SavedImages
  <2>2. UNCHANGED <<files, worker, embedded, overtaken>>
    BY DEF Reconcile
  <2>3. Explained(c)'
    BY <1>2, <2>1, <2>2 DEF Explained, Holds
  <2>4. SemanticDone(c)'
    BY <2>1, <2>2 DEF SemanticDone
  <2> QED BY <2>3, <2>4
<1>6. boot' \in BootStates /\ boot'.step # "loaded"
  <2>1. boot \in [step : {"discovered", "reconciled"}, excluded : Exclusions, stamps : Stamped]
    BY DEF Reconcile, IInv, BootTypes, BootStates, Free0
  <2> QED BY <2>1 DEF Reconcile, BootStates
<1>7. PICK new \in Images : new = checkpoint /\ Good(new)
  BY DEF IInv, BootTypes, InPlay
<1>8. checkpoint' = new /\ Good(new)'
  BY <1>5, <1>7 DEF Reconcile
<1>9. UNCHANGED <<files, worker, embedded, overtaken>>
  BY DEF Reconcile
<1> QED BY <1>3, <1>4, <1>5, <1>6, <1>8, <1>9, BootMoves

\* What is prepared counts less than what was loaded.
LEMMA SavePreparedKeeps ==
  ASSUME IInv, SavePrepared
  PROVE  IInv'
<1>1. UNCHANGED <<files, documents, indexedFiles, worker, embedded, overtaken>>
  BY DEF SavePrepared
<1>2. \A c \in Images : Good(c) => Good(c)'
  BY <1>1, GoodKept DEF Holds
<1>3. (\A doc \in Docs : DocumentOwned(doc)') /\ \A w \in BootWorkers : JobSound(w)'
  BY <1>1 DEF IInv, DocumentOwned, JobSound, Owns
<1>4. boot' \in BootStates /\ boot'.step # "loaded"
  BY DEF SavePrepared, BootStates, Free0
<1>5. boot.step = "loaded" /\ boot.loaded \in Images /\ boot.stamps \in Stamped
  BY BootIs DEF SavePrepared, IInv
<1>6. PICK old \in Images : old = boot.loaded /\ Good(old)
  BY <1>5 DEF IInv, InPlay
<1>7. PICK stamps \in Stamped : stamps = boot.stamps
  BY <1>5
<1>8. Prepared(old, stamps) \in Images /\ Good(Prepared(old, stamps))
  <2> DEFINE made == Prepared(old, stamps)
  <2>1. /\ made \in SavedImages /\ Agrees(made)
        /\ \A path \in DOMAIN made.completed :
             /\ old.saved /\ path \in DOMAIN old.completed
             /\ made.completed[path] = old.completed[path]
        /\ made.semantic # {} =>
             old.saved /\ made.semantic = old.semantic /\ made.encoder = old.encoder
    BY <1>6, PreparedIs DEF Good
  <2> HIDE DEF made
  <2>2. Explained(made)
    BY <1>6, <2>1 DEF Good, Explained
  <2>3. SemanticDone(made)
    BY <1>6, <2>1 DEF Good, SemanticDone
  <2>4. made \in Images /\ Good(made)
    BY <2>1, <2>2, <2>3 DEF Images, Good
  <2> QED BY <2>4 DEF made
<1>9. PICK new \in Images : checkpoint' = new /\ Good(new)
  <2>1. checkpoint \in Images /\ Good(checkpoint)
    BY DEF IInv, BootTypes, InPlay
  <2> QED BY <1>6, <1>7, <1>8, <2>1 DEF SavePrepared
<1>10. Good(new)'
  BY <1>2, <1>9
<1> QED BY <1>1, <1>2, <1>3, <1>4, <1>9, <1>10, BootMoves

\* A worker reads files no other worker has.
LEMMA StartJobKeeps ==
  ASSUME IInv, NEW w \in BootWorkers, NEW paths \in Jobs, StartJob(w, paths)
  PROVE  IInv'
<1>1. UNCHANGED <<files, documents, indexedFiles, checkpoint, boot, embedded, overtaken>>
  BY DEF StartJob
<1>2. /\ paths \in SUBSET Targets /\ Stamps(paths) \in Stamped
      /\ DOMAIN Stamps(paths) = paths
      /\ \A path \in paths : Stamps(paths)[path] = files[path].version
  <2>1. paths \in SUBSET Targets
    OBVIOUS
  <2>2. {path \in paths : files[path].present} = paths
    BY DEF StartJob
  <2> QED BY <2>1, <2>2, StampsTyped DEF IInv
<1> DEFINE job == [step |-> "read", paths |-> paths, read |-> Stamps(paths)]
<1>3. /\ job \in JobStates /\ job.step = "read" /\ job.paths = paths
      /\ job.read = Stamps(paths)
  BY <1>2 DEF JobStates
<1>4. worker' = [worker EXCEPT ![w] = job]
  BY DEF StartJob
<1> HIDE DEF job
<1>5. worker'[w] = job /\ \A x \in BootWorkers : x # w => worker'[x] = worker[x]
  BY <1>4 DEF IInv, BootTypes
<1>6. BootTypes'
  BY <1>1, <1>3, <1>4 DEF IInv, BootTypes
<1>7. \A x \in BootWorkers : JobSound(x)'
  <2>1. ASSUME NEW x \in BootWorkers, x # w
        PROVE  JobSound(x)'
    <3>1. \A path : Owns(path)' <=> Owns(path)
      BY <1>1 DEF Owns
    <3> QED BY <1>1, <1>5, <2>1, <3>1 DEF IInv, JobSound
  <2>2. job.read \in [job.paths -> Nat]
    BY <1>2, <1>3, StampedIs
  <2>3. \A path \in job.paths : job.read[path] <= files[path].version
    <3> SUFFICES ASSUME NEW path \in paths
                 PROVE  Stamps(paths)[path] <= files[path].version
      BY <1>3
    <3>1. Stamps(paths)[path] = files[path].version /\ files[path].version \in Nat
      BY <1>2 DEF IInv, BootTypes
    <3> QED BY <3>1
  <2>4. JobSound(w)'
    BY <1>1, <1>3, <1>5, <2>2, <2>3 DEF JobSound
  <2> QED BY <2>1, <2>4
<1>8. Apart'
  <2>1. \A x \in BootWorkers : worker[x].step # "idle" => worker[x].paths \cap paths = {}
    BY DEF StartJob, Taken
  <2> QED BY <1>3, <1>5, <2>1 DEF IInv, Apart
<1>9. ASSUME NEW c \in Images, Good(c)
      PROVE  Good(c)'
  <2> SUFFICES ASSUME c.saved
               PROVE  Explained(c)' /\ SemanticDone(c)'
    BY <1>9 DEF Good, Agrees
  <2>1. Explained(c) /\ SemanticDone(c)
    BY <1>9 DEF Good
  <2>2. \A path \in DOMAIN c.completed : \A x \in BootWorkers :
          Holds(x, path)' => c.completed[path] <= worker'[x].read[path]
    <3>1. \A path \in DOMAIN c.completed :
            path \in paths => c.completed[path] <= job.read[path]
      BY <1>2, <1>3, <2>1 DEF Explained
    <3> QED BY <1>3, <1>5, <2>1, <3>1 DEF Explained, Holds
  <2>3. Explained(c)'
    BY <1>1, <2>1, <2>2 DEF Explained, Owns
  <2>4. SemanticDone(c)'
    BY <1>1, <2>1 DEF SemanticDone
  <2> QED BY <2>3, <2>4
<1>10. \A c \in Images : InPlay(c)' => InPlay(c)
  BY <1>1, <1>3, <1>5 DEF InPlay, Loading
<1>11. \A doc \in Docs : DocumentOwned(doc)'
  BY <1>1 DEF IInv, DocumentOwned
<1> QED BY <1>6, <1>7, <1>8, <1>9, <1>10, <1>11 DEF IInv

\* A worker makes its files durable.  Of two paths with one doc id the index
\* then has one; what an image counts of the files is what was read.
LEMMA IndexFilesKeeps ==
  ASSUME IInv, NEW w \in BootWorkers, IndexFiles(w)
  PROVE  IInv'
<1> DEFINE paths == worker[w].paths
           docs == DocsOf(paths)
<1>1. UNCHANGED <<files, checkpoint, boot, embedded, overtaken>>
  BY DEF IndexFiles
<1>2. /\ worker[w].step = "read" /\ paths \in SUBSET Targets /\ JobSound(w)
      /\ worker[w] \in [step : {"read", "indexed"}, paths : SUBSET Targets, read : Stamped]
  <2>1. worker[w] \in JobStates /\ worker[w].step = "read"
    BY DEF IInv, BootTypes, IndexFiles
  <2> QED BY <2>1, JobIs DEF IInv, JobStates, Free0
<1>3. PICK owner \in [docs -> paths] :
        /\ \A doc \in docs : DocOf[owner[doc]] = doc
        /\ documents' = [doc \in Docs |-> IF doc \in docs
                           THEN <<owner[doc], worker[w].read[owner[doc]]>>
                           ELSE documents[doc]]
        /\ indexedFiles' = Merged(indexedFiles, owner)
  BY DEF IndexFiles
<1>4. PICK job \in JobStates : /\ worker' = [worker EXCEPT ![w] = job]
                               /\ job.step = "indexed" /\ job.paths = worker[w].paths
                               /\ job.read = worker[w].read
  <2> DEFINE job == [worker[w] EXCEPT !.step = "indexed"]
  <2>1. job \in [step : {"read", "indexed"}, paths : SUBSET Targets, read : Stamped]
    BY <1>2
  <2>2. job.step = "indexed" /\ job.paths = worker[w].paths /\ job.read = worker[w].read
    BY <1>2
  <2>3. worker' = [worker EXCEPT ![w] = job]
    BY DEF IndexFiles, IInv, BootTypes
  <2> HIDE DEF job
  <2>4. job \in JobStates
    BY <2>1 DEF JobStates
  <2> QED BY <2>2, <2>3, <2>4
<1>5. worker'[w] = job /\ \A x \in BootWorkers : x # w => worker'[x] = worker[x]
  BY <1>4 DEF IInv, BootTypes
<1>6. \A path \in Targets : Owns(path)' =>
        IF DocOf[path] \in docs
        THEN path \in paths /\ documents'[DocOf[path]] = <<path, worker[w].read[path]>>
        ELSE Owns(path) /\ documents'[DocOf[path]] = documents[DocOf[path]]
  <2>1. /\ DOMAIN indexedFiles' = DOMAIN indexedFiles \cup docs
        /\ \A doc \in DOMAIN indexedFiles' :
             indexedFiles'[doc] = IF doc \in docs THEN owner[doc] ELSE indexedFiles[doc]
    BY <1>3 DEF Merged
  <2>2. \A path \in Targets : DocOf[path] \in Docs
    BY DEF Docs, DocsOf
  <2> HIDE DEF docs
  <2> QED BY <1>3, <2>1, <2>2 DEF Owns
<1>7. \A path \in paths : DocOf[path] \in docs
  BY DEF DocsOf
<1>8. \A doc \in Docs : DocumentOwned(doc)'
  <2> SUFFICES ASSUME NEW doc \in Docs
               PROVE  DocumentOwned(doc)'
    OBVIOUS
  <2>1. CASE doc \in docs
    <3>1. owner[doc] \in Targets /\ DocOf[owner[doc]] = doc /\ documents'[doc][1] = owner[doc]
      BY <1>2, <1>3, <2>1
    <3> QED BY <3>1 DEF DocumentOwned
  <2>2. CASE doc \notin docs
    BY <1>3, <2>2 DEF IInv, DocumentOwned
  <2> QED BY <2>1, <2>2
<1>9. BootTypes'
  BY <1>1, <1>4 DEF IInv, BootTypes
<1>10. Apart'
  BY <1>2, <1>4, <1>5 DEF IInv, Apart
<1> HIDE DEF docs
<1>11. \A x \in BootWorkers : JobSound(x)'
  <2> SUFFICES ASSUME NEW x \in BootWorkers
               PROVE  JobSound(x)'
    OBVIOUS
  <2>1. CASE x = w
    BY <1>1, <1>2, <1>4, <1>5, <1>6, <1>7, <2>1 DEF JobSound, Holding
  <2>2. CASE x # w
    <3>1. JobSound(x) /\ worker'[x] = worker[x]
          /\ (worker[x].step # "idle" => worker[x].paths \in SUBSET Targets)
      BY <1>5, <2>2, JobIs DEF IInv
    <3>2. ASSUME worker[x].step \in {"indexed", "marking"}, NEW path \in worker[x].paths,
                 Owns(path)'
          PROVE  documents'[DocOf[path]] = <<path, worker[x].read[path]>>
      <4>1. path \in Targets /\ path \notin paths
        BY <1>2, <2>2, <3>1, <3>2 DEF IInv, Apart
      <4>2. DocOf[path] \notin docs
        BY <1>6, <3>2, <4>1
      <4> QED BY <1>6, <3>1, <3>2, <4>1, <4>2 DEF JobSound
    <3> QED BY <1>1, <3>1, <3>2 DEF JobSound
  <2> QED BY <2>1, <2>2
<1>12. ASSUME NEW c \in Images, Good(c)
       PROVE  Good(c)'
  <2> SUFFICES ASSUME c.saved
               PROVE  Explained(c)' /\ SemanticDone(c)'
    BY <1>12 DEF Good, Agrees
  <2>1. /\ Explained(c) /\ SemanticDone(c)
        /\ \A path \in DOMAIN c.completed : path \in Targets /\ c.completed[path] \in Nat
    <3>1. c.completed \in Stamped
      BY SavedIs DEF SavedImages
    <3> QED BY <1>12, <3>1, StampedIs DEF Good
  <2>2. ASSUME NEW path \in DOMAIN c.completed, c.completed[path] = files[path].version,
               path \notin overtaken, Owns(path)'
        PROVE  documents'[DocOf[path]] = <<path, files[path].version>>
    <3>1. CASE DocOf[path] \in docs
      <4>1. path \in paths /\ documents'[DocOf[path]] = <<path, worker[w].read[path]>>
        BY <1>6, <2>1, <2>2, <3>1
      <4>2. Holds(w, path) /\ worker[w].read[path] \in Nat
            /\ worker[w].read[path] <= files[path].version
        BY <1>2, <4>1 DEF Holds, Holding, JobSound
      <4>3. c.completed[path] <= worker[w].read[path]
        BY <2>1, <4>2 DEF Explained
      <4>4. worker[w].read[path] = files[path].version
        BY <2>1, <2>2, <4>2, <4>3
      <4> QED BY <4>1, <4>4
    <3>2. CASE DocOf[path] \notin docs
      BY <1>6, <2>1, <2>2, <3>2 DEF Explained
    <3> QED BY <3>1, <3>2
  <2>3. \A x \in BootWorkers : \A path :
          Holds(x, path)' => Holds(x, path) /\ worker'[x].read[path] = worker[x].read[path]
    BY <1>2, <1>4, <1>5 DEF Holds, Holding
  <2>4. Explained(c)'
    BY <1>1, <2>1, <2>2, <2>3 DEF Explained
  <2>5. SemanticDone(c)'
    BY <1>1, <2>1 DEF SemanticDone
  <2> QED BY <2>4, <2>5
<1>13. \A c \in Images : InPlay(c)' => InPlay(c)
  BY <1>1, <1>4, <1>5 DEF InPlay, Loading
<1> QED BY <1>8, <1>9, <1>10, <1>11, <1>12, <1>13 DEF IInv

\* Moves of a worker that save nothing.
LEMMA WorkerOnlyKeeps ==
  ASSUME IInv, NEW w \in BootWorkers,
         \/ LoadToMark(w) \/ Release(w) \/ LoadToPublish(w) \/ CrashWorker(w)
         \/ \E encoder \in Encoders, path \in Targets : Embed(w, encoder, path)
  PROVE  IInv'
<1>1. UNCHANGED <<files, documents, indexedFiles, checkpoint, boot, overtaken>>
      /\ embedded \subseteq embedded'
  BY DEF LoadToMark, Release, LoadToPublish, CrashWorker, Embed
<1>2. PICK new \in Images : new = checkpoint /\ Good(new)
  BY DEF IInv, BootTypes, InPlay
<1>3. /\ worker \in [BootWorkers -> JobStates]
      /\ worker[w].step # "idle" => worker[w].paths \in SUBSET Targets
      /\ worker[w].step \in Holding => worker[w].read \in Stamped
  BY JobIs DEF IInv, BootTypes
<1>4. PICK job \in JobStates :
        /\ worker' = [worker EXCEPT ![w] = job]
        /\ job.step # "idle" => worker[w].step # "idle" /\ job.paths \subseteq worker[w].paths
        /\ job.step \in Holding => /\ worker[w].step \in {"indexed", "marking"}
                                   /\ job.step \in {"indexed", "marking"}
                                   /\ job.paths = worker[w].paths /\ job.read = worker[w].read
        /\ job.step = "semantic" => /\ job.paths # {}
                                    /\ \A path \in job.paths : <<job.encoder, path>> \in embedded'
        /\ job.step \in Loading => job.loaded = checkpoint
  <2>1. CASE LoadToMark(w)
    <3> DEFINE job == [step |-> "marking", paths |-> worker[w].paths, read |-> worker[w].read,
                       loaded |-> new]
    <3>1. job \in JobStates
      BY <1>3, <2>1 DEF LoadToMark, JobStates, Holding
    <3>2. /\ job.step = "marking" /\ job.paths = worker[w].paths /\ job.read = worker[w].read
          /\ job.loaded = checkpoint
      BY <1>2
    <3>3. worker' = [worker EXCEPT ![w] = job]
      BY <1>2, <1>3, <2>1 DEF LoadToMark
    <3> HIDE DEF job
    <3> QED BY <2>1, <3>1, <3>2, <3>3 DEF LoadToMark, Holding
  <2>2. CASE Release(w) \/ CrashWorker(w)
    <3>1. Free0 \in JobStates /\ Free0.step = "idle" /\ worker' = [worker EXCEPT ![w] = Free0]
      BY <2>2 DEF Release, CrashWorker, JobStates, Free0
    <3> QED BY <3>1 DEF Holding, Loading
  <2>3. CASE LoadToPublish(w)
    <3> DEFINE tier == Tier(Cardinality(CompletedPaths(checkpoint, Stamps(Targets))),
                            Cardinality(DOMAIN Stamps(Targets)))
    <3>1. tier \in Tiers
      BY DEF Tier, Tiers
    <3>2. worker' = [worker EXCEPT ![w] = [step |-> "publishing", paths |-> {},
                                           loaded |-> new, tier |-> tier]]
      BY <1>2, <2>3 DEF LoadToPublish
    <3> HIDE DEF tier
    <3> DEFINE job == [step |-> "publishing", paths |-> {}, loaded |-> new, tier |-> tier]
    <3>3. job \in JobStates /\ job.step = "publishing" /\ job.paths = {} /\ job.loaded = checkpoint
      BY <1>2, <3>1 DEF JobStates
    <3>4. worker' = [worker EXCEPT ![w] = job]
      BY <3>2
    <3> HIDE DEF job
    <3> QED BY <2>3, <3>3, <3>4 DEF LoadToPublish, Holding
  <2>4. CASE \E encoder \in Encoders, path \in Targets : Embed(w, encoder, path)
    <3>1. PICK encoder \in Encoders, path \in Targets : Embed(w, encoder, path)
      BY <2>4
    <3> DEFINE job == [step |-> "semantic", paths |-> {path}, encoder |-> encoder,
                       loaded |-> new]
    <3>2. /\ job \in JobStates /\ job.step = "semantic" /\ job.paths = {path}
          /\ job.encoder = encoder /\ job.loaded = checkpoint
      BY <1>2 DEF JobStates
    <3>3. worker' = [worker EXCEPT ![w] = job]
      BY <1>2, <3>1 DEF Embed
    <3> HIDE DEF job
    <3> QED BY <3>1, <3>2, <3>3 DEF Embed, Holding
  <2> QED BY <2>1, <2>2, <2>3, <2>4
<1>5. \A x \in BootWorkers : \A path :
        Holds(x, path)' => Holds(x, path) /\ worker'[x].read[path] = worker[x].read[path]
  <2>1. worker'[w] = job /\ \A x \in BootWorkers : x # w => worker'[x] = worker[x]
    BY <1>3, <1>4
  <2> QED BY <1>4, <2>1 DEF Holds, Holding
<1>6. \A c \in Images : Good(c) => Good(c)'
  BY <1>1, <1>5, GoodKept
<1>7. checkpoint' = new /\ Good(new)'
  BY <1>1, <1>2, <1>6
<1> QED BY <1>1, <1>4, <1>6, <1>7, WorkerMoves

\* An image with other semantic work.
Embedding(c, encoder, semantic) == [c EXCEPT !.encoder = encoder, !.semantic = semantic]

\* Marks of semantic work and published availability leave completions alone.
LEMMA SaveOtherKeeps ==
  ASSUME IInv, NEW w \in BootWorkers, SaveSemantic(w) \/ SavePublished(w)
  PROVE  IInv'
<1>1. UNCHANGED <<files, documents, indexedFiles, boot, embedded, overtaken>>
      /\ worker' = [worker EXCEPT ![w] = Free0]
  BY DEF SaveSemantic, SavePublished
<1>2. /\ worker \in [BootWorkers -> JobStates] /\ worker[w].step \in Loading
      /\ worker[w].loaded \in Images /\ worker[w].paths \in SUBSET Targets
      /\ worker[w].step = "semantic" => worker[w].encoder \in Encoders
      /\ worker[w].step = "publishing" => worker[w].tier \in Tiers
  BY JobIs DEF IInv, BootTypes, SaveSemantic, SavePublished, Loading
<1>3. PICK c \in Images : c = worker[w].loaded /\ Good(c)
  BY <1>2 DEF IInv, InPlay
<1>4. checkpoint \in Images /\ Good(checkpoint)
  BY DEF IInv, BootTypes, InPlay
<1>5. PICK new \in Images : checkpoint' = new /\ Good(new)
  <2>1. CASE SaveSemantic(w)
    <3> DEFINE path == CHOOSE x \in worker[w].paths : TRUE
    <3>1. path \in worker[w].paths /\ <<worker[w].encoder, path>> \in embedded
      BY <2>1 DEF IInv, JobSound, SaveSemantic
    <3>2. checkpoint' = IF (IF c.saved THEN SemanticMarked(c, worker[w].encoder, path) ELSE c) = c
                        THEN checkpoint
                        ELSE IF c.saved THEN SemanticMarked(c, worker[w].encoder, path) ELSE c
      BY <1>3, <2>1 DEF SaveSemantic
    <3> HIDE DEF path
    <3>3. PICK encoder \in Encoders, file \in Targets :
            encoder = worker[w].encoder /\ file = path /\ <<encoder, file>> \in embedded
      BY <1>2, <2>1, <3>1 DEF SaveSemantic
    <3>4. ASSUME c.saved
          PROVE  SemanticMarked(c, encoder, file) \in Images
                 /\ Good(SemanticMarked(c, encoder, file))
      <4>1. c \in SavedImages /\ Agrees(c) /\ Explained(c) /\ SemanticDone(c)
        BY <1>3, <3>4, SavedIs DEF Good
      <4>2. PICK semantic \in SUBSET Targets, name \in Encoders \cup {"none"} :
              /\ SemanticMarked(c, encoder, file) = Embedding(c, name, semantic)
              /\ \A x \in semantic : <<name, x>> \in embedded
              /\ name = "none" => semantic = {}
        <5>1. CASE c.encoder \notin {"none", encoder}
          <6>1. SemanticMarked(c, encoder, file) = Embedding(c, encoder, {file})
            BY <5>1 DEF SemanticMarked, Embedding
          <6> QED BY <3>3, <6>1
        <5>2. CASE c.encoder \in {"none", encoder} /\ file \notin DOMAIN c.targets
          <6>1. SemanticMarked(c, encoder, file) = c
            BY <5>2 DEF SemanticMarked
          <6>2. c = Embedding(c, c.encoder, c.semantic)
            BY <4>1 DEF SavedImages, Embedding
          <6>3. c.semantic \in SUBSET Targets /\ c.encoder \in Encoders \cup {"none"}
            BY <4>1 DEF SavedImages
          <6> QED BY <4>1, <6>1, <6>2, <6>3 DEF SemanticDone
        <5>3. CASE c.encoder \in {"none", encoder} /\ file \in DOMAIN c.targets
          <6>1. SemanticMarked(c, encoder, file) =
                  Embedding(c, encoder, c.semantic \cup {file})
            BY <5>3 DEF SemanticMarked, Embedding
          <6>2. c.semantic \in SUBSET Targets
            BY <4>1 DEF SavedImages
          <6>3. \A x \in c.semantic \cup {file} : <<encoder, x>> \in embedded
            BY <3>3, <4>1, <5>3 DEF SemanticDone
          <6> QED BY <6>1, <6>2, <6>3
        <5> QED BY <5>1, <5>2, <5>3
      <4> DEFINE made == Embedding(c, name, semantic)
      <4>3. made \in SavedImages
        BY <4>1 DEF SavedImages, Embedding
      <4>4. /\ made.encoder = name /\ made.semantic = semantic /\ made.targets = c.targets
            /\ made.completed = c.completed /\ made.complete = c.complete
            /\ made.generation = c.generation
        BY <4>1 DEF SavedImages, Embedding
      <4> HIDE DEF made
      <4>5. Agrees(made) /\ Explained(made) /\ SemanticDone(made)
        BY <4>1, <4>2, <4>4 DEF Agrees, Explained, SemanticDone
      <4>6. made \in Images /\ Good(made)
        BY <4>3, <4>5 DEF Images, Good
      <4> QED BY <4>2, <4>6 DEF made
    <3> QED BY <1>3, <1>4, <3>2, <3>3, <3>4
  <2>2. CASE SavePublished(w)
    <3>1. PICK tier \in Tiers : tier = worker[w].tier
      BY <1>2, <2>2 DEF SavePublished
    <3>2. checkpoint' = IF c.saved /\ c.availability # tier
                        THEN [c EXCEPT !.availability = tier] ELSE checkpoint
      BY <1>3, <2>2, <3>1 DEF SavePublished
    <3>3. ASSUME c.saved
          PROVE  [c EXCEPT !.availability = tier] \in Images
                 /\ Good([c EXCEPT !.availability = tier])
      <4>1. c \in SavedImages /\ Agrees(c) /\ Explained(c) /\ SemanticDone(c)
        BY <1>3, <3>3, SavedIs DEF Good
      <4> DEFINE made == [c EXCEPT !.availability = tier]
      <4>2. made \in SavedImages
        BY <4>1 DEF SavedImages
      <4>3. /\ made.encoder = c.encoder /\ made.semantic = c.semantic
            /\ made.targets = c.targets /\ made.completed = c.completed
            /\ made.complete = c.complete /\ made.generation = c.generation
        BY <4>1 DEF SavedImages
      <4> HIDE DEF made
      <4>4. Agrees(made) /\ Explained(made) /\ SemanticDone(made)
        BY <4>1, <4>3 DEF Agrees, Explained, SemanticDone
      <4>5. made \in Images /\ Good(made)
        BY <4>2, <4>4 DEF Images, Good
      <4> QED BY <4>5 DEF made
    <3> QED BY <1>4, <3>2, <3>3
  <2> QED BY <2>1, <2>2
<1>6. \A x \in BootWorkers : \A path :
        Holds(x, path)' => Holds(x, path) /\ worker'[x].read[path] = worker[x].read[path]
  <2>1. worker'[w].step = "idle" /\ \A x \in BootWorkers : x # w => worker'[x] = worker[x]
    BY <1>1, <1>2 DEF Free0
  <2> QED BY <2>1 DEF Holds, Holding
<1>7. \A a \in Images : Good(a) => Good(a)'
  BY <1>1, <1>6, GoodKept
<1>8. checkpoint' = new /\ Good(new)'
  BY <1>5, <1>7
<1>9. Free0 \in JobStates /\ Free0.step = "idle"
  BY DEF JobStates, Free0
<1>10. embedded \subseteq embedded'
  BY <1>1
<1> QED BY <1>1, <1>7, <1>8, <1>9, <1>10, WorkerMoves DEF Holding, Loading

\* A worker marks the files it has indexed, with the stamps they have by now.
LEMMA SaveMarkKeeps ==
  ASSUME IInv, NEW w \in BootWorkers, SaveMark(w)
  PROVE  IInv'
<1> DEFINE paths == worker[w].paths
           job == [step |-> "marked", paths |-> worker[w].paths]
<1>1. UNCHANGED <<files, documents, indexedFiles, boot, embedded>>
      /\ worker' = [worker EXCEPT ![w] = job]
  BY DEF SaveMark
<1>2. /\ worker \in [BootWorkers -> JobStates] /\ worker[w].step = "marking"
      /\ worker[w].loaded \in Images /\ worker[w].paths \in SUBSET Targets /\ JobSound(w)
  BY JobIs DEF IInv, BootTypes, SaveMark, Loading
<1>3. job \in JobStates /\ job.step = "marked" /\ job.paths = worker[w].paths
  BY <1>2 DEF JobStates
<1> HIDE DEF job
<1>4. PICK c \in Images : c = worker[w].loaded /\ Good(c)
  BY <1>2 DEF IInv, InPlay, Loading
<1>5. /\ Stamps(paths) \in Stamped
      /\ DOMAIN Stamps(paths) = {path \in paths : files[path].present}
      /\ \A path \in DOMAIN Stamps(paths) : Stamps(paths)[path] = files[path].version
  BY <1>2, StampsTyped DEF IInv
<1>6. PICK stamps \in Stamped : stamps = Stamps(paths)
  BY <1>5
<1> DEFINE known == DOMAIN stamps \cap DOMAIN c.targets
<1>7. /\ checkpoint' = IF c.saved /\ Marked(c, stamps) # c THEN Marked(c, stamps) ELSE checkpoint
      /\ overtaken' = IF ~c.saved THEN overtaken
                      ELSE (overtaken \ known)
                           \cup {path \in known : stamps[path] # worker[w].read[path]}
  BY <1>4, <1>6 DEF SaveMark
<1>8. /\ worker'[w].step = "marked"
      /\ \A x \in BootWorkers : x # w => worker'[x] = worker[x]
  BY <1>1, <1>2, <1>3
\* A file that this worker marks and that is not overtaken is as it was read.
<1>9. ASSUME c.saved, NEW path \in known, path \notin overtaken', Owns(path)
      PROVE  documents[DocOf[path]] = <<path, files[path].version>>
  <2>1. path \in paths /\ stamps[path] = worker[w].read[path]
        /\ stamps[path] = files[path].version
    BY <1>5, <1>6, <1>7, <1>9
  <2> QED BY <1>2, <1>9, <2>1 DEF JobSound
<1>10. \A path : (path \notin overtaken' /\ ~(c.saved /\ path \in known)) => path \notin overtaken
  BY <1>7
<1>11. \A x \in BootWorkers : \A path :
         Holds(x, path)' => /\ x # w /\ Holds(x, path)
                            /\ worker'[x].read[path] = worker[x].read[path]
  BY <1>8 DEF Holds, Holding
<1>12. ASSUME NEW a \in Images, Good(a)
       PROVE  Good(a)'
  <2> SUFFICES ASSUME a.saved
               PROVE  Explained(a)' /\ SemanticDone(a)'
    BY <1>12 DEF Good, Agrees
  <2>1. Explained(a) /\ SemanticDone(a)
    BY <1>12 DEF Good
  <2>2. ASSUME NEW path \in DOMAIN a.completed
        PROVE  /\ a.completed[path] <= files[path].version
               /\ (a.completed[path] = files[path].version /\ path \notin overtaken' /\ Owns(path)) =>
                    documents[DocOf[path]] = <<path, files[path].version>>
               /\ \A x \in BootWorkers :
                    Holds(x, path)' => a.completed[path] <= worker'[x].read[path]
    BY <1>9, <1>10, <1>11, <2>1 DEF Explained
  <2>3. Explained(a)'
    BY <1>1, <2>2 DEF Explained, Owns
  <2>4. SemanticDone(a)'
    BY <1>1, <2>1 DEF SemanticDone
  <2> QED BY <2>3, <2>4
<1>13. ASSUME c.saved
       PROVE  Marked(c, stamps) \in Images /\ Good(Marked(c, stamps))'
  <2>1. c \in SavedImages /\ Agrees(c) /\ Explained(c) /\ SemanticDone(c)
    BY <1>4, <1>13, SavedIs DEF Good
  <2>2. PICK made \in SavedImages :
          /\ made = Marked(c, stamps) /\ Agrees(made)
          /\ made.encoder = c.encoder /\ made.semantic = c.semantic
          /\ DOMAIN made.completed = DOMAIN c.completed \cup known
          /\ \A path \in DOMAIN made.completed :
               made.completed[path] = IF path \in known THEN stamps[path] ELSE c.completed[path]
    BY <2>1, MarkedIs
  <2>3. ASSUME NEW path \in DOMAIN made.completed
        PROVE  /\ made.completed[path] <= files[path].version
               /\ (made.completed[path] = files[path].version /\ path \notin overtaken' /\ Owns(path)) =>
                    documents[DocOf[path]] = <<path, files[path].version>>
               /\ \A x \in BootWorkers :
                    Holds(x, path)' => made.completed[path] <= worker'[x].read[path]
    <3>1. CASE path \in known
      <4>1. path \in paths /\ path \in Targets /\ made.completed[path] = files[path].version
        BY <1>2, <1>5, <1>6, <2>2, <3>1
      <4>2. files[path].version \in Nat
        BY <4>1 DEF IInv, BootTypes
      <4>3. \A x \in BootWorkers : ~Holds(x, path)'
        <5> SUFFICES ASSUME NEW x \in BootWorkers, Holds(x, path)'
                     PROVE  FALSE
          OBVIOUS
        <5>1. x # w /\ Holds(x, path)
          BY <1>11
        <5> QED BY <1>2, <4>1, <5>1 DEF IInv, Apart, Holds, Holding
      <4> QED BY <1>9, <1>13, <3>1, <4>1, <4>2, <4>3
    <3>2. CASE path \notin known
      <4>1. path \in DOMAIN c.completed /\ made.completed[path] = c.completed[path]
        BY <2>2, <3>2
      <4>2. path \notin overtaken' => path \notin overtaken
        BY <1>10, <3>2
      <4> QED BY <1>11, <2>1, <4>1, <4>2 DEF Explained
    <3> QED BY <3>1, <3>2
  <2>4. Explained(made)'
    BY <1>1, <2>3 DEF Explained, Owns
  <2>5. SemanticDone(made)'
    BY <1>1, <2>1, <2>2 DEF SemanticDone
  <2>6. made \in Images /\ Agrees(made)'
    BY <2>2 DEF Images, Agrees
  <2> QED BY <2>2, <2>4, <2>5, <2>6 DEF Good
<1>14. PICK new \in Images : checkpoint' = new /\ Good(new)'
  <2>1. CASE c.saved /\ Marked(c, stamps) # c
    BY <1>7, <1>13, <2>1
  <2>2. CASE ~(c.saved /\ Marked(c, stamps) # c)
    <3>1. PICK new \in Images : new = checkpoint /\ Good(new)
      BY DEF IInv, BootTypes, InPlay
    <3> QED BY <1>7, <1>12, <2>2, <3>1
  <2> QED BY <2>1, <2>2
<1>15. embedded \subseteq embedded'
  BY <1>1
<1>16. \A a \in Images : Good(a) => Good(a)'
  BY <1>12
<1> HIDE DEF paths, known
<1> QED BY <1>1, <1>2, <1>3, <1>14, <1>15, <1>16, WorkerMoves DEF Holding, Loading

-----------------------------------------------------------------------------
(* The theorems                                                            *)

LEMMA NextIInv ==
  IInv /\ [BootstrapNext]_bootVars => IInv'
<1> SUFFICES ASSUME IInv, [BootstrapNext]_bootVars
             PROVE  IInv'
  OBVIOUS
<1>1. CASE \E path \in Targets : EditFile(path) \/ MoveFile(path)
  BY <1>1, FilesKeep
<1>2. CASE (\E excluded \in Exclusions : Discover(excluded)) \/ LoadToPrepare \/ CrashBoot
  BY <1>2, BootStepsKeep
<1>3. CASE Reconcile
  BY <1>3, ReconcileKeeps
<1>4. CASE SavePrepared
  BY <1>4, SavePreparedKeeps
<1>5. CASE \E w \in BootWorkers, paths \in Jobs : StartJob(w, paths)
  BY <1>5, StartJobKeeps
<1>6. CASE \E w \in BootWorkers : WorkerStep(w)
  <2>1. PICK w \in BootWorkers : WorkerStep(w)
    BY <1>6
  <2>2. CASE IndexFiles(w)
    BY <2>2, IndexFilesKeeps
  <2>3. CASE SaveMark(w)
    BY <2>3, SaveMarkKeeps
  <2>4. CASE SaveSemantic(w) \/ SavePublished(w)
    BY <2>4, SaveOtherKeeps
  <2>5. CASE \/ LoadToMark(w) \/ Release(w) \/ LoadToPublish(w) \/ CrashWorker(w)
             \/ \E encoder \in Encoders, path \in Targets : Embed(w, encoder, path)
    BY <2>5, WorkerOnlyKeeps
  <2> QED BY <2>1, <2>2, <2>3, <2>4, <2>5 DEF WorkerStep
<1>7. CASE UNCHANGED bootVars
  <2>1. UNCHANGED <<files, documents, indexedFiles, checkpoint, boot, worker, embedded, overtaken>>
    BY <1>7 DEF bootVars
  <2>2. BootTypes' /\ Apart' /\ (\A doc \in Docs : DocumentOwned(doc)')
        /\ \A w \in BootWorkers : JobSound(w)'
    BY <2>1 DEF IInv, BootTypes, Apart, DocumentOwned, JobSound, Owns
  <2>3. \A c \in Images : (Good(c) => Good(c)') /\ (InPlay(c)' => InPlay(c))
    BY <2>1, GoodKept DEF Holds, InPlay
  <2> QED BY <2>2, <2>3 DEF IInv
<1> QED BY <1>1, <1>2, <1>3, <1>4, <1>5, <1>6, <1>7 DEF BootstrapNext

\* A sound state is an honest one.
LEMMA CountedFromIInv ==
  ASSUME IInv
  PROVE  CountedIsIndexed /\ CheckpointAgrees /\ SemanticMarksHonest
<1>1. checkpoint \in Images /\ Good(checkpoint)
  BY DEF IInv, BootTypes, InPlay
<1>2. /\ DOMAIN Now = {path \in Targets : files[path].present}
      /\ \A path \in DOMAIN Now : Now[path] = files[path].version
  BY StampsTyped DEF IInv, Now
<1>3. CountedIsIndexed
  <2> SUFFICES ASSUME NEW path \in CompletedPaths(checkpoint, Now), path \notin overtaken
               PROVE  documents[DocOf[path]] = <<path, files[path].version>>
    BY DEF CountedIsIndexed
  <2>1. /\ checkpoint.saved /\ path \in DOMAIN checkpoint.completed
        /\ checkpoint.completed[path] = files[path].version /\ Owns(path)
    BY <1>2 DEF CompletedPaths, Owns
  <2> QED BY <1>1, <2>1 DEF Good, Explained
<1>4. CheckpointAgrees
  BY <1>1 DEF CheckpointAgrees, Good, Agrees
<1>5. SemanticMarksHonest
  BY <1>1 DEF SemanticMarksHonest, Good, SemanticDone
<1> QED BY <1>3, <1>4, <1>5

\* "Ready" by the documents loaded: there are as many documents of files on disk
\* as files, and no two of one path.
LEMMA ReadyFromIInv ==
  ASSUME IInv
  PROVE  ReadyIsIndexed
<1> DEFINE total == Cardinality(DOMAIN Now)
           counted == CompletedPaths(checkpoint, Now)
           found == {doc \in Docs : documents[doc][1] \in DOMAIN Now}
           loaded == Cardinality(found)
<1> SUFFICES ASSUME Status(checkpoint, Now, loaded) = "ready", NEW path \in DOMAIN Now,
                    path \notin overtaken
             PROVE  documents[DocOf[path]][1] = path
  BY DEF ReadyIsIndexed
<1>1. DOMAIN Now \in SUBSET Targets /\ counted \in SUBSET DOMAIN Now
  <2>1. DOMAIN Now \in SUBSET Targets
    <3>1. DOMAIN Stamps(Targets) = {x \in Targets : files[x].present}
      BY StampsTyped DEF IInv
    <3> QED BY <3>1 DEF Now
  <2>2. counted \in SUBSET DOMAIN Now
    BY DEF CompletedPaths
  <2> QED BY <2>1, <2>2
<1>2. IsFiniteSet(DOMAIN Now) /\ total \in Nat
  BY <1>1, FS_Subset, FS_CardinalityType
<1>3. DOMAIN Now # {} /\ total # 0
  BY <1>2, FS_EmptySet
<1>4. Cardinality(counted) \in Nat /\ Cardinality(counted) <= total
      /\ (Cardinality(counted) = total => counted = DOMAIN Now)
  BY <1>1, <1>2, FS_Subset, FS_CardinalityType
<1> DEFINE f == [doc \in found |-> documents[doc][1]]
<1>5. f \in Injection(found, DOMAIN Now)
  <2>1. \A doc \in found : DocOf[documents[doc][1]] = doc
    <3> SUFFICES ASSUME NEW doc \in found
                 PROVE  DocOf[documents[doc][1]] = doc
      OBVIOUS
    <3>1. documents[doc][1] \in Targets
      BY <1>1
    <3>2. Nothing[1] \notin Targets
      BY DEF Nothing
    <3>3. documents[doc] # Nothing
      BY <3>1, <3>2
    <3> QED BY <3>3 DEF IInv, DocumentOwned
  <2> QED BY <2>1 DEF Injection, IsInjective
<1>6. loaded \in Nat /\ loaded <= total /\ (loaded = total => f \in Surjection(found, DOMAIN Now))
  BY <1>2, <1>5, FS_Injection, FS_CardinalityType
<1> HIDE DEF total, counted, found, loaded, f
<1>7. Status(checkpoint, Now, loaded) =
        LET most == IF loaded > Cardinality(counted) THEN loaded ELSE Cardinality(counted)
            count == IF total > 0 /\ most > total THEN total ELSE most
        IN IF total = 0 THEN "ready"
           ELSE IF count = 0 THEN "none" ELSE IF count < total THEN "partial" ELSE "ready"
  BY DEF Status, total, counted
<1>8. loaded = total \/ Cardinality(counted) = total
  BY <1>2, <1>3, <1>4, <1>6, <1>7
<1>9. CASE Cardinality(counted) = total
  <2>1. path \in CompletedPaths(checkpoint, Now) \ overtaken
    BY <1>4, <1>9 DEF counted
  <2> QED BY <2>1, CountedFromIInv DEF CountedIsIndexed
<1>10. CASE loaded = total
  <2>1. PICK doc \in found : f[doc] = path
    BY <1>6, <1>10 DEF Surjection
  <2>2. doc \in Docs /\ documents[doc][1] = path /\ path \in Targets
    BY <1>1, <2>1 DEF f, found
  <2>3. DocOf[path] = doc
    <3>1. documents[doc] # Nothing
      BY <2>2 DEF Nothing
    <3> QED BY <2>2, <3>1 DEF IInv, DocumentOwned
  <2> QED BY <2>2, <2>3
<1> QED BY <1>8, <1>9, <1>10

(* Every image of the checkpoint that is stored, or that somebody is about   *)
(* to build on, agrees with itself, and counts a file as completed at a      *)
(* stamp no newer than what its worker has read.                             *)
THEOREM BootstrapSoundAlways ==
  BootstrapSpec => []IInv
<1> QED BY InitIInv, NextIInv, PTL DEF BootstrapSpec

(* What the checkpoint counts, marks and reports as ready is borne out by    *)
(* the index, for any files, doc ids, tasks, workers and encoders.           *)
THEOREM BootstrapAlwaysHonest ==
  BootstrapSpec => []BootstrapHonest
<1>1. IInv => BootstrapHonest
  BY CountedFromIInv, ReadyFromIInv DEF BootstrapHonest
<1> QED BY <1>1, BootstrapSoundAlways, PTL

\* A step that saves what was made of the checkpoint as it is keeps completions.
LEMMA StepsKeepCompletions ==
  ASSUME IInv, [BootstrapNext]_bootVars, checkpoint.saved, ~Overwrites,
         NEW path \in DOMAIN checkpoint.completed
  PROVE  \/ path \in DOMAIN checkpoint'.completed
         \/ checkpoint'.generation # checkpoint.generation
         \/ checkpoint'.targets[path] # checkpoint.completed[path]
<1>1. checkpoint \in SavedImages /\ Agrees(checkpoint)
  BY SavedIs DEF IInv, BootTypes, InPlay, Good
<1>2. CASE checkpoint' = checkpoint
  BY <1>2
<1>3. CASE SavePrepared
  <2>1. boot.step = "loaded" /\ boot'.step = "idle"
    BY <1>3 DEF SavePrepared, Free0
  <2>2. boot.loaded = checkpoint /\ boot.stamps \in Stamped
    BY <2>1, BootIs DEF Overwrites, IInv
  <2>3. PICK stamps \in Stamped : stamps = boot.stamps
    BY <2>2
  <2>4. checkpoint' = Prepared(checkpoint, stamps) \/ checkpoint' = checkpoint
    BY <1>3, <2>2, <2>3 DEF SavePrepared
  <2>5. /\ Prepared(checkpoint, stamps).targets = stamps
        /\ Prepared(checkpoint, stamps).generation = DOMAIN stamps
        /\ (checkpoint.generation = DOMAIN stamps) =>
             \A x \in DOMAIN checkpoint.completed :
               checkpoint.completed[x] = stamps[x] =>
                 x \in DOMAIN Prepared(checkpoint, stamps).completed
    <3>1. PICK c \in Images : c = checkpoint /\ c.saved /\ Agrees(c)
      BY <1>1 DEF Images
    <3> QED BY <3>1, PreparedIs
  <2> QED BY <2>4, <2>5
<1>4. ASSUME NEW w \in BootWorkers, SaveMark(w)
      PROVE  path \in DOMAIN checkpoint'.completed
  <2>1. worker[w].step = "marking" /\ worker'[w].step = "marked"
    BY <1>4 DEF SaveMark, IInv, BootTypes
  <2>2. worker[w].loaded = checkpoint
    BY <2>1 DEF Overwrites
  <2>3. worker[w].paths \in SUBSET Targets
    BY <2>1, JobIs DEF IInv
  <2>4. PICK stamps \in Stamped : stamps = Stamps(worker[w].paths)
    BY <2>3, StampsTyped DEF IInv
  <2>5. checkpoint' = Marked(checkpoint, stamps) \/ checkpoint' = checkpoint
    BY <1>4, <2>2, <2>4 DEF SaveMark
  <2>6. path \in DOMAIN Marked(checkpoint, stamps).completed
    <3>1. PICK c \in SavedImages : c = checkpoint /\ Agrees(c)
      BY <1>1
    <3> QED BY <3>1, MarkedIs
  <2> QED BY <2>5, <2>6
<1>5. ASSUME NEW w \in BootWorkers, SaveSemantic(w) \/ SavePublished(w)
      PROVE  path \in DOMAIN checkpoint'.completed
  <2>1. worker[w].step \in {"semantic", "publishing"} /\ worker'[w].step = "idle"
    BY <1>5 DEF SaveSemantic, SavePublished, IInv, BootTypes, Free0
  <2>2. worker[w].loaded = checkpoint
    BY <2>1 DEF Overwrites
  <2>3. checkpoint'.completed = checkpoint.completed
    <3>1. CASE SavePublished(w)
      BY <1>1, <2>2, <3>1 DEF SavePublished, SavedImages
    <3>2. CASE SaveSemantic(w)
      <4>1. \A encoder, file :
              SemanticMarked(checkpoint, encoder, file).completed = checkpoint.completed
        BY <1>1 DEF SemanticMarked, SavedImages
      <4> QED BY <2>2, <3>2, <4>1 DEF SaveSemantic
    <3> QED BY <1>5, <3>1, <3>2
  <2> QED BY <2>3
<1>6. \/ checkpoint' = checkpoint \/ SavePrepared
      \/ \E w \in BootWorkers : SaveMark(w) \/ SaveSemantic(w) \/ SavePublished(w)
  BY DEF BootstrapNext, WorkerStep, EditFile, MoveFile, Discover, Reconcile, LoadToPrepare,
         CrashBoot, StartJob, IndexFiles, LoadToMark, Release, Embed, LoadToPublish,
         CrashWorker, bootVars
<1> QED BY <1>2, <1>3, <1>4, <1>5, <1>6

(* A completion stays recorded while its file keeps the stamp and the        *)
(* targets stay, unless somebody saves over a checkpoint not read.           *)
THEOREM CompletionsAlwaysStay ==
  BootstrapSpec => CompletionsStay
<1>1. IInv /\ [BootstrapNext]_bootVars =>
        [(checkpoint.saved /\ ~Overwrites) =>
           \A path \in DOMAIN checkpoint.completed :
             \/ path \in DOMAIN checkpoint'.completed
             \/ checkpoint'.generation # checkpoint.generation
             \/ checkpoint'.targets[path] # checkpoint.completed[path]]_bootVars
  BY StepsKeepCompletions
<1> QED BY <1>1, BootstrapSoundAlways, PTL DEF BootstrapSpec, CompletionsStay

-----------------------------------------------------------------------------
(* Embedding work                                                          *)

USE SemanticWorkAssumption DEF SemanticWorkAssumption

SemanticSpec == SemanticInit /\ [][SemanticNext]_workVars

PlannedSteps == {"delete", "hits", "encode", "batch", "put", "done"}
Executions ==
  [step : PlannedSteps, sources : WorkInputs, hits : SUBSET Texts, misses : SUBSET Texts,
   invalid : SUBSET Texts, batch : SUBSET Texts, todo : SUBSET Texts, bad : SUBSET Texts, known : SUBSET Texts]
WorkStates == {Rest0} \cup [step : {"plan"}, sources : WorkInputs] \cup Executions
UpsertStates ==
  {NoUpsert}
  \cup [step : {"going", "done", "failed"}, sources : WorkInputs, todo : SUBSET Sources,
        taken : SUBSET Sources, refused : SUBSET Sources, stored : Nat, rejected : Nat]

WorkTypes ==
  /\ cached \in [CacheFiles -> [Texts -> {"absent", "good", "bad"}]]
  /\ cachePath \in CacheFiles
  /\ handle \in [Executors -> CacheFiles]
  /\ work \in [Executors -> WorkStates]
  /\ upsert \in UpsertStates
  /\ settled \in [Executors -> SUBSET Texts]

\* What an execution has not materialised is still ahead of it, and nothing
\* ahead of it is a text it knew to be cached.
ExecutionSound(e, vectorOf) ==
  e \in Executions =>
    /\ \A s \in e.sources : vectorOf[s] = TextOf[s]
                              \/ TextOf[s] \in e.hits \cup (e.misses \ e.batch) \cup e.todo
    /\ e.misses \cap e.known = {}
    /\ e.step \notin {"delete", "hits"} => e.hits = {}
    /\ e.step \in {"delete", "hits", "encode"} => e.batch = {}
    /\ e.step # "batch" => e.todo = {}
    /\ e.step = "done" => e.misses = {}

\* What an executor has settled is in the file at the path, which is in order
\* and which that executor has open.
SettledSound ==
  \A v \in Executors, t \in Texts : t \in settled[v] =>
    cached[cachePath][t] = "good" /\ cachePath \notin broken /\ handle[v] = cachePath

\* A row an executor is about to delete is none it has settled.
OthersRows ==
  \A v \in Executors : work[v].step = "delete" => work[v].invalid \cap settled[v] = {}

\* What was offered is taken or refused, and counted.
UpsertSound ==
  upsert.step \in {"going", "done"} =>
    /\ upsert.taken \cup upsert.refused \cup upsert.todo = upsert.sources
    /\ upsert.taken \cap upsert.refused = {}
    /\ (upsert.taken \cup upsert.refused) \cap upsert.todo = {}
    /\ upsert.stored = Cardinality(upsert.taken)
    /\ upsert.rejected = Cardinality(upsert.refused)
    /\ upsert.step = "done" => upsert.todo = {}

WInv ==
  /\ WorkTypes
  /\ \A s \in Sources : materialized[s] \in {0, TextOf[s]}
  /\ \A w \in Executors : ExecutionSound(work[w], materialized)
  /\ SettledSound
  /\ OthersRows
  /\ UpsertSound

\* A source only ever gets the vector of its own text.
Grows == \A s \in Sources : materialized'[s] \in {materialized[s], TextOf[s]}

-----------------------------------------------------------------------------
LEMMA ExecutionIs ==
  ASSUME NEW e \in WorkStates, e.step \in PlannedSteps
  PROVE  /\ e \in Executions
         /\ e.sources \subseteq Sources
         /\ e.misses \subseteq Texts /\ e.batch \subseteq Texts
  BY DEF WorkStates, Executions, PlannedSteps, Rest0, Sources

LEMMA RestIs == Rest0 \in WorkStates /\ Rest0 \notin Executions /\ Rest0.step = "idle"
  BY DEF Rest0, WorkStates, Executions, PlannedSteps

LEMMA InitWInv == SemanticInit => WInv
<1> SUFFICES ASSUME SemanticInit PROVE WInv
  OBVIOUS
<1>1. /\ cached = [f \in CacheFiles |-> [t \in Texts |-> "absent"]] /\ cachePath = 1
      /\ handle = [w \in Executors |-> 1] /\ work = [w \in Executors |-> Rest0]
      /\ upsert = NoUpsert /\ settled = [w \in Executors |-> {}] /\ materialized = [s \in Sources |-> 0]
  BY DEF SemanticInit
<1>2. WorkTypes
  BY <1>1, RestIs DEF WorkTypes, UpsertStates
<1>3. \A w \in Executors : ExecutionSound(work[w], materialized)
  BY <1>1, RestIs DEF ExecutionSound
<1>4. UpsertSound
  BY <1>1 DEF UpsertSound, NoUpsert
<1>5. OthersRows
  BY <1>1, RestIs DEF OthersRows
<1> QED BY <1>1, <1>2, <1>3, <1>4, <1>5 DEF WInv, SettledSound

\* A step of one executor.
LEMMA ExecutorMoves ==
  ASSUME WInv, NEW w \in Executors, NEW e \in WorkStates, work' = [work EXCEPT ![w] = e],
         Grows, ExecutionSound(e, materialized'),
         cached' \in [CacheFiles -> [Texts -> {"absent", "good", "bad"}]],
         cachePath' \in CacheFiles, handle' \in [Executors -> CacheFiles],
         settled' \in [Executors -> SUBSET Texts], SettledSound', UNCHANGED upsert,
         \A v \in Executors : v # w => settled'[v] \subseteq settled[v],
         e.step = "delete" => e.invalid \cap settled'[w] = {}
  PROVE  WInv'
<1>1. WorkTypes'
  BY DEF WInv, WorkTypes
<1>2. \A s \in Sources : materialized'[s] \in {0, TextOf[s]}
  BY DEF WInv, Grows
<1>3. ASSUME NEW x \in Executors PROVE ExecutionSound(work'[x], materialized')
  <2>1. CASE x = w
    <3>1. work'[x] = e
      BY <2>1 DEF WInv, WorkTypes
    <3> QED BY <3>1
  <2>2. CASE x # w
    <3> DEFINE j == work[x]
    <3>1. work'[x] = j /\ ExecutionSound(j, materialized) /\ j \in WorkStates
      BY <2>2 DEF WInv, WorkTypes
    <3>2. ASSUME j \in Executions, NEW s \in j.sources, materialized[s] = TextOf[s]
          PROVE  materialized'[s] = TextOf[s]
      BY <3>2 DEF Executions, Grows, Sources
    <3> HIDE DEF j
    <3>3. ExecutionSound(j, materialized')
      BY <3>1, <3>2 DEF ExecutionSound
    <3> QED BY <3>1, <3>3
  <2> QED BY <2>1, <2>2
<1>4. UpsertSound'
  BY DEF WInv, UpsertSound
<1>5. ASSUME NEW v \in Executors, work'[v].step = "delete"
      PROVE  work'[v].invalid \cap settled'[v] = {}
  BY <1>5 DEF WInv, WorkTypes, OthersRows
<1> QED BY <1>1, <1>2, <1>3, <1>4, <1>5 DEF WInv, OthersRows

\* A step of one executor that does not touch the cache.
LEMMA ExecutorOnly ==
  ASSUME WInv, NEW w \in Executors, NEW e \in WorkStates, work' = [work EXCEPT ![w] = e],
         Grows, ExecutionSound(e, materialized'), e.step # "delete",
         UNCHANGED <<cacheVars, upsert, settled>>
  PROVE  WInv'
<1>1. UNCHANGED <<cached, broken, cachePath, handle, settled, upsert>>
  BY DEF cacheVars
<1>2. SettledSound'
  BY <1>1 DEF WInv, SettledSound
<1> QED BY <1>1, <1>2, ExecutorMoves DEF WInv, WorkTypes

LEMMA Ends ==
  ASSUME WInv, NEW w \in Executors, work' = [work EXCEPT ![w] = Rest0],
         Grows, UNCHANGED <<cacheVars, upsert, settled>>
  PROVE  WInv'
  BY RestIs, ExecutorOnly DEF ExecutionSound

LEMMA GrowsNot == UNCHANGED materialized => Grows
  BY DEF Grows

\* The vector of a text given to its sources, all or some.
LEMMA MaterializeMoves ==
  ASSUME WInv, NEW w \in Executors, work[w].step \in {"hits", "batch"}, NEW t,
         NEW rest \in WorkStates, rest.step # "delete", Materialize(w, t, rest),
         UNCHANGED <<cacheVars, upsert, settled>>,
         (\A s \in Sources : materialized'[s] =
             IF s \in Group(w, t) THEN t ELSE materialized[s]) => ExecutionSound(rest, materialized')
  PROVE  WInv'
<1>1. \A s \in Group(w, t) : TextOf[s] = t
  BY DEF Group
<1>2. CASE /\ materialized' = [s \in Sources |-> IF s \in Group(w, t) THEN t ELSE materialized[s]]
           /\ work' = [work EXCEPT ![w] = rest]
  <2>1. \A s \in Sources : materialized'[s] = IF s \in Group(w, t) THEN t ELSE materialized[s]
    BY <1>2
  <2>2. Grows
    BY <1>1, <2>1 DEF Grows
  <2> QED BY <1>2, <2>1, <2>2, ExecutorOnly
<1>3. CASE /\ \E done \in (SUBSET Group(w, t)) \ {Group(w, t)} :
                materialized' = [s \in Sources |-> IF s \in done THEN t ELSE materialized[s]]
           /\ work' = [work EXCEPT ![w] = Rest0]
  <2>1. Grows
    BY <1>1, <1>3 DEF Grows
  <2> QED BY <1>3, <2>1, Ends
<1> QED BY <1>2, <1>3 DEF Materialize

LEMMA MaterializeHitKeeps ==
  ASSUME WInv, NEW w \in Executors, NEW t \in Texts, MaterializeHit(w, t)
  PROVE  WInv'
<1> DEFINE e == work[w]
           rest == [e EXCEPT !.hits = @ \ {t}]
<1>1. /\ e.step = "hits" /\ Materialize(w, t, rest) /\ UNCHANGED <<cacheVars, upsert, settled>>
      /\ e \in WorkStates /\ ExecutionSound(e, materialized)
  BY DEF MaterializeHit, WInv, WorkTypes
<1>2. e \in Executions /\ e.sources \subseteq Sources
  BY <1>1, ExecutionIs DEF PlannedSteps
<1>3. /\ rest \in Executions /\ rest.sources = e.sources /\ rest.hits = e.hits \ {t}
      /\ rest.misses = e.misses /\ rest.batch = e.batch /\ rest.todo = e.todo
      /\ rest.known = e.known /\ rest.step = e.step /\ rest.step # "delete"
  BY <1>1, <1>2 DEF Executions
<1> HIDE DEF rest
<1>4. ASSUME \A s \in Sources : materialized'[s] =
               IF s \in Group(w, t) THEN t ELSE materialized[s]
      PROVE  ExecutionSound(rest, materialized')
  <2>1. ASSUME NEW s \in e.sources
        PROVE  materialized'[s] = TextOf[s]
                 \/ TextOf[s] \in rest.hits \cup (rest.misses \ rest.batch) \cup rest.todo
    <3>1. materialized[s] = TextOf[s] \/ TextOf[s] \in e.hits \cup (e.misses \ e.batch) \cup e.todo
      BY <1>1, <1>2 DEF ExecutionSound
    <3>2. s \in Group(w, t) <=> TextOf[s] = t
      BY DEF Group
    <3> QED BY <1>2, <1>3, <1>4, <3>1, <3>2
  <2> QED BY <1>1, <1>2, <1>3, <2>1 DEF ExecutionSound
<1>5. rest \in WorkStates
  BY <1>3 DEF WorkStates
<1> QED BY <1>1, <1>3, <1>4, <1>5, MaterializeMoves

LEMMA MaterializeMissKeeps ==
  ASSUME WInv, NEW w \in Executors, MaterializeMiss(w)
  PROVE  WInv'
<1> DEFINE e == work[w]
<1>1. PICK t : t = CHOOSE x \in e.todo : \A y \in e.todo : x <= y
  OBVIOUS
<1>2. /\ e.step = "batch" /\ UNCHANGED <<cacheVars, upsert, settled>>
      /\ e \in WorkStates /\ ExecutionSound(e, materialized)
  BY DEF MaterializeMiss, WInv, WorkTypes
<1>3. e \in Executions /\ e.sources \subseteq Sources
  BY <1>2, ExecutionIs DEF PlannedSteps
<1> DEFINE ahead == e.todo \ {t}
           rest == [e EXCEPT !.todo = ahead, !.step = IF ahead = {} THEN "put" ELSE "batch"]
<1>4. \/ work' = [work EXCEPT ![w] = Rest0] /\ UNCHANGED materialized
      \/ Materialize(w, t, rest)
  BY <1>1 DEF MaterializeMiss
<1>5. CASE work' = [work EXCEPT ![w] = Rest0] /\ UNCHANGED materialized
  BY <1>2, <1>5, Ends, GrowsNot
<1>6. CASE Materialize(w, t, rest)
  <2>1. /\ rest \in Executions /\ rest.sources = e.sources /\ rest.hits = e.hits
        /\ rest.misses = e.misses /\ rest.batch = e.batch /\ rest.todo = e.todo \ {t}
        /\ rest.known = e.known /\ rest.step \in {"put", "batch"}
        /\ rest.step # "delete" /\ (rest.step = "put" => rest.todo = {})
    BY <1>3 DEF Executions, PlannedSteps
  <2> HIDE DEF rest
  <2>2. ASSUME \A s \in Sources : materialized'[s] =
                 IF s \in Group(w, t) THEN t ELSE materialized[s]
        PROVE  ExecutionSound(rest, materialized')
    <3>1. ASSUME NEW s \in e.sources
          PROVE  materialized'[s] = TextOf[s]
                   \/ TextOf[s] \in rest.hits \cup (rest.misses \ rest.batch) \cup rest.todo
      <4>1. materialized[s] = TextOf[s]
              \/ TextOf[s] \in e.hits \cup (e.misses \ e.batch) \cup e.todo
        BY <1>2, <1>3 DEF ExecutionSound
      <4>2. s \in Group(w, t) <=> TextOf[s] = t
        BY DEF Group
      <4> QED BY <1>3, <2>1, <2>2, <4>1, <4>2
    <3> QED BY <1>2, <1>3, <2>1, <3>1 DEF ExecutionSound
  <2>3. rest \in WorkStates
    BY <2>1 DEF WorkStates
  <2> QED BY <1>2, <1>6, <2>1, <2>2, <2>3, MaterializeMoves
<1> QED BY <1>4, <1>5, <1>6

LEMMA BeginWorkKeeps ==
  ASSUME WInv, NEW w \in Executors, NEW sources \in WorkInputs, BeginWork(w, sources)
  PROVE  WInv'
<1> DEFINE e == [step |-> "plan", sources |-> sources]
<1>1. work' = [work EXCEPT ![w] = e] /\ UNCHANGED <<cacheVars, materialized, upsert, settled>>
  BY DEF BeginWork, cacheVars
<1>2. e \in WorkStates /\ e \notin Executions /\ e.step # "delete"
  BY DEF WorkStates, Executions, PlannedSteps
<1> HIDE DEF e
<1> QED BY <1>1, <1>2, ExecutorOnly, GrowsNot DEF ExecutionSound

LEMMA BatchWithin == ASSUME NEW rest PROVE NextBatch(rest) \subseteq rest
  BY DEF NextBatch

\* The steps of an execution that neither materialise nor touch the cache.
LEMMA QuietStepsKeep ==
  ASSUME WInv, NEW w \in Executors, HitsDone(w) \/ Encode(w) \/ EndWork(w)
  PROVE  WInv'
<1> DEFINE e == work[w]
<1>1. /\ UNCHANGED <<cacheVars, upsert, settled>> /\ UNCHANGED materialized /\ Grows
      /\ e \in WorkStates /\ ExecutionSound(e, materialized)
  BY GrowsNot DEF HitsDone, Encode, EndWork, WInv, WorkTypes
<1>2. CASE work' = [work EXCEPT ![w] = Rest0]
  BY <1>1, <1>2, Ends
<1>3. CASE HitsDone(w)
  <2> DEFINE next == [e EXCEPT !.step = IF e.misses = {} THEN "done" ELSE "encode"]
  <2>1. e.step = "hits" /\ e.hits = {} /\ work' = [work EXCEPT ![w] = next]
    BY <1>3 DEF HitsDone
  <2>2. e \in Executions
    BY <1>1, <2>1, ExecutionIs DEF PlannedSteps
  <2>3. /\ next \in Executions /\ next.sources = e.sources /\ next.hits = e.hits
        /\ next.misses = e.misses /\ next.batch = e.batch /\ next.todo = e.todo
        /\ next.known = e.known
        /\ next.step = IF e.misses = {} THEN "done" ELSE "encode"
    BY <2>2 DEF Executions, PlannedSteps
  <2> HIDE DEF next
  <2>4. ExecutionSound(next, materialized')
    BY <1>1, <2>1, <2>2, <2>3 DEF ExecutionSound
  <2> QED BY <1>1, <2>1, <2>3, <2>4, ExecutorOnly DEF WorkStates
<1>4. CASE Encode(w)
  <2> DEFINE batch == NextBatch(e.misses)
             answered == [e EXCEPT !.step = "batch", !.batch = batch, !.todo = batch]
  <2>1. e.step = "encode" /\ e \in Executions /\ batch \subseteq e.misses
    BY <1>1, <1>4, ExecutionIs, BatchWithin DEF Encode, PlannedSteps
  <2>2. ASSUME NEW bad \in SUBSET Texts, NEW next, next = [answered EXCEPT !.bad = bad],
               work' = [work EXCEPT ![w] = next]
        PROVE  WInv'
    <3>1. /\ next \in Executions /\ next.sources = e.sources /\ next.hits = e.hits
          /\ next.misses = e.misses /\ next.batch = batch /\ next.todo = batch
          /\ next.known = e.known /\ next.step = "batch"
      BY <2>1, <2>2 DEF Executions, PlannedSteps
    <3> HIDE DEF batch, answered
    <3>2. ExecutionSound(next, materialized')
      BY <1>1, <2>1, <3>1 DEF ExecutionSound
    <3> QED BY <1>1, <2>2, <3>1, <3>2, ExecutorOnly DEF WorkStates
  <2>3. answered = [answered EXCEPT !.bad = e.bad] /\ e.bad \in SUBSET Texts
    BY <2>1 DEF Executions
  <2>4. \A t \in batch : {t} \in SUBSET Texts
    BY <2>1 DEF Executions
  <2>5. \/ work' = [work EXCEPT ![w] = answered]
        \/ work' = [work EXCEPT ![w] = Rest0]
        \/ \E t \in batch : work' = [work EXCEPT ![w] = [answered EXCEPT !.bad = {t}]]
    BY <1>4 DEF Encode
  <2> HIDE DEF answered, batch
  <2> QED BY <1>2, <2>2, <2>3, <2>4, <2>5
<1>5. CASE EndWork(w)
  BY <1>2, <1>5 DEF EndWork
<1> QED BY <1>3, <1>4, <1>5, ZenonT(30)

-----------------------------------------------------------------------------
(* The cache                                                               *)

\* What the steps on the cache are about.
CacheTyped ==
  /\ cached' \in [CacheFiles -> [Texts -> {"absent", "good", "bad"}]]
  /\ cachePath' \in CacheFiles /\ handle' \in [Executors -> CacheFiles]
  /\ settled' \in [Executors -> SUBSET Texts]

Loses == \A v \in Executors : settled'[v] \subseteq settled[v]

\* What is settled in the end is in the rows of f, if that is at the path.
InRows(f, rows) ==
  \A v \in Executors, t \in Texts : t \in settled'[v] =>
    /\ f # cachePath => t \in settled[v]
    /\ f = cachePath => rows[t] = "good" /\ cachePath \notin broken /\ handle[v] = cachePath

LEMMA LoseIs ==
  ASSUME WInv, NEW T, Lose(T)
  PROVE  /\ settled' \in [Executors -> SUBSET Texts] /\ Loses
         /\ \A v \in Executors : settled'[v] = settled[v] \ T
  BY DEF WInv, WorkTypes, Lose, Loses

LEMMA RecoverKeeps ==
  ASSUME WInv, NEW w \in Executors, Recover(w)
  PROVE  CacheTyped /\ SettledSound' /\ Loses /\ \A v \in Executors : settled'[v] = {}
<1>1. /\ settled' \in [Executors -> SUBSET Texts] /\ Loses
      /\ \A v \in Executors : settled'[v] = {}
  BY LoseIs DEF Recover, WInv, WorkTypes
<1>2. CacheTyped
  BY <1>1 DEF WInv, WorkTypes, Recover, CacheTyped
<1> QED BY <1>1, <1>2 DEF SettledSound

\* A step on the file an executor has open that keeps what is settled.
LEMMA FileKeeps ==
  ASSUME WInv, NEW f \in CacheFiles, NEW rows \in [Texts -> {"absent", "good", "bad"}],
         cached' = [cached EXCEPT ![f] = rows], UNCHANGED <<broken, cachePath, handle>>,
         settled' \in [Executors -> SUBSET Texts],
         InRows(f, rows)
  PROVE  CacheTyped /\ SettledSound'
<1>1. CacheTyped
  BY DEF WInv, WorkTypes, CacheTyped
<1>2. cached'[cachePath] = IF f = cachePath THEN rows ELSE cached[cachePath]
  BY DEF WInv, WorkTypes
<1>3. ASSUME NEW v \in Executors, NEW t \in Texts, t \in settled'[v]
      PROVE  cached'[cachePath][t] = "good" /\ cachePath \notin broken /\ handle[v] = cachePath
  BY <1>2, <1>3 DEF WInv, SettledSound, InRows
<1> QED BY <1>1, <1>3 DEF SettledSound

LEMMA PlanKeeps ==
  ASSUME WInv, NEW w \in Executors, Plan(w)
  PROVE  WInv'
<1> DEFINE e == work[w]
           texts == TextsOf(e.sources)
<1>1. /\ e.step = "plan" /\ e \in WorkStates /\ UNCHANGED <<materialized, upsert>> /\ Grows
      /\ handle[w] \in CacheFiles /\ SettledSound /\ settled \in [Executors -> SUBSET Texts]
  BY GrowsNot DEF Plan, WInv, WorkTypes
<1>2. e.sources \in WorkInputs /\ e.sources \subseteq Sources
  BY <1>1 DEF WorkStates, Executions, PlannedSteps, Rest0, Sources
<1>3. texts \subseteq Texts /\ \A s \in e.sources : TextOf[s] \in texts
  BY <1>2 DEF TextsOf, Sources
<1>4. ASSUME NEW hits \in SUBSET texts, NEW invalid \in SUBSET texts,
             handle[w] = cachePath => Settled \cap texts \subseteq hits
      PROVE  /\ Planned(w, hits, invalid) \in WorkStates
             /\ ExecutionSound(Planned(w, hits, invalid), materialized')
             /\ Planned(w, hits, invalid).invalid = invalid
  <2> PICK p : p = Planned(w, hits, invalid)
    OBVIOUS
  <2>1. /\ p.sources = e.sources /\ p.hits = hits /\ p.misses = texts \ hits
        /\ p.step \in {"delete", "hits"}
        /\ p.batch = {} /\ p.todo = {} /\ p.invalid = invalid
        /\ p.known = IF handle[w] = cachePath THEN Settled ELSE {}
    BY DEF Planned
  <2>0. Settled \subseteq Texts
    BY <1>1 DEF Settled
  <2>2. p \in Executions
    BY <1>1, <1>2, <1>3, <2>0 DEF Planned, Executions, PlannedSteps
  <2>3. \A s \in e.sources : TextOf[s] \in p.hits \cup (p.misses \ p.batch)
    BY <1>3, <2>1
  <2>4. p.misses \cap p.known = {}
    BY <1>4, <2>1
  <2>5. ExecutionSound(p, materialized')
    BY <2>1, <2>3, <2>4 DEF ExecutionSound
  <2> QED BY <2>1, <2>2, <2>5 DEF WorkStates
<1>5. CASE handle[w] \in broken
  <2>1. Recover(w) /\ work' = [work EXCEPT ![w] = Planned(w, {}, {})]
    BY <1>5 DEF Plan
  <2>2. handle[w] = cachePath => Settled = {}
    BY <1>1, <1>5 DEF SettledSound, Settled
  <2>3. /\ Planned(w, {}, {}) \in WorkStates
        /\ ExecutionSound(Planned(w, {}, {}), materialized')
        /\ Planned(w, {}, {}).invalid = {}
    BY <1>4, <2>2
  <2>4. CacheTyped /\ SettledSound' /\ Loses
    BY <2>1, RecoverKeeps
  <2> PICK p : p = Planned(w, {}, {})
    OBVIOUS
  <2>5. p \in WorkStates /\ ExecutionSound(p, materialized') /\ p.invalid = {}
        /\ work' = [work EXCEPT ![w] = p]
    BY <2>1, <2>3
  <2>6. \A v \in Executors : v # w => settled'[v] \subseteq settled[v]
    BY <2>4 DEF Loses
  <2>7. p.step = "delete" => p.invalid \cap settled'[w] = {}
    BY <2>5
  <2>8. UNCHANGED upsert /\ Grows
    BY <1>1
  <2> QED BY <2>4, <2>5, <2>6, <2>7, <2>8, ExecutorMoves DEF CacheTyped
<1>6. CASE handle[w] \notin broken
  <2> DEFINE hits == {t \in texts : cached[handle[w]][t] = "good"}
             invalid == {t \in texts : cached[handle[w]][t] = "bad"}
  <2>1. /\ work' = [work EXCEPT ![w] = Planned(w, hits, invalid)]
        /\ UNCHANGED <<cached, broken, cachePath, handle, settled>>
    BY <1>6 DEF Plan, cacheVars
  <2>2. handle[w] = cachePath => Settled \cap texts \subseteq hits
    BY <1>1, <1>3 DEF SettledSound, Settled
  <2>3. /\ Planned(w, hits, invalid) \in WorkStates
        /\ ExecutionSound(Planned(w, hits, invalid), materialized')
        /\ Planned(w, hits, invalid).invalid = invalid
    BY <1>4, <2>2
  <2>4. invalid \cap settled[w] = {}
    BY <1>1, <1>3 DEF SettledSound
  <2> HIDE DEF hits, invalid
  <2>5. CacheTyped /\ SettledSound' /\ Loses
    BY <1>1, <2>1 DEF SettledSound, CacheTyped, Loses, WInv, WorkTypes
  <2> QED BY <1>1, <2>1, <2>3, <2>4, <2>5, ExecutorMoves DEF CacheTyped, Loses
<1> QED BY <1>5, <1>6

\* The rows found invalid are none of this executor's own.
LEMMA DeleteInvalidKeeps ==
  ASSUME WInv, NEW w \in Executors, DeleteInvalid(w)
  PROVE  WInv'
<1> DEFINE e == work[w]
           f == handle[w]
           rows == WithoutInvalid(w)
<1>1. /\ e.step = "delete" /\ e \in WorkStates /\ UNCHANGED <<materialized, upsert>> /\ Grows
      /\ UNCHANGED <<broken, cachePath, handle>>
      /\ f \in CacheFiles /\ SettledSound /\ settled \in [Executors -> SUBSET Texts]
      /\ cached[f] \in [Texts -> {"absent", "good", "bad"}] /\ ExecutionSound(e, materialized)
  BY GrowsNot DEF DeleteInvalid, WInv, WorkTypes
<1>2. CASE work' = [work EXCEPT ![w] = Rest0] /\ UNCHANGED <<cached, settled>>
  BY <1>1, <1>2, Ends DEF cacheVars
<1>3. CASE /\ cached' = [cached EXCEPT ![f] = rows]
           /\ Lose(IF f = cachePath THEN e.invalid ELSE {})
           /\ work' = [work EXCEPT ![w] = [e EXCEPT !.step = "hits", !.invalid = {}]]
  <2> DEFINE next == [e EXCEPT !.step = "hits", !.invalid = {}]
  <2>1. e \in Executions
    BY <1>1, ExecutionIs DEF PlannedSteps
  <2>2. /\ next \in Executions /\ next.sources = e.sources /\ next.hits = e.hits
        /\ next.misses = e.misses /\ next.batch = e.batch /\ next.todo = e.todo
        /\ next.known = e.known /\ next.step = "hits"
    BY <2>1 DEF Executions, PlannedSteps
  <2>3. /\ settled' \in [Executors -> SUBSET Texts] /\ Loses
        /\ \A v \in Executors : f = cachePath => settled'[v] = settled[v] \ e.invalid
    BY <1>3, LoseIs
  <2>4. /\ rows \in [Texts -> {"absent", "good", "bad"}]
        /\ \A t \in Texts : t \notin e.invalid => rows[t] = cached[f][t]
    BY <1>1 DEF WithoutInvalid
  <2>7. work' = [work EXCEPT ![w] = next]
    BY <1>3
  <2> HIDE DEF next, rows, f
  <2>5. ExecutionSound(next, materialized')
    BY <1>1, <2>1, <2>2 DEF ExecutionSound
  <2>6. CacheTyped /\ SettledSound'
    <3>1. ASSUME NEW v \in Executors, NEW t \in Texts, t \in settled'[v]
          PROVE  /\ f # cachePath => t \in settled[v]
                 /\ f = cachePath => rows[t] = "good" /\ cachePath \notin broken
                                      /\ handle[v] = cachePath
      BY <1>1, <2>3, <2>4, <3>1 DEF SettledSound, Loses
    <3>2. InRows(f, rows)
      BY <3>1 DEF InRows
    <3> QED BY <1>1, <1>3, <2>3, <2>4, <3>2, FileKeeps
  <2> QED BY <1>1, <2>2, <2>3, <2>5, <2>6, <2>7, ExecutorMoves
          DEF CacheTyped, Loses, WorkStates
<1> QED BY <1>2, <1>3 DEF DeleteInvalid

LEMMA PutManyKeeps ==
  ASSUME WInv, NEW w \in Executors, PutMany(w)
  PROVE  WInv'
<1> DEFINE e == work[w]
<1>1. /\ e.step = "put" /\ e \in WorkStates /\ UNCHANGED <<materialized, upsert>> /\ Grows
      /\ handle[w] \in CacheFiles /\ SettledSound /\ settled \in [Executors -> SUBSET Texts]
      /\ cached[handle[w]] \in [Texts -> {"absent", "good", "bad"}] /\ ExecutionSound(e, materialized)
  BY GrowsNot DEF PutMany, WInv, WorkTypes
<1>2. e \in Executions /\ e.batch \subseteq Texts
  BY <1>1, ExecutionIs DEF PlannedSteps
<1>3. AfterBatch(w) \in WorkStates /\ ExecutionSound(AfterBatch(w), materialized')
      /\ AfterBatch(w).step # "delete"
  <2> PICK a : a = AfterBatch(w)
    OBVIOUS
  <2>1. /\ a \in Executions /\ a.sources = e.sources /\ a.hits = e.hits
        /\ a.misses = e.misses \ e.batch /\ a.batch = {} /\ a.todo = e.todo
        /\ a.known = e.known
        /\ a.step = IF a.misses = {} THEN "done" ELSE "encode"
    BY <1>2 DEF AfterBatch, Executions, PlannedSteps
  <2>2. ExecutionSound(a, materialized')
    BY <1>1, <1>2, <2>1 DEF ExecutionSound
  <2> QED BY <2>1, <2>2 DEF WorkStates
<1>4. CASE handle[w] \in broken
  <2>1. Recover(w) /\ work' = [work EXCEPT ![w] = AfterBatch(w)]
    BY <1>4 DEF PutMany
  <2> QED BY <1>1, <1>3, <2>1, RecoverKeeps, ExecutorMoves DEF CacheTyped, Loses
<1>5. CASE handle[w] \notin broken
  <2>1. UNCHANGED <<broken, cachePath, handle>>
    BY <1>5 DEF PutMany
  <2>2. CASE work' = [work EXCEPT ![w] = Rest0] /\ UNCHANGED <<cached, settled>>
    BY <1>1, <2>1, <2>2, Ends DEF cacheVars
  <2>3. CASE /\ cached' = [cached EXCEPT ![handle[w]] = Stored(w)]
             /\ settled' = [settled EXCEPT ![w] =
                  @ \union (IF handle[w] = cachePath THEN e.batch ELSE {})]
             /\ work' = [work EXCEPT ![w] = AfterBatch(w)]
    <3>1. Stored(w) \in [Texts -> {"absent", "good", "bad"}]
          /\ \A t \in Texts : Stored(w)[t] = IF t \in e.batch THEN "good" ELSE cached[handle[w]][t]
      BY <1>1 DEF Stored
    <3>2. /\ settled' \in [Executors -> SUBSET Texts]
          /\ \A v \in Executors : settled'[v] =
               IF v = w /\ handle[w] = cachePath THEN settled[v] \union e.batch ELSE settled[v]
      BY <1>1, <1>2, <2>3
    <3>3. ASSUME NEW v \in Executors, NEW t \in Texts, t \in settled'[v]
          PROVE  /\ handle[w] # cachePath => t \in settled[v]
                 /\ handle[w] = cachePath => Stored(w)[t] = "good" /\ cachePath \notin broken
                                              /\ handle[v] = cachePath
      BY <1>1, <1>5, <3>1, <3>2, <3>3 DEF SettledSound
    <3>5. InRows(handle[w], Stored(w))
      BY <3>3 DEF InRows
    <3>4. CacheTyped /\ SettledSound'
      BY <1>1, <2>1, <2>3, <3>1, <3>2, <3>5, FileKeeps
    <3> QED BY <1>1, <1>3, <2>3, <3>2, <3>4, ExecutorMoves DEF CacheTyped
  <2> QED BY <1>5, <2>2, <2>3 DEF PutMany
<1> QED BY <1>4, <1>5

LEMMA RestartKeeps ==
  ASSUME WInv, NEW w \in Executors, Restart(w)
  PROVE  WInv'
<1>1. work' = [work EXCEPT ![w] = Rest0] /\ UNCHANGED <<materialized, upsert>> /\ Grows
  BY GrowsNot DEF Restart
<1>2. CacheTyped /\ SettledSound' /\ Loses
  <2>1. CASE Recover(w)
    BY <2>1, RecoverKeeps
  <2>2. CASE /\ handle' = [handle EXCEPT ![w] = cachePath]
             /\ UNCHANGED <<cached, broken, cachePath, settled>>
    BY <2>2 DEF WInv, WorkTypes, CacheTyped, SettledSound, Loses
  <2> QED BY <2>1, <2>2 DEF Restart
<1> QED BY <1>1, <1>2, RestIs, ExecutorMoves DEF CacheTyped, ExecutionSound, Loses

\* Steps that only concern the files.
LEMMA FilesOnly ==
  ASSUME WInv, CacheTyped, SettledSound', Loses, UNCHANGED <<work, materialized, upsert>>
  PROVE  WInv'
<1>1. WorkTypes'
  BY DEF WInv, WorkTypes, CacheTyped
<1>2. \A w \in Executors : ExecutionSound(work'[w], materialized')
  BY DEF WInv, ExecutionSound
<1>3. UpsertSound'
  BY DEF WInv, UpsertSound
<1>4. OthersRows'
  BY DEF WInv, OthersRows, Loses
<1> QED BY <1>1, <1>2, <1>3, <1>4 DEF WInv

LEMMA DamageKeeps ==
  ASSUME WInv, DamageFile \/ \E t \in Texts : DamageRow(t)
  PROVE  WInv'
<1>1. /\ cachePath \in CacheFiles /\ SettledSound /\ settled \in [Executors -> SUBSET Texts]
      /\ cached[cachePath] \in [Texts -> {"absent", "good", "bad"}]
  BY DEF WInv, WorkTypes
<1>2. CASE DamageFile
  <2>1. /\ settled' \in [Executors -> SUBSET Texts] /\ Loses
        /\ \A v \in Executors : settled'[v] = {}
    BY <1>1, <1>2, LoseIs DEF DamageFile
  <2> QED BY <1>2, <2>1, FilesOnly DEF DamageFile, WInv, WorkTypes, CacheTyped, SettledSound
<1>3. ASSUME NEW t \in Texts, DamageRow(t) PROVE WInv'
  <2> DEFINE rows == [cached[cachePath] EXCEPT ![t] = "bad"]
  <2>0. /\ settled' \in [Executors -> SUBSET Texts] /\ Loses
        /\ \A v \in Executors : settled'[v] = settled[v] \ {t}
    BY <1>3, LoseIs DEF DamageRow
  <2>1. /\ cached' = [cached EXCEPT ![cachePath] = rows]
        /\ UNCHANGED <<broken, cachePath, handle>> /\ UNCHANGED <<work, materialized, upsert>>
    BY <1>1, <1>3 DEF DamageRow, WInv, WorkTypes
  <2>2. rows \in [Texts -> {"absent", "good", "bad"}]
        /\ \A x \in Texts : x # t => rows[x] = cached[cachePath][x]
    BY <1>1
  <2> HIDE DEF rows
  <2>4. ASSUME NEW v \in Executors, NEW x \in Texts, x \in settled'[v]
        PROVE  rows[x] = "good" /\ cachePath \notin broken /\ handle[v] = cachePath
    BY <1>1, <2>0, <2>2, <2>4 DEF SettledSound
  <2>5. InRows(cachePath, rows)
    BY <2>4 DEF InRows
  <2>3. CacheTyped /\ SettledSound'
    BY <1>1, <2>0, <2>1, <2>2, <2>5, FileKeeps
  <2> QED BY <2>0, <2>1, <2>3, FilesOnly
<1> QED BY <1>2, <1>3

LEMMA PruneKeeps ==
  ASSUME WInv, NEW w \in Executors, NEW keep \in SUBSET Texts, PruneTo(w, keep)
  PROVE  WInv'
<1> DEFINE f == handle[w]
           rows == [t \in Texts |-> IF t \in keep THEN cached[f][t] ELSE "absent"]
<1>1. /\ f \in CacheFiles /\ SettledSound /\ settled \in [Executors -> SUBSET Texts]
      /\ cached[f] \in [Texts -> {"absent", "good", "bad"}]
  BY DEF WInv, WorkTypes
<1>2. /\ cached' = [cached EXCEPT ![f] = rows]
      /\ UNCHANGED <<broken, cachePath, handle>> /\ UNCHANGED <<work, materialized, upsert>>
  BY <1>1 DEF PruneTo, WInv, WorkTypes
<1>3. /\ rows \in [Texts -> {"absent", "good", "bad"}]
      /\ \A x \in keep : rows[x] = cached[f][x]
  BY <1>1
<1>4. /\ settled' \in [Executors -> SUBSET Texts] /\ Loses
      /\ \A v \in Executors : f = cachePath => settled'[v] = settled[v] \ (Texts \ keep)
  BY LoseIs DEF PruneTo
<1> HIDE DEF rows, f
<1>5. ASSUME NEW v \in Executors, NEW t \in Texts, t \in settled'[v]
      PROVE  /\ f # cachePath => t \in settled[v]
             /\ f = cachePath => rows[t] = "good" /\ cachePath \notin broken
                                  /\ handle[v] = cachePath
  BY <1>1, <1>3, <1>4, <1>5 DEF SettledSound, Loses
<1>7. InRows(f, rows)
  BY <1>5 DEF InRows
<1>6. CacheTyped /\ SettledSound'
  BY <1>1, <1>2, <1>3, <1>4, <1>7, FileKeeps
<1> QED BY <1>2, <1>4, <1>6, FilesOnly

-----------------------------------------------------------------------------
(* embed_and_upsert                                                        *)

LEMMA UpsertMoves ==
  ASSUME WInv, upsert' \in UpsertStates, UpsertSound',
         UNCHANGED <<cacheVars, work, materialized, settled>>
  PROVE  WInv'
<1>1. WorkTypes' /\ SettledSound' /\ OthersRows'
  BY DEF WInv, WorkTypes, SettledSound, OthersRows, cacheVars
<1>2. \A w \in Executors : ExecutionSound(work'[w], materialized')
  BY DEF WInv, ExecutionSound
<1> QED BY <1>1, <1>2 DEF WInv

LEMMA BeginUpsertKeeps ==
  ASSUME WInv, NEW sources \in WorkInputs, BeginUpsertCall(sources)
  PROVE  WInv'
<1>1. /\ upsert' = [step |-> IF sources = {} THEN "done" ELSE "going", sources |-> sources,
                    todo |-> sources, taken |-> {}, refused |-> {}, stored |-> 0,
                    rejected |-> 0]
      /\ UNCHANGED <<cacheVars, work, materialized, settled>>
  BY DEF BeginUpsertCall
<1>2. upsert' \in UpsertStates
  BY <1>1 DEF UpsertStates, Sources
<1>3. UpsertSound'
  BY <1>1, FS_EmptySet DEF UpsertSound
<1> QED BY <1>1, <1>2, <1>3, UpsertMoves

\* What joins a part of a finite set is counted.
LEMMA Counted ==
  ASSUME NEW S, IsFiniteSet(S), NEW A \in SUBSET S, NEW B \in SUBSET S, A \cap B = {}
  PROVE  Cardinality(A \cup B) = Cardinality(A) + Cardinality(B) /\ Cardinality(B) \in Nat
<1>1. IsFiniteSet(A) /\ IsFiniteSet(B)
  BY FS_Subset
<1>2. Cardinality(A) \in Nat /\ Cardinality(B) \in Nat /\ Cardinality(A \cap B) = 0
  BY <1>1, FS_CardinalityType, FS_EmptySet
<1>3. Cardinality(A \cup B) = Cardinality(A) + Cardinality(B) - Cardinality(A \cap B)
  BY <1>1, FS_Union
<1> QED BY <1>2, <1>3

LEMMA UpsertBatchKeeps ==
  ASSUME WInv, UpsertBatch
  PROVE  WInv'
<1> PICK u : u = upsert
  OBVIOUS
<1> PICK offered : offered = NextBatch(u.todo)
  OBVIOUS
<1> DEFINE ahead == u.todo \ offered
<1>1. /\ u.step = "going" /\ u \in UpsertStates /\ UpsertSound /\ offered \subseteq u.todo
      /\ UNCHANGED <<cacheVars, work, materialized, settled>>
  BY BatchWithin DEF UpsertBatch, WInv, WorkTypes
<1>2. /\ u.sources \in WorkInputs /\ u.todo \subseteq Sources /\ u.taken \subseteq Sources
      /\ u.refused \subseteq Sources /\ u.stored \in Nat /\ u.rejected \in Nat
      /\ u = [step |-> u.step, sources |-> u.sources, todo |-> u.todo, taken |-> u.taken,
              refused |-> u.refused, stored |-> u.stored, rejected |-> u.rejected]
  BY <1>1 DEF UpsertStates, NoUpsert
<1>3. IsFiniteSet(u.sources)
  BY <1>2
<1>4. /\ u.taken \cup u.refused \cup u.todo = u.sources
      /\ u.taken \cap u.refused = {} /\ (u.taken \cup u.refused) \cap u.todo = {}
      /\ u.stored = Cardinality(u.taken) /\ u.rejected = Cardinality(u.refused)
  BY <1>1 DEF UpsertSound
<1>5. ASSUME NEW more \in SUBSET Sources,
             upsert' = [step |-> "failed", sources |-> u.sources, todo |-> u.todo,
                        taken |-> u.taken \cup more, refused |-> u.refused,
                        stored |-> u.stored, rejected |-> u.rejected]
      PROVE  WInv'
  <2>1. upsert' \in UpsertStates
    BY <1>2, <1>5 DEF UpsertStates
  <2>2. UpsertSound'
    BY <1>5 DEF UpsertSound
  <2> QED BY <1>1, <2>1, <2>2, UpsertMoves
<1>6. ASSUME NEW taken \in SUBSET offered,
             upsert' = [u EXCEPT !.todo = ahead,
               !.step = IF ahead = {} THEN "done" ELSE "going",
               !.taken = @ \union taken, !.refused = @ \union (offered \ taken),
               !.stored = @ + Cardinality(taken),
               !.rejected = @ + Cardinality(offered \ taken)]
      PROVE  WInv'
  <2> PICK n : n = upsert'
    OBVIOUS
  <2> PICK m1 : m1 = Cardinality(taken)
    OBVIOUS
  <2> PICK m2 : m2 = Cardinality(offered \ taken)
    OBVIOUS
  <2>1. /\ n.step = IF ahead = {} THEN "done" ELSE "going"
        /\ n.sources = u.sources /\ n.todo = ahead /\ n.taken = u.taken \cup taken
        /\ n.refused = u.refused \cup (offered \ taken)
        /\ n.stored = u.stored + m1 /\ n.rejected = u.rejected + m2
        /\ n = [step |-> n.step, sources |-> n.sources, todo |-> n.todo, taken |-> n.taken,
                refused |-> n.refused, stored |-> n.stored, rejected |-> n.rejected]
    BY <1>2, <1>6
  <2>2. Cardinality(u.taken \cup taken) = Cardinality(u.taken) + m1 /\ m1 \in Nat
    <3>1. taken \in SUBSET u.sources /\ u.taken \in SUBSET u.sources /\ u.taken \cap taken = {}
      BY <1>1, <1>4
    <3>2. /\ Cardinality(u.taken \cup taken) = Cardinality(u.taken) + Cardinality(taken)
          /\ Cardinality(taken) \in Nat
      BY ONLY <1>3, <3>1, Counted
    <3> QED BY <3>2
  <2>3. Cardinality(u.refused \cup (offered \ taken)) = Cardinality(u.refused) + m2 /\ m2 \in Nat
    <3>1. offered \ taken \in SUBSET u.sources /\ u.refused \in SUBSET u.sources
          /\ u.refused \cap (offered \ taken) = {}
      BY <1>1, <1>4
    <3>2. /\ Cardinality(u.refused \cup (offered \ taken)) =
               Cardinality(u.refused) + Cardinality(offered \ taken)
          /\ Cardinality(offered \ taken) \in Nat
      BY ONLY <1>3, <3>1, Counted
    <3> QED BY <3>2
  <2>4. n \in UpsertStates
    BY <1>1, <1>2, <2>1, <2>2, <2>3 DEF UpsertStates
  <2>5. UpsertSound'
    <3>1. n.taken \cup n.refused \cup n.todo = n.sources /\ n.taken \cap n.refused = {}
          /\ (n.taken \cup n.refused) \cap n.todo = {}
      BY <1>1, <1>4, <2>1
    <3>2. n.stored = Cardinality(n.taken) /\ n.rejected = Cardinality(n.refused)
      BY <1>4, <2>1, <2>2, <2>3
    <3> QED BY <2>1, <3>1, <3>2 DEF UpsertSound
  <2> QED BY <1>1, <2>4, <2>5, UpsertMoves, SMTT(40)
<1>7. \/ \E taken \in SUBSET offered :
           upsert' = [u EXCEPT !.todo = ahead,
               !.step = IF ahead = {} THEN "done" ELSE "going",
               !.taken = @ \union taken, !.refused = @ \union (offered \ taken),
               !.stored = @ + Cardinality(taken),
               !.rejected = @ + Cardinality(offered \ taken)]
      \/ upsert' = [u EXCEPT !.step = "failed"]
      \/ \E taken \in SUBSET offered :
           upsert' = [u EXCEPT !.step = "failed", !.taken = @ \union taken]
  BY DEF UpsertBatch
<1>8. CASE upsert' = [u EXCEPT !.step = "failed"]
  <2>1. u.taken \cup {} = u.taken /\ {} \in SUBSET Sources
    OBVIOUS
  <2>2. upsert' = [step |-> "failed", sources |-> u.sources, todo |-> u.todo,
                   taken |-> u.taken \cup {}, refused |-> u.refused, stored |-> u.stored,
                   rejected |-> u.rejected]
    BY <1>2, <1>8, <2>1
  <2> QED BY <1>5, <2>1, <2>2
<1>9. ASSUME NEW taken \in SUBSET offered,
             upsert' = [u EXCEPT !.step = "failed", !.taken = @ \union taken]
      PROVE  WInv'
  <2>1. taken \in SUBSET Sources
    BY <1>1, <1>2
  <2>2. upsert' = [step |-> "failed", sources |-> u.sources, todo |-> u.todo,
                   taken |-> u.taken \cup taken, refused |-> u.refused, stored |-> u.stored,
                   rejected |-> u.rejected]
    BY <1>2, <1>9
  <2> QED BY <1>5, <2>1, <2>2
<1> QED BY <1>6, <1>7, <1>8, <1>9

LEMMA NextWInv == WInv /\ [SemanticNext]_workVars => WInv'
<1> SUFFICES ASSUME WInv, [SemanticNext]_workVars PROVE WInv'
  OBVIOUS
<1>1. CASE UNCHANGED workVars
  BY <1>1 DEF workVars, WInv, WorkTypes, ExecutionSound, SettledSound, OthersRows, UpsertSound
<1>2. CASE SemanticNext
  BY <1>2, BeginWorkKeeps, PlanKeeps, DeleteInvalidKeeps, MaterializeHitKeeps, QuietStepsKeep,
     MaterializeMissKeeps, PutManyKeeps, RestartKeeps, DamageKeeps, PruneKeeps,
     BeginUpsertKeeps, UpsertBatchKeeps DEF SemanticNext, WorkStep
<1> QED BY <1>1, <1>2

LEMMA KeptFromWInv == WInv => EmbeddingWorkKept
<1> SUFFICES ASSUME WInv PROVE EmbeddingWorkKept
  OBVIOUS
<1>1. ASSUME NEW w \in Executors, work[w].step \in PlannedSteps
      PROVE  work[w] \in Executions /\ ExecutionSound(work[w], materialized)
  BY <1>1, ExecutionIs DEF WInv, WorkTypes
<1>2. \A w \in Executors : work[w].step = "done" =>
        \A s \in work[w].sources : materialized[s] = TextOf[s]
  BY <1>1 DEF PlannedSteps, ExecutionSound
<1>3. upsert.step = "done" =>
        /\ upsert.taken \union upsert.refused = upsert.sources
        /\ upsert.stored = Cardinality(upsert.taken)
        /\ upsert.rejected = Cardinality(upsert.refused)
  BY DEF WInv, UpsertSound
<1>4. CachedIsNotEncoded
  BY <1>1 DEF CachedIsNotEncoded, PlannedSteps, ExecutionSound
<1>5. WorkIsWhole
  BY <1>2, <1>3 DEF WorkIsWhole, WInv
<1>6. OwnWorkStays
  BY DEF OwnWorkStays, WInv, WorkTypes, SettledSound, OthersRows
<1> QED BY <1>4, <1>5, <1>6 DEF EmbeddingWorkKept

(* The invariant of embedding work: what an execution has not materialised  *)
(* is still ahead of it, what counts as cached is in the file at the path,  *)
(* open with whoever cached it, and no lookup is about to delete a row that *)
(* its executor has cached (SemanticWorkPlanner.execute, get_many).        *)
THEOREM WorkSoundAlways == SemanticSpec => []WInv
<1> QED BY InitWInv, NextWInv, PTL DEF SemanticSpec

(* Embedding work that ends well is whole, a text that was cached and not   *)
(* lost since is not encoded again, and what an executor cached is only     *)
(* deleted or unlinked unseen by another (SemanticWorkPlanner.execute,     *)
(* get_many, _recover, embed_and_upsert).                                  *)
THEOREM WorkAlwaysKept == SemanticSpec => []EmbeddingWorkKept
<1> QED BY WorkSoundAlways, KeptFromWInv, PTL
=============================================================================
