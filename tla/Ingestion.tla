----------------------------- MODULE Ingestion -----------------------------
(***************************************************************************)
(* Resumable ingestion of content sources: the batch loop and checkpoint   *)
(* policy of ResumableSemanticCoordinator.run_source                       *)
(* (indexing/coordinator.py) and of SearchKernel.iter_ingest_source        *)
(* (kernel.py), over one JsonCheckpointStore file (indexing/checkpoints.py).*)
(*                                                                         *)
(* A source is an append-only log of positions; a position carries a       *)
(* version of one record, or no record where the source filters it out.    *)
(* A cursor is the position read up to, and 0 is None.  The lexical and    *)
(* the semantic store keep for every record the version written last.      *)
(* Steps interleave at every await; a cancelled call leaves the worker     *)
(* thread of asyncio.to_thread running ("orphans").  The explicit `since`  *)
(* argument, progress events and availability are left out.                *)
(***************************************************************************)
EXTENDS Naturals, FiniteSets

CONSTANTS
  Procs,       \* tasks that run ingestion
  Sources,     \* content sources (one workspace)
  Keys,        \* records of a source
  NoKey,       \* a log position without a record
  KeyOf,       \* source -> position -> record
  Batched,     \* sources that implement iter_batches
  EntriesOf,   \* task -> the entry points it uses
  Owns,        \* task -> the sources it ingests
  Modes,       \* failure modes used
  BatchSize,   \* the batch_size argument
  SkipsCursor, \* whether a SourceBatch may come without a terminal cursor
  Cancels,     \* whether callers cancel a running ingestion
  MaxLog,      \* bound on the length of a source's log
  MaxFaults    \* bound on failing calls, cancellations and crashes

Entries == {"coordinator", "kernel"}
Stores == {"lexical", "semantic"}
Positions == 1..MaxLog
Cursors == 0..MaxLog

ASSUME SourceAssumption ==
  /\ Sources # {}
  /\ NoKey \notin Keys
  /\ KeyOf \in [Sources -> [Positions -> Keys \cup {NoKey}]]
  /\ Batched \subseteq Sources
  /\ \A s \in Sources \ Batched, x \in Positions : KeyOf[s][x] # NoKey
  /\ EntriesOf \in [Procs -> SUBSET Entries]
  /\ Owns \in [Procs -> SUBSET Sources]
  /\ Modes \subseteq {"strict", "lenient"}
  /\ SkipsCursor \in BOOLEAN
  /\ Cancels \in BOOLEAN

ASSUME BoundAssumption ==
  /\ BatchSize \in Nat \ {0}
  /\ MaxLog \in Nat
  /\ MaxFaults \in Nat

VARIABLES
  produced, \* source -> length of its log
  index,    \* store -> source -> record -> version written last
  written,  \* store -> source -> positions ever written
  file,     \* source -> durable cursor in the checkpoint file
  acked,    \* source -> checkpoint of the last receipt returned
  pc,       \* task -> where its ingestion is
  job,      \* task -> the source it ingests, entry point and failure mode
  progress, \* task -> current_checkpoint and checkpoint_blocked
  stream,   \* task -> what the source's iterator has delivered
  hand,     \* task -> the batch being indexed and its terminal cursor
  saving,   \* task -> the cursor being saved, and the file it is merged into
  orphans,  \* worker threads that outlive their cancelled call
  faults

stores == <<index, written>>
task == <<pc, job, progress, stream, hand, saving>>
vars == <<produced, stores, file, acked, task, orphans, faults>>

-----------------------------------------------------------------------------
PCs == {"idle", "read", "hand", "lexical", "semantic", "ingest", "settle",
        "save_read", "save_write"}

Jobs == [src : Sources, entry : Entries, mode : {"strict", "lenient"}]
Progresses == [current : Cursors, blocked : BOOLEAN]

\* upto: the last position delivered; todo: delivered records not yet handed
\* out; ends: terminal_cursor of the SourceBatch; ended: nothing follows.
Streams == [upto : Cursors, todo : SUBSET Positions, ends : Cursors,
            ended : BOOLEAN]
Hands == [batch : SUBSET Positions, terminal : Cursors]
Files == [Sources -> Cursors]
Savings == [cursor : Cursors, snapshot : Files]

NoJob == [src |-> CHOOSE s \in Sources : TRUE, entry |-> "kernel",
          mode |-> "strict"]
NoProgress == [current |-> 0, blocked |-> FALSE]
NoStream == [upto |-> 0, todo |-> {}, ends |-> 0, ended |-> FALSE]
NoHand == [batch |-> {}, terminal |-> 0]
EmptyFile == [s \in Sources |-> 0]
NoSaving == [cursor |-> 0, snapshot |-> EmptyFile]

\* A thread still writing a batch, or still saving the checkpoint file.
Writers == [owner : Procs, op : Stores, src : Sources,
            batch : SUBSET Positions]
Savers == [owner : Procs, op : {"save"}, src : Sources, cursor : Cursors,
           snapshot : Files]

At(p, step) == pc[p] = step
Src(p) == job[p].src
Batch(p) == hand[p].batch

Goto(p, step) == pc' = [pc EXCEPT ![p] = step]

Return(p) ==
  /\ Goto(p, "idle")
  /\ job' = [job EXCEPT ![p] = NoJob]
  /\ progress' = [progress EXCEPT ![p] = NoProgress]
  /\ stream' = [stream EXCEPT ![p] = NoStream]
  /\ hand' = [hand EXCEPT ![p] = NoHand]
  /\ saving' = [saving EXCEPT ![p] = NoSaving]

\* On to the next batch, with these current_checkpoint, checkpoint_blocked.
ContinueWith(p, current, blocked) ==
  /\ Goto(p, IF stream[p].todo = {} THEN "read" ELSE "hand")
  /\ progress' = [progress EXCEPT ![p] = [current |-> current,
                                         blocked |-> blocked]]
  /\ hand' = [hand EXCEPT ![p] = NoHand]
  /\ saving' = [saving EXCEPT ![p] = NoSaving]
  /\ UNCHANGED <<job, stream>>

Continue(p) == ContinueWith(p, progress[p].current, progress[p].blocked)

BeginSave(p, cursor, blocked) ==
  /\ Goto(p, "save_read")
  /\ progress' = [progress EXCEPT ![p] = [current |-> @.current,
                                         blocked |-> blocked]]
  /\ saving' = [saving EXCEPT ![p] = [cursor |-> cursor,
                                     snapshot |-> EmptyFile]]
  /\ UNCHANGED <<job, stream, hand>>

\* The last position of S, as a set of at most one.
Latest(S) == {x \in S : \A y \in S : y <= x}

\* The n smallest positions of S.
First(S, n) == {x \in S : Cardinality({y \in S : y <= x}) <= n}

Records(s, lo, hi) ==
  {x \in Positions : lo < x /\ x <= hi /\ KeyOf[s][x] # NoKey}

\* A store takes the positions of W in log order: the last version of a
\* record wins.
Upsert(versions, s, W) ==
  [k \in Keys |-> LET last == Latest({x \in W : KeyOf[s][x] = k})
                  IN  IF last = {} THEN versions[k] ELSE CHOOSE x \in last : TRUE]

\* Each store t writes the positions W[t].
WriteAll(s, W) ==
  /\ index' = [t \in Stores |->
                 [index[t] EXCEPT ![s] = Upsert(@, s, W[t])]]
  /\ written' = [t \in Stores |-> [written[t] EXCEPT ![s] = @ \cup W[t]]]

Write(store, s, W) ==
  WriteAll(s, [t \in Stores |-> IF t = store THEN W ELSE {}])

Fault == faults < MaxFaults /\ faults' = faults + 1

-----------------------------------------------------------------------------
Init ==
  /\ produced = [s \in Sources |-> 0]
  /\ index = [t \in Stores |-> [s \in Sources |-> [k \in Keys |-> 0]]]
  /\ written = [t \in Stores |-> [s \in Sources |-> {}]]
  /\ file = EmptyFile
  /\ acked = [s \in Sources |-> 0]
  /\ pc = [p \in Procs |-> "idle"]
  /\ job = [p \in Procs |-> NoJob]
  /\ progress = [p \in Procs |-> NoProgress]
  /\ stream = [p \in Procs |-> NoStream]
  /\ hand = [p \in Procs |-> NoHand]
  /\ saving = [p \in Procs |-> NoSaving]
  /\ orphans = {}
  /\ faults = 0

\* The source gains a record version.
Produce(s) ==
  /\ produced[s] < MaxLog
  /\ produced' = [produced EXCEPT ![s] = @ + 1]
  /\ UNCHANGED <<stores, file, acked, task, orphans, faults>>

\* Both entry points: load the checkpoint and open the stream after it.
Start(p, s, e, m) ==
  /\ At(p, "idle")
  /\ s \in Owns[p]
  /\ e \in EntriesOf[p]
  /\ m \in Modes
  /\ Goto(p, "read")
  /\ job' = [job EXCEPT ![p] = [src |-> s, entry |-> e, mode |-> m]]
  /\ progress' = [progress EXCEPT ![p] = [current |-> file[s],
                                         blocked |-> FALSE]]
  /\ stream' = [stream EXCEPT ![p] = [upto |-> file[s], todo |-> {},
                                     ends |-> 0, ended |-> FALSE]]
  /\ UNCHANGED <<produced, stores, file, acked, hand, saving, orphans, faults>>

-----------------------------------------------------------------------------
(* The stream and its batches                                              *)

\* The stream delivers the positions up to hi.
Deliver(p, hi, ends, ended) ==
  /\ Goto(p, "hand")
  /\ stream' = [stream EXCEPT ![p] =
       [upto |-> hi, todo |-> Records(Src(p), stream[p].upto, hi),
        ends |-> ends, ended |-> ended]]
  /\ UNCHANGED <<produced, stores, file, acked, job, progress, hand, saving,
                 orphans, faults>>

\* iter_records: up to batch_size records; a short batch ends the stream.
DeliverRecords(p) ==
  /\ At(p, "read")
  /\ Src(p) \notin Batched
  /\ ~stream[p].ended
  /\ stream[p].upto < produced[Src(p)]
  /\ LET full == stream[p].upto + BatchSize <= produced[Src(p)]
         hi == IF full THEN stream[p].upto + BatchSize ELSE produced[Src(p)]
     IN  Deliver(p, hi, hi, ~full)

\* iter_batches: a SourceBatch of any length, possibly without records.
DeliverSourceBatch(p) ==
  /\ At(p, "read")
  /\ Src(p) \in Batched
  /\ \E hi \in Positions :
       /\ stream[p].upto < hi
       /\ hi <= produced[Src(p)]
       /\ \/ Deliver(p, hi, hi, FALSE)
          \/ SkipsCursor /\ Deliver(p, hi, 0, FALSE)

\* Part of the delivered records is taken, with this terminal cursor.
TakeBatch(p, part, terminal) ==
  /\ Goto(p, IF part = {} THEN "settle"
             ELSE IF job[p].entry = "kernel" THEN "ingest" ELSE "lexical")
  /\ hand' = [hand EXCEPT ![p] = [batch |-> part, terminal |-> terminal]]
  /\ stream' = [stream EXCEPT ![p] =
       [upto |-> @.upto, todo |-> @.todo \ part, ends |-> @.ends,
        ended |-> @.ended]]
  /\ UNCHANGED <<produced, stores, file, acked, job, progress, saving, orphans,
                 faults>>

\* The coordinator cuts a source batch into parts of at most batch_size
\* records; the kernel takes it whole.
Part(p) == IF job[p].entry = "kernel" THEN stream[p].todo
           ELSE First(stream[p].todo, BatchSize)

\* Mutant: every part of a source batch carries its terminal cursor.
HandWithCursor(p) == At(p, "hand") /\ TakeBatch(p, Part(p), stream[p].ends)

\* Only the last part carries the terminal cursor.
Hand(p) ==
  /\ At(p, "hand")
  /\ TakeBatch(p, Part(p),
               IF Part(p) = stream[p].todo THEN stream[p].ends ELSE 0)

\* The loop ends and the receipt is returned.
Finish(p) ==
  /\ At(p, "read")
  /\ stream[p].ended \/ stream[p].upto = produced[Src(p)]
  /\ acked' = [acked EXCEPT ![Src(p)] = progress[p].current]
  /\ Return(p)
  /\ UNCHANGED <<produced, stores, file, orphans, faults>>

-----------------------------------------------------------------------------
(* The coordinator                                                         *)

\* Mutant: a failed batch in lenient mode does not block the checkpoint.
FailBatchUnblocked(p) ==
  IF job[p].mode = "strict" THEN Return(p) ELSE Continue(p)

\* A failed batch: strict raises IngestionError, lenient goes on with the
\* checkpoint blocked for the rest of the run.
FailBatch(p) ==
  IF job[p].mode = "strict" THEN Return(p)
  ELSE ContinueWith(p, progress[p].current, TRUE)

\* A stage writes the whole batch, or fails after some of its records.
Stage(p, store, next) ==
  \/ /\ Write(store, Src(p), Batch(p))
     /\ Goto(p, next)
     /\ UNCHANGED <<produced, file, acked, job, progress, stream, hand, saving,
                    orphans, faults>>
  \/ /\ Fault
     /\ \E W \in SUBSET Batch(p) : Write(store, Src(p), W)
     /\ FailBatch(p)
     /\ UNCHANGED <<produced, file, acked, orphans>>

\* The record ingestor, or the explicit lexical and graph stages.
LexicalStage(p) == At(p, "lexical") /\ Stage(p, "lexical", "semantic")

\* planner.execute_async
SemanticStage(p) == At(p, "semantic") /\ Stage(p, "semantic", "settle")

\* The checkpoint may move to the terminal cursor of a successful batch.
Advances(p) ==
  /\ hand[p].terminal # 0
  /\ ~progress[p].blocked
  /\ hand[p].terminal # progress[p].current

\* Mutant: a batch without records does not move the checkpoint.
SettleSkipsEmpty(p) ==
  /\ At(p, "settle")
  /\ IF Advances(p) /\ Batch(p) # {} THEN BeginSave(p, hand[p].terminal, FALSE)
                                   ELSE Continue(p)
  /\ UNCHANGED <<produced, stores, file, acked, orphans, faults>>

\* The end of a batch that succeeded or held no records.
Settle(p) ==
  /\ At(p, "settle")
  /\ IF Advances(p) THEN BeginSave(p, hand[p].terminal, FALSE)
                    ELSE Continue(p)
  /\ UNCHANGED <<produced, stores, file, acked, orphans, faults>>

-----------------------------------------------------------------------------
(* The kernel                                                              *)

\* The records before the first failure.
Prefix(p, ok) == {x \in ok : \A y \in Batch(p) : y <= x => y \in ok}

LastOf(p, done) ==
  IF done = {} THEN {progress[p].current} ELSE Latest(done)

\* Mutant: failed records are skipped instead of stopping the scan.
SafeBatchCheckpointSkips(p, ok) == LastOf(p, ok)

\* The cursor of the last record before the first failure.
SafeBatchCheckpoint(p, ok) == LastOf(p, Prefix(p, ok))

\* Where the checkpoint moves when the records of ok succeeded (one cursor).
Candidates(p, ok) ==
  IF progress[p].blocked THEN {progress[p].current}
  ELSE IF hand[p].terminal # 0 /\ ok = Batch(p) THEN {hand[p].terminal}
  ELSE SafeBatchCheckpoint(p, ok)

\* What _ingest_batch does with the outcomes.
Conclude(p, ok) ==
  IF ok # Batch(p) /\ job[p].mode = "strict" THEN Return(p)
  ELSE LET blocked == progress[p].blocked \/ ok # Batch(p)
       IN  \E c \in Candidates(p, ok) :
             IF c # progress[p].current THEN BeginSave(p, c, blocked)
             ELSE ContinueWith(p, c, blocked)

\* index_records: the keyword and the semantic stage each write a set of
\* records, and a record succeeds when both did.
IngestBatch(p) ==
  /\ At(p, "ingest")
  /\ \E L, S \in SUBSET Batch(p) :
       /\ IF L \cap S = Batch(p) THEN UNCHANGED faults ELSE Fault
       /\ WriteAll(Src(p), [t \in Stores |-> IF t = "lexical" THEN L ELSE S])
       /\ Conclude(p, L \cap S)
  /\ UNCHANGED <<produced, file, acked, orphans>>

-----------------------------------------------------------------------------
(* JsonCheckpointStore._save: read the file, replace it                    *)

SaveRead(p) ==
  /\ At(p, "save_read")
  /\ Goto(p, "save_write")
  /\ saving' = [saving EXCEPT ![p] = [cursor |-> @.cursor, snapshot |-> file]]
  /\ UNCHANGED <<produced, stores, file, acked, job, progress, stream, hand,
                 orphans, faults>>

\* Mutant: the file is replaced without the cursors of the other sources.
SaveWriteForgets(p) ==
  /\ At(p, "save_write")
  /\ file' = [EmptyFile EXCEPT ![Src(p)] = saving[p].cursor]
  /\ ContinueWith(p, saving[p].cursor, progress[p].blocked)
  /\ UNCHANGED <<produced, stores, acked, orphans, faults>>

SaveWrite(p) ==
  /\ At(p, "save_write")
  /\ file' = [saving[p].snapshot EXCEPT ![Src(p)] = saving[p].cursor]
  /\ ContinueWith(p, saving[p].cursor, progress[p].blocked)
  /\ UNCHANGED <<produced, stores, acked, orphans, faults>>

-----------------------------------------------------------------------------
(* Failures around the loop                                                *)

\* The worker threads of the call p waits for.
Writing(p) == {t \in Stores : At(p, t) \/ At(p, "ingest")}

Threads(p) ==
  {[owner |-> p, op |-> t, src |-> Src(p), batch |-> Batch(p)] : t \in Writing(p)}
    \cup {[owner |-> p, op |-> "save", src |-> Src(p),
           cursor |-> saving[p].cursor, snapshot |-> saving[p].snapshot]
            : x \in {y \in {p} : At(y, "save_write")}}

\* The caller cancels: a worker thread that has started goes on.
Cancel(p) ==
  /\ Cancels
  /\ ~At(p, "idle")
  /\ Fault
  /\ \E T \in SUBSET Threads(p) : orphans' = orphans \cup T
  /\ Return(p)
  /\ UNCHANGED <<produced, stores, file, acked>>

OrphanWrites(o) ==
  /\ o.op \in Stores
  /\ Write(o.op, o.src, o.batch)
  /\ orphans' = orphans \ {o}
  /\ UNCHANGED <<produced, file, acked, task, faults>>

OrphanSaves(o) ==
  /\ o.op = "save"
  /\ file' = [o.snapshot EXCEPT ![o.src] = o.cursor]
  /\ orphans' = orphans \ {o}
  /\ UNCHANGED <<produced, stores, acked, task, faults>>

\* The process dies and takes its threads with it, or a call outside the
\* batch's try (the source, the checkpoint store) raises.
Crash(p) ==
  /\ ~At(p, "idle")
  /\ Fault
  /\ Return(p)
  /\ orphans' = {o \in orphans : o.owner # p}
  /\ UNCHANGED <<produced, stores, file, acked>>

-----------------------------------------------------------------------------
Step(p) ==
  \/ DeliverRecords(p) \/ DeliverSourceBatch(p) \/ Hand(p) \/ Finish(p)
  \/ LexicalStage(p) \/ SemanticStage(p) \/ Settle(p)
  \/ IngestBatch(p)
  \/ SaveRead(p) \/ SaveWrite(p)

Starts(p) ==
  \E s \in Sources, e \in Entries, m \in Modes : Start(p, s, e, m)

Next ==
  \/ \E s \in Sources : Produce(s)
  \/ \E p \in Procs : Starts(p) \/ Step(p) \/ Cancel(p) \/ Crash(p)
  \/ \E o \in orphans : OrphanWrites(o) \/ OrphanSaves(o)

Spec == Init /\ [][Next]_vars

\* The event loop runs every ready task and the threads finish; the
\* application keeps starting ingestion of every source.
FairSpec ==
  /\ Spec
  /\ \A p \in Procs : WF_vars(Step(p))
  /\ \A p \in Procs, s \in Sources :
       SF_vars(\E e \in Entries, m \in Modes : Start(p, s, e, m))

-----------------------------------------------------------------------------
(* Properties                                                              *)

\* The state is well formed (the cursors of the stores, of the file and of every task).
TypeOK ==
  /\ produced \in [Sources -> Cursors]
  /\ index \in [Stores -> [Sources -> [Keys -> Cursors]]]
  /\ written \in [Stores -> [Sources -> SUBSET Positions]]
  /\ file \in [Sources -> Cursors]
  /\ acked \in [Sources -> Cursors]
  /\ pc \in [Procs -> PCs]
  /\ job \in [Procs -> Jobs]
  /\ progress \in [Procs -> Progresses]
  /\ stream \in [Procs -> Streams]
  /\ hand \in [Procs -> Hands]
  /\ saving \in [Procs -> Savings]
  /\ orphans \subseteq Writers \cup Savers
  /\ faults \in 0..MaxFaults

Covered(s, c) == \A t \in Stores : Records(s, 0, c) \subseteq written[t][s]

\* The durable cursor never claims progress beyond a failed batch: every
\* record at or before it has been written to both stores, whatever failed,
\* was cancelled, crashed or ran at the same time (run_source, _ingest_batch
\* and the order of commit and checkpoint in them).
CheckpointCovered == \A s \in Sources : Covered(s, file[s])

\* What resuming from the durable cursor cannot repair does not happen: both
\* stores hold, for every record, a version no older than the last one at or
\* before the cursor (retries and replays after a failure never leave an
\* older version behind).
IndexCurrent ==
  \A s \in Sources, t \in Stores : \A x \in Records(s, 0, file[s]) :
    index[t][s][KeyOf[s][x]] >= x

\* The checkpoint a receipt reports stays durable.  So it is where one task
\* saves; of two tasks that save at once JsonCheckpointStore, which keeps the
\* cursors of all sources in one file, may lose either cursor.
ReceiptDurable == \A s \in Sources : file[s] >= acked[s]

\* With the application running ingestion again, every record is eventually
\* behind the durable checkpoint of its source, whatever failed, and although
\* tasks that save at once lose each other's cursors: a lost cursor is read
\* again from the file, and the tasks do not undo each other for ever.
EventuallyIndexed == <>[](\A s \in Sources : file[s] = produced[s])
=============================================================================
