---------------------------- MODULE RecordIngest ----------------------------
(***************************************************************************)
(* SemanticRecordIngestor.index_records (ingestion/records.py) over the    *)
(* local store: a batch of records is expanded with its chunks, a keyword  *)
(* thread and a semantic thread write it at the same time, each falls back *)
(* to one record at a time when a batch call raises, and the outcomes of   *)
(* the two stages are collapsed per record and merged into a receipt.      *)
(*                                                                         *)
(* One call at a time; a record is deleted only between calls.  The        *)
(* embedding cache is left out: an embedding is that of the text encoded.  *)
(* Cancellation and the checkpoint belong to module Ingestion.             *)
(***************************************************************************)
EXTENDS LocalStore, SequencesExt

CONSTANTS
  ChunksAt,   \* record -> version -> the chunks it is split into, in order
  Modes,      \* the failure modes calls are made with
  MaxFaults,  \* bound on the calls of an encoder or a store that raise
  MaxSearches \* bound on the searches begun

\* The worker threads of the two stages, and the thread of a caller's delete.
Stages == {"keyword", "semantic"}

ASSUME IngestAssumption ==
  /\ IsFiniteSet(Docs) /\ 1 \in Versions
  /\ Writers = Stages \cup {"deletion"}
  /\ ChunksAt \in [Docs -> [Versions -> Seq(Chunks)]]
  /\ \A d \in Docs, v \in Versions : ToSet(ChunksAt[d][v]) \subseteq {c \in Chunks : ParentOf[c] = d}
  /\ Modes \subseteq {"strict", "lenient"}
  /\ MaxFaults \in Nat /\ MaxSearches \in Nat

VARIABLES
  current,   \* record -> its version at the source; 0 once it is deleted
  call,      \* the index_records call under way
  stage,     \* stage -> where it is and the outcomes it has listed
  doomed,    \* the records a delete was called for
  receipt,   \* record -> version last reported committed, 0 for none
  faults,
  searches   \* searches begun

ingestVars == <<current, call, stage, doomed, receipt, faults, searches>>
vars == <<storeVars, ingestVars>>

NoCall == [sources |-> <<>>, mode |-> "strict"]
Waiting == [pc |-> "done", outcomes |-> <<>>]

Init ==
  /\ StoreInit
  /\ current = [d \in Docs |-> 1]
  /\ call = NoCall
  /\ stage = [s \in Stages |-> Waiting]
  /\ doomed = {}
  /\ receipt = [d \in Docs |-> 0]
  /\ faults = 0
  /\ searches = 0

Fault == faults < MaxFaults /\ faults' = faults + 1

-----------------------------------------------------------------------------
(* The batch                                                               *)

\* A record handed to a stage is a key with the version it was read at.
Expand(d) ==
  LET v == current[d]
  IN <<[key |-> d, version |-> v]>>
       \o [i \in DOMAIN ChunksAt[d][v] |-> [key |-> ChunksAt[d][v][i], version |-> v]]

SourceOf(k) == IF k \in Chunks THEN ParentOf[k] ELSE k

Batch(records) ==
  [k \in {e.key : e \in ToSet(records)} |->
     (CHOOSE e \in ToSet(records) : e.key = k).version]

\* A source is asked for what is not indexed yet.
Pending == {d \in Docs : current[d] \notin {0, receipt[d]}}

IndexRecords ==
  /\ call = NoCall
  /\ doomed = {}
  /\ \E D \in (SUBSET Pending) \ {{}}, mode \in Modes :
       \E order \in SetToSeqs(D) :
         /\ call' = [sources |-> order, mode |-> mode,
                     records |-> FlattenSeq([i \in DOMAIN order |-> Expand(order[i])])]
         /\ receipt' = [d \in Docs |-> IF d \in D THEN 0 ELSE receipt[d]]
  /\ stage' = [keyword |-> [pc |-> "batch", outcomes |-> <<>>],
               semantic |-> [pc |-> "encode", outcomes |-> <<>>]]
  /\ UNCHANGED <<storeVars, current, doomed, faults, searches>>

-----------------------------------------------------------------------------
(* The stages: outcomes is TRUE at the place of a committed record.        *)

InStage(s, pc) == stage[s].pc = pc

Go(s, pc) == stage' = [stage EXCEPT ![s].pc = pc]

Committed(s) ==
  stage' = [stage EXCEPT ![s] = [pc |-> "done",
                                 outcomes |-> [i \in DOMAIN call.records |-> TRUE]]]

\* One record at a time, the next is the one after the outcomes listed.
NextRecord(s) == call.records[Len(stage[s].outcomes) + 1]

Report(s, ok) ==
  LET outcomes == Append(stage[s].outcomes, ok)
      over == \/ Len(outcomes) = Len(call.records)
              \/ ~ok /\ call.mode = "strict"
  IN stage' = [stage EXCEPT ![s] = [pc |-> IF over THEN "done" ELSE @.pc,
                                    outcomes |-> outcomes]]

\* The planner and the encoder; the thread needs no lock.
EncodeBatch ==
  /\ InStage("semantic", "encode")
  /\ \/ Go("semantic", "batch") /\ UNCHANGED faults
     \/ Go("semantic", "encode each") /\ Fault
  /\ UNCHANGED <<storeVars, current, call, doomed, receipt, searches>>

EncodeFails ==
  /\ InStage("semantic", "encode each")
  /\ turn["semantic"] = "out"
  /\ Fault
  /\ Report("semantic", FALSE)
  /\ UNCHANGED <<storeVars, current, call, doomed, receipt, searches>>

AskToWrite(s) ==
  /\ \E pc \in {"batch", "each", "encode each"} : InStage(s, pc)
  /\ Ask(s)
  /\ UNCHANGED <<tables, snapshot, mutexes, search, ingestVars>>

Write(s, batch) == IF s = "keyword" THEN Index(batch) ELSE Upsert(batch)

WriteBatch(s) ==
  /\ InStage(s, "batch")
  /\ Commit(s)
  /\ \/ Write(s, Batch(call.records)) /\ Committed(s) /\ UNCHANGED faults
     \/ UNCHANGED tables /\ Go(s, "each") /\ Fault
  /\ UNCHANGED <<current, call, doomed, receipt, searches>>

WriteOne(s) ==
  /\ \E pc \in {"each", "encode each"} : InStage(s, pc)
  /\ Commit(s)
  /\ \/ Write(s, Batch(<<NextRecord(s)>>)) /\ Report(s, TRUE) /\ UNCHANGED faults
     \/ UNCHANGED tables /\ Report(s, FALSE) /\ Fault
  /\ UNCHANGED <<current, call, doomed, receipt, searches>>

-----------------------------------------------------------------------------
(* The receipt                                                             *)

\* Mutant of Collapsed: only the outcome of the record itself is looked at.
CollapsedOfParent(s, d) ==
  \E i \in DOMAIN stage[s].outcomes :
    call.records[i].key = d /\ stage[s].outcomes[i]

\* _collapse_outcomes: outcomes are paired with the records in order, as far
\* as they go; a record with none is failed.
Collapsed(s, d) ==
  LET related == {i \in DOMAIN stage[s].outcomes : SourceOf(call.records[i].key) = d}
  IN related # {} /\ \A i \in related : stage[s].outcomes[i]

\* _merge_stage_outcomes: a strict receipt ends at the first failed record.
Merged ==
  LET good(i) == \A s \in Stages : Collapsed(s, call.sources[i])
  IN {call.sources[i] : i \in {j \in DOMAIN call.sources :
        /\ good(j)
        /\ call.mode = "strict" => \A h \in 1..j : good(h)}}

VersionRead(d) == (CHOOSE e \in ToSet(call.records) : e.key = d).version

Return ==
  /\ call # NoCall
  /\ \A s \in Stages : InStage(s, "done")
  /\ receipt' = [d \in Docs |-> IF d \in Merged THEN VersionRead(d) ELSE receipt[d]]
  /\ call' = NoCall
  /\ stage' = [s \in Stages |-> Waiting]
  /\ UNCHANGED <<storeVars, current, doomed, faults, searches>>

-----------------------------------------------------------------------------
(* The callers                                                             *)

\* External: a record changes at its source.
Change(d) ==
  /\ current[d] \in 1..(MaxVersion - 1)
  /\ current' = [current EXCEPT ![d] = @ + 1]
  /\ UNCHANGED <<storeVars, call, stage, doomed, receipt, faults, searches>>

\* delete is given the keys of the record and of its chunks.
DeleteRecord(d) ==
  /\ call = NoCall
  /\ doomed = {}
  /\ current[d] # 0
  /\ doomed' = {d} \cup {c \in Chunks : ParentOf[c] = d}
  /\ current' = [current EXCEPT ![d] = 0]
  /\ receipt' = [receipt EXCEPT ![d] = 0]
  /\ Ask("deletion")
  /\ UNCHANGED <<tables, snapshot, mutexes, search, call, stage, faults, searches>>

\* Mutant of CommitDelete: the delete does not wait for the lock.
CommitDeleteUnlocked ==
  /\ turn["deletion"] # "out"
  /\ Release("deletion")
  /\ Delete(doomed)
  /\ doomed' = {}
  /\ UNCHANGED <<snapshot, mutexes, search, current, call, stage, receipt, faults, searches>>

CommitDelete ==
  /\ Commit("deletion")
  /\ Delete(doomed)
  /\ doomed' = {}
  /\ UNCHANGED <<current, call, stage, receipt, faults, searches>>

Store(A) == A /\ UNCHANGED ingestVars

StageStep(s) ==
  \/ AskToWrite(s) \/ WriteBatch(s) \/ WriteOne(s) \/ Store(WakeUp(s))
  \/ s = "semantic" /\ (EncodeBatch \/ EncodeFails)

DeletionStep == CommitDelete \/ Store(WakeUp("deletion"))

SearchVector(r) ==
  /\ searches < MaxSearches
  /\ searches' = searches + 1
  /\ BeginSearch(r)
  /\ UNCHANGED <<current, call, stage, doomed, receipt, faults>>

ReaderStep(r) == Store(Search(r)) \/ Store(WakeUp(r))

Next ==
  \/ IndexRecords \/ Return \/ DeletionStep
  \/ \E s \in Stages : StageStep(s)
  \/ \E r \in Readers : SearchVector(r) \/ ReaderStep(r)
  \/ \E d \in Docs : Change(d) \/ DeleteRecord(d)

Spec == Init /\ [][Next]_vars

\* Threads are scheduled and the event loop resumes a call whose stages have
\* ended; nobody has to call, change or delete anything.
Fairness ==
  /\ WF_vars(Return) /\ WF_vars(DeletionStep)
  /\ \A s \in Stages : WF_vars(StageStep(s))
  /\ \A r \in Readers : WF_vars(ReaderStep(r))

FairSpec == Spec /\ Fairness

-----------------------------------------------------------------------------
(* Properties                                                              *)

\* The store is typed and every stage has listed outcomes in its own steps.
TypeOK ==
  /\ StoreTypeOK
  /\ current \in [Docs -> Stored]
  /\ doomed \subseteq Keys
  /\ receipt \in [Docs -> Stored]
  /\ \A s \in Stages :
       /\ stage[s].pc \in {"encode", "batch", "each", "encode each", "done"}
       /\ stage[s].outcomes \in Seq(BOOLEAN)
  /\ faults \in 0..MaxFaults
  /\ searches \in 0..MaxSearches

\* Every step of ingestion, deletion and search is a step of the store, taken
\* under its lock: what is proved of StoreSpec holds of this system.
ImplementsStore == StoreSpec

\* A record a receipt calls committed is in both indexes at that version with
\* all its chunks and no chunk of an earlier version, whichever calls failed
\* and fell back, and in whatever order the two stages wrote.
CommittedIsIndexed ==
  \A d \in Docs :
    LET v == receipt[d]
        parts == {d} \cup ToSet(ChunksAt[d][v])
    IN v # 0 =>
         \A k \in Keys : SourceOf(k) = d =>
           IF k \in parts THEN rec[k] = v /\ vec[k] = v ELSE rec[k] = 0 /\ vec[k] = 0

Quiet == call = NoCall /\ doomed = {} /\ \A r \in Readers : AtSearch(r, "idle")

\* Every call comes back: no thread sleeps through the release it waits for,
\* no two mutexes are awaited in a circle, and a reader that writers overtake
\* is served in the end.  (Calls are finitely many, so all have returned.)
CallsReturn == <>[]Quiet
=============================================================================
